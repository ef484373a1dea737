---------------------------- MODULE WebWorkerProofs ----------------------------
(***************************************************************************)
(* The browser's worker tells the truth about its connection and serves    *)
(* its live view, for any number of commands, reports and pluggings-in.    *)
(***************************************************************************)
EXTENDS WebWorker, TLAPS

(* A connect task past its first await has selected a device.                *)
Selected ==
    \A t \in {"boot", "queue"} : pc[t] \in {"open", "ask", "listen"} => chosen[t] \in Nat

(* liveRunning says whether the live task exists, so one is started exactly  *)
(* when there is none.                                                       *)
LiveFlag == liveRunning <=> pc["live"] # "idle"

Places == {"select", "open", "ask", "listen", "idle", "spawned", "next", "write", "top",
           "track", "collect"}

Shape ==
    /\ pc \in [Tasks -> Places]
    /\ chosen \in [Tasks -> Nat \cup {None}]
    /\ device \in Nat \cup {None}
    /\ plug \in Nat /\ plugs \in Nat
    /\ liveRunning \in BOOLEAN

Inv == Shape /\ Selected /\ LiveFlag /\ ConnectionTruth /\ LiveIsServed

LEMMA InitInv == Init => Inv
<1> SUFFICES ASSUME Init PROVE Inv
  OBVIOUS
<1>1. Shape /\ Selected
  <2>1. pc \in [Tasks -> Places] /\ Selected
    BY DEF Init, Selected, Tasks, Places
  <2>2. chosen \in [Tasks -> Nat \cup {None}] /\ device \in Nat \cup {None}
    BY DEF Init
  <2>3. plug \in Nat /\ plugs \in Nat
    BY DEF Init
  <2>4. liveRunning \in BOOLEAN
    BY Zenon DEF Init
  <2> QED BY <2>1, <2>2, <2>3, <2>4 DEF Shape
<1>2. LiveFlag /\ LiveIsServed
  BY DEF Init, LiveFlag, LiveIsServed, Tasks
<1>3. ConnectionTruth
  BY Zenon DEF Init, ConnectionTruth, View
<1> QED BY <1>1, <1>2, <1>3 DEF Inv

(* What a step that is none of a connect task's has to say to keep Inv.      *)
LEMMA Others ==
    ASSUME Inv, pc' \in [Tasks -> Places], chosen' \in [Tasks -> Nat \cup {None}],
           plug' \in Nat, plugs' \in Nat,
           \A t \in {"boot", "queue"} :
               pc'[t] \in {"open", "ask", "listen"} => pc'[t] = pc[t] /\ chosen'[t] = chosen[t],
           View' = View, device' = device,
           UNCHANGED <<live, liveRunning>> /\ (pc'["live"] = "idle" <=> pc["live"] = "idle")
    PROVE  Inv'
  BY DEF Inv, Shape, Selected, LiveFlag, ConnectionTruth, LiveIsServed

LEMMA FailInv == ASSUME Inv, NEW t \in {"boot", "queue"}, Fail(t) PROVE Inv'
<1>1. After(t) \notin {"open", "ask", "listen"} /\ After(t) \in Places
  BY DEF After, Places
<1> QED
  BY <1>1, WebAssumption DEF Fail, Inv, Shape, Selected, LiveFlag, ConnectionTruth, LiveIsServed, View,
              DeviceAfterFailure, hidVars, Tasks, Places

LEMMA AskInv == ASSUME Inv, NEW t \in {"boot", "queue"}, Ask(t, plug), UNCHANGED uiVars PROVE Inv'
  BY DEF Ask, Inv, Shape, Selected, LiveFlag, ConnectionTruth, LiveIsServed, View, uiVars, Tasks, Places

LEMMA ConnectInv == ASSUME Inv, NEW t \in {"boot", "queue"}, ConnectStep(t) PROVE Inv'
<1>1. CASE Select(t)
  <2>1. CASE Fail(t) BY <2>1, FailInv
  <2>2. CASE Ask(t, plug) BY <2>2, AskInv DEF Ask
  <2>3. CASE /\ plug # 0 /\ ~opened
             /\ chosen' = [chosen EXCEPT ![t] = plug]
             /\ pc' = [pc EXCEPT ![t] = "open"]
             /\ UNCHANGED <<stateVars, doing, left, mine, asks, robbed, panicked, uiVars, hidVars>>
    BY <2>3 DEF Inv, Shape, Selected, LiveFlag, ConnectionTruth, LiveIsServed, View, Tasks, Places,
                stateVars, uiVars, hidVars
  <2> QED BY <1>1, <2>1, <2>2, <2>3 DEF Select
<1>2. CASE Opened(t)
  BY <1>2, FailInv, AskInv DEF Opened, Ask
<1>3. CASE Listen(t)
  <2>1. chosen[t] \in Nat
    BY <1>3 DEF Listen, At, Inv, Selected
  <2>2. /\ UNCHANGED <<live, liveRunning, chosen, uiVars, hidVars>>
        /\ \/ pc' = [pc EXCEPT ![t] = "listen"] /\ UNCHANGED <<device, news>>
           \/ pc' = [pc EXCEPT ![t] = After(t)] /\ device' = chosen[t] /\ news' = "Connected"
    BY <1>3 DEF Listen
  <2>3. After(t) \notin {"open", "ask", "listen"} /\ After(t) \in Places
    BY DEF After, Places
  <2>4. None \notin Nat
    BY WebAssumption
  <2>5. ConnectionTruth'
    <3>1. CASE UNCHANGED <<device, news>>
      BY <2>2, <3>1, Zenon DEF Inv, ConnectionTruth, View, uiVars
    <3>2. CASE device' = chosen[t] /\ news' = "Connected"
      <4>1. View' /\ device' # None
        BY <2>1, <2>4, <3>2, WebAssumption DEF View
      <4> QED BY <4>1, Zenon DEF ConnectionTruth
    <3> QED BY <2>2, <3>1, <3>2
  <2>6. pc' = [pc EXCEPT ![t] = pc'[t]] /\ pc'[t] \in Places \ {"open", "ask"}
    <3>1. \E place \in Places \ {"open", "ask"} : pc' = [pc EXCEPT ![t] = place]
      BY <2>2, <2>3 DEF Places
    <3> QED BY <3>1 DEF Inv, Shape, Tasks
  <2>7. Shape' /\ Selected'
    BY <2>1, <2>2, <2>6 DEF Inv, Shape, Selected, Tasks, hidVars
  <2>8. LiveFlag' /\ LiveIsServed'
    BY <2>2, <2>6 DEF Inv, Shape, LiveFlag, LiveIsServed, Tasks
  <2> QED
    BY <2>5, <2>7, <2>8 DEF Inv
<1>4. CASE AskRejected(t) BY <1>4, FailInv DEF AskRejected
<1>5. CASE Timeout(t) BY <1>5, FailInv DEF Timeout
<1> QED BY <1>1, <1>2, <1>3, <1>4, <1>5 DEF ConnectStep

LEMMA FrameInv == ASSUME Inv, NEW sends, Frame(sends) PROVE Inv'
<1>1. View' = View /\ device' = device /\ UNCHANGED <<live, liveRunning, chosen, plug, plugs>>
  BY DEF Frame, View, hidVars
<1>2. pc' = pc \/ pc' = [pc EXCEPT !["queue"] = "spawned"]
  BY DEF Frame
<1> QED
  BY <1>1, <1>2, Others DEF Inv, Shape, Tasks, Places

LEMMA QueueInv == ASSUME Inv, QueueStep PROVE Inv'
<1>1. CASE QueueEmpty \/ StartConnect \/ StartWrite \/ WriteOn
  <2>1. View' = View /\ device' = device /\ UNCHANGED <<live, liveRunning, chosen, plug, plugs>>
    BY <1>1 DEF QueueEmpty, StartConnect, StartWrite, WriteOn, Pop, View, uiVars, hidVars, stateVars
  <2>2. \/ pc' = pc
        \/ \E place \in {"idle", "select", "next", "write"} : pc' = [pc EXCEPT !["queue"] = place]
    BY <1>1, Zenon DEF QueueEmpty, StartConnect, StartWrite, WriteOn
  <2> QED
    BY <2>1, <2>2, Others DEF Inv, Shape, Tasks, Places
<1>2. CASE SetLiveOn
  BY <1>2 DEF SetLiveOn, Pop, Inv, Shape, Selected, LiveFlag, ConnectionTruth, LiveIsServed, View,
              Tasks, Places, uiVars
<1>3. CASE SetLiveOff
  BY <1>3 DEF SetLiveOff, Pop, Inv, Shape, Selected, LiveFlag, ConnectionTruth, LiveIsServed, View,
              Tasks, Places, uiVars
<1> QED BY <1>1, <1>2, <1>3, ConnectInv DEF QueueStep

LEMMA LiveInv == ASSUME Inv, LiveStep PROVE Inv'
<1>1. CASE Break
  BY <1>1 DEF Break, RunningAfterBreak, Inv, Shape, Selected, LiveFlag, ConnectionTruth,
              LiveIsServed, View, Tasks, Places, uiVars, hidVars
<1>2. CASE LiveStep /\ ~Break
  <2>1. View' = View /\ device' = device /\ UNCHANGED <<live, liveRunning, plug, plugs>>
    BY <1>2 DEF LiveStep, LiveTop, Collect, CollectTimeout, TrackRejected, View, stateVars, uiVars,
                hidVars
  <2>2. chosen' = chosen \/ chosen' = [chosen EXCEPT !["live"] = device]
    BY <1>2, Zenon DEF LiveStep, LiveTop, Collect, CollectTimeout, TrackRejected
  <2>3. pc["live"] # "idle" /\ \E place \in {"top", "track", "collect"} : pc' = [pc EXCEPT !["live"] = place]
    BY <1>2 DEF LiveStep, LiveTop, Collect, CollectTimeout, TrackRejected, At
  <2> QED
    BY <2>1, <2>2, <2>3, Others DEF Inv, Shape, Tasks, Places
<1> QED BY <1>1, <1>2

LEMMA RestInv ==
    ASSUME Inv, \/ Deliver \/ Unplug \/ PlugIn \/ UNCHANGED vars
                \/ \E who \in {"ui", "input", "boot", "live"} : Conflict(who)
    PROVE  Inv'
<1>1. UNCHANGED <<pc, chosen, device, live, liveRunning>> /\ View' = View
  BY DEF Deliver, Unplug, PlugIn, Conflict, vars, stateVars, taskVars, uiVars, View
<1>2. plug' \in Nat /\ plugs' \in Nat
  BY DEF Deliver, Unplug, PlugIn, Conflict, vars, hidVars, Inv, Shape
<1> QED BY <1>1, <1>2, Others DEF Inv, Shape

LEMMA NextInv == Inv /\ [Next]_vars => Inv'
  BY FrameInv, QueueInv, ConnectInv, LiveInv, RestInv DEF Next

LEMMA AlwaysInv == Spec => []Inv
<1>1. Inv /\ [Next]_vars => Inv' BY NextInv
<1> QED BY InitInv, <1>1, PTL DEF Spec

(* The UI's view of the connection, once its events are polled, is whether   *)
(* the worker has a device (the ends of connect_task).                       *)
THEOREM ConnectionIsTrue == Spec => []ConnectionTruth
<1>1. Inv => ConnectionTruth BY DEF Inv
<1> QED BY AlwaysInv, <1>1, PTL

(* Live view that is wanted has its task (start_live_task, and the end of    *)
(* the loop it spawns).                                                      *)
THEOREM LiveHasTask == Spec => []LiveIsServed
<1>1. Inv => LiveIsServed BY DEF Inv
<1> QED BY AlwaysInv, <1>1, PTL
===============================================================================
