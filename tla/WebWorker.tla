------------------------------- MODULE WebWorker -------------------------------
(***************************************************************************)
(* The browser's worker: tasks of one thread that share a RefCell and give *)
(* way to each other, to input reports and to UI frames at every await     *)
(* (src/src/gui/worker_web.rs), with the part of the UI that talks to it   *)
(* (src/src/gui/app.rs).  An action is a task's code from one await to the *)
(* next.                                                                   *)
(*                                                                         *)
(* A borrow of the RefCell that meets another panics, and the page is gone:*)
(* an action that borrows mutably has ~Borrowed in its guard, and Conflict *)
(* is what happens to it otherwise.                                        *)
(***************************************************************************)
EXTENDS Naturals, Sequences

CONSTANTS
    Commands,   \* what the user does with the UI, a subset of Command
    Packets,    \* packets of a command that writes to the keyboard
    MaxSends,   \* bound on the commands sent
    MaxInbound, \* bound on the reports under way from the keyboard
    MaxPlugs,   \* bound on the times the keyboard is plugged in
    None        \* Option::None

\* Write stands for ApplyActuation, SetRapidTrigger, SetLed and Reset.
Command == {"Reconnect", "Refresh", "LiveOn", "LiveOff", "Write"}

ASSUME WebAssumption ==
    /\ Commands \subseteq Command
    /\ Packets \in Nat \ {0}
    /\ MaxSends \in Nat /\ MaxInbound \in Nat /\ MaxPlugs \in Nat
    /\ None \notin Nat \cup {"Connected", "Disconnected"}

VARIABLES
    \* State
    pending, busy,      \* commands queued; does a task empty the queue?
    device,             \* the connected device, by the number of its plugging-in
    live, liveRunning,  \* live view wanted; does its task exist?
    reports,            \* input reports received
    news,               \* the last Connected or Disconnected not polled, or None
    \* tasks
    pc,         \* pc[t]: the await task t is at
    doing,      \* the queue task's command
    left,       \* packets this command has still to write
    chosen,     \* chosen[t]: the device task t works with
    mine,       \* mine[t]: the number of a connect task's handshake
    panicked,   \* whose borrow panicked, or None
    \* UI
    uiConnected, uiLive, sent,
    \* keyboard and browser
    plug,       \* which plugging-in this is; 0 while unplugged
    plugs,      \* how often the keyboard has been plugged in
    opened,     \* HIDDevice.opened
    inbound,    \* reports sent by the keyboard, not yet delivered
    \* history
    asks,       \* identity handshakes begun
    robbed      \* handshakes whose reply another task has taken or dropped

stateVars == <<pending, busy, device, live, liveRunning, reports, news>>
taskVars  == <<pc, doing, left, chosen, mine, asks, robbed>>
uiVars    == <<uiConnected, uiLive, sent>>
hidVars   == <<plug, plugs, opened, inbound>>
vars      == <<stateVars, taskVars, panicked, uiVars, hidVars>>

-------------------------------------------------------------------------------
(* handle_command: `match state.borrow().device.clone()` keeps its borrow    *)
(* until the command has been dispatched.                                    *)
Borrowed == pc["queue"] = "write"

\* No task is between two awaits: the queue's is when it has ended a command.
Yielded == panicked = None /\ pc["queue"] # "next"

At(t, place) == Yielded /\ pc[t] = place

Tasks == {"boot", "queue", "live"}

Init ==
    /\ pending = << >> /\ busy = FALSE
    /\ device = None
    /\ live = FALSE /\ liveRunning = FALSE
    /\ reports = << >> /\ news = None
    /\ pc = [t \in Tasks |-> IF t = "boot" THEN "select" ELSE "idle"]
    /\ doing = None /\ left = 0
    /\ chosen = [t \in Tasks |-> None]
    /\ mine = [t \in Tasks \ {"live"} |-> 0]
    /\ panicked = None
    /\ uiConnected = FALSE /\ uiLive = FALSE /\ sent = 0
    /\ plug \in {0, 1} /\ plugs = plug
    /\ opened = FALSE /\ inbound = << >>
    /\ asks = 0 /\ robbed = {}

-------------------------------------------------------------------------------
(* The UI: a frame polls the events, and then the user may click.            *)

\* What one click sends: "Apply to keyboard" sends two commands.
Clicks ==
    {<<c>> : c \in (Commands \cap {"Reconnect", "Refresh", "Write"})
                     \cup (Commands \cap {IF uiLive THEN "LiveOff" ELSE "LiveOn"})}
        \cup {<<c, c>> : c \in Commands \cap {"Write"}}

View == IF news = None THEN uiConnected ELSE news = "Connected"

Frame(sends) ==
    /\ Yielded /\ ~Borrowed
    /\ sent + Len(sends) <= MaxSends
    /\ uiConnected' = View /\ news' = None
    /\ sent' = sent + Len(sends)
    /\ uiLive' = IF sends = <<"LiveOn">> THEN TRUE
                 ELSE IF sends = <<"LiveOff">> THEN FALSE ELSE uiLive
    /\ pending' = pending \o sends
    \* run_queue
    /\ IF busy \/ sends = << >>
          THEN UNCHANGED <<busy, pc>>
          ELSE busy' = TRUE /\ pc' = [pc EXCEPT !["queue"] = "spawned"]
    /\ UNCHANGED <<device, live, liveRunning, reports, doing, left, chosen, mine, asks,
                   robbed, panicked, hidVars>>

-------------------------------------------------------------------------------
(* The queue's task: run_queue and handle_command.                           *)

AtCommand == panicked = None /\ pc["queue"] \in {"spawned", "next"}

\* State::busy once the queue is empty; the mutant forgets to reset it.
BusyForEver == TRUE
BusyAtEnd   == FALSE

QueueEmpty ==
    /\ AtCommand /\ pending = << >>
    /\ busy' = BusyAtEnd
    /\ pc' = [pc EXCEPT !["queue"] = "idle"]
    /\ doing' = None
    /\ UNCHANGED <<pending, device, live, liveRunning, reports, news, left, chosen, mine,
                   asks, robbed, panicked, uiVars, hidVars>>

Pop(c) ==
    /\ AtCommand /\ pending # << >> /\ Head(pending) = c
    /\ pending' = Tail(pending) /\ doing' = c
    /\ UNCHANGED <<busy, device, reports, news, chosen, mine, asks, robbed, panicked,
                   uiVars, plug, plugs, opened>>

StartConnect ==
    /\ Pop("Reconnect") \/ Pop("Refresh")
    /\ pc' = [pc EXCEPT !["queue"] = "select"]
    /\ UNCHANGED <<live, liveRunning, left, inbound>>

\* SetLiveDepth(true): start_live_task.
SetLiveOn ==
    /\ Pop("LiveOn")
    /\ live' = TRUE /\ liveRunning' = TRUE
    /\ pc' = [pc EXCEPT !["queue"] = "next",
                        !["live"]  = IF liveRunning THEN @ ELSE "top"]
    /\ UNCHANGED <<left, inbound>>

SetLiveOff ==
    /\ Pop("LiveOff")
    /\ live' = FALSE
    /\ pc' = [pc EXCEPT !["queue"] = "next"]
    /\ UNCHANGED <<liveRunning, left, inbound>>

(* sendReport: the keyboard may answer, if it is the device.                 *)
Answers(d, answer) ==
    \/ inbound' = inbound
    \/ d = plug /\ Len(inbound) < MaxInbound /\ inbound' = Append(inbound, answer)
Reachable(d) == d = plug /\ opened

\* Identity replies carry the number of their request, which the code cannot see.
Identity(n) == [kind |-> "identity", n |-> n]
Other(kind) == [kind |-> kind, n |-> 0]

\* dispatch_device_command, up to its first sendReport.
StartWrite ==
    /\ Pop("Write")
    /\ IF device = None
          THEN pc' = [pc EXCEPT !["queue"] = "next"] /\ UNCHANGED <<left, inbound>>
          ELSE /\ pc' = [pc EXCEPT !["queue"] = "write"]
               /\ left' = Packets
               /\ Answers(device, Other("echo"))
    /\ UNCHANGED <<live, liveRunning>>

\* A packet has been sent, and another follows; or the command is over.
WriteOn ==
    /\ At("queue", "write")
    /\ \/ /\ Reachable(device) /\ left > 1
          /\ left' = left - 1
          /\ Answers(device, Other("echo"))
          /\ UNCHANGED pc
       \/ /\ left = 1 \/ ~Reachable(device)
          /\ left' = 0
          /\ pc' = [pc EXCEPT !["queue"] = "next"]
          /\ UNCHANGED inbound
    /\ UNCHANGED <<stateVars, doing, chosen, mine, asks, robbed, panicked, uiVars,
                   plug, plugs, opened>>

-------------------------------------------------------------------------------
(* connect_task: once at the start (boot), and in the queue's task.          *)

After(t) == IF t = "boot" THEN "idle" ELSE "next"

\* State::device after a connect task has failed; the mutant keeps the old one.
DeviceKept         == device
DeviceAfterFailure == None

Fail(t) ==
    /\ device' = DeviceAfterFailure
    /\ news' = "Disconnected"
    /\ pc' = [pc EXCEPT ![t] = After(t)]
    /\ UNCHANGED <<pending, busy, live, liveRunning, reports, doing, left, chosen, mine,
                   asks, robbed, panicked, uiVars, hidVars>>

\* The handshakes whose replies are among some reports.
Replies(seq) == {seq[i].n : i \in 1..Len(seq)} \ {0}

\* reports.clear, and identity up to its sendReport.
Ask(t, d) ==
    /\ reports' = << >>
    /\ robbed' = robbed \cup (Replies(reports) \ {mine[t]})
    /\ asks' = asks + 1
    /\ mine' = [mine EXCEPT ![t] = asks + 1]
    /\ chosen' = [chosen EXCEPT ![t] = d]
    /\ Answers(d, Identity(asks + 1))
    /\ pc' = [pc EXCEPT ![t] = "ask"]
    /\ UNCHANGED <<pending, busy, device, live, liveRunning, news, doing, left, panicked,
                   uiVars, plug, plugs>>

\* select_device and attach_input_handler; open_device when it is open already.
Select(t) ==
    /\ At(t, "select") /\ ~Borrowed
    /\ \/ /\ plug # 0 /\ opened
          /\ opened' = opened
          /\ Ask(t, plug)
       \/ /\ plug # 0 /\ ~opened
          /\ chosen' = [chosen EXCEPT ![t] = plug]
          /\ pc' = [pc EXCEPT ![t] = "open"]
          /\ UNCHANGED <<stateVars, doing, left, mine, asks, robbed, panicked, uiVars, hidVars>>
       \/ Fail(t)

\* HIDDevice.open has resolved or been rejected.
Opened(t) ==
    /\ At(t, "open") /\ ~Borrowed
    /\ \/ /\ chosen[t] = plug
          /\ opened' = TRUE
          /\ Ask(t, plug)
       \/ Fail(t)

(* identity: the task takes reports up to the first that is an identity.  A  *)
(* task that has just sent its request looks at once.                        *)
Listen(t) ==
    /\ ~Borrowed
    /\ \/ At(t, "ask") /\ Reachable(chosen[t])
       \/ At(t, "listen") /\ reports # << >>
    /\ LET found == {i \in 1..Len(reports) : reports[i].kind = "identity"}
           k     == IF found = {} THEN Len(reports)
                    ELSE CHOOSE i \in found : \A j \in found : i <= j
       IN  /\ reports' = SubSeq(reports, k + 1, Len(reports))
           /\ robbed' = robbed \cup (Replies(SubSeq(reports, 1, k)) \ {mine[t]})
           /\ IF found = {}
                 THEN /\ pc' = [pc EXCEPT ![t] = "listen"]
                      /\ UNCHANGED <<device, news>>
                 ELSE /\ pc' = [pc EXCEPT ![t] = After(t)]
                      /\ device' = chosen[t] /\ news' = "Connected"
    /\ UNCHANGED <<pending, busy, live, liveRunning, doing, left, chosen, mine, asks,
                   panicked, uiVars, hidVars>>

\* sendReport was rejected.
AskRejected(t) == At(t, "ask") /\ ~Borrowed /\ Fail(t)

\* "device did not respond to identity handshake"
Timeout(t) == At(t, "listen") /\ ~Borrowed /\ Fail(t)

ConnectStep(t) ==
    Select(t) \/ Opened(t) \/ Listen(t) \/ AskRejected(t) \/ Timeout(t)

-------------------------------------------------------------------------------
(* The live task: start_live_task and sample_depths.                         *)

\* Does the loop go on?  The mutant does not ask.
NeverStops == TRUE
KeepsOn    == live

\* State::live_task_running after the loop; the mutant forgets to reset it.
RunningForEver    == TRUE
RunningAfterBreak == FALSE

Break ==
    /\ ~Borrowed
    /\ live' = FALSE /\ liveRunning' = RunningAfterBreak
    /\ pc' = [pc EXCEPT !["live"] = "idle"]
    /\ UNCHANGED <<pending, busy, device, reports, news, doing, left, chosen, mine, asks,
                   robbed, panicked, uiVars, hidVars>>

LiveTop ==
    /\ At("live", "top")
    /\ \/ /\ KeepsOn /\ device # None
          /\ pc' = [pc EXCEPT !["live"] = "track"]
          /\ chosen' = [chosen EXCEPT !["live"] = device]
          /\ Answers(device, Other("depth"))
          /\ UNCHANGED <<stateVars, doing, left, mine, asks, robbed, panicked, uiVars,
                         plug, plugs, opened>>
       \/ (~KeepsOn \/ device = None) /\ Break

\* All reports are taken; three depth reports, one here, make a frame.
Collect ==
    /\ ~Borrowed
    /\ \/ At("live", "track") /\ Reachable(chosen["live"])
       \/ At("live", "collect") /\ reports # << >>
    /\ LET frame == \E i \in 1..Len(reports) : reports[i].kind = "depth"
       IN  pc' = [pc EXCEPT !["live"] = IF frame THEN "top" ELSE "collect"]
    /\ reports' = << >>
    /\ robbed' = robbed \cup Replies(reports)
    /\ UNCHANGED <<pending, busy, device, live, liveRunning, news, doing, left, chosen,
                   mine, asks, panicked, uiVars, hidVars>>

\* No depths within the deadline.
CollectTimeout ==
    /\ At("live", "collect")
    /\ pc' = [pc EXCEPT !["live"] = "top"]
    /\ UNCHANGED <<stateVars, doing, left, chosen, mine, asks, robbed, panicked, uiVars,
                   hidVars>>

\* sendReport was rejected.
TrackRejected == At("live", "track") /\ Break

LiveStep == LiveTop \/ Collect \/ CollectTimeout \/ TrackRejected

-------------------------------------------------------------------------------
(* Browser and keyboard.                                                     *)

\* The input handler.
Deliver ==
    /\ Yielded /\ ~Borrowed
    /\ inbound # << >>
    /\ reports' = Append(reports, Head(inbound))
    /\ inbound' = Tail(inbound)
    /\ UNCHANGED <<pending, busy, device, live, liveRunning, news, taskVars, panicked,
                   uiVars, plug, plugs, opened>>

Unplug ==
    /\ Yielded /\ plug # 0
    /\ plug' = 0 /\ opened' = FALSE /\ inbound' = << >>
    /\ UNCHANGED <<stateVars, taskVars, panicked, uiVars, plugs>>

PlugIn ==
    /\ Yielded /\ plug = 0 /\ plugs < MaxPlugs
    /\ plug' = plugs + 1 /\ plugs' = plugs + 1
    /\ UNCHANGED <<stateVars, taskVars, panicked, uiVars, opened, inbound>>

\* Whose code is next to run and borrows mutably.
Due(who) ==
    CASE who = "ui"    -> TRUE
      [] who = "input" -> inbound # << >>
      [] who = "boot"  -> pc["boot"] # "idle"
      [] who = "live"  -> \/ pc["live"] \in {"track", "collect"}
                          \/ pc["live"] = "top" /\ ~live

Conflict(who) ==
    /\ Yielded /\ Borrowed /\ Due(who)
    /\ panicked' = who
    /\ UNCHANGED <<stateVars, taskVars, uiVars, hidVars>>

-------------------------------------------------------------------------------
QueueStep == \/ QueueEmpty \/ StartConnect \/ SetLiveOn \/ SetLiveOff \/ StartWrite
             \/ WriteOn \/ ConnectStep("queue")

Next ==
    \/ \E sends \in Clicks \cup {<< >>} : Frame(sends)
    \/ QueueStep
    \/ ConnectStep("boot")
    \/ LiveStep
    \/ Deliver \/ Unplug \/ PlugIn
    \/ \E who \in {"ui", "input", "boot", "live"} : Conflict(who)

Spec == Init /\ [][Next]_vars

\* requestDevice waits for the user to choose.
Choosing == pc["queue"] = "select" /\ doing = "Reconnect"

(* Promises are settled and timers fire, so each task goes on, and deadlines *)
(* pass; the user neither clicks nor chooses of necessity, and no report     *)
(* need come.                                                                *)
FairSpec ==
    /\ Spec
    /\ WF_vars(QueueStep /\ ~Choosing)
    /\ WF_vars(Timeout("queue"))
    /\ WF_vars(LiveStep)
    /\ WF_vars(CollectTimeout)
-------------------------------------------------------------------------------
Device == {None} \cup 1..MaxPlugs
Report == [kind : {"identity", "echo", "depth"}, n : 0..(MaxSends + 1)]

TypeOK ==
    /\ pending \in Seq(Commands) /\ Len(pending) <= MaxSends
    /\ busy \in BOOLEAN /\ live \in BOOLEAN /\ liveRunning \in BOOLEAN
    /\ device \in Device
    /\ reports \in Seq(Report)
    /\ news \in {None, "Connected", "Disconnected"}
    /\ pc["boot"] \in {"select", "open", "ask", "listen", "idle"}
    /\ pc["queue"] \in {"select", "open", "ask", "listen", "idle", "spawned", "next", "write"}
    /\ pc["live"] \in {"idle", "top", "track", "collect"}
    /\ doing \in Commands \cup {None} /\ left \in 0..Packets
    /\ left > 0 <=> pc["queue"] = "write"
    /\ busy <=> pc["queue"] # "idle"
    /\ chosen \in [Tasks -> Device]
    /\ mine \in [Tasks \ {"live"} -> 0..(MaxSends + 1)]
    /\ panicked \in {None, "ui", "input", "boot", "live"}
    /\ uiConnected \in BOOLEAN /\ uiLive \in BOOLEAN /\ sent \in 0..MaxSends
    /\ plug \in 0..plugs /\ plugs \in 0..MaxPlugs /\ opened \in BOOLEAN
    /\ inbound \in Seq(Report) /\ Len(inbound) <= MaxInbound
    /\ asks \in 0..(MaxSends + 1) /\ robbed \subseteq 1..asks

(* Once its events are polled, the UI says connected exactly when the worker *)
(* has a device to send commands to, whichever connect tasks ran beside each *)
(* other and however they ended.                                             *)
ConnectionTruth == View <=> device # None

(* While live view is wanted its task exists: a task that is just ending, or *)
(* has ended on an error, cannot swallow the request to start it again.      *)
LiveIsServed == live => pc["live"] # "idle"

(* A command sent while another is in progress is not stranded: the queue    *)
(* is emptied, unless the user leaves the device chooser open.               *)
EveryCommandHandled ==
    pending # << >> ~> pending = << >> \/ Choosing \/ panicked # None

(* Live view that is switched off stops the polling of the keyboard.         *)
LiveEnds == ~live ~> live \/ pc["live"] = "idle" \/ panicked # None

(* worker_web.rs:72, "Queue a command for asynchronous WebHID processing",   *)
(* and :78, "Drain all pending events without blocking": a frame of the UI   *)
(* can send and poll whatever is in progress.                                *)
UiMaySend == panicked # "ui"

(* worker_web.rs:343, "device did not respond to identity handshake": a      *)
(* connect task says so only if no other task has taken the reply.           *)
TimeoutMeansSilence ==
    [][\A t \in {"boot", "queue"} : Timeout(t) => mine[t] \notin robbed]_vars

(* app.rs:104, "when on, caps show real-time travel": when nothing is queued *)
(* or in progress, a live view that is on is being fed.                      *)
LiveViewIsFed == uiLive /\ ~busy => live
===============================================================================
