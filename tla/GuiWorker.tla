------------------------------- MODULE GuiWorker -------------------------------
(***************************************************************************)
(* The native GUI's worker thread, a client of the daemon: it takes the    *)
(* UI's commands from a channel, sends requests over its connection and    *)
(* waits for each answer, and tells the UI through a channel of events     *)
(* (src/src/gui/worker.rs), with the part of the UI that talks to it       *)
(* (src/src/gui/app.rs) and a daemon that stops and starts.                *)
(***************************************************************************)
EXTENDS Naturals, Sequences

CONSTANTS
    Commands,  \* what the user does with the UI, a subset of Command
    MaxSends,  \* bound on the commands sent
    MaxStarts, \* bound on the daemon's starts
    None       \* Option::None

\* Set stands for ApplyActuation, SetRapidTrigger, SetLed and Reset.
Command == {"Reconnect", "Refresh", "LiveOn", "LiveOff", "Set"}

ASSUME GuiAssumption ==
    /\ Commands \subseteq Command
    /\ MaxSends \in Nat /\ MaxStarts \in Nat
    /\ None \notin Nat \cup {"Connected", "Disconnected"}

VARIABLES
    \* the worker
    pc,        \* "top" of the loop, or the request whose answer it waits for
    client,    \* its connection, by the daemon's start it leads to, or None
    fresh,     \* a connection that is not yet `client`
    live,      \* poll depths?
    commands,  \* the command channel
    news,      \* the last Connected or Disconnected not polled, or None
    \* the UI
    uiConnected, uiLive, sent,
    \* the daemon
    up,        \* is it listening?
    starts     \* how often it has started: the name of its present run

workerVars == <<pc, client, fresh, live, commands, news>>
uiVars     == <<uiConnected, uiLive, sent>>
daemonVars == <<up, starts>>
vars       == <<workerVars, uiVars, daemonVars>>

\* A connection leads to the daemon's present run, or its answers are errors.
Alive(connection) == up /\ connection = starts

-------------------------------------------------------------------------------
\* Worker::spawn and App::new; run begins with a connect.
Init ==
    /\ pc = "connect"
    /\ client = None /\ fresh = None
    /\ live = FALSE
    /\ commands = << >> /\ news = None
    /\ uiConnected = FALSE /\ uiLive = FALSE /\ sent = 0
    /\ up \in BOOLEAN
    /\ starts = IF up THEN 1 ELSE 0

(* A frame: drain_events, then perhaps a click.  "Apply to keyboard" sends   *)
(* two commands.                                                             *)
Clicks ==
    {<<c>> : c \in (Commands \cap {"Reconnect", "Refresh", "Set"})
                     \cup (Commands \cap {IF uiLive THEN "LiveOff" ELSE "LiveOn"})}
        \cup {<<c, c>> : c \in Commands \cap {"Set"}}

\* What the UI shows once it has polled.
Shown == IF news = None THEN uiConnected ELSE news = "Connected"

Frame(sends) ==
    /\ sent + Len(sends) <= MaxSends
    /\ uiConnected' = Shown /\ news' = None
    /\ uiLive' = IF sends = <<"LiveOn">> THEN TRUE
                 ELSE IF sends = <<"LiveOff">> THEN FALSE ELSE uiLive
    /\ sent' = sent + Len(sends)
    /\ commands' = commands \o sends
    /\ UNCHANGED <<pc, client, fresh, live, daemonVars>>

-------------------------------------------------------------------------------
(* connect: Client::connect, then a Status request on the new connection.    *)

Connect ==
    /\ pc = "connect"
    /\ IF up THEN pc' = "status" /\ fresh' = starts /\ news' = news
             ELSE pc' = "top" /\ fresh' = None /\ news' = "Disconnected"
    /\ UNCHANGED <<client, live, commands, uiVars, daemonVars>>

\* The answer is a status.
StatusAnswered ==
    /\ pc = "status" /\ Alive(fresh)
    /\ client' = fresh /\ news' = "Connected"
    /\ pc' = "top" /\ fresh' = None
    /\ UNCHANGED <<live, commands, uiVars, daemonVars>>

\* The answer is an error (the keyboard is gone), or the daemon stopped: the new
\* connection is dropped, and a connection from before stays.
StatusRefused ==
    /\ pc = "status"
    /\ news' = "Disconnected"
    /\ pc' = "top" /\ fresh' = None
    /\ UNCHANGED <<client, live, commands, uiVars, daemonVars>>

-------------------------------------------------------------------------------
(* dispatch.                                                                 *)

Next1(command) == /\ pc = "top"
                  /\ commands # << >> /\ Head(commands) \in command
                  /\ commands' = Tail(commands)

StartConnect ==
    /\ Next1({"Reconnect", "Refresh"})
    /\ pc' = "connect"
    /\ UNCHANGED <<client, fresh, live, news, uiVars, daemonVars>>

SetLive ==
    /\ Next1({"LiveOn", "LiveOff"})
    /\ live' = (Head(commands) = "LiveOn")
    /\ UNCHANGED <<pc, client, fresh, news, uiVars, daemonVars>>

\* Without a connection the command is answered with an Error event.
StartSet ==
    /\ Next1({"Set"})
    /\ pc' = IF client = None THEN "top" ELSE "set"
    /\ UNCHANGED <<client, fresh, live, news, uiVars, daemonVars>>

\* When does the loop poll depths?  Commands go first.  One mutant polls as long as
\* it is live, the other without a connection.
PollsFirst   == live /\ client # None
PollsBlindly == commands = << >> /\ live
PollsDepths  == commands = << >> /\ live /\ client # None

StartDepths ==
    /\ pc = "top"
    /\ PollsDepths
    /\ pc' = "depths"
    /\ UNCHANGED <<client, fresh, live, commands, news, uiVars, daemonVars>>

\* An answer to Set or Depths, good or bad: no change of connection.
Answered ==
    /\ pc \in {"set", "depths"} /\ Alive(client)
    /\ pc' = "top"
    /\ UNCHANGED <<client, fresh, live, commands, news, uiVars, daemonVars>>

\* The news after a request has failed; the mutant keeps it from the UI.  And
\* is live view still wanted?  The mutant forgets it, as the browser's worker does.
NewsKept(old)         == old
NewsOfFailure(old)    == "Disconnected"
LiveForgotten         == FALSE
LiveAfterFailure      == live

\* The request cannot be sent, or the connection is closed before the answer.
RequestFails ==
    /\ pc \in {"set", "depths"} /\ ~Alive(client)
    /\ client' = None /\ news' = NewsOfFailure(news)
    /\ live' = LiveAfterFailure
    /\ pc' = "top"
    /\ UNCHANGED <<fresh, commands, uiVars, daemonVars>>

-------------------------------------------------------------------------------
(* The daemon (external here) stops and starts.                              *)

Stop == up /\ up' = FALSE /\ UNCHANGED <<starts, workerVars, uiVars>>
Start ==
    /\ ~up /\ starts < MaxStarts
    /\ up' = TRUE /\ starts' = starts + 1
    /\ UNCHANGED <<workerVars, uiVars>>

Worker == \/ Connect \/ StatusAnswered \/ StatusRefused
          \/ StartConnect \/ SetLive \/ StartSet \/ StartDepths
          \/ Answered \/ RequestFails

Next ==
    \/ Worker
    \/ \E sends \in Clicks \cup {<< >>} : Frame(sends)
    \/ Stop \/ Start

Spec == Init /\ [][Next]_vars

(* The worker's loop goes on, since the daemon answers every request or      *)
(* closes the connection (Daemon!EveryJobAnswered), and egui draws frames    *)
(* when it is asked to.  The user and the daemon's owner are not fair.       *)
FairSpec == Spec /\ WF_vars(Worker) /\ WF_vars(Frame(<< >>))

-------------------------------------------------------------------------------
TypeOK ==
    /\ pc \in {"connect", "status", "top", "set", "depths"}
    /\ client \in 1..starts \cup {None}
    /\ fresh \in 1..starts \cup {None}
    /\ fresh # None <=> pc = "status"
    /\ pc \in {"set", "depths"} => client # None
    /\ live \in BOOLEAN /\ up \in BOOLEAN
    /\ commands \in Seq(Command)
    /\ news \in {"Connected", "Disconnected", None}
    /\ uiConnected \in BOOLEAN /\ uiLive \in BOOLEAN
    /\ sent \in Nat /\ starts \in Nat /\ (up => starts > 0)

(* A UI that shows "Connected" once it has polled has a worker with a        *)
(* connection, whatever failed in which order.                               *)
ConnectedHasClient == Shown => client # None

(* README.md:68, the GUI "talks to `fawnd-daemon` over the socket (on a      *)
(* background worker thread, so the UI never blocks)": live polling, lost    *)
(* connections and reconnects never keep a command from being handled.       *)
EveryCommandHandled == commands # << >> ~> commands = << >>

(* app.rs:104, "when on, caps show real-time travel": live view that is on   *)
(* in a UI that shows "Connected" is fed, after a lost connection and a      *)
(* reconnect too.                                                            *)
LiveViewIsFed ==
    uiLive /\ Shown ~> pc = "depths" \/ ~uiLive \/ ~Shown

(* README.md:70, "if it isn't running the GUI shows "offline"": a daemon     *)
(* that has stopped for good is noticed.                                     *)
OfflineIsShown == <>[]~up => <>[]~Shown
===============================================================================
