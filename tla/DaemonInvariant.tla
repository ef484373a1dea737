---------------------------- MODULE DaemonInvariant ----------------------------
(***************************************************************************)
(* Why the daemon is right: an inductive invariant.  A job is followed     *)
(* through its plan; what each step achieved still holds when the next     *)
(* ones run, and what only a later step may touch is as the job found it.  *)
(***************************************************************************)
EXTENDS Daemon

Steps == {"identity", "list", "next", "load", "set", "act", "down", "up", "toggles",
          "led", "label", "depths"}

\* The steps before the i-th of a plan; those the job in hand has completed.
PastOf(op, i) == {Plan(op)[j] : j \in 1..(i - 1)}
Past          == PastOf(req.op, pc)

\* A flush that has sent some of its rows.
Flushing(step) == row > 0 /\ Plan(req.op)[pc] = step

Failed == result = ErrorReply

\* The map a flush step writes.
FlushMap(step) == IF step = "act" THEN mirror ELSE [s \in Slots |-> 0]
OnBoard(step)  == IF step = "act" THEN fw.act ELSE IF step = "down" THEN fw.down ELSE fw.up

(* What a completed step has achieved, and still holds.                      *)
Done(step) ==
    /\ step = "next" => name \in Names
    /\ step = "load" => name \in Names /\ Appliable(name)
    /\ step \in {"load", "set"} => mirror = WantedMap(req, name, before.mirror)
    /\ step \in {"act", "down", "up"} => OnBoard(step) = FlushMap(step)
    /\ step = "toggles" => /\ fw.rt = WantedToggles(req, name).rt
                           /\ fw.turbo = WantedToggles(req, name).turbo
    /\ step = "led" => fw.led = WantedLed(req)
    /\ step = "label" => active = LabelAfter(req, name, before.active)

(* What holds as long as the step has not begun.                             *)
Untouched(step) ==
    /\ step = "act" => fw.act = before.fw.act
    /\ step = "down" => fw.down = before.fw.down
    /\ step = "up" => fw.up = before.fw.up
    /\ step = "toggles" => fw.rt = before.fw.rt /\ fw.turbo = before.fw.turbo
    /\ step = "led" => fw.led = before.fw.led
    /\ step = "label" => active = before.active

IdleState ==
    /\ req = None /\ name = None /\ result = None /\ before = None
    /\ pc = 1 /\ row = 0

\* The control state of a job in hand.
JobControl ==
    /\ req \in Requests
    /\ before \in Snapshot
    /\ pc \in 1..(Len(Plan(req.op)) + 1)
    /\ result = None => pc <= Len(Plan(req.op))
    /\ result # None /\ ~Failed => pc = Len(Plan(req.op)) + 1
    /\ row > 0 => pc <= Len(Plan(req.op)) /\ Plan(req.op)[pc] \in {"act", "down", "up"}
    /\ req.op = "ApplyProfile" => name = req.name

\* Unless the job has failed: what its steps did, and did not do.
JobProgress ==
    /\ \A step \in Past : Done(step)
    /\ \A step \in Steps \ Past : Flushing(step) \/ Untouched(step)
    /\ "set" \notin Past /\ "load" \notin Past => mirror = before.mirror
    /\ \A s \in Slots, step \in {"act", "down", "up"} :
           Flushing(step) /\ RowOf(s) < row => OnBoard(step)[s] = FlushMap(step)[s]

\* The controller's map is ahead of the keyboard.
MapAhead == ("set" \in Past \/ "load" \in Past) /\ "act" \notin Past

\* The keyboard is ahead of the label.
LabelBehind == /\ "label" \notin Past
               /\ "act" \in Past \/ "toggles" \in Past \/ Flushing("act")

Holds(n) == /\ n \in Names /\ Readable(n)
            /\ fw.act = MapOf(Content[n])
            /\ fw.rt = Content[n].rt /\ fw.turbo = Content[n].turbo

\* What `clean` stands for.
CleanMeans ==
    clean => /\ from = None \/ Failed \/ ~MapAhead => fw.act = mirror
             /\ active # None /\ (from = None \/ Failed \/ ~LabelBehind) => Holds(active)

Inv ==
    /\ TypeOK
    /\ from = None => IdleState
    /\ from # None => JobControl
    /\ from # None /\ ~Failed => JobProgress
    /\ CleanMeans
===============================================================================
