------------------------------- MODULE CommandLine -------------------------------
(***************************************************************************)
(* fawnd's direct commands: each is a process that opens the keyboard,     *)
(* starts from a Controller with default maps, writes its packets and ends *)
(* with an exit status (src/src/main.rs).  `fawnd daemon ...` is a client  *)
(* of Daemon.                                                              *)
(***************************************************************************)
EXTENDS KeyboardTypes, Sequences

CONSTANT Commands  \* what the user runs, a subset of Command

Command ==
    [op : {"info", "reset"}]
        \cup [op : {"actuation"}, mm : Distances, keys : SUBSET Slots, unknown : BOOLEAN]
        \cup [op : {"rapid-trigger"}, rt : BOOLEAN, turbo : BOOLEAN]
        \cup [op : {"apply"}, name : Names]

ASSUME CommandAssumption == Commands \subseteq Command /\ None \notin Commands

VARIABLES
    cmd,      \* the command of the process that runs or ran last, or None
    pc,       \* its next step, an index into Steps
    row,      \* the next row packet of a flush
    exit,     \* "running", or how it ended: "ok" or "failed"
    map,      \* Controller::actuation
    fw,       \* what the keyboard's firmware holds
    plugged,
    before    \* history: the keyboard when the command began

vars == <<cmd, pc, row, exit, map, fw, plugged, before>>

-------------------------------------------------------------------------------
(* The calls of main after Controller::open.  The mutant writes a profile's  *)
(* global distance before it looks at the keys.                              *)
StepsWriteFirst(c) ==
    CASE c.op = "info"          -> <<"identity">>
      [] c.op = "actuation"     -> <<"prepare", "act">>
      [] c.op = "rapid-trigger" -> <<"toggles">>
      [] c.op = "apply"         -> <<"act", "prepare", "act", "toggles">>
      [] c.op = "reset"         -> <<"led", "toggles", "act", "down", "up">>
Steps(c) ==
    CASE c.op = "info"          -> <<"identity">>
      [] c.op = "actuation"     -> <<"prepare", "act">>
      [] c.op = "rapid-trigger" -> <<"toggles">>
      [] c.op = "apply"         -> <<"prepare", "act", "toggles">>
      [] c.op = "reset"         -> <<"led", "toggles", "act", "down", "up">>

At(step) == exit = "running" /\ Steps(cmd)[pc] = step

\* The same wishes as requests; named keys are overrides of the default.
AsRequest(c) ==
    CASE c.op = "info"          -> [op |-> "Status"]
      [] c.op = "reset"         -> [op |-> "Reset"]
      [] c.op = "rapid-trigger" -> [op |-> "SetRapidTrigger", rt |-> c.rt, turbo |-> c.turbo]
      [] c.op = "apply"         -> [op |-> "ApplyProfile", name |-> c.name]
      [] c.op = "actuation" /\ c.keys = {} -> [op |-> "SetActuationAll", mm |-> c.mm]
      [] c.op = "actuation" /\ c.keys # {} ->
            [op |-> "ApplyActuation", values |-> [s \in c.keys |-> c.mm]]
NameOf(c) == IF c.op = "apply" THEN c.name ELSE None

DefaultMap == [s \in Slots |-> DefaultActuation]
Wanted(c)  == WantedMap(AsRequest(c), NameOf(c), DefaultMap)

\* set_actuation and Profile::load find nothing wrong.
Sound(c) ==
    /\ c.op = "actuation" => ~c.unknown
    /\ c.op = "apply" => Appliable(c.name)

-------------------------------------------------------------------------------
Init ==
    /\ cmd = None /\ pc = 1 /\ row = 0 /\ exit = "ok"
    /\ map = DefaultMap
    /\ \E light \in Leds :
        fw = [act |-> [s \in Slots |-> ActuationMax], down |-> [s \in Slots |-> 0],
              up |-> [s \in Slots |-> 7], rt |-> TRUE, turbo |-> TRUE, led |-> light]
    /\ plugged = TRUE
    /\ before = fw

\* The user runs a command: Controller::open.
Run(c) ==
    /\ exit # "running"
    /\ cmd' = c /\ pc' = 1 /\ row' = 0
    /\ map' = DefaultMap
    /\ before' = fw
    /\ exit' = IF plugged THEN "running" ELSE "failed"
    /\ UNCHANGED <<fw, plugged>>

\* A call returned Ok; after the last one main does too.
Advance ==
    /\ row' = 0
    /\ pc' = pc + 1
    /\ exit' = IF pc = Len(Steps(cmd)) THEN "ok" ELSE "running"

Fail == exit' = "failed" /\ UNCHANGED <<pc, row>>

\* set_actuation_all or set_actuation; Profile::load and apply up to the flush.  A map
\* that is half changed when an unknown key is met ends with the process.
Prepare ==
    /\ At("prepare")
    /\ IF Sound(cmd) THEN map' = Wanted(cmd) /\ Advance ELSE Fail /\ UNCHANGED map
    /\ UNCHANGED <<cmd, fw, plugged, before>>

IsFlush == At("act") \/ At("down") \/ At("up")

AfterPacket ==
    LET zeros   == [s \in Slots |-> 0]
        toggles == WantedToggles(AsRequest(cmd), NameOf(cmd))
    IN  [act   |-> IF At("act") THEN FlushRow(fw.act, map, row, DefaultActuation) ELSE fw.act,
         down  |-> IF At("down") THEN FlushRow(fw.down, zeros, row, 0) ELSE fw.down,
         up    |-> IF At("up") THEN FlushRow(fw.up, zeros, row, 0) ELSE fw.up,
         rt    |-> IF At("toggles") THEN toggles.rt ELSE fw.rt,
         turbo |-> IF At("toggles") THEN toggles.turbo ELSE fw.turbo,
         led   |-> IF At("led") THEN LedOff ELSE fw.led]

AtWrite == IsFlush \/ At("led") \/ At("toggles")

Write ==
    /\ AtWrite /\ plugged
    /\ fw' = AfterPacket
    /\ IF IsFlush /\ row < 2 THEN row' = row + 1 /\ UNCHANGED <<pc, exit>> ELSE Advance
    /\ UNCHANGED <<cmd, map, plugged, before>>

\* After a failed write; the mutant goes on.
GoOn   == Advance
GiveUp == Fail

WriteFails ==
    /\ AtWrite
    /\ fw' = fw \/ (plugged /\ fw' = AfterPacket)
    /\ GiveUp
    /\ UNCHANGED <<cmd, map, plugged, before>>

Identity ==
    /\ At("identity")
    /\ (plugged /\ Advance) \/ Fail
    /\ UNCHANGED <<cmd, map, fw, plugged, before>>

\* The keyboard keeps its settings without power.
Plug ==
    /\ plugged' = ~plugged
    /\ UNCHANGED <<cmd, pc, row, exit, map, fw, before>>

Next == (\E c \in Commands : Run(c)) \/ Prepare \/ Write \/ WriteFails \/ Identity \/ Plug

Spec == Init /\ [][Next]_vars

-------------------------------------------------------------------------------
TypeOK ==
    /\ cmd \in Commands \cup {None}
    /\ pc \in 1..6
    /\ row \in Rows
    /\ exit \in {"running", "ok", "failed"}
    /\ map \in [Slots -> ActuationByte]
    /\ fw \in Keyboard /\ before \in Keyboard
    /\ plugged \in BOOLEAN

(* A command that ends well has done all it says and changed nothing else,   *)
(* packet by packet; the keys it does not name get the default (see          *)
(* OnlyNamedKeys).                                                           *)
ExitHonest ==
    exit = "ok" /\ cmd # None =>
        fw = Effect(before, DefaultMap, AsRequest(cmd), NameOf(cmd))

(* A command with an unknown key or a profile that cannot be applied fails   *)
(* before anything is written.                                               *)
RefusedUntouched ==
    cmd # None /\ ~Sound(cmd) => fw = before /\ exit # "ok"

(* main.rs:23, "Set the actuation point (mm) for all keys, or specific named *)
(* keys" (README.md:93, "# set specific keys"): the other keys stay as they  *)
(* are.                                                                      *)
OnlyNamedKeys ==
    exit = "ok" /\ cmd # None =>
        (cmd.op = "actuation" /\ cmd.keys # {} =>
            \A s \in Slots \ cmd.keys : fw.act[s] = before.act[s])

-------------------------------------------------------------------------------
(* The inductive invariant: how far a command that has not failed has come.  *)
Past == {Steps(cmd)[i] : i \in 1..(pc - 1)}

\* A map half-way through its flush: the rows sent are the new ones.
Sent(step, new, old) ==
    [s \in Slots |-> IF step \in Past \/ (At(step) /\ RowOf(s) < row) THEN new[s] ELSE old[s]]

Control ==
    /\ exit = "running" => pc <= Len(Steps(cmd))
    /\ exit = "ok"      => pc = Len(Steps(cmd)) + 1
    /\ exit = "running" /\ ~IsFlush => row = 0

Progress ==
    LET zeros   == [s \in Slots |-> 0]
        toggles == WantedToggles(AsRequest(cmd), NameOf(cmd))
    IN  /\ map = IF At("prepare") THEN DefaultMap ELSE Wanted(cmd)
        /\ fw = [act   |-> Sent("act", Wanted(cmd), before.act),
                 down  |-> Sent("down", zeros, before.down),
                 up    |-> Sent("up", zeros, before.up),
                 rt    |-> IF "toggles" \in Past THEN toggles.rt ELSE before.rt,
                 turbo |-> IF "toggles" \in Past THEN toggles.turbo ELSE before.turbo,
                 led   |-> IF "led" \in Past THEN LedOff ELSE before.led]

Refused == fw = before /\ exit # "ok" /\ (exit = "running" => At("prepare"))

CommandInv ==
    /\ cmd = None => exit = "ok"
    /\ cmd # None =>
        /\ Control
        /\ Sound(cmd) /\ exit # "failed" => Progress
        /\ ~Sound(cmd) => Refused
===============================================================================
