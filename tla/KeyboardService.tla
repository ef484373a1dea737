---------------------------- MODULE KeyboardService ----------------------------
(***************************************************************************)
(* What the daemon promises its clients, without its threads, its queue    *)
(* and its packets: an object that serves one request at a time.  A        *)
(* request that is answered with anything but an error takes effect as a   *)
(* whole, between its invocation and its answer, and sets the label in the *)
(* same instant.  A request that is answered with an error may leave any   *)
(* prefix of each of its writes behind.                                    *)
(***************************************************************************)
EXTENDS KeyboardTypes

CONSTANTS
    Producers,       \* whoever sends requests: connections and the focus watcher
    InitialKeyboards \* configurations the keyboard may be found in

VARIABLES
    asked,     \* asked[p]: the request p waits for, or None
    answer,    \* answer[p]: the response p has yet to collect, or None
    serving,   \* the producer whose request is being executed, or None
    target,    \* the profile that request applies, once known
    listed,    \* the profile names that request read, once read
    kb,        \* the keyboard's configuration
    map,       \* the actuation map the service remembers
    label,     \* the active profile
    files      \* the profiles in the store

vars == <<asked, answer, serving, target, listed, kb, map, label, files>>

Init ==
    /\ asked  = [p \in Producers |-> None]
    /\ answer = [p \in Producers |-> None]
    /\ serving = None /\ target = None /\ listed = None
    /\ kb \in InitialKeyboards
    /\ map = [s \in Slots |-> DefaultActuation]
    /\ label = None
    /\ files \in SUBSET Names

Invoke(p) ==
    /\ asked[p] = None
    /\ \E r \in Requests : asked' = [asked EXCEPT ![p] = r]
    /\ UNCHANGED <<answer, serving, target, listed, kb, map, label, files>>

Begin(p) ==
    /\ serving = None
    /\ asked[p] # None /\ answer[p] = None
    /\ serving' = p
    /\ target' = IF asked[p].op = "ApplyProfile" THEN asked[p].name ELSE None
    /\ UNCHANGED <<asked, answer, listed, kb, map, label, files>>

\* A cycle settles on the profile that follows the label.
Aim(p) ==
    /\ serving = p /\ target = None
    /\ asked[p].op = "CycleProfile"
    /\ files # {}
    /\ target' = NextProfileName(label, files)
    /\ UNCHANGED <<asked, answer, serving, listed, kb, map, label, files>>

\* A listing reads the store.
Look(p) ==
    /\ serving = p /\ listed = None
    /\ asked[p].op = "ListProfiles"
    /\ listed' = files
    /\ UNCHANGED <<asked, answer, serving, target, kb, map, label, files>>

\* The answers a successful request can get.
GoodAnswer(req, names, board, active) ==
    CASE req.op \in {"Status", "CycleProfile"} ->
            [kind |-> "Status", rt |-> board.rt, turbo |-> board.turbo, active |-> active]
      [] req.op = "ListProfiles" -> [kind |-> "Profiles", names |-> names]
      [] req.op = "Depths"       -> [kind |-> "Depths"]
      [] OTHER                   -> [kind |-> "Ok"]

Finish(p, response) ==
    /\ answer' = [answer EXCEPT ![p] = response]
    /\ serving' = None /\ target' = None /\ listed' = None
    /\ UNCHANGED <<asked, files>>

\* Is all known that the request needs?
Ready(p) ==
    /\ AppliesProfile(asked[p]) => target # None /\ Appliable(target)
    /\ asked[p].op = "ListProfiles" => listed # None

Succeed(p) ==
    /\ serving = p
    /\ Ready(p)
    /\ kb' = Effect(kb, map, asked[p], target)
    /\ map' = WantedMap(asked[p], target, map)
    /\ label' = LabelAfter(asked[p], target, label)
    /\ Finish(p, GoodAnswer(asked[p], listed, kb', label'))

(* A keyboard that was to become `new` took a prefix of the rows of each     *)
(* map, and any of the other writes.                                         *)
Prefix(old, new, k) == [s \in Slots |-> IF RowOf(s) < k THEN new[s] ELSE old[s]]
Torn(old, new, board) ==
    /\ board \in Keyboard
    /\ \E k \in 0..3 : board.act  = Prefix(old.act, new.act, k)
    /\ \E k \in 0..3 : board.down = Prefix(old.down, new.down, k)
    /\ \E k \in 0..3 : board.up   = Prefix(old.up, new.up, k)
    /\ \E t \in {old, new} : board.rt = t.rt /\ board.turbo = t.turbo
    /\ board.led \in {old.led, new.led}

\* The request is refused, and nothing has changed.
Refuse(p) ==
    /\ serving = p
    /\ Finish(p, ErrorReply)
    /\ UNCHANGED <<kb, map, label>>

(* The request fails half-way: the map it asked for is remembered all the    *)
(* same, and a profile with an unknown key changes nothing else.             *)
Fail(p) ==
    /\ serving = p
    /\ Finish(p, ErrorReply)
    /\ SetsLabel(asked[p])
    /\ AppliesProfile(asked[p]) => target # None /\ Readable(target)
    /\ map' = WantedMap(asked[p], target, map)
    /\ IF Ready(p) THEN Torn(kb, Effect(kb, map, asked[p], target), kb')
                   ELSE kb' = kb
    /\ label' = label

\* A cycle has done its work, but cannot report the status.
FailReport(p) ==
    /\ serving = p
    /\ asked[p].op = "CycleProfile"
    /\ Finish(p, ErrorReply)
    /\ Ready(p)
    /\ kb' = Effect(kb, map, asked[p], target)
    /\ map' = WantedMap(asked[p], target, map)
    /\ label' = target

Return(p) ==
    /\ answer[p] # None
    /\ asked'  = [asked EXCEPT ![p] = None]
    /\ answer' = [answer EXCEPT ![p] = None]
    /\ UNCHANGED <<serving, target, listed, kb, map, label, files>>

EditFiles ==
    /\ files' \in SUBSET Names
    /\ UNCHANGED <<asked, answer, serving, target, listed, kb, map, label>>

Next ==
    \/ \E p \in Producers : \/ Invoke(p) \/ Begin(p) \/ Aim(p) \/ Look(p) \/ Succeed(p)
                            \/ Refuse(p) \/ Fail(p) \/ FailReport(p) \/ Return(p)
    \/ EditFiles

Spec == Init /\ [][Next]_vars
===============================================================================
