----------------------------- MODULE KeyboardTypes -----------------------------
(***************************************************************************)
(* The vocabulary the daemon, its clients and their abstract specification *)
(* share: keyboard state, profiles, IPC requests and responses             *)
(* (src/src/ipc.rs, src/src/config.rs), and what each request asks for.    *)
(***************************************************************************)
EXTENDS Packet

(* The lengths of the vectors ApplyActuation can carry: the code takes any,  *)
(* ignores what lies beyond the last slot and leaves the slots beyond the    *)
(* vector's end as they were; one element too many stands for all longer.    *)
VectorLengths == 0..(TotalKeys + 1)

CONSTANTS
    Names,        \* profile names, as numbers: their order is that of names.sort()
    Content,      \* Content[n]: what <n>.toml says, whenever that file exists
    Leds,         \* lighting settings
    LedOff,       \* the setting Reset selects
    Distances,    \* distances (hundredths of a millimetre) a request can carry
    Requests,     \* the requests clients send
    Unreadable,   \* content of a file that toml::from_str rejects
    None          \* Option::None, an empty slot

(* Profile: global distance, toggles and per-key overrides.  keys holds the  *)
(* overrides the loop of Profile::apply reaches; unknown says that it then   *)
(* meets a name that is no key of the layout.                                *)
Profile == [act : Distances, keys : UNION {[D -> Distances] : D \in SUBSET Slots},
            rt : BOOLEAN, turbo : BOOLEAN, unknown : BOOLEAN]

Request ==
    [op : {"Status", "ListProfiles", "CycleProfile", "Reset", "Depths"}]
        \cup [op : {"ApplyProfile"}, name : Names]
        \cup [op : {"SetActuationAll"}, mm : Distances]
        \cup [op : {"ApplyActuation"}, values : UNION {[0..(n - 1) -> Distances] : n \in VectorLengths}]
        \cup [op : {"SetRapidTrigger"}, rt : BOOLEAN, turbo : BOOLEAN]
        \cup [op : {"SetLed"}, led : Leds]

Label == Names \cup {None}

Response ==
    [kind : {"Ok", "Error", "Depths"}]
        \cup [kind : {"Profiles"}, names : SUBSET Names]
        \cup [kind : {"Status"}, rt : BOOLEAN, turbo : BOOLEAN, active : Label]

ErrorReply == [kind |-> "Error"]

ASSUME TypesAssumption ==
    /\ Distances \subseteq Int
    /\ Names \subseteq Nat
    /\ Content \in [Names -> Profile \cup {Unreadable}]
    /\ Unreadable \notin Profile
    /\ LedOff \in Leds
    /\ Requests \subseteq Request
    /\ None \notin Names \cup Request \cup Response
    /\ \A names \in SUBSET Names : None # names

(* The configuration held by the keyboard's firmware.                        *)
Keyboard == [act : [Slots -> KeyByte], down : [Slots -> KeyByte], up : [Slots -> KeyByte],
             rt : BOOLEAN, turbo : BOOLEAN, led : Leds]

-------------------------------------------------------------------------------
\* The actuation map of a profile: set_actuation_all, then the overrides.
MapOf(profile) ==
    [s \in Slots |-> MmToByte(IF s \in DOMAIN profile.keys THEN profile.keys[s]
                                                          ELSE profile.act)]

\* Can Profile::load read the file, and Profile::apply get as far as writing?
Readable(n)  == Content[n] # Unreadable
Appliable(n) == Readable(n) /\ ~Content[n].unknown

(* The profile after `active` in sorted order, wrapping, or the first when   *)
(* `active` is no file of the store.  The mutant forgets to wrap.            *)
NextWithoutWrap(active, files) ==
    CHOOSE n \in files : \/ active \notin files /\ \A m \in files : n <= m
                         \/ active \in files /\ n >= active
                            /\ \A m \in files : m > active => (n > active /\ n <= m)
NextProfileName(active, files) ==
    LET later == {n \in files : active \in files /\ n > active}
        pool  == IF later = {} THEN files ELSE later
    IN  CHOOSE n \in pool : \A m \in pool : n <= m

-------------------------------------------------------------------------------
(* What a request asks for.  `name` is the profile it applies, `map` the     *)
(* controller's actuation map before it.                                     *)
AppliesProfile(req) == req.op \in {"ApplyProfile", "CycleProfile"}
SetsMap(req)        == AppliesProfile(req)
                        \/ req.op \in {"SetActuationAll", "ApplyActuation", "Reset"}
SetsToggles(req)    == AppliesProfile(req) \/ req.op \in {"SetRapidTrigger", "Reset"}
SetsLed(req)        == req.op \in {"SetLed", "Reset"}
SetsLabel(req)      == SetsMap(req) \/ SetsToggles(req) \/ SetsLed(req)

\* The in-memory actuation map a request sets up before it is flushed.
WantedMap(req, name, map) ==
    CASE AppliesProfile(req)          -> MapOf(Content[name])
      [] req.op = "SetActuationAll"   -> [s \in Slots |-> MmToByte(req.mm)]
      [] req.op = "ApplyActuation"    -> [s \in Slots |-> IF s \in DOMAIN req.values
                                                          THEN MmToByte(req.values[s])
                                                          ELSE map[s]]
      [] req.op = "Reset"             -> [s \in Slots |-> DefaultActuation]
      [] OTHER                        -> map

\* The rapid-trigger and turbo toggles a request sets.
WantedToggles(req, name) ==
    CASE AppliesProfile(req)          -> [rt |-> Content[name].rt, turbo |-> Content[name].turbo]
      [] req.op = "SetRapidTrigger"   -> [rt |-> req.rt, turbo |-> req.turbo]
      [] OTHER                        -> [rt |-> FALSE, turbo |-> FALSE]

\* The lighting a request sets.
WantedLed(req) == IF req.op = "SetLed" THEN req.led ELSE LedOff

(* The keyboard after the whole of a request has been written to it.         *)
Effect(kb, map, req, name) ==
    [act   |-> IF SetsMap(req) THEN WantedMap(req, name, map) ELSE kb.act,
     down  |-> IF req.op = "Reset" THEN [s \in Slots |-> 0] ELSE kb.down,
     up    |-> IF req.op = "Reset" THEN [s \in Slots |-> 0] ELSE kb.up,
     rt    |-> IF SetsToggles(req) THEN WantedToggles(req, name).rt ELSE kb.rt,
     turbo |-> IF SetsToggles(req) THEN WantedToggles(req, name).turbo ELSE kb.turbo,
     led   |-> IF SetsLed(req) THEN WantedLed(req) ELSE kb.led]

(* The label after a request succeeded: apply_named records the name, and    *)
(* into_response clears the label.  The mutant is an into_response that      *)
(* leaves the label alone.                                                   *)
LabelKept(req, name, active)  == IF AppliesProfile(req) THEN name ELSE active
LabelAfter(req, name, active) == IF AppliesProfile(req) THEN name
                                 ELSE IF SetsLabel(req) THEN None ELSE active
===============================================================================
