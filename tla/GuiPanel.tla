-------------------------------- MODULE GuiPanel ---------------------------------
(***************************************************************************)
(* What the GUI's panel shows and edits (App in src/src/gui/app.rs): the   *)
(* key map, the toggles and the profile file, against the keyboard its     *)
(* commands reach, in order, through worker and daemon.  GuiWorker is how  *)
(* the commands get there; which packets of a failed one arrive is         *)
(* Daemon's matter: any of them may.                                       *)
(***************************************************************************)
EXTENDS Packet, Sequences

CONSTANTS
    Named,      \* the slots that have a key
    Settings,   \* settings of the two toggles
    Off,        \* both off
    Distances,  \* positions of the sliders
    Files,      \* profiles the user may load
    MaxQueue    \* bound on the commands under way

Default == 200   \* 2.0 mm

(* A profile file: the overrides whose names are keys, and whether there is  *)
(* one under a name that is no key.                                          *)
Profile == [act : Distances, keys : UNION {[D -> Distances] : D \in SUBSET Named},
            toggles : Settings, unknown : BOOLEAN]

ASSUME PanelAssumption ==
    /\ Named \subseteq Slots
    /\ Distances \subseteq Int /\ Default \in Distances
    /\ Files \subseteq Profile
    /\ Off \in Settings
    /\ MaxQueue \in Nat

VARIABLES
    actuation, toggles, globalMm,  \* App
    file,      \* the profile saved or loaded last
    underway,  \* commands under way
    status,    \* the toggles of a Connected event not drained yet, or << >>
    keyboard,  \* what it holds: key bytes and toggles
    \* history
    mapSynced,     \* has the panel's map been sent as it is?
    togglesSynced, \* have its toggles been sent, or read, as they are?
    overtaken,     \* has a command set the toggles since the status was taken?
    origin         \* the panel shows a file as "loaded" or "saved", or is "edited"

panelVars  == <<actuation, toggles, globalMm>>
history    == <<mapSynced, togglesSynced, overtaken, origin>>
panelState == <<panelVars, file, underway, status, keyboard, history>>

Bytes(map) == [s \in Slots |-> MmToByte(map[s])]

\* What a command sets.
SetsAct(c)     == c.op \in {"map", "reset"}
ActOf(c)       == IF c.op = "map" THEN Bytes(c.values) ELSE [s \in Slots |-> DefaultActuation]
SetsToggles(c) == c.op \in {"toggles", "reset"}
TogglesOf(c)   == IF c.op = "toggles" THEN c.toggles ELSE Off

ActUnderway(commands)     == \E i \in 1..Len(commands) : SetsAct(commands[i])
TogglesUnderway(commands) == \E i \in 1..Len(commands) : SetsToggles(commands[i])

-------------------------------------------------------------------------------
PanelInit ==
    /\ actuation = [s \in Slots |-> Default]
    /\ toggles = Off /\ globalMm = Default
    /\ file = [act |-> Default, keys |-> << >>, toggles |-> Off, unknown |-> FALSE]
    /\ underway = << >> /\ status = << >>
    /\ \E t \in Settings :
        keyboard = [act |-> [s \in Slots |-> ActuationMax], toggles |-> t]
    /\ mapSynced = FALSE /\ togglesSynced = FALSE /\ overtaken = FALSE
    /\ origin = "edited"

\* An edit of the panel: "Set all keys", "Apply to selection", the checkboxes.
Edit ==
    /\ origin' = "edited"
    /\ UNCHANGED <<file, underway, status, keyboard, overtaken>>

EditMap ==
    /\ mapSynced' = FALSE
    /\ UNCHANGED <<toggles, togglesSynced>>
    /\ Edit

SetAll ==
    /\ \E mm \in Distances : globalMm' = mm
    /\ actuation' = [s \in Slots |-> globalMm']
    /\ EditMap

\* The slider alone: it is saved as the file's default, which no key reads.
Slide ==
    /\ globalMm' \in Distances
    /\ UNCHANGED <<actuation, toggles, file, underway, status, keyboard, history>>

\* Keys are selected by clicks and by the buttons All, None and WASD.
ApplyToSelection ==
    /\ \E selected \in SUBSET Named, mm \in Distances :
        actuation' = [s \in Slots |-> IF s \in selected THEN mm ELSE actuation[s]]
    /\ UNCHANGED globalMm
    /\ EditMap

Toggle ==
    /\ toggles' \in Settings
    /\ togglesSynced' = FALSE
    /\ UNCHANGED <<actuation, globalMm, mapSynced>>
    /\ Edit

-------------------------------------------------------------------------------
(* The commands.                                                             *)

Toggles == [op |-> "toggles", toggles |-> toggles]

Send(sends) ==
    /\ Len(underway) + Len(sends) <= MaxQueue
    /\ underway' = underway \o sends

\* "Apply to keyboard": the map and the toggles.
ApplyToKeyboard ==
    /\ Send(<<[op |-> "map", values |-> actuation], Toggles>>)
    /\ mapSynced' = TRUE /\ togglesSynced' = TRUE
    /\ UNCHANGED <<panelVars, file, status, keyboard, overtaken, origin>>

\* "Apply toggles".
ApplyToggles ==
    /\ Send(<<Toggles>>)
    /\ togglesSynced' = TRUE
    /\ UNCHANGED <<panelVars, file, status, keyboard, mapSynced, overtaken, origin>>

Refresh ==
    /\ Send(<<[op |-> "status"]>>)
    /\ UNCHANGED <<panelVars, file, status, keyboard, history>>

\* What "Restore defaults" leaves in the panel; the mutant leaves the toggles.
ResetMapOnly == actuation' = [s \in Slots |-> Default] /\ UNCHANGED toggles
ResetPanel   == actuation' = [s \in Slots |-> Default] /\ toggles' = Off

RestoreDefaults ==
    /\ Send(<<[op |-> "reset"]>>)
    /\ ResetPanel
    /\ mapSynced' = TRUE /\ togglesSynced' = TRUE /\ origin' = "edited"
    /\ UNCHANGED <<globalMm, file, status, keyboard, overtaken>>

-------------------------------------------------------------------------------
(* Profiles.                                                                 *)

(* The map load_profile makes: a name that is no key is passed over.  The    *)
(* mutant keeps the old values of keys without an override.                  *)
LoadedOver(profile)  == [s \in Slots |-> IF s \in DOMAIN profile.keys THEN profile.keys[s]
                                                                      ELSE actuation[s]]
LoadedMap(profile)   == [s \in Slots |-> IF s \in DOMAIN profile.keys THEN profile.keys[s]
                                                                      ELSE profile.act]

Load ==
    /\ file' \in Files \cup {file}
    /\ actuation' = LoadedMap(file')
    /\ toggles' = file'.toggles
    /\ globalMm' = file'.act
    /\ mapSynced' = FALSE /\ togglesSynced' = FALSE /\ origin' = "loaded"
    /\ UNCHANGED <<underway, status, keyboard, overtaken>>

\* build_profile; the mutant leaves out keys that have the distance the panel starts
\* with.
BuildSparse  == [act |-> globalMm, toggles |-> toggles, unknown |-> FALSE,
                 keys |-> [s \in {n \in Named : actuation[n] # Default} |-> actuation[s]]]
BuildProfile == [act |-> globalMm, toggles |-> toggles, unknown |-> FALSE,
                 keys |-> [s \in Named |-> actuation[s]]]

Save ==
    /\ file' = BuildProfile
    /\ origin' = "saved"
    /\ UNCHANGED <<panelVars, underway, status, keyboard, mapSynced, togglesSynced, overtaken>>

-------------------------------------------------------------------------------
\* The next command reaches the keyboard.
Execute ==
    /\ underway # << >>
    /\ LET c == Head(underway) IN
        /\ keyboard' = [act     |-> IF SetsAct(c) THEN ActOf(c) ELSE keyboard.act,
                        toggles |-> IF SetsToggles(c) THEN TogglesOf(c) ELSE keyboard.toggles]
        /\ status' = IF c.op = "status" THEN <<keyboard.toggles>> ELSE status
        /\ overtaken' = (c.op # "status" /\ (overtaken \/ SetsToggles(c)))
    /\ underway' = Tail(underway)
    /\ UNCHANGED <<panelVars, file, mapSynced, togglesSynced, origin>>

(* It is answered with an error, or there is no daemon: the keyboard has some *)
(* of its rows, perhaps the toggles.                                         *)
ExecuteFails ==
    /\ underway # << >>
    /\ underway' = Tail(underway)
    /\ LET c == Head(underway) IN
        /\ \E rows \in Rows \cup {3}, reached \in BOOLEAN :
            keyboard' = [act     |-> [s \in Slots |-> IF SetsAct(c) /\ RowOf(s) < rows
                                                      THEN ActOf(c)[s] ELSE keyboard.act[s]],
                         toggles |-> IF SetsToggles(c) /\ reached
                                     THEN TogglesOf(c) ELSE keyboard.toggles]
        /\ mapSynced' = (mapSynced /\ (SetsAct(c) => ActUnderway(underway')))
        /\ togglesSynced' = (togglesSynced /\ (SetsToggles(c) => TogglesUnderway(underway')))
        /\ overtaken' = (overtaken \/ SetsToggles(c))
    /\ UNCHANGED <<panelVars, file, status, origin>>

\* drain_events: Connected.
Drain ==
    /\ status # << >>
    /\ toggles' = status[1]
    /\ status' = << >>
    /\ togglesSynced' = \/ ~overtaken /\ ~TogglesUnderway(underway)
                        \/ togglesSynced /\ toggles = status[1]
    /\ origin' = IF toggles = status[1] THEN origin ELSE "edited"
    /\ UNCHANGED <<actuation, globalMm, file, underway, keyboard, mapSynced, overtaken>>

PanelNext ==
    \/ SetAll \/ Slide \/ ApplyToSelection \/ Toggle
    \/ ApplyToKeyboard \/ ApplyToggles \/ Refresh \/ RestoreDefaults
    \/ Load \/ Save
    \/ Execute \/ ExecuteFails \/ Drain

PanelSpec == PanelInit /\ [][PanelNext]_panelState

-------------------------------------------------------------------------------
Order == [op : {"map"}, values : [Slots -> Distances]] \cup [op : {"toggles"}, toggles : Settings]
            \cup [op : {"reset", "status"}]

PanelTypeOK ==
    /\ actuation \in [Slots -> Distances]
    /\ toggles \in Settings
    /\ globalMm \in Distances
    /\ file \in Profile
    /\ underway \in Seq(Order) /\ Len(underway) <= MaxQueue
    /\ status \in {<< >>} \cup {<<t>> : t \in Settings}
    /\ keyboard \in [act : [Slots -> ActuationByte], toggles : Settings]
    /\ mapSynced \in BOOLEAN /\ togglesSynced \in BOOLEAN /\ overtaken \in BOOLEAN
    /\ origin \in {"edited", "loaded", "saved"}

(* README.md:64, "colour = actuation depth": once the last command under way *)
(* that sets the map, or the toggles, is done, the panel's are the           *)
(* keyboard's, from "Apply to keyboard", "Apply toggles" or "Restore         *)
(* defaults" to the next edit.  The one may fail and the other hold.  A      *)
(* failed command breaks it only if none after it sets the same again, and a *)
(* status only if a command has overtaken it: the answer to an earlier       *)
(* Refresh puts the keyboard's old toggles into the panel.                   *)
PanelOnKeyboard ==
    /\ mapSynced /\ ~ActUnderway(underway) => keyboard.act = Bytes(actuation)
    /\ togglesSynced /\ ~TogglesUnderway(underway) => keyboard.toggles = toggles

(* Profile::apply, in the daemon: it refuses the whole file over one name    *)
(* that is no key, where load_profile passes the name over (app.rs:179).     *)
DaemonTakes(profile) == ~profile.unknown
DaemonMap(profile)   ==
    [s \in Named |-> MmToByte(IF s \in DOMAIN profile.keys THEN profile.keys[s] ELSE profile.act)]

(* A profile file is the panel, as long as nothing is edited: the daemon     *)
(* applying it gives every key the byte that "Apply to keyboard" gives it,   *)
(* and the same toggles.  A file that the panel saved is never one that the  *)
(* daemon refuses, not even if the panel shows what it loaded from such a    *)
(* file.  Of that loaded file nothing can be said: the panel shows it as     *)
(* loaded and the daemon does not apply it.                                  *)
FileIsPanel ==
    /\ origin = "saved" => DaemonTakes(file)
    /\ origin # "edited" /\ DaemonTakes(file) =>
        /\ DaemonMap(file) = [s \in Named |-> MmToByte(actuation[s])]
        /\ file.toggles = toggles

-------------------------------------------------------------------------------
(* The inductive invariant behind PanelOnKeyboard: the last command under    *)
(* way that sets the map, or the toggles, sets what the panel shows, and     *)
(* where none does the keyboard holds it already; a status that nothing has  *)
(* overtaken tells the keyboard's toggles.                                   *)
UnderwayAct ==
    /\ \A i \in 1..Len(underway) : SetsAct(underway[i]) =>
        \/ ActOf(underway[i]) = Bytes(actuation)
        \/ \E j \in (i + 1)..Len(underway) : SetsAct(underway[j])
    /\ keyboard.act = Bytes(actuation) \/ ActUnderway(underway)

UnderwayToggles ==
    /\ \A i \in 1..Len(underway) : SetsToggles(underway[i]) =>
        \/ TogglesOf(underway[i]) = toggles
        \/ \E j \in (i + 1)..Len(underway) : SetsToggles(underway[j])
    /\ keyboard.toggles = toggles \/ TogglesUnderway(underway)

PanelInv ==
    /\ PanelTypeOK /\ FileIsPanel
    /\ mapSynced => UnderwayAct
    /\ togglesSynced => UnderwayToggles
    /\ status # << >> /\ ~overtaken => status[1] = keyboard.toggles
===============================================================================
