---------------------------- MODULE CommandLineProofs ---------------------------
(***************************************************************************)
(* fawnd's direct commands tell the truth in their exit status, for every  *)
(* keyboard, profile store and set of commands.                            *)
(***************************************************************************)
EXTENDS CommandLine, PacketProofs

Words == {"identity", "prepare", "act", "toggles", "led", "down", "up"}
Flushes == {"act", "down", "up"}

(* The steps of each command: no step comes twice, only the first can be a   *)
(* preparation, and what a command writes is what its request asks for.      *)
LEMMA StepsOf ==
    ASSUME NEW c \in Command
    PROVE  /\ Len(Steps(c)) \in 1..5
           /\ \A i \in 1..Len(Steps(c)) :
                /\ Steps(c)[i] \in Words
                /\ Steps(c)[i] = "prepare" <=> i = 1 /\ c.op \in {"actuation", "apply"}
                /\ \A j \in 1..Len(Steps(c)) : Steps(c)[i] = Steps(c)[j] => i = j
           /\ c.op \in {"info", "reset", "actuation", "rapid-trigger", "apply"}
<1>1. c.op \in {"info", "reset", "actuation", "rapid-trigger", "apply"}
  BY DEF Command
<1>2. CASE c.op = "info"
  BY <1>2 DEF Steps, Words
<1>3. CASE c.op = "actuation"
  BY <1>3 DEF Steps, Words
<1>4. CASE c.op = "rapid-trigger"
  BY <1>4 DEF Steps, Words
<1>5. CASE c.op = "apply"
  BY <1>5 DEF Steps, Words
<1>6. CASE c.op = "reset"
  BY <1>6 DEF Steps, Words
<1> QED BY <1>1, <1>2, <1>3, <1>4, <1>5, <1>6

(* Which steps a finished command has taken.                                 *)
LEMMA AllSteps ==
    ASSUME NEW c \in Command
    PROVE  LET all == {Steps(c)[i] : i \in 1..Len(Steps(c))}
           IN  /\ "act" \in all <=> SetsMap(AsRequest(c))
               /\ "toggles" \in all <=> SetsToggles(AsRequest(c))
               /\ "led" \in all <=> SetsLed(AsRequest(c))
               /\ "down" \in all <=> AsRequest(c).op = "Reset"
               /\ "up" \in all <=> AsRequest(c).op = "Reset"
<1> DEFINE all == {Steps(c)[i] : i \in 1..Len(Steps(c))}
<1> USE DEF AppliesProfile, SetsMap, SetsToggles, SetsLed
<1>1. c.op \in {"info", "reset", "actuation", "rapid-trigger", "apply"}
  BY StepsOf
<1>2. CASE c.op = "info"
  <2>1. AsRequest(c).op = "Status"
    BY <1>2 DEF AsRequest
  <2>2. all = {"identity"}
    BY <1>2 DEF Steps
  <2> QED BY <2>1, <2>2
<1>3. CASE c.op = "actuation"
  <2>1. AsRequest(c).op \in {"SetActuationAll", "ApplyActuation"}
    BY <1>3 DEF AsRequest
  <2>2. all = {"prepare", "act"}
    BY <1>3 DEF Steps
  <2> QED BY <2>1, <2>2
<1>4. CASE c.op = "rapid-trigger"
  <2>1. AsRequest(c).op = "SetRapidTrigger"
    BY <1>4 DEF AsRequest
  <2>2. all = {"toggles"}
    BY <1>4 DEF Steps
  <2> QED BY <2>1, <2>2
<1>5. CASE c.op = "apply"
  <2>1. AsRequest(c).op = "ApplyProfile"
    BY <1>5 DEF AsRequest
  <2>2. all = {"prepare", "act", "toggles"}
    BY <1>5 DEF Steps
  <2> QED BY <2>1, <2>2
<1>6. CASE c.op = "reset"
  <2>1. AsRequest(c).op = "Reset"
    BY <1>6 DEF AsRequest
  <2>2. all = {"led", "toggles", "act", "down", "up"}
    BY <1>6 DEF Steps
  <2> QED BY <2>1, <2>2
<1> QED BY <1>1, <1>2, <1>3, <1>4, <1>5, <1>6

-------------------------------------------------------------------------------
(* What a command wants has the type the keyboard needs.                     *)
LEMMA ProfileType ==
    ASSUME NEW n \in Names, Readable(n)
    PROVE  /\ MapOf(Content[n]) \in [Slots -> ActuationByte]
           /\ Content[n].rt \in BOOLEAN /\ Content[n].turbo \in BOOLEAN
<1> DEFINE profile == Content[n]
<1>1. profile \in Profile
  BY TypesAssumption DEF Readable
<1>2. /\ profile.act \in Int /\ profile.rt \in BOOLEAN /\ profile.turbo \in BOOLEAN
      /\ \A s \in DOMAIN profile.keys : profile.keys[s] \in Int
  <2>1. profile.act \in Distances /\ profile.keys \in UNION {[D -> Distances] : D \in SUBSET Slots}
    BY <1>1 DEF Profile
  <2>2. PICK D \in SUBSET Slots : profile.keys \in [D -> Distances]
    BY <2>1
  <2>3. profile.rt \in BOOLEAN /\ profile.turbo \in BOOLEAN
    BY <1>1 DEF Profile
  <2> QED BY <2>1, <2>2, <2>3, TypesAssumption
<1>3. MapOf(profile) \in [Slots -> ActuationByte]
  BY <1>2, MmToByteRange DEF MapOf
<1> QED BY <1>2, <1>3

LEMMA DefaultMapType == DefaultMap \in [Slots -> ActuationByte]
  BY DEF DefaultMap, ActuationByte, DefaultActuation, ActuationMin, ActuationMax

LEMMA WantedType ==
    ASSUME NEW c \in Command, Sound(c)
    PROVE  /\ Wanted(c) \in [Slots -> ActuationByte]
           /\ WantedToggles(AsRequest(c), NameOf(c)).rt \in BOOLEAN
           /\ WantedToggles(AsRequest(c), NameOf(c)).turbo \in BOOLEAN
<1> USE DefaultMapType DEF AppliesProfile
<1>1. c.op \in {"info", "reset", "actuation", "rapid-trigger", "apply"}
  BY StepsOf
<1>2. CASE c.op = "info"
  <2>1. AsRequest(c).op = "Status"
    BY <1>2 DEF AsRequest
  <2> QED BY <2>1 DEF Wanted, WantedMap, WantedToggles
<1>3. CASE c.op = "actuation" /\ c.keys = {}
  <2>1. AsRequest(c).op = "SetActuationAll" /\ AsRequest(c).mm = c.mm
    BY <1>3 DEF AsRequest
  <2>2. c.mm \in Int
    BY <1>3, TypesAssumption DEF Command
  <2>3. Wanted(c) = [s \in Slots |-> MmToByte(c.mm)]
    BY <2>1 DEF Wanted, WantedMap
  <2> QED BY <2>1, <2>2, <2>3, MmToByteRange DEF WantedToggles
<1>4. CASE c.op = "actuation" /\ c.keys # {}
  <2>1. AsRequest(c).op = "ApplyActuation" /\ AsRequest(c).values = [s \in c.keys |-> c.mm]
    BY <1>4 DEF AsRequest
  <2>2. c.mm \in Int
    BY <1>4, TypesAssumption DEF Command
  <2>3. Wanted(c) = [s \in Slots |-> IF s \in c.keys THEN MmToByte(c.mm) ELSE DefaultMap[s]]
    BY <2>1 DEF Wanted, WantedMap
  <2> QED BY <2>1, <2>2, <2>3, MmToByteRange DEF WantedToggles
<1>5. CASE c.op = "rapid-trigger"
  <2>1. AsRequest(c) = [op |-> "SetRapidTrigger", rt |-> c.rt, turbo |-> c.turbo]
    BY <1>5 DEF AsRequest
  <2>2. c.rt \in BOOLEAN /\ c.turbo \in BOOLEAN
    BY <1>5 DEF Command
  <2> QED BY <2>1, <2>2 DEF Wanted, WantedMap, WantedToggles
<1>6. CASE c.op = "apply"
  <2>1. AsRequest(c).op = "ApplyProfile" /\ NameOf(c) = c.name
    BY <1>6 DEF AsRequest, NameOf
  <2>2. c.name \in Names /\ Readable(c.name)
    BY <1>6 DEF Command, Sound, Appliable
  <2>3. Wanted(c) = MapOf(Content[c.name])
    BY <2>1 DEF Wanted, WantedMap
  <2> QED BY <2>1, <2>2, <2>3, ProfileType DEF WantedToggles
<1>7. CASE c.op = "reset"
  <2>1. AsRequest(c).op = "Reset"
    BY <1>7 DEF AsRequest
  <2> QED BY <2>1 DEF Wanted, WantedMap, WantedToggles, DefaultMap
<1> QED BY <1>1, <1>2, <1>3, <1>4, <1>5, <1>6, <1>7

LEMMA FreshMap ==
    ASSUME NEW c \in Command, c.op \notin {"actuation", "apply"}
    PROVE  Wanted(c) = DefaultMap /\ Sound(c)
<1>1. c.op \in {"info", "reset", "rapid-trigger"}
  BY StepsOf
<1>2. AsRequest(c).op \in {"Status", "Reset", "SetRapidTrigger"}
  BY <1>1 DEF AsRequest
<1> QED BY <1>1, <1>2 DEF Wanted, WantedMap, AppliesProfile, DefaultMap, Sound

-------------------------------------------------------------------------------
(* The state of a command.                                                   *)
Inv == TypeOK /\ CommandInv

(* The firmware's state has the six parts of Keyboard and nothing else.      *)
LEMMA Parts ==
    ASSUME NEW kb \in Keyboard
    PROVE  /\ kb = [act |-> kb.act, down |-> kb.down, up |-> kb.up, rt |-> kb.rt,
                    turbo |-> kb.turbo, led |-> kb.led]
           /\ kb.act \in [Slots -> KeyByte] /\ kb.down \in [Slots -> KeyByte]
           /\ kb.up \in [Slots -> KeyByte]
           /\ kb.rt \in BOOLEAN /\ kb.turbo \in BOOLEAN /\ kb.led \in Leds
  BY DEF Keyboard

\* What is known while a command runs.
LEMMA Running ==
    ASSUME Inv, exit = "running"
    PROVE  /\ cmd # None /\ cmd \in Command /\ cmd \in Commands
           /\ pc \in 1..Len(Steps(cmd)) /\ Len(Steps(cmd)) \in 1..5
           /\ Steps(cmd)[pc] \in Words /\ Steps(cmd)[pc] \notin Past
           /\ Steps(cmd)[pc] = "prepare" <=> pc = 1 /\ cmd.op \in {"actuation", "apply"}
           /\ ~Sound(cmd) => At("prepare") /\ fw = before
           /\ Sound(cmd) => Progress
           /\ ~IsFlush => row = 0
<1>1. cmd # None
  BY DEF Inv, CommandInv
<1>2. cmd \in Commands /\ cmd \in Command
  BY <1>1, CommandAssumption DEF Inv, TypeOK
<1>3. pc \in 1..Len(Steps(cmd)) /\ Len(Steps(cmd)) \in 1..5
  BY <1>1, <1>2, StepsOf DEF Inv, TypeOK, CommandInv, Control
<1>4. Steps(cmd)[pc] \notin Past
  <2> SUFFICES ASSUME NEW i \in 1..(pc - 1), Steps(cmd)[i] = Steps(cmd)[pc] PROVE FALSE
    BY DEF Past
  <2>1. i \in 1..Len(Steps(cmd)) /\ i # pc
    BY <1>3
  <2> QED BY <1>2, <1>3, <2>1, StepsOf
<1>5. ~Sound(cmd) => At("prepare") /\ fw = before
  BY <1>1 DEF Inv, CommandInv, Refused
<1>6. Sound(cmd) => Progress
  BY <1>1 DEF Inv, CommandInv
<1>7. ~IsFlush => row = 0
  BY <1>1 DEF Inv, CommandInv, Control
<1> QED BY <1>1, <1>2, <1>3, <1>4, <1>5, <1>6, <1>7, StepsOf

LEMMA AtMeans ==
    ASSUME exit = "running", NEW step
    PROVE  At(step) <=> Steps(cmd)[pc] = step
  BY DEF At

LEMMA PacketType ==
    ASSUME Inv, Sound(cmd), exit = "running"
    PROVE  AfterPacket \in Keyboard
<1> DEFINE zeros   == [s \in Slots |-> 0]
           toggles == WantedToggles(AsRequest(cmd), NameOf(cmd))
<1>1. /\ fw.act \in [Slots -> KeyByte] /\ fw.down \in [Slots -> KeyByte]
      /\ fw.up \in [Slots -> KeyByte]
      /\ fw.rt \in BOOLEAN /\ fw.turbo \in BOOLEAN /\ fw.led \in Leds
  BY Parts DEF Inv, TypeOK
<1>2. map \in [Slots -> KeyByte] /\ zeros \in [Slots -> KeyByte] /\ row \in Rows
  <2>1. map \in [Slots -> ActuationByte] /\ row \in Rows
    BY DEF Inv, TypeOK
  <2>2. map \in [Slots -> KeyByte]
    BY <2>1, ActuationByteIsKeyByte
  <2>3. zeros \in [Slots -> KeyByte]
    BY DEF KeyByte
  <2> QED BY <2>1, <2>2, <2>3
<1>3. toggles.rt \in BOOLEAN /\ toggles.turbo \in BOOLEAN
  BY Running, WantedType
<1> HIDE DEF zeros, toggles
<1>4. /\ FlushRow(fw.act, map, row, DefaultActuation) \in [Slots -> KeyByte]
      /\ FlushRow(fw.down, zeros, row, 0) \in [Slots -> KeyByte]
      /\ FlushRow(fw.up, zeros, row, 0) \in [Slots -> KeyByte]
  BY <1>1, <1>2, FlushRowType
<1>5. LedOff \in Leds
  BY TypesAssumption
<1>6. AfterPacket =
        [act   |-> IF At("act") THEN FlushRow(fw.act, map, row, DefaultActuation) ELSE fw.act,
         down  |-> IF At("down") THEN FlushRow(fw.down, zeros, row, 0) ELSE fw.down,
         up    |-> IF At("up") THEN FlushRow(fw.up, zeros, row, 0) ELSE fw.up,
         rt    |-> IF At("toggles") THEN toggles.rt ELSE fw.rt,
         turbo |-> IF At("toggles") THEN toggles.turbo ELSE fw.turbo,
         led   |-> IF At("led") THEN LedOff ELSE fw.led]
  BY DEF AfterPacket, zeros, toggles
<1> QED BY <1>1, <1>3, <1>4, <1>5, <1>6, Zenon DEF Keyboard

LEMMA InitInv == Init => Inv
<1> SUFFICES ASSUME Init PROVE Inv
  OBVIOUS
<1>1. cmd = None /\ pc = 1 /\ row = 0 /\ exit = "ok" /\ map = DefaultMap /\ plugged = TRUE /\ before = fw
  BY DEF Init
<1>2. fw \in Keyboard
  <2>1. PICK light \in Leds :
          fw = [act |-> [s \in Slots |-> ActuationMax], down |-> [s \in Slots |-> 0],
                up |-> [s \in Slots |-> 7], rt |-> TRUE, turbo |-> TRUE, led |-> light]
    BY Zenon DEF Init
  <2>2. [s \in Slots |-> ActuationMax] \in [Slots -> KeyByte] /\ [s \in Slots |-> 0] \in [Slots -> KeyByte]
        /\ [s \in Slots |-> 7] \in [Slots -> KeyByte]
    BY DEF KeyByte, ActuationMax
  <2>3. TRUE \in BOOLEAN
    OBVIOUS
  <2> QED BY <2>1, <2>2, <2>3, Zenon DEF Keyboard
<1> QED BY <1>1, <1>2, DefaultMapType DEF Inv, TypeOK, CommandInv, Rows

LEMMA RunInv == ASSUME Inv, NEW c \in Commands, Run(c) PROVE Inv'
<1>1. c \in Command /\ c # None
  BY CommandAssumption
<1>2. /\ exit' \in {"running", "failed"} /\ cmd' = c /\ pc' = 1 /\ row' = 0 /\ map' = DefaultMap /\ before' = fw
      /\ fw' = fw /\ plugged' = plugged
  BY DEF Run
<1>3. TypeOK'
  BY <1>2, DefaultMapType DEF Inv, TypeOK, Rows
<1>4. Past' = {}
  BY <1>2 DEF Past
<1>5. Control'
  <2>1. Len(Steps(c)) \in 1..5 /\ Steps(cmd') = Steps(c)
    BY <1>1, <1>2, StepsOf
  <2> QED BY <1>2, <2>1 DEF Control
<1>6. At("prepare")' <=> exit' = "running" /\ c.op \in {"actuation", "apply"}
  BY <1>1, <1>2, StepsOf DEF At
<1>7. Sound(c) /\ exit' = "running" => Progress'
  <2> HAVE Sound(c) /\ exit' = "running"
  <2>1. map' = IF At("prepare")' THEN DefaultMap ELSE Wanted(c)
    BY <1>1, <1>2, <1>6, FreshMap
  <2>2. ASSUME NEW step, NEW new, NEW old \in [Slots -> KeyByte]
        PROVE  [s \in Slots |-> IF step \in Past' \/ (At(step)' /\ RowOf(s) < row') THEN new[s] ELSE old[s]]
                 = old
    <3>1. \A s \in Slots : ~(RowOf(s) < row')
      BY <1>2, RowOfSlot DEF Rows
    <3> QED BY <1>4, <2>2, <3>1
  <2>3. fw.act \in [Slots -> KeyByte] /\ fw.down \in [Slots -> KeyByte] /\ fw.up \in [Slots -> KeyByte]
    BY Parts DEF Inv, TypeOK
  <2>5. /\ Sent("act", Wanted(cmd), before.act)' = fw.act
        /\ Sent("down", [s \in Slots |-> 0], before.down)' = fw.down
        /\ Sent("up", [s \in Slots |-> 0], before.up)' = fw.up
    <3>1. /\ Sent("act", Wanted(cmd), before.act)' = fw.act
      BY <1>2, <2>2, <2>3 DEF Sent
    <3>2. Sent("down", [s \in Slots |-> 0], before.down)' = fw.down
      BY <1>2, <2>2, <2>3 DEF Sent
    <3>3. Sent("up", [s \in Slots |-> 0], before.up)' = fw.up
      BY <1>2, <2>2, <2>3 DEF Sent
    <3> QED BY <3>1, <3>2, <3>3
  <2>4. fw = [act |-> fw.act, down |-> fw.down, up |-> fw.up, rt |-> fw.rt, turbo |-> fw.turbo, led |-> fw.led]
    BY Parts DEF Inv, TypeOK
  <2> QED BY <1>2, <1>4, <2>1, <2>4, <2>5, Zenon DEF Progress
<1>8. ~Sound(c) => Refused'
  BY <1>1, <1>2, <1>6, FreshMap DEF Refused
<1>9. CommandInv'
  BY <1>1, <1>2, <1>5, <1>7, <1>8 DEF CommandInv
<1> QED BY <1>3, <1>9 DEF Inv

-------------------------------------------------------------------------------
(* A call that returned Ok.                                                  *)
LEMMA Advancing ==
    ASSUME Inv, exit = "running", Advance, cmd' = cmd
    PROVE  /\ pc' \in 1..6 /\ row' = 0 /\ exit' \in {"running", "ok"}
           /\ Past' = Past \cup {Steps(cmd)[pc]}
           /\ Control' /\ ~At("prepare")'
<1>1. /\ cmd \in Command /\ pc \in 1..Len(Steps(cmd)) /\ Len(Steps(cmd)) \in 1..5
      /\ row' = 0 /\ pc' = pc + 1 /\ Steps(cmd') = Steps(cmd)
      /\ exit' = IF pc = Len(Steps(cmd)) THEN "ok" ELSE "running"
  BY Running DEF Advance
<1> DEFINE last == Len(Steps(cmd))
<1>2. Past' = {Steps(cmd)[i] : i \in 1..pc}
  BY <1>1 DEF Past
<1>3. 1..pc = 1..(pc - 1) \cup {pc}
  BY <1>1
<1>4. Past' = Past \cup {Steps(cmd)[pc]}
  BY <1>2, <1>3 DEF Past
<1> HIDE DEF last
<1>5. last \in 1..5 /\ pc \in 1..last /\ exit' = IF pc = last THEN "ok" ELSE "running"
  BY <1>1 DEF last
<1>6. Control'
  BY <1>1, <1>5 DEF Control, last
<1>7. ~At("prepare")'
  <2> SUFFICES ASSUME exit' = "running", Steps(cmd)[pc'] = "prepare" PROVE FALSE
    BY <1>1 DEF At
  <2>1. pc' \in 2..last
    BY <1>1, <1>5
  <2>2. pc' \in 1..Len(Steps(cmd)) /\ pc' # 1
    BY <1>5, <2>1 DEF last
  <2> QED BY <1>1, <2>2, StepsOf
<1> QED BY <1>1, <1>4, <1>5, <1>6, <1>7

LEMMA FlushStep ==
    ASSUME NEW r \in Rows, NEW new, NEW old, NEW pad, NEW sent,
           sent = [s \in Slots |-> IF RowOf(s) < r THEN new[s] ELSE old[s]]
    PROVE  /\ FlushRow(sent, new, r, pad) =
                [s \in Slots |-> IF RowOf(s) < r + 1 THEN new[s] ELSE old[s]]
           /\ r = 2 => FlushRow(sent, new, r, pad) = [s \in Slots |-> new[s]]
<1>1. FlushRow(sent, new, r, pad) = [s \in Slots |-> IF RowOf(s) = r THEN new[s] ELSE sent[s]]
  BY FlushRowEffect
<1>2. ASSUME NEW s \in Slots
      PROVE  /\ (IF RowOf(s) = r THEN new[s] ELSE sent[s]) = IF RowOf(s) < r + 1 THEN new[s] ELSE old[s]
             /\ r = 2 => RowOf(s) < r + 1
  BY RowOfSlot DEF Rows
<1> QED BY <1>1, <1>2

(* The packet of a flush that is not its last, and the one that is.          *)
LEMMA SentRow ==
    ASSUME Inv, exit = "running", NEW step, NEW new, NEW old, NEW pad,
           row' = row + 1, UNCHANGED <<cmd, pc, exit>>
    PROVE  [s \in Slots |-> IF step \in Past' \/ (At(step)' /\ RowOf(s) < row') THEN new[s] ELSE old[s]]
             = IF At(step) THEN FlushRow(Sent(step, new, old), new, row, pad) ELSE Sent(step, new, old)
<1>1. Past' = Past /\ At(step)' = At(step)
  BY DEF Past, At
<1>2. row \in Rows
  BY DEF Inv, TypeOK
<1>3. CASE At(step)
  <2>1. step \notin Past
    BY <1>3, Running DEF At
  <2>2. Sent(step, new, old) = [s \in Slots |-> IF RowOf(s) < row THEN new[s] ELSE old[s]]
    BY <1>3, <2>1 DEF Sent
  <2>3. FlushRow(Sent(step, new, old), new, row, pad) =
          [s \in Slots |-> IF RowOf(s) < row + 1 THEN new[s] ELSE old[s]]
    BY <1>2, <2>2, FlushStep
  <2> QED BY <1>1, <1>3, <2>1, <2>3
<1>4. CASE ~At(step)
  BY <1>1, <1>4 DEF Sent
<1> QED BY <1>3, <1>4

LEMMA SentLast ==
    ASSUME Inv, exit = "running", NEW step, NEW new, NEW old, NEW pad,
           Advance, cmd' = cmd, At(step) => row = 2
    PROVE  [s \in Slots |-> IF step \in Past' \/ (At(step)' /\ RowOf(s) < row') THEN new[s] ELSE old[s]]
             = IF At(step) THEN FlushRow(Sent(step, new, old), new, row, pad) ELSE Sent(step, new, old)
<1>1. Past' = Past \cup {Steps(cmd)[pc]} /\ row' = 0
  BY Advancing
<1>2. \A s \in Slots : ~(RowOf(s) < row')
  BY <1>1, RowOfSlot DEF Rows
<1>3. step \in Past' <=> step \in Past \/ At(step)
  BY <1>1 DEF At
<1>4. CASE At(step)
  <2>1. step \notin Past /\ row \in Rows
    BY <1>4, Running DEF At, Inv, TypeOK
  <2>2. Sent(step, new, old) = [s \in Slots |-> IF RowOf(s) < row THEN new[s] ELSE old[s]]
    BY <1>4, <2>1 DEF Sent
  <2>3. FlushRow(Sent(step, new, old), new, row, pad) = [s \in Slots |-> new[s]]
    BY <1>4, <2>1, <2>2, FlushStep
  <2> QED BY <1>3, <1>4, <2>3
<1>5. CASE ~At(step)
  BY <1>2, <1>3, <1>5 DEF Sent
<1> QED BY <1>4, <1>5

-------------------------------------------------------------------------------
\* A map's flush goes on, or a call is over.
LEMMA ProgressKept ==
    ASSUME Inv, exit = "running", Sound(cmd), cmd' = cmd, before' = before,
           ~At("prepare")', map' = Wanted(cmd), fw' = AfterPacket, AtWrite => map = Wanted(cmd),
           \/ IsFlush /\ row' = row + 1 /\ UNCHANGED <<pc, exit>>
           \/ Advance /\ (IsFlush => row = 2)
    PROVE  Progress'
<1> DEFINE zeros   == [s \in Slots |-> 0]
           toggles == WantedToggles(AsRequest(cmd), NameOf(cmd))
           after(step, new, old) ==
              [s \in Slots |-> IF step \in Past' \/ (At(step)' /\ RowOf(s) < row') THEN new[s] ELSE old[s]]
<1>1. ASSUME NEW step \in Flushes, NEW new, NEW old, NEW pad
      PROVE  after(step, new, old) =
               IF At(step) THEN FlushRow(Sent(step, new, old), new, row, pad) ELSE Sent(step, new, old)
  <2>1. CASE IsFlush /\ row' = row + 1 /\ UNCHANGED <<pc, exit>>
    BY <2>1, SentRow
  <2>2. CASE Advance /\ (IsFlush => row = 2)
    <3>1. At(step) => row = 2
      BY <1>1, <2>2 DEF IsFlush, Flushes
    <3> QED BY <2>2, <3>1, SentLast
  <2> QED BY <2>1, <2>2
<1>2. /\ fw.act = Sent("act", Wanted(cmd), before.act)
      /\ fw.down = Sent("down", zeros, before.down)
      /\ fw.up = Sent("up", zeros, before.up)
      /\ fw.rt = IF "toggles" \in Past THEN toggles.rt ELSE before.rt
      /\ fw.turbo = IF "toggles" \in Past THEN toggles.turbo ELSE before.turbo
      /\ fw.led = IF "led" \in Past THEN LedOff ELSE before.led
  <2>1. Progress
    BY Running
  <2>2. fw = [act   |-> Sent("act", Wanted(cmd), before.act),
              down  |-> Sent("down", zeros, before.down),
              up    |-> Sent("up", zeros, before.up),
              rt    |-> IF "toggles" \in Past THEN toggles.rt ELSE before.rt,
              turbo |-> IF "toggles" \in Past THEN toggles.turbo ELSE before.turbo,
              led   |-> IF "led" \in Past THEN LedOff ELSE before.led]
    BY <2>1, Zenon DEF Progress
  <2> QED BY <2>2
<1>3. ASSUME NEW step \in {"toggles", "led"} PROVE step \in Past' <=> step \in Past \/ At(step)
  <2>1. CASE IsFlush /\ row' = row + 1 /\ UNCHANGED <<pc, exit>>
    BY <1>3, <2>1 DEF Past, IsFlush, At
  <2>2. CASE Advance
    BY <2>2, Advancing DEF At
  <2> QED BY <2>1, <2>2
<1>4. after("act", Wanted(cmd), before.act) =
        IF At("act") THEN FlushRow(fw.act, map, row, DefaultActuation) ELSE fw.act
  BY <1>1, <1>2 DEF Flushes, AtWrite, IsFlush
<1>5. after("down", zeros, before.down) =
        IF At("down") THEN FlushRow(fw.down, zeros, row, 0) ELSE fw.down
  BY <1>1, <1>2 DEF Flushes
<1>6. after("up", zeros, before.up) =
        IF At("up") THEN FlushRow(fw.up, zeros, row, 0) ELSE fw.up
  BY <1>1, <1>2 DEF Flushes
<1>7. (IF "toggles" \in Past' THEN toggles.rt ELSE before.rt) = IF At("toggles") THEN toggles.rt ELSE fw.rt
  BY <1>2, <1>3
<1>8. (IF "toggles" \in Past' THEN toggles.turbo ELSE before.turbo) = IF At("toggles") THEN toggles.turbo ELSE fw.turbo
  BY <1>2, <1>3
<1>9. (IF "led" \in Past' THEN LedOff ELSE before.led) = IF At("led") THEN LedOff ELSE fw.led
  BY <1>2, <1>3
<1>10. fw' = [act   |-> after("act", Wanted(cmd), before.act),
              down  |-> after("down", zeros, before.down),
              up    |-> after("up", zeros, before.up),
              rt    |-> IF "toggles" \in Past' THEN toggles.rt ELSE before.rt,
              turbo |-> IF "toggles" \in Past' THEN toggles.turbo ELSE before.turbo,
              led   |-> IF "led" \in Past' THEN LedOff ELSE before.led]
  BY <1>4, <1>5, <1>6, <1>7, <1>8, <1>9, Zenon DEF AfterPacket
<1>11. map' = IF At("prepare")' THEN DefaultMap ELSE Wanted(cmd')
  OBVIOUS
<1> QED BY <1>10, <1>11, Zenon DEF Progress, Sent

-------------------------------------------------------------------------------
\* A step that writes nothing.
LEMMA NothingWritten ==
    ASSUME Inv, ~AtWrite
    PROVE  AfterPacket = fw
<1>1. ~At("act") /\ ~At("down") /\ ~At("up") /\ ~At("toggles") /\ ~At("led")
  BY DEF AtWrite, IsFlush
<1>2. fw = [act |-> fw.act, down |-> fw.down, up |-> fw.up, rt |-> fw.rt, turbo |-> fw.turbo, led |-> fw.led]
  BY Parts DEF Inv, TypeOK
<1> QED BY <1>1, <1>2, Zenon DEF AfterPacket

\* A call that failed.
LEMMA FailInv ==
    ASSUME Inv, exit = "running", Fail, UNCHANGED <<cmd, map, plugged, before>>,
           fw' \in Keyboard, ~Sound(cmd) => fw' = fw
    PROVE  Inv'
<1>1. exit' = "failed" /\ pc' = pc /\ row' = row
  BY DEF Fail
<1>2. cmd # None /\ (~Sound(cmd) => fw = before)
  BY Running
<1>3. TypeOK'
  BY <1>1 DEF Inv, TypeOK
<1>4. CommandInv'
  BY <1>1, <1>2 DEF CommandInv, Control, Refused
<1> QED BY <1>3, <1>4 DEF Inv

LEMMA AdvanceInv ==
    ASSUME Inv, exit = "running", Sound(cmd), Advance, IsFlush => row = 2, fw' = AfterPacket,
           map' = Wanted(cmd), AtWrite => map = Wanted(cmd), UNCHANGED <<cmd, plugged, before>>
    PROVE  Inv'
<1>1. pc' \in 1..6 /\ row' = 0 /\ exit' \in {"running", "ok"} /\ Control' /\ ~At("prepare")'
  BY Advancing
<1>2. cmd # None /\ cmd \in Command
  BY Running
<1>3. TypeOK'
  <2>1. fw' \in Keyboard /\ map' \in [Slots -> ActuationByte]
    BY <1>2, PacketType, WantedType
  <2> QED BY <1>1, <2>1 DEF Inv, TypeOK, Rows
<1>4. Progress'
  BY <1>1, ProgressKept
<1> QED BY <1>1, <1>2, <1>3, <1>4 DEF Inv, CommandInv

LEMMA PrepareInv == ASSUME Inv, Prepare PROVE Inv'
<1>1. exit = "running" /\ At("prepare") /\ UNCHANGED <<cmd, fw, plugged, before>>
  BY DEF Prepare, At
<1>2. ~AtWrite
  BY <1>1 DEF AtWrite, IsFlush, At
<1>3. CASE Sound(cmd)
  BY <1>1, <1>2, <1>3, NothingWritten, AdvanceInv DEF Prepare, AtWrite
<1>4. CASE ~Sound(cmd)
  <2>1. fw' \in Keyboard
    BY <1>1 DEF Inv, TypeOK
  <2> QED BY <1>1, <1>4, <2>1, FailInv DEF Prepare
<1> QED BY <1>3, <1>4

LEMMA IdentityInv == ASSUME Inv, Identity PROVE Inv'
<1>1. exit = "running" /\ At("identity") /\ UNCHANGED <<cmd, map, fw, plugged, before>>
  BY DEF Identity, At
<1>2. ~AtWrite /\ ~At("prepare")
  BY <1>1 DEF AtWrite, IsFlush, At
<1>3. Sound(cmd) /\ map = Wanted(cmd)
  BY <1>1, <1>2, Running DEF Progress
<1>4. CASE Advance
  BY <1>1, <1>2, <1>3, <1>4, NothingWritten, AdvanceInv DEF AtWrite
<1>5. CASE Fail
  <2>1. fw' \in Keyboard
    BY <1>1 DEF Inv, TypeOK
  <2> QED BY <1>1, <1>5, <2>1, FailInv
<1> QED BY <1>4, <1>5 DEF Identity

\* What is known at a write.
LEMMA Writing ==
    ASSUME Inv, AtWrite
    PROVE  exit = "running" /\ Sound(cmd) /\ map = Wanted(cmd) /\ ~At("prepare") /\ row \in 0..2
<1>1. exit = "running" /\ ~At("prepare")
  BY DEF AtWrite, IsFlush, At
<1>2. row \in 0..2
  BY DEF Inv, TypeOK, Rows
<1> QED BY <1>1, <1>2, Running DEF Progress

LEMMA WriteInv == ASSUME Inv, Write PROVE Inv'
<1>1. /\ AtWrite /\ exit = "running" /\ Sound(cmd) /\ map = Wanted(cmd) /\ ~At("prepare") /\ row \in 0..2
      /\ fw' = AfterPacket /\ UNCHANGED <<cmd, map, plugged, before>>
  BY Writing DEF Write
<1>2. CASE IsFlush /\ row < 2
  <2>1. row' = row + 1 /\ UNCHANGED <<pc, exit>>
    BY <1>2 DEF Write
  <2>2. fw' \in Keyboard
    BY <1>1, PacketType
  <2>3. TypeOK'
    BY <1>1, <1>2, <2>1, <2>2 DEF Inv, TypeOK, Rows
  <2>4. At("prepare")' = At("prepare") /\ IsFlush' = IsFlush
    BY <1>1, <2>1 DEF At, IsFlush
  <2>5. Progress'
    BY <1>1, <1>2, <2>1, <2>4, ProgressKept
  <2>6. cmd # None /\ Control
    BY <1>1, Running DEF Inv, CommandInv
  <2>7. Control'
    BY <1>1, <1>2, <2>1, <2>4, <2>6 DEF Control
  <2> QED BY <1>1, <2>1, <2>3, <2>5, <2>6, <2>7 DEF Inv, CommandInv
<1>3. CASE ~(IsFlush /\ row < 2)
  <2>1. Advance /\ (IsFlush => row = 2)
    BY <1>1, <1>3 DEF Write
  <2> QED BY <1>1, <2>1, AdvanceInv
<1> QED BY <1>2, <1>3

LEMMA WriteFailsInv == ASSUME Inv, WriteFails PROVE Inv'
<1>1. AtWrite /\ exit = "running" /\ Sound(cmd)
  BY Writing DEF WriteFails
<1>2. fw' \in Keyboard
  BY <1>1, PacketType DEF WriteFails, Inv, TypeOK
<1> QED BY <1>1, <1>2, FailInv DEF WriteFails, GiveUp

LEMMA StutterInv ==
    ASSUME Inv, UNCHANGED <<cmd, pc, row, exit, map, fw, before>>, plugged' \in BOOLEAN
    PROVE  Inv'
<1>1. TypeOK'
  BY DEF Inv, TypeOK
<1>2. /\ Past' = Past /\ \A step : At(step)' = At(step)
  BY DEF Past, At
<1>3. Control' = Control /\ Refused' = Refused
  BY <1>2 DEF Control, Refused, IsFlush
<1>4. Progress' = Progress
  BY <1>2, Zenon DEF Progress, Sent, Past, At
<1> QED BY <1>1, <1>3, <1>4 DEF Inv, CommandInv

LEMMA NextInv == Inv /\ [Next]_vars => Inv'
<1> SUFFICES ASSUME Inv, [Next]_vars PROVE Inv'
  OBVIOUS
<1>1. ASSUME NEW c \in Commands, Run(c) PROVE Inv'
  BY <1>1, RunInv
<1>2. CASE Plug
  BY <1>2, StutterInv DEF Plug
<1>3. CASE UNCHANGED vars
  BY <1>3, StutterInv DEF vars, Inv, TypeOK
<1> QED BY <1>1, <1>2, <1>3, PrepareInv, WriteInv, WriteFailsInv, IdentityInv DEF Next

(* The inductive invariant: a command that has not failed has done exactly   *)
(* the steps behind it, a refused one nothing.                               *)
THEOREM AlwaysInv == Spec => []Inv
BY InitInv, NextInv, PTL DEF Spec

(* The state components keep their types, whatever fails or is unplugged.    *)
THEOREM TypesHold == Spec => []TypeOK
<1>1. Inv => TypeOK
  BY DEF Inv
<1> QED BY <1>1, AlwaysInv, PTL

(* A command that ends well has done all it says and changed nothing else.   *)
THEOREM ExitStaysHonest == Spec => []ExitHonest
<1>1. Inv => ExitHonest
  <2> SUFFICES ASSUME Inv, exit = "ok", cmd # None
               PROVE  fw = Effect(before, DefaultMap, AsRequest(cmd), NameOf(cmd))
    BY DEF ExitHonest
  <2> DEFINE zeros   == [s \in Slots |-> 0]
             toggles == WantedToggles(AsRequest(cmd), NameOf(cmd))
             req     == AsRequest(cmd)
  <2>1. cmd \in Command /\ Sound(cmd) /\ Progress /\ pc = Len(Steps(cmd)) + 1
    BY CommandAssumption DEF Inv, TypeOK, CommandInv, Control, Refused
  <2>2. Past = {Steps(cmd)[i] : i \in 1..Len(Steps(cmd))}
    <3>1. Len(Steps(cmd)) \in Int
      BY <2>1, StepsOf
    <3>2. pc - 1 = Len(Steps(cmd))
      BY <2>1, <3>1
    <3> QED BY <3>2 DEF Past
  <2>3. /\ "act" \in Past <=> SetsMap(req)
        /\ "toggles" \in Past <=> SetsToggles(req)
        /\ "led" \in Past <=> SetsLed(req)
        /\ "down" \in Past <=> req.op = "Reset"
        /\ "up" \in Past <=> req.op = "Reset"
    BY <2>1, <2>2, AllSteps
  <2>4. ASSUME NEW step, NEW new, NEW old \in [Slots -> KeyByte]
        PROVE  Sent(step, new, old) = IF step \in Past THEN [s \in Slots |-> new[s]] ELSE old
    BY <2>4 DEF Sent, At
  <2>5. before \in Keyboard /\ Wanted(cmd) \in [Slots -> ActuationByte]
    BY <2>1, WantedType DEF Inv, TypeOK
  <2>6. /\ Sent("act", Wanted(cmd), before.act) = IF SetsMap(req) THEN Wanted(cmd) ELSE before.act
        /\ Sent("down", zeros, before.down) = IF req.op = "Reset" THEN zeros ELSE before.down
        /\ Sent("up", zeros, before.up) = IF req.op = "Reset" THEN zeros ELSE before.up
    BY <2>3, <2>4, <2>5, Parts
  <2>7. (IF "led" \in Past THEN LedOff ELSE before.led) = IF SetsLed(req) THEN WantedLed(req) ELSE before.led
    BY <2>1, <2>3 DEF WantedLed, AsRequest, Command
  <2> QED BY <2>1, <2>3, <2>6, <2>7, Zenon DEF Progress, Effect, Wanted
<1> QED BY <1>1, AlwaysInv, PTL

(* A command that cannot be carried out fails with the keyboard untouched.   *)
THEOREM RefusedStaysUntouched == Spec => []RefusedUntouched
<1>1. Inv => RefusedUntouched
  BY DEF Inv, CommandInv, Refused, RefusedUntouched
<1> QED BY <1>1, AlwaysInv, PTL
===============================================================================
