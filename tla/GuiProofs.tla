-------------------------------- MODULE GuiProofs -------------------------------
(***************************************************************************)
(* The native GUI: its panel shows the keyboard and writes files that mean *)
(* the same (GuiPanel), and a UI that says it is connected has a worker    *)
(* with a connection (GuiWorker), however the daemon comes and goes.       *)
(***************************************************************************)
EXTENDS GuiPanel, GuiWorker, PacketProofs

-------------------------------------------------------------------------------
(* The worker.                                                               *)

WorkerInv == TypeOK /\ ConnectedHasClient

LEMMA ClickedCommands ==
    ASSUME NEW sends \in Clicks \cup {<< >>}
    PROVE  sends \in Seq(Command) /\ Len(sends) \in Nat
<1>1. CASE sends = << >>
  BY <1>1
<1>2. CASE \E c \in Commands : sends = <<c>>
  BY <1>2, GuiAssumption
<1>3. CASE \E c \in Commands : sends = <<c, c>>
  BY <1>3, GuiAssumption
<1> QED BY <1>1, <1>2, <1>3 DEF Clicks

LEMMA WorkerInitInv == Init => WorkerInv
<1> SUFFICES ASSUME Init PROVE WorkerInv
  OBVIOUS
<1>1. starts \in Nat /\ (up => starts > 0)
  BY DEF Init
<1>2. TypeOK
  <2>1. up \in BOOLEAN /\ commands \in Seq(Command) /\ sent \in Nat
    BY DEF Init
  <2>2. client = None /\ fresh = None /\ pc = "connect" /\ news = None
    BY DEF Init
  <2>3. live \in BOOLEAN /\ uiConnected \in BOOLEAN /\ uiLive \in BOOLEAN
    BY DEF Init
  <2> QED BY <1>1, <2>1, <2>2, <2>3 DEF TypeOK
<1>3. ConnectedHasClient
  BY DEF Init, ConnectedHasClient, Shown
<1> QED BY <1>2, <1>3 DEF WorkerInv

LEMMA FrameInv ==
    ASSUME WorkerInv, NEW sends \in Clicks \cup {<< >>}, Frame(sends)
    PROVE  WorkerInv'
<1>1. UNCHANGED <<pc, client, fresh, live, up, starts>>
  BY DEF Frame, daemonVars
<1>2. commands' \in Seq(Command) /\ sent' \in Nat
  BY ClickedCommands DEF Frame, WorkerInv, TypeOK
<1>3. uiConnected' = Shown /\ news' = None
  BY DEF Frame
<1>4. Shown \in BOOLEAN /\ uiLive' \in BOOLEAN
  BY DEF Frame, Shown, WorkerInv, TypeOK
<1>5. TypeOK'
  BY <1>1, <1>2, <1>3, <1>4 DEF WorkerInv, TypeOK
<1>6. ConnectedHasClient'
  BY <1>1, <1>3 DEF WorkerInv, ConnectedHasClient, Shown
<1> QED BY <1>5, <1>6 DEF WorkerInv

LEMMA ConnectInv == ASSUME WorkerInv, Connect PROVE WorkerInv'
<1>1. pc = "connect" /\ UNCHANGED <<client, live, commands, uiConnected, uiLive, sent, up, starts>>
  BY DEF Connect, uiVars, daemonVars
<1>2. CASE up
  <2>1. pc' = "status" /\ fresh' = starts /\ news' = news
    BY <1>2 DEF Connect
  <2>2. starts \in Nat /\ starts # None /\ starts \in 1..starts
    BY <1>2, GuiAssumption DEF WorkerInv, TypeOK
  <2> QED BY <1>1, <2>1, <2>2 DEF WorkerInv, TypeOK, ConnectedHasClient, Shown
<1>3. CASE ~up
  <2>1. pc' = "top" /\ fresh' = None /\ news' = "Disconnected"
    BY <1>3 DEF Connect
  <2> QED BY <1>1, <2>1, GuiAssumption DEF WorkerInv, TypeOK, ConnectedHasClient, Shown
<1> QED BY <1>2, <1>3

LEMMA StatusInv == ASSUME WorkerInv, StatusAnswered \/ StatusRefused PROVE WorkerInv'
  BY GuiAssumption DEF WorkerInv, TypeOK, ConnectedHasClient, Shown, StatusAnswered, StatusRefused,
     Alive, uiVars, daemonVars

LEMMA DispatchInv ==
    ASSUME WorkerInv, StartConnect \/ SetLive \/ StartSet \/ StartDepths
    PROVE  WorkerInv'
<1>1. UNCHANGED <<client, fresh, news, uiVars, daemonVars>>
  BY DEF StartConnect, SetLive, StartSet, StartDepths
<1>2. commands' \in Seq(Command)
  BY DEF StartConnect, SetLive, StartSet, StartDepths, Next1, WorkerInv, TypeOK
<1>3. live' \in BOOLEAN
  BY DEF StartConnect, SetLive, StartSet, StartDepths, WorkerInv, TypeOK
<1>4. pc = "top" /\ pc' \in {"connect", "top", "set", "depths"}
      /\ (pc' \in {"set", "depths"} => client # None)
  BY DEF StartConnect, SetLive, StartSet, StartDepths, Next1, PollsDepths
<1> QED BY <1>1, <1>2, <1>3, <1>4 DEF WorkerInv, TypeOK, ConnectedHasClient, Shown, uiVars, daemonVars

LEMMA AnswerInv == ASSUME WorkerInv, Answered \/ RequestFails PROVE WorkerInv'
  BY GuiAssumption DEF WorkerInv, TypeOK, ConnectedHasClient, Shown, Answered, RequestFails,
     NewsOfFailure, LiveAfterFailure, uiVars, daemonVars

LEMMA DaemonStepInv == ASSUME WorkerInv, Stop \/ Start PROVE WorkerInv'
<1>1. UNCHANGED <<workerVars, uiVars>> /\ up' \in BOOLEAN /\ starts' \in {starts, starts + 1}
  BY DEF Stop, Start
<1>2. starts \in Nat
  BY DEF WorkerInv, TypeOK
<1>3. 1..starts \subseteq 1..starts' /\ starts' \in Nat /\ (up' => starts' > 0)
  BY <1>1, <1>2 DEF Stop, Start
<1> QED BY <1>1, <1>3 DEF WorkerInv, TypeOK, ConnectedHasClient, Shown, workerVars, uiVars

LEMMA WorkerNextInv == WorkerInv /\ [Next]_vars => WorkerInv'
<1> SUFFICES ASSUME WorkerInv, [Next]_vars PROVE WorkerInv'
  OBVIOUS
<1>1. CASE UNCHANGED vars
  BY <1>1 DEF WorkerInv, TypeOK, ConnectedHasClient, Shown, vars, workerVars, uiVars, daemonVars
<1>2. CASE Worker
  BY <1>2, ConnectInv, StatusInv, DispatchInv, AnswerInv DEF Worker
<1> QED BY <1>1, <1>2, FrameInv, DaemonStepInv DEF Next

(* The worker's state, its channels and the UI's copy of it keep their types.*)
THEOREM WorkerTypesHold == Spec => []TypeOK
<1>1. WorkerInv => TypeOK
  BY DEF WorkerInv
<1> QED BY <1>1, WorkerInitInv, WorkerNextInv, PTL DEF Spec

(* A UI that shows "Connected" once it has polled has a worker with a        *)
(* connection.                                                               *)
THEOREM ConnectedMeansClient == Spec => []ConnectedHasClient
<1>1. WorkerInv => ConnectedHasClient
  BY DEF WorkerInv
<1> QED BY <1>1, WorkerInitInv, WorkerNextInv, PTL DEF Spec

-------------------------------------------------------------------------------
(* The panel.                                                                *)

LEMMA BytesType ==
    ASSUME NEW m \in [Slots -> Distances]
    PROVE  Bytes(m) \in [Slots -> ActuationByte]
<1>1. \A s \in Slots : m[s] \in Int
  BY PanelAssumption
<1> QED BY <1>1, MmToByteRange DEF Bytes

(* The panel's default of 2.0 mm is the controller's.                        *)
LEMMA DefaultByte == MmToByte(Default) = DefaultActuation
  BY DEF MmToByte, RoundTenths, Default, DefaultActuation, ActuationMin, ActuationMax

LEMMA DefaultByteType == [s \in Slots |-> DefaultActuation] \in [Slots -> ActuationByte]
  BY DEF DefaultActuation, ActuationByte, ActuationMin, ActuationMax

LEMMA OrderType ==
    ASSUME NEW c \in Order
    PROVE  /\ c.op \in {"map", "toggles", "reset", "status"}
           /\ c.op = "map" => c.values \in [Slots -> Distances]
           /\ c.op = "toggles" => c.toggles \in Settings
           /\ ActOf(c) \in [Slots -> ActuationByte]
           /\ TogglesOf(c) \in Settings
<1>1. /\ c.op \in {"map", "toggles", "reset", "status"}
      /\ c.op = "map" => c.values \in [Slots -> Distances]
      /\ c.op = "toggles" => c.toggles \in Settings
  BY DEF Order
<1> QED BY <1>1, BytesType, DefaultByteType, PanelAssumption DEF ActOf, TogglesOf

LEMMA ProfileType ==
    ASSUME NEW profile \in Profile
    PROVE  /\ profile.act \in Distances /\ profile.toggles \in Settings
           /\ DOMAIN profile.keys \subseteq Named
           /\ \A s \in DOMAIN profile.keys : profile.keys[s] \in Distances
<1>1. /\ profile.act \in Distances /\ profile.toggles \in Settings
      /\ profile.keys \in UNION {[D -> Distances] : D \in SUBSET Named}
  BY DEF Profile
<1>2. PICK D \in SUBSET Named : profile.keys \in [D -> Distances]
  BY <1>1
<1> QED BY <1>1, <1>2

LEMMA KeyboardType ==
    ASSUME PanelTypeOK
    PROVE  /\ keyboard = [act |-> keyboard.act, toggles |-> keyboard.toggles]
           /\ keyboard.act \in [Slots -> ActuationByte] /\ keyboard.toggles \in Settings
  BY DEF PanelTypeOK

LEMMA PanelInitInv == PanelInit => PanelInv
<1> SUFFICES ASSUME PanelInit PROVE PanelInv
  OBVIOUS
<1>1. actuation \in [Slots -> Distances] /\ toggles \in Settings /\ globalMm \in Distances
  BY PanelAssumption DEF PanelInit
<1>2. file \in Profile
  <2>1. << >> \in [{} -> Distances]
    OBVIOUS
  <2>2. << >> \in UNION {[D -> Distances] : D \in SUBSET Named}
    BY <2>1
  <2> QED BY <2>2, PanelAssumption DEF PanelInit, Profile
<1>3. keyboard \in [act : [Slots -> ActuationByte], toggles : Settings]
  BY DEF PanelInit, ActuationByte, ActuationMin, ActuationMax
<1>4. underway \in Seq(Order) /\ Len(underway) <= MaxQueue /\ status = << >>
  BY PanelAssumption DEF PanelInit
<1>5. mapSynced = FALSE /\ togglesSynced = FALSE /\ overtaken = FALSE /\ origin = "edited"
  BY DEF PanelInit
<1>6. PanelTypeOK
  BY <1>1, <1>2, <1>3, <1>4, <1>5 DEF PanelTypeOK
<1>7. FileIsPanel
  BY <1>5 DEF FileIsPanel
<1> QED BY <1>4, <1>5, <1>6, <1>7 DEF PanelInv

\* An edit of the map, or of the toggles: what it does not edit stays as it is.
LEMMA EditInv ==
    ASSUME PanelInv, Edit, actuation' \in [Slots -> Distances], toggles' \in Settings,
           globalMm' \in Distances,
           mapSynced' = FALSE \/ UNCHANGED <<actuation, mapSynced>>,
           togglesSynced' = FALSE \/ UNCHANGED <<toggles, togglesSynced>>
    PROVE  PanelInv'
<1>1. origin' = "edited" /\ UNCHANGED <<file, underway, status, keyboard, overtaken>>
  BY DEF Edit
<1>2. PanelTypeOK'
  BY <1>1 DEF PanelInv, PanelTypeOK
<1>3. FileIsPanel'
  BY <1>1 DEF FileIsPanel
<1>4. mapSynced' => UnderwayAct'
  BY <1>1 DEF PanelInv, UnderwayAct
<1>5. togglesSynced' => UnderwayToggles'
  BY <1>1 DEF PanelInv, UnderwayToggles
<1> QED BY <1>1, <1>2, <1>3, <1>4, <1>5 DEF PanelInv

LEMMA EditsInv == ASSUME PanelInv, SetAll \/ ApplyToSelection \/ Toggle PROVE PanelInv'
<1>1. actuation \in [Slots -> Distances] /\ toggles \in Settings /\ globalMm \in Distances
  BY DEF PanelInv, PanelTypeOK
<1>2. CASE SetAll
  BY <1>1, <1>2, EditInv DEF SetAll, EditMap
<1>3. CASE ApplyToSelection
  BY <1>1, <1>3, EditInv DEF ApplyToSelection, EditMap
<1>4. CASE Toggle
  BY <1>1, <1>4, EditInv DEF Toggle
<1> QED BY <1>2, <1>3, <1>4

LEMMA SlideInv ==
    ASSUME PanelInv, Slide \/ UNCHANGED panelState
    PROVE  PanelInv'
<1>1. /\ UNCHANGED <<actuation, toggles, file, underway, status, keyboard, history>>
      /\ globalMm' \in Distances
  BY DEF Slide, panelState, panelVars, PanelInv, PanelTypeOK
<1>2. PanelTypeOK' /\ FileIsPanel'
  BY <1>1 DEF PanelInv, PanelTypeOK, FileIsPanel, history
<1> QED BY <1>1, <1>2 DEF PanelInv, UnderwayAct, UnderwayToggles, history

-------------------------------------------------------------------------------
LEMMA ApplyInv == ASSUME PanelInv, ApplyToKeyboard PROVE PanelInv'
<1> DEFINE sends == <<[op |-> "map", values |-> actuation], Toggles>>
           n     == Len(underway)
<1>1. /\ UNCHANGED <<panelVars, file, status, keyboard, overtaken, origin>>
      /\ mapSynced' = TRUE /\ togglesSynced' = TRUE
      /\ underway' = underway \o sends /\ n + 2 <= MaxQueue
  BY DEF ApplyToKeyboard, Send
<1>2. underway \in Seq(Order) /\ n \in Nat
  BY DEF PanelInv, PanelTypeOK
<1>3. sends \in Seq(Order)
  BY DEF PanelInv, PanelTypeOK, Order, Toggles
<1>4. /\ underway' \in Seq(Order) /\ Len(underway') = n + 2
      /\ underway'[n + 1] = sends[1] /\ underway'[n + 2] = sends[2]
  BY <1>1, <1>2, <1>3
<1> HIDE DEF n
<1>5. PanelTypeOK' /\ FileIsPanel'
  BY <1>1, <1>2, <1>4 DEF PanelInv, PanelTypeOK, FileIsPanel, panelVars
<1>6. 1..Len(underway') = 1..n \cup {n + 1, n + 2}
  BY <1>2, <1>4
<1>7. /\ SetsAct(underway'[n + 1]) /\ ActOf(underway'[n + 1]) = Bytes(actuation)
      /\ ~SetsAct(underway'[n + 2]) /\ ~SetsToggles(underway'[n + 1])
      /\ SetsToggles(underway'[n + 2]) /\ TogglesOf(underway'[n + 2]) = toggles
  BY <1>4 DEF SetsAct, ActOf, SetsToggles, TogglesOf, Toggles
<1>8. UnderwayAct'
  <2>1. \A i \in 1..n : n + 1 \in (i + 1)..Len(underway')
    BY <1>2, <1>4
  <2> QED BY <1>1, <1>6, <1>7, <2>1 DEF UnderwayAct, ActUnderway, panelVars
<1>9. UnderwayToggles'
  <2>1. \A i \in 1..n : n + 2 \in (i + 1)..Len(underway')
    BY <1>2, <1>4
  <2> QED BY <1>1, <1>6, <1>7, <2>1 DEF UnderwayToggles, TogglesUnderway, panelVars
<1> QED BY <1>1, <1>5, <1>8, <1>9 DEF PanelInv

LEMMA RestoreInv == ASSUME PanelInv, RestoreDefaults PROVE PanelInv'
<1> DEFINE order == [op |-> "reset"]
           n     == Len(underway)
<1>1. /\ UNCHANGED <<globalMm, file, status, keyboard, overtaken>> /\ origin' = "edited"
      /\ mapSynced' = TRUE /\ togglesSynced' = TRUE
      /\ underway' = underway \o <<order>> /\ n + 1 <= MaxQueue
      /\ actuation' = [s \in Slots |-> Default] /\ toggles' = Off
  BY DEF RestoreDefaults, Send, ResetPanel
<1>2. underway \in Seq(Order) /\ n \in Nat /\ order \in Order
  BY DEF PanelInv, PanelTypeOK, Order
<1>4. /\ underway' \in Seq(Order) /\ Len(underway') = n + 1 /\ underway'[n + 1] = order
  BY <1>1, <1>2
<1> HIDE DEF n
<1>5. PanelTypeOK' /\ FileIsPanel'
  BY <1>1, <1>2, <1>4, PanelAssumption DEF PanelInv, PanelTypeOK, FileIsPanel
<1>6. 1..Len(underway') = 1..n \cup {n + 1} /\ \A i \in 1..n : n + 1 \in (i + 1)..Len(underway')
  BY <1>2, <1>4
<1>7. Bytes(actuation') = [s \in Slots |-> DefaultActuation]
  BY <1>1, DefaultByte DEF Bytes
<1>8. /\ SetsAct(underway'[n + 1]) /\ ActOf(underway'[n + 1]) = Bytes(actuation')
      /\ SetsToggles(underway'[n + 1]) /\ TogglesOf(underway'[n + 1]) = toggles'
  BY <1>1, <1>4, <1>7 DEF SetsAct, ActOf, SetsToggles, TogglesOf
<1>9. UnderwayAct' /\ UnderwayToggles'
  BY <1>6, <1>8 DEF UnderwayAct, UnderwayToggles, ActUnderway, TogglesUnderway
<1> QED BY <1>1, <1>5, <1>9 DEF PanelInv

\* A command that sets no map, and the toggles only to the panel's.
LEMMA SendInv ==
    ASSUME PanelInv, NEW order \in Order, Send(<<order>>), ~SetsAct(order),
           SetsToggles(order) => TogglesOf(order) = toggles,
           UNCHANGED <<panelVars, file, status, keyboard, mapSynced, overtaken, origin>>,
           togglesSynced' \in BOOLEAN, togglesSynced' => togglesSynced \/ SetsToggles(order)
    PROVE  PanelInv'
<1> DEFINE n == Len(underway)
<1>1. underway' = underway \o <<order>> /\ n + 1 <= MaxQueue
  BY DEF Send
<1>2. underway \in Seq(Order) /\ n \in Nat
  BY DEF PanelInv, PanelTypeOK
<1>3. /\ underway' \in Seq(Order) /\ Len(underway') = n + 1 /\ underway'[n + 1] = order
      /\ \A i \in 1..n : underway'[i] = underway[i]
  BY <1>1, <1>2
<1>4. n = Len(underway)
  OBVIOUS
<1> HIDE DEF n
<1>5. PanelTypeOK' /\ FileIsPanel'
  BY <1>1, <1>2, <1>3 DEF PanelInv, PanelTypeOK, FileIsPanel, panelVars
<1>6. /\ 1..Len(underway') = 1..n \cup {n + 1}
      /\ \A i \in 1..n : n + 1 \in (i + 1)..Len(underway') /\ (i + 1)..n \subseteq (i + 1)..Len(underway')
                         /\ (i + 1)..n \subseteq 1..n
  BY <1>2, <1>3
<1>7. UnderwayAct => UnderwayAct'
  <2> HAVE UnderwayAct
  <2>1. \A i \in 1..Len(underway') : SetsAct(underway'[i]) => i \in 1..n
    BY <1>3, <1>6
  <2>2. ASSUME NEW i \in 1..n, SetsAct(underway[i])
        PROVE  \/ ActOf(underway[i]) = Bytes(actuation)
               \/ \E j \in (i + 1)..Len(underway') : SetsAct(underway'[j])
    BY <1>3, <1>4, <1>6, <2>2 DEF UnderwayAct
  <2>3. keyboard.act = Bytes(actuation) \/ ActUnderway(underway')
    BY <1>3, <1>4, <1>6 DEF UnderwayAct, ActUnderway
  <2> QED BY <1>3, <2>1, <2>2, <2>3 DEF UnderwayAct, panelVars
<1>8. UnderwayToggles => UnderwayToggles'
  <2> HAVE UnderwayToggles
  <2>2. ASSUME NEW i \in 1..n, SetsToggles(underway[i])
        PROVE  \/ TogglesOf(underway[i]) = toggles
               \/ \E j \in (i + 1)..Len(underway') : SetsToggles(underway'[j])
    BY <1>3, <1>4, <1>6, <2>2 DEF UnderwayToggles
  <2>3. keyboard.toggles = toggles \/ TogglesUnderway(underway')
    BY <1>3, <1>4, <1>6 DEF UnderwayToggles, TogglesUnderway
  <2> QED BY <1>3, <1>6, <2>2, <2>3 DEF UnderwayToggles, panelVars
<1>9. SetsToggles(order) => UnderwayToggles'
  BY <1>3, <1>6 DEF UnderwayToggles, TogglesUnderway, panelVars
<1> QED BY <1>5, <1>7, <1>8, <1>9 DEF PanelInv

LEMMA SmallSendsInv == ASSUME PanelInv, ApplyToggles \/ Refresh PROVE PanelInv'
<1>1. CASE ApplyToggles
  <2>1. /\ Toggles \in Order /\ ~SetsAct(Toggles)
        /\ SetsToggles(Toggles) /\ TogglesOf(Toggles) = toggles
    BY DEF Toggles, Order, SetsAct, SetsToggles, TogglesOf, PanelInv, PanelTypeOK
  <2>2. Send(<<Toggles>>) /\ togglesSynced' = TRUE
        /\ UNCHANGED <<panelVars, file, status, keyboard, mapSynced, overtaken, origin>>
    BY <1>1 DEF ApplyToggles
  <2> QED BY <2>1, <2>2, SendInv
<1>2. CASE Refresh
  <2>1. [op |-> "status"] \in Order /\ ~SetsAct([op |-> "status"]) /\ ~SetsToggles([op |-> "status"])
    BY DEF Order, SetsAct, SetsToggles
  <2>2. Send(<<[op |-> "status"]>>) /\ togglesSynced' = togglesSynced
        /\ UNCHANGED <<panelVars, file, status, keyboard, mapSynced, overtaken, origin>>
    BY <1>2 DEF Refresh, history
  <2>3. togglesSynced' \in BOOLEAN
    BY <2>2 DEF PanelInv, PanelTypeOK
  <2> QED BY <2>1, <2>2, <2>3, SendInv
<1> QED BY <1>1, <1>2

-------------------------------------------------------------------------------
LEMMA LoadInv == ASSUME PanelInv, Load PROVE PanelInv'
<1>1. /\ file' \in Profile /\ actuation' = LoadedMap(file') /\ toggles' = file'.toggles
      /\ globalMm' = file'.act /\ mapSynced' = FALSE /\ togglesSynced' = FALSE
      /\ origin' = "loaded" /\ UNCHANGED <<underway, status, keyboard, overtaken>>
  BY PanelAssumption DEF Load, PanelInv, PanelTypeOK
<1>2. actuation' \in [Slots -> Distances]
  BY <1>1, ProfileType DEF LoadedMap
<1>3. PanelTypeOK'
  BY <1>1, <1>2, ProfileType DEF PanelInv, PanelTypeOK
<1>4. FileIsPanel'
  <2>1. \A s \in Named : actuation'[s] = IF s \in DOMAIN file'.keys THEN file'.keys[s] ELSE file'.act
    BY <1>1, PanelAssumption DEF LoadedMap
  <2>2. DaemonMap(file') = [s \in Named |-> MmToByte(actuation'[s])]
    BY <2>1 DEF DaemonMap
  <2> QED BY <1>1, <2>2 DEF FileIsPanel
<1> QED BY <1>1, <1>3, <1>4 DEF PanelInv

LEMMA SaveInv == ASSUME PanelInv, Save PROVE PanelInv'
<1>1. /\ file' = BuildProfile /\ origin' = "saved"
      /\ UNCHANGED <<panelVars, underway, status, keyboard, mapSynced, togglesSynced, overtaken>>
  BY DEF Save
<1>2. actuation \in [Slots -> Distances] /\ toggles \in Settings /\ globalMm \in Distances
  BY DEF PanelInv, PanelTypeOK
<1>3. [s \in Named |-> actuation[s]] \in UNION {[D -> Distances] : D \in SUBSET Named}
  <2>1. [s \in Named |-> actuation[s]] \in [Named -> Distances]
    BY <1>2, PanelAssumption
  <2> QED BY <2>1
<1>4. file' \in Profile
  BY <1>1, <1>2, <1>3 DEF BuildProfile, Profile
<1>5. PanelTypeOK'
  BY <1>1, <1>4 DEF PanelInv, PanelTypeOK, panelVars
<1>6. FileIsPanel'
  BY <1>1 DEF FileIsPanel, DaemonTakes, DaemonMap, BuildProfile, panelVars
<1>7. UNCHANGED <<actuation, toggles, underway, status, keyboard, mapSynced, togglesSynced, overtaken>>
  BY <1>1 DEF panelVars
<1> QED BY <1>5, <1>6, <1>7 DEF PanelInv, UnderwayAct, UnderwayToggles

LEMMA DrainInv == ASSUME PanelInv, Drain PROVE PanelInv'
<1>1. /\ status # << >> /\ toggles' = status[1] /\ status' = << >>
      /\ UNCHANGED <<actuation, globalMm, file, underway, keyboard, mapSynced, overtaken>>
  BY Zenon DEF Drain
<1>2. togglesSynced' = \/ ~overtaken /\ ~TogglesUnderway(underway)
                       \/ togglesSynced /\ toggles = status[1]
  BY Zenon DEF Drain
<1>3. origin' = IF toggles = status[1] THEN origin ELSE "edited"
  BY Zenon DEF Drain
<1>4. toggles' \in Settings
  BY <1>1 DEF PanelInv, PanelTypeOK
<1>5. PanelTypeOK'
  <2>1. togglesSynced' \in BOOLEAN
    BY <1>2, Zenon
  <2> QED BY <1>1, <1>3, <1>4, <2>1 DEF PanelInv, PanelTypeOK
<1>6. FileIsPanel'
  BY <1>1, <1>3 DEF PanelInv, FileIsPanel
<1>7. ASSUME togglesSynced' PROVE UnderwayToggles'
  <2>1. CASE ~overtaken /\ ~TogglesUnderway(underway)
    <3>1. keyboard.toggles = toggles'
      BY <1>1, <2>1 DEF PanelInv
    <3> QED BY <1>1, <2>1, <3>1 DEF UnderwayToggles, TogglesUnderway
  <2>2. CASE togglesSynced /\ toggles = status[1]
    BY <1>1, <2>2 DEF PanelInv, UnderwayToggles
  <2> QED BY <1>2, <1>7, <2>1, <2>2, Zenon
<1>8. mapSynced' => UnderwayAct'
  BY <1>1 DEF PanelInv, UnderwayAct
<1> QED BY <1>1, <1>5, <1>6, <1>7, <1>8 DEF PanelInv

-------------------------------------------------------------------------------
\* The first command leaves the queue.
LEMMA TailOrders ==
    ASSUME PanelInv, underway # << >>, underway' = Tail(underway)
    PROVE  /\ Len(underway) \in Nat \ {0} /\ Len(underway') = Len(underway) - 1
           /\ underway' \in Seq(Order) /\ Head(underway) = underway[1] /\ Head(underway) \in Order
           /\ \A i \in 1..Len(underway') :
                i + 1 \in 1..Len(underway) /\ underway'[i] = underway[i + 1]
           /\ Len(underway') <= MaxQueue
<1>1. underway \in Seq(Order) /\ Len(underway) <= MaxQueue
  BY DEF PanelInv, PanelTypeOK
<1>2. /\ Len(underway) \in Nat \ {0} /\ Head(underway) = underway[1] /\ Head(underway) \in Order
      /\ underway' \in Seq(Order) /\ Len(underway') = Len(underway) - 1
      /\ \A i \in 1..Len(underway') : underway'[i] = underway[i + 1]
  BY <1>1
<1>3. \A i \in 1..Len(underway') : i + 1 \in 1..Len(underway)
  BY <1>2
<1>4. Len(underway') <= MaxQueue
  BY <1>1, <1>2, PanelAssumption
<1> QED BY <1>2, <1>3, <1>4

LEMMA TailAct ==
    ASSUME PanelInv, underway # << >>, underway' = Tail(underway), UnderwayAct, UNCHANGED actuation,
           \/ keyboard'.act = IF SetsAct(Head(underway)) THEN ActOf(Head(underway)) ELSE keyboard.act
           \/ ActUnderway(underway')
    PROVE  UnderwayAct'
<1> DEFINE c == Head(underway) m == Len(underway) n == Len(underway')
<1>1. /\ m \in Nat \ {0} /\ n \in Nat /\ m = n + 1 /\ c = underway[1]
      /\ \A i \in 1..n : i + 1 \in 1..m /\ underway'[i] = underway[i + 1]
  BY TailOrders
<1>2. m = Len(underway) /\ n = Len(underway') /\ c = Head(underway)
  OBVIOUS
<1> HIDE DEF m, n, c
<1>3. /\ \A i \in 1..n : \A j \in ((i + 1) + 1)..m : j - 1 \in (i + 1)..n /\ j - 1 \in 1..n /\ (j - 1) + 1 = j
      /\ \A j \in 2..m : j - 1 \in 1..n /\ (j - 1) + 1 = j
      /\ 1..m = {1} \cup 2..m
      /\ (1 + 1)..m = 2..m
  BY <1>1
<1>4. ASSUME NEW i \in 1..n, SetsAct(underway'[i])
      PROVE  \/ ActOf(underway'[i]) = Bytes(actuation)
             \/ \E j \in (i + 1)..n : SetsAct(underway'[j])
  <2>1. SetsAct(underway[i + 1])
    BY <1>1, <1>4
  <2>2. CASE ActOf(underway[i + 1]) = Bytes(actuation)
    BY <1>1, <2>2
  <2>3. CASE \E j \in ((i + 1) + 1)..m : SetsAct(underway[j])
    <3>1. PICK j \in ((i + 1) + 1)..m : SetsAct(underway[j])
      BY <2>3
    <3>2. j - 1 \in (i + 1)..n /\ j - 1 \in 1..n /\ (j - 1) + 1 = j
      BY <1>3
    <3>3. SetsAct(underway'[j - 1])
      BY <1>1, <3>1, <3>2
    <3> QED BY <3>2, <3>3
  <2> QED BY <1>1, <1>2, <2>1, <2>2, <2>3 DEF UnderwayAct
<1>5. keyboard'.act = Bytes(actuation) \/ ActUnderway(underway')
  <2>1. CASE \E j \in 2..m : SetsAct(underway[j])
    <3>1. PICK j \in 2..m : SetsAct(underway[j])
      BY <2>1
    <3>2. j - 1 \in 1..n /\ underway'[j - 1] = underway[j]
      BY <1>1, <1>3
    <3> QED BY <1>2, <3>1, <3>2 DEF ActUnderway
  <2>2. CASE (~\E j \in 2..m : SetsAct(underway[j])) /\ ~ActUnderway(underway')
    <3>1. keyboard'.act = IF SetsAct(c) THEN ActOf(c) ELSE keyboard.act
      BY <1>2, <2>2
    <3>2. CASE SetsAct(c)
      <4>1. ActOf(c) = Bytes(actuation)
        BY <1>1, <1>2, <1>3, <2>2, <3>2 DEF UnderwayAct
      <4> QED BY <3>1, <3>2, <4>1
    <3>3. CASE ~SetsAct(c)
      BY <1>1, <1>2, <1>3, <2>2, <3>1, <3>3 DEF UnderwayAct, ActUnderway
    <3> QED BY <3>2, <3>3
  <2> QED BY <2>1, <2>2
<1> QED BY <1>2, <1>4, <1>5 DEF UnderwayAct

LEMMA TailToggles ==
    ASSUME PanelInv, underway # << >>, underway' = Tail(underway), UnderwayToggles, UNCHANGED toggles,
           \/ keyboard'.toggles = IF SetsToggles(Head(underway)) THEN TogglesOf(Head(underway)) ELSE keyboard.toggles
           \/ TogglesUnderway(underway')
    PROVE  UnderwayToggles'
<1> DEFINE c == Head(underway) m == Len(underway) n == Len(underway')
<1>1. /\ m \in Nat \ {0} /\ n \in Nat /\ m = n + 1 /\ c = underway[1]
      /\ \A i \in 1..n : i + 1 \in 1..m /\ underway'[i] = underway[i + 1]
  BY TailOrders
<1>2. m = Len(underway) /\ n = Len(underway') /\ c = Head(underway)
  OBVIOUS
<1> HIDE DEF m, n, c
<1>3. /\ \A i \in 1..n : \A j \in ((i + 1) + 1)..m : j - 1 \in (i + 1)..n /\ j - 1 \in 1..n /\ (j - 1) + 1 = j
      /\ \A j \in 2..m : j - 1 \in 1..n /\ (j - 1) + 1 = j
      /\ 1..m = {1} \cup 2..m
      /\ (1 + 1)..m = 2..m
  BY <1>1
<1>4. ASSUME NEW i \in 1..n, SetsToggles(underway'[i])
      PROVE  \/ TogglesOf(underway'[i]) = toggles
             \/ \E j \in (i + 1)..n : SetsToggles(underway'[j])
  <2>1. SetsToggles(underway[i + 1])
    BY <1>1, <1>4
  <2>2. CASE TogglesOf(underway[i + 1]) = toggles
    BY <1>1, <2>2
  <2>3. CASE \E j \in ((i + 1) + 1)..m : SetsToggles(underway[j])
    <3>1. PICK j \in ((i + 1) + 1)..m : SetsToggles(underway[j])
      BY <2>3
    <3>2. j - 1 \in (i + 1)..n /\ j - 1 \in 1..n /\ (j - 1) + 1 = j
      BY <1>3
    <3>3. SetsToggles(underway'[j - 1])
      BY <1>1, <3>1, <3>2
    <3> QED BY <3>2, <3>3
  <2> QED BY <1>1, <1>2, <2>1, <2>2, <2>3 DEF UnderwayToggles
<1>5. keyboard'.toggles = toggles \/ TogglesUnderway(underway')
  <2>1. CASE \E j \in 2..m : SetsToggles(underway[j])
    <3>1. PICK j \in 2..m : SetsToggles(underway[j])
      BY <2>1
    <3>2. j - 1 \in 1..n /\ underway'[j - 1] = underway[j]
      BY <1>1, <1>3
    <3> QED BY <1>2, <3>1, <3>2 DEF TogglesUnderway
  <2>2. CASE (~\E j \in 2..m : SetsToggles(underway[j])) /\ ~TogglesUnderway(underway')
    <3>1. keyboard'.toggles = IF SetsToggles(c) THEN TogglesOf(c) ELSE keyboard.toggles
      BY <1>2, <2>2
    <3>2. CASE SetsToggles(c)
      <4>1. TogglesOf(c) = toggles
        BY <1>1, <1>2, <1>3, <2>2, <3>2 DEF UnderwayToggles
      <4> QED BY <3>1, <3>2, <4>1
    <3>3. CASE ~SetsToggles(c)
      BY <1>1, <1>2, <1>3, <2>2, <3>1, <3>3 DEF UnderwayToggles, TogglesUnderway
    <3> QED BY <3>2, <3>3
  <2> QED BY <2>1, <2>2
<1> QED BY <1>2, <1>4, <1>5 DEF UnderwayToggles

LEMMA ExecuteFailsInv == ASSUME PanelInv, ExecuteFails PROVE PanelInv'
<1> DEFINE c == Head(underway)
<1>1. /\ underway # << >> /\ underway' = Tail(underway)
      /\ UNCHANGED <<panelVars, file, status, origin>>
  BY DEF ExecuteFails
<1>2. PICK rows \in Rows \cup {3}, reached \in BOOLEAN :
        keyboard' = [act     |-> [s \in Slots |-> IF SetsAct(c) /\ RowOf(s) < rows
                                                  THEN ActOf(c)[s] ELSE keyboard.act[s]],
                     toggles |-> IF SetsToggles(c) /\ reached
                                 THEN TogglesOf(c) ELSE keyboard.toggles]
  BY DEF ExecuteFails
<1>3. /\ mapSynced' = (mapSynced /\ (SetsAct(c) => ActUnderway(underway')))
      /\ togglesSynced' = (togglesSynced /\ (SetsToggles(c) => TogglesUnderway(underway')))
      /\ overtaken' = (overtaken \/ SetsToggles(c))
  BY Zenon DEF ExecuteFails
<1>4. /\ c \in Order
      /\ keyboard.act \in [Slots -> ActuationByte] /\ keyboard.toggles \in Settings
  BY <1>1, TailOrders, KeyboardType DEF PanelInv
<1>5. /\ ~SetsAct(c) => keyboard'.act = keyboard.act
      /\ ~SetsToggles(c) => keyboard'.toggles = keyboard.toggles
  BY <1>2, <1>4
<1>6. PanelTypeOK'
  <2>1. keyboard' \in [act : [Slots -> ActuationByte], toggles : Settings]
    BY <1>2, <1>4, OrderType
  <2>2. mapSynced' \in BOOLEAN /\ togglesSynced' \in BOOLEAN /\ overtaken' \in BOOLEAN
    <3>1. overtaken \in BOOLEAN
      BY DEF PanelInv, PanelTypeOK
    <3> QED BY <1>3, <3>1, Zenon
  <2> QED BY <1>1, TailOrders, <2>1, <2>2 DEF PanelInv, PanelTypeOK, panelVars
<1>7. FileIsPanel'
  BY <1>1 DEF PanelInv, FileIsPanel, panelVars
<1>8. ASSUME mapSynced' PROVE UnderwayAct'
  <2>1. mapSynced /\ (SetsAct(c) => ActUnderway(underway'))
    BY <1>3, <1>8
  <2> QED BY <1>1, <1>5, <2>1, TailAct DEF PanelInv, panelVars
<1>9. ASSUME togglesSynced' PROVE UnderwayToggles'
  <2>1. togglesSynced /\ (SetsToggles(c) => TogglesUnderway(underway'))
    BY <1>3, <1>9
  <2> QED BY <1>1, <1>5, <2>1, TailToggles DEF PanelInv, panelVars
<1>10. ASSUME status' # << >>, ~overtaken' PROVE status'[1] = keyboard'.toggles
  <2>1. ~overtaken /\ ~SetsToggles(c)
    BY <1>3, <1>10
  <2> QED BY <1>1, <1>5, <1>10, <2>1 DEF PanelInv
<1> QED BY <1>6, <1>7, <1>8, <1>9, <1>10 DEF PanelInv

LEMMA ExecuteInv == ASSUME PanelInv, Execute PROVE PanelInv'
<1> DEFINE c == Head(underway)
<1>1. /\ underway # << >> /\ underway' = Tail(underway)
      /\ UNCHANGED <<panelVars, file, mapSynced, togglesSynced, origin>>
      /\ status' = IF c.op = "status" THEN <<keyboard.toggles>> ELSE status
  BY DEF Execute
<1>2. keyboard' = [act     |-> IF SetsAct(c) THEN ActOf(c) ELSE keyboard.act,
                   toggles |-> IF SetsToggles(c) THEN TogglesOf(c) ELSE keyboard.toggles]
  BY DEF Execute
<1>3. overtaken' = (c.op # "status" /\ (overtaken \/ SetsToggles(c)))
  BY Zenon DEF Execute
<1>4. /\ c \in Order
      /\ keyboard.act \in [Slots -> ActuationByte] /\ keyboard.toggles \in Settings
  BY <1>1, TailOrders, KeyboardType DEF PanelInv
<1>5. /\ keyboard'.act = (IF SetsAct(c) THEN ActOf(c) ELSE keyboard.act)
      /\ keyboard'.toggles = (IF SetsToggles(c) THEN TogglesOf(c) ELSE keyboard.toggles)
  BY <1>2
<1>6. PanelTypeOK'
  <2>1. keyboard' \in [act : [Slots -> ActuationByte], toggles : Settings]
    BY <1>2, <1>4, OrderType
  <2>2. status' \in {<< >>} \cup {<<t>> : t \in Settings}
    BY <1>1, <1>4 DEF PanelInv, PanelTypeOK
  <2>3. overtaken' \in BOOLEAN
    BY <1>3, Zenon
  <2> QED BY <1>1, TailOrders, <2>1, <2>2, <2>3 DEF PanelInv, PanelTypeOK, panelVars
<1>7. FileIsPanel'
  BY <1>1 DEF PanelInv, FileIsPanel, panelVars
<1>8. mapSynced' => UnderwayAct'
  BY <1>1, <1>5, TailAct DEF PanelInv, panelVars
<1>9. togglesSynced' => UnderwayToggles'
  BY <1>1, <1>5, TailToggles DEF PanelInv, panelVars
<1>10. ASSUME status' # << >>, ~overtaken' PROVE status'[1] = keyboard'.toggles
  <2>1. CASE c.op = "status"
    BY <1>1, <1>5, <2>1 DEF SetsToggles
  <2>2. CASE c.op # "status"
    <3>1. ~overtaken /\ ~SetsToggles(c)
      BY <1>3, <1>10, <2>2
    <3> QED BY <1>1, <1>5, <1>10, <2>2, <3>1 DEF PanelInv
  <2> QED BY <2>1, <2>2
<1> QED BY <1>6, <1>7, <1>8, <1>9, <1>10 DEF PanelInv

LEMMA PanelNextInv == PanelInv /\ [PanelNext]_panelState => PanelInv'
  BY EditsInv, SlideInv, ApplyInv, SmallSendsInv, RestoreInv, LoadInv, SaveInv, ExecuteInv,
     ExecuteFailsInv, DrainInv DEF PanelNext

(* The inductive invariant of the panel.                                     *)
THEOREM AlwaysPanelInv == PanelSpec => []PanelInv
BY PanelInitInv, PanelNextInv, PTL DEF PanelSpec

(* From "Apply to keyboard", "Apply toggles" or "Restore defaults" to the    *)
(* next edit, the panel's map is the keyboard's once no command that sets    *)
(* one is under way, and so are the toggles: for every layout, every number  *)
(* of commands under way, and every order of failures and statuses, but      *)
(* those PanelOnKeyboard names.                                              *)
THEOREM PanelStaysOnKeyboard == PanelSpec => []PanelOnKeyboard
<1>1. PanelInv => PanelOnKeyboard
  BY DEF PanelInv, PanelOnKeyboard, UnderwayAct, UnderwayToggles
<1> QED BY <1>1, AlwaysPanelInv, PTL

(* The daemon never refuses a file that the panel saved.  With nothing       *)
(* edited since, a file that was saved, or loaded and has no unknown name,   *)
(* gives the keyboard what the panel shows: for every layout and every set   *)
(* of files, those with unknown names among them.                            *)
THEOREM FileStaysPanel == PanelSpec => []FileIsPanel
<1>1. PanelInv => FileIsPanel
  BY DEF PanelInv
<1> QED BY <1>1, AlwaysPanelInv, PTL
===============================================================================
