------------------------------- MODULE HidProofs -------------------------------
(***************************************************************************)
(* The keyboard's USB side: packets mean what they should (Wire) and a key *)
(* map arrives whole (RowFlush), for every keyboard layout and every length*)
(* of report that holds it; answers belong to their questions (HidLink),   *)
(* whatever the keyboard sends, drops or delays.                           *)
(***************************************************************************)
EXTENDS Wire, RowFlush, HidLink, PacketProofs

(* What a keyboard or an echo's reader looks at.                             *)
LEMMA RequestBytes ==
    /\ IdentityRequest[0] = 160 /\ IdentityRequest[4] = 0 /\ IdentityRequest[5] = 0
    /\ IdentityRequest[6] = 0
    /\ \A on \in BOOLEAN : KeyTracking(on)[0] = 182 /\ KeyTracking(on)[1] = 3
  BY WireAssumption DEF IdentityRequest, KeyTracking, Payload, cmd, modify, Bit

LEMMA LedBytes ==
    ASSUME NEW light \in Light, NEW turbo \in BOOLEAN
    PROVE  LET p == LedMode(light, turbo)
           IN  /\ p[0] = 174 /\ p[3] = light.dir /\ p[4] = light.seq /\ p[5] = light.speed
               /\ p[6] = light.brightness /\ p[7] = light.rgb
  BY WireAssumption DEF LedMode, Payload, cmd, Bit, Light, Byte

LEMMA ToggleBytes ==
    ASSUME NEW rt \in BOOLEAN, NEW turbo \in BOOLEAN
    PROVE  LET p == RapidTriggerTurbo(rt, turbo)
           IN  p[0] = 181 /\ p[7] = Bit(turbo) /\ p[8] = Bit(rt)
  BY WireAssumption DEF RapidTriggerTurbo, Payload, cmd, Bit

LEMMA RowBytes ==
    ASSUME NEW kind \in RowKinds, NEW map, NEW r \in Rows
    PROVE  LET p    == RowPacket(kind, map, r)
               keys == ModifyRow(r, Chunk(map, r), ChunkLen(r), DefaultOf(kind))
           IN  /\ p[0] = 182 /\ p[1] = modify[kind] /\ p[3] = r
               /\ \A i \in 0..(Capacity(r) - 1) : p[i + 4] = keys[i]
<1>1. Capacity(r) \in Nat /\ Capacity(r) <= KeysPerRow
  BY RowAssumption DEF Capacity
<1>2. LET p == RowPacket(kind, map, r)
      IN  p[0] = 182 /\ p[1] = modify[kind] /\ p[3] = r
  BY <1>1, WireAssumption DEF RowPacket, Payload, cmd
<1>3. \A i \in 0..(Capacity(r) - 1) : 
        /\ i + 4 \in 0..(PayloadLen - 1) /\ i + 4 \in 4..(Capacity(r) + 3) /\ (i + 4) - 4 = i
  BY <1>1, RowAssumption, WireAssumption
<1>4. \A i \in 0..(Capacity(r) - 1) : RowPacket(kind, map, r)[i + 4] =
        ModifyRow(r, Chunk(map, r), ChunkLen(r), DefaultOf(kind))[i]
  BY <1>3 DEF RowPacket
<1> QED BY <1>2, <1>4

-------------------------------------------------------------------------------
(* No echo is taken for a reply or a row of depths: only an identity         *)
(* request's begins as an identity reply does, and it has no signature.      *)
THEOREM EchoesAreNoReplies == EchoIsNoReply
<1>1. SUFFICES ASSUME NEW packet \in Outbound, NEW len \in 1..PayloadLen
               PROVE  ~ParseIdentity(packet, len).found /\ ~IsDepthRow(packet, len)
  BY DEF EchoIsNoReply
<1>2. CASE packet = IdentityRequest
  BY <1>2, RequestBytes DEF ParseIdentity, NoIdentity, IsDepthRow, cmd
<1>3. CASE packet # IdentityRequest
  <2>1. packet[0] \in {174, 181, 182}
    <3>1. CASE packet \in {KeyTracking(on) : on \in BOOLEAN}
      BY <3>1, RequestBytes
    <3>2. CASE packet \in {LedMode(light, turbo) : light \in Lights, turbo \in BOOLEAN}
      <4>1. PICK light \in Lights, turbo \in BOOLEAN : packet = LedMode(light, turbo)
        BY <3>2
      <4>2. light \in Light
        BY WireAssumption
      <4> QED BY <4>1, <4>2, LedBytes
    <3>3. CASE packet \in {RapidTriggerTurbo(rt, turbo) : rt \in BOOLEAN, turbo \in BOOLEAN}
      BY <3>3, ToggleBytes
    <3>4. CASE packet \in {RowPacket(kind, map, r) : kind \in RowKinds, map \in KeyMaps, r \in Rows}
      BY <3>4, RowBytes
    <3>5. \/ packet \in {KeyTracking(on) : on \in BOOLEAN}
          \/ packet \in {LedMode(light, turbo) : light \in Lights, turbo \in BOOLEAN}
          \/ packet \in {RapidTriggerTurbo(rt, turbo) : rt \in BOOLEAN, turbo \in BOOLEAN}
          \/ packet \in {RowPacket(kind, map, r) : kind \in RowKinds, map \in KeyMaps, r \in Rows}
      BY <1>1, <1>3 DEF Outbound
    <3> QED BY <3>1, <3>2, <3>3, <3>4, <3>5
  <2> QED BY <2>1 DEF ParseIdentity, NoIdentity, IsDepthRow, cmd
<1> QED BY <1>2, <1>3

-------------------------------------------------------------------------------
LEMMA BitIsBit == \A b \in BOOLEAN : (Bit(b) # 0) = b
  BY DEF Bit

LEMMA Commands ==
    /\ cmd.IDENTITY = 160 /\ cmd.LED_MODE = 174 /\ cmd.MODIFY_KEY = 182
    /\ cmd.RAPID_TRIGGER = 181 /\ cmd.KEY_TRACKING = 183
  BY DEF cmd

LEMMA ModifyKinds ==
    /\ modify["ACTUATION"] = 1 /\ modify["DOWNSTROKE"] = 4 /\ modify["UPSTROKE"] = 5
    /\ \A kind \in RowKinds : \A k \in RowKinds : modify[k] = modify[kind] => k = kind
  BY DEF modify, RowKinds

(* What the keyboard makes of the toggles' packet.                           *)
LEMMA TogglesUnderstood ==
    ASSUME NEW rt \in BOOLEAN, NEW turbo \in BOOLEAN
    PROVE  Heard(RapidTriggerTurbo(rt, turbo)) = [sets |-> "toggles", turbo |-> turbo, rt |-> rt]
<1> DEFINE p == RapidTriggerTurbo(rt, turbo)
<1>1. p[0] = cmd.RAPID_TRIGGER /\ (p[7] # 0) = turbo /\ (p[8] # 0) = rt
  BY ToggleBytes, BitIsBit, Commands
<1> HIDE DEF p
<1>2. Heard(p) = [sets |-> "toggles", turbo |-> p[7] # 0, rt |-> p[8] # 0]
  BY <1>1, Commands DEF Heard
<1>3. Heard(p) = [sets |-> "toggles", turbo |-> turbo, rt |-> rt]
  BY <1>1, <1>2
<1> QED BY <1>3 DEF p

(* Toggles that were set are toggles heard.                                  *)
THEOREM TogglesRoundTrip == ToggleRoundTrip
<1>1. SUFFICES ASSUME NEW signature \in Signatures, NEW rt \in BOOLEAN, NEW turbo \in BOOLEAN,
                      NEW len \in 1..PayloadLen
               PROVE  LET heard == ParseIdentity(
                            IdentityReply(Heard(RapidTriggerTurbo(rt, turbo)), signature), len)
                      IN  /\ heard.found <=> len >= 17
                          /\ heard.found => heard.rt = rt /\ heard.turbo = turbo
  BY DEF ToggleRoundTrip
<1> DEFINE toggles == Heard(RapidTriggerTurbo(rt, turbo))
           data    == IdentityReply(toggles, signature)
<1>2. toggles.rt = rt /\ toggles.turbo = turbo
  BY TogglesUnderstood
<1> HIDE DEF toggles
<1>3. /\ data[0] = 160 /\ data[4] = signature[1] /\ data[5] = signature[2] /\ data[6] = signature[3]
      /\ data[15] = Bit(toggles.turbo) /\ data[16] = Bit(toggles.rt)
  BY WireAssumption, Commands DEF IdentityReply
<1>4. ~(signature[1] = 0 /\ signature[2] = 0 /\ signature[3] = 0)
  BY WireAssumption
<1>5. (data[15] # 0) = turbo /\ (data[16] # 0) = rt
  BY <1>2, <1>3, BitIsBit
<1> HIDE DEF data
<1>6. ParseIdentity(data, len) =
        IF len < 17 THEN NoIdentity ELSE [found |-> TRUE, turbo |-> turbo, rt |-> rt]
  BY <1>3, <1>4, <1>5, Commands DEF ParseIdentity
<1>7. LET heard == ParseIdentity(data, len)
      IN  /\ heard.found <=> len >= 17
          /\ heard.found => heard.rt = rt /\ heard.turbo = turbo
  BY <1>6 DEF NoIdentity
<1> QED BY <1>7 DEF data, toggles

(* Each key's byte is the key's own.                                         *)
LEMMA OwnBytes ==
    ASSUME NEW map, NEW r \in Rows, NEW pad, NEW s \in Slots, RowOf(s) = r
    PROVE  /\ s - r * KeysPerRow \in 0..(Capacity(r) - 1)
           /\ ModifyRow(r, Chunk(map, r), ChunkLen(r), pad)[s - r * KeysPerRow] = map[s]
<1> DEFINE K == KeysPerRow
<1>1. K \in Nat /\ LastRowKeys \in 1..K /\ TotalKeys = 2 * K + LastRowKeys
  BY RowAssumption DEF TotalKeys
<1>2. ChunkLen(r) = Capacity(r) /\ Capacity(r) \in Nat
  BY <1>1 DEF ChunkLen, Capacity, Rows
<1>3. s \in Int /\ r * K \in Int /\ r * K <= s /\ s < r * K + Capacity(r)
  BY <1>1, RowOfSlot DEF Slots, Rows, Capacity
<1>4. s - r * K \in 0..(Capacity(r) - 1) /\ r * K + (s - r * K) = s
  BY <1>2, <1>3
<1>5. Chunk(map, r)[s - r * K] = map[s]
  BY <1>2, <1>4 DEF Chunk
<1> QED BY <1>2, <1>4, <1>5 DEF ModifyRow

(* Every packet is understood as it was meant.                               *)
THEOREM PacketsAreUnderstood == KeyboardUnderstands
<1>1. ASSUME NEW light \in Lights, NEW turbo \in BOOLEAN
      PROVE  Heard(LedMode(light, turbo)) = [sets |-> "light", light |-> light]
  <2> DEFINE p == LedMode(light, turbo)
  <2>1. light \in Light
    BY WireAssumption
  <2>2. /\ p[0] = 174 /\ p[3] = light.dir /\ p[4] = light.seq /\ p[5] = light.speed
        /\ p[6] = light.brightness /\ p[7] = light.rgb
    BY <2>1, LedBytes
  <2>3. light = [dir |-> p[3], seq |-> p[4], speed |-> p[5], brightness |-> p[6], rgb |-> p[7]]
    BY <2>1, <2>2 DEF Light
  <2> HIDE DEF p
  <2>4. Heard(p) = [sets |-> "light", light |-> light]
    BY <2>2, <2>3, Commands DEF Heard
  <2> QED BY <2>4 DEF p
<1>2. ASSUME NEW kind \in RowKinds, NEW map \in KeyMaps, NEW r \in Rows
      PROVE  LET heard == Heard(RowPacket(kind, map, r))
             IN  /\ heard.sets = kind /\ heard.row = r
                 /\ \A s \in Slots : RowOf(s) = r => heard.keys[s - r * KeysPerRow] = map[s]
  <2> DEFINE p    == RowPacket(kind, map, r)
             keys == ModifyRow(r, Chunk(map, r), ChunkLen(r), DefaultOf(kind))
  <2>1. /\ p[0] = 182 /\ p[1] = modify[kind] /\ p[3] = r
        /\ \A i \in 0..(Capacity(r) - 1) : p[i + 4] = keys[i]
    BY RowBytes
  <2>2. (CHOOSE k \in RowKinds : modify[k] = p[1]) = kind
    BY <2>1, ModifyKinds
  <2>3. p[1] \in {modify[k] : k \in RowKinds}
    BY <2>1
  <2>4. \A s \in Slots : RowOf(s) = r =>
            s - r * KeysPerRow \in 0..(Capacity(r) - 1) /\ keys[s - r * KeysPerRow] = map[s]
    BY OwnBytes
  <2> HIDE DEF p, keys
  <2>5. p[0] = cmd.MODIFY_KEY /\ p[0] # cmd.RAPID_TRIGGER /\ p[0] # cmd.LED_MODE
    BY <2>1, Commands
  <2>6. Heard(p) = [sets |-> CHOOSE k \in RowKinds : modify[k] = p[1], row |-> p[3],
                    keys |-> [i \in 0..(Capacity(p[3]) - 1) |-> p[i + 4]]]
    BY <2>3, <2>5, Zenon DEF Heard
  <2>7. Heard(p) = [sets |-> kind, row |-> r, keys |-> [i \in 0..(Capacity(r) - 1) |-> p[i + 4]]]
    BY <2>1, <2>2, <2>6, Zenon
  <2>8. LET heard == Heard(p)
        IN  /\ heard.sets = kind /\ heard.row = r
            /\ \A s \in Slots : RowOf(s) = r => heard.keys[s - r * KeysPerRow] = map[s]
    BY <2>1, <2>4, <2>7
  <2> QED BY <2>8 DEF p
<1>3. ASSUME NEW packet, packet = IdentityRequest \/ \E on \in BOOLEAN : packet = KeyTracking(on)
      PROVE  Heard(packet) = Nothing
  <2>1. packet[0] = 160 \/ (packet[0] = 182 /\ packet[1] = 3)
    BY <1>3, RequestBytes
  <2>2. 3 \notin {modify[kind] : kind \in RowKinds}
    BY ModifyKinds DEF RowKinds
  <2> QED BY <2>1, <2>2, Commands DEF Heard
<1> QED BY <1>1, <1>2, <1>3, TogglesUnderstood DEF KeyboardUnderstands

-------------------------------------------------------------------------------
(* An upload.                                                                *)

(* What an upload keeps true: the types, the map it sends and how far it is. *)
UploadInv == /\ UploadTypeOK
       /\ values = [s \in Slots |-> MmToByte(wish[s])]
       /\ FlushProgress

LEMMA UploadInitInv == UploadInit => UploadInv
<1> SUFFICES ASSUME UploadInit PROVE UploadInv
  OBVIOUS
<1> USE FlushAssumption
<1>1. wish \in [Slots -> Int] /\ old \in [Slots -> KeyByte] /\ image = old /\ row = 0
  BY DEF UploadInit
<1>2. values \in [Slots -> ActuationByte] /\ values = [s \in Slots |-> MmToByte(wish[s])]
  BY <1>1, MmToByteRange DEF UploadInit
<1>3. \A s \in Slots : ~(RowOf(s) < 0)
  BY RowOfSlot DEF Rows
<1>4. FlushProgress
  BY <1>1, <1>3 DEF FlushProgress
<1> QED BY <1>1, <1>2, <1>4 DEF UploadInv, UploadTypeOK

LEMMA WriteRowUploadInv == UploadInv /\ WriteRow => UploadInv'
<1> SUFFICES ASSUME UploadInv, WriteRow PROVE UploadInv'
  OBVIOUS
<1>1. row \in Rows /\ row' = row + 1 /\ wish' = wish /\ values' = values /\ old' = old
  BY DEF WriteRow
<1>2. image' = [s \in Slots |-> IF RowOf(s) = row THEN values[s] ELSE image[s]]
  BY <1>1, FlushRowEffect DEF WriteRow
<1>3. values \in [Slots -> KeyByte] /\ image \in [Slots -> KeyByte]
  BY ActuationByteIsKeyByte DEF UploadInv, UploadTypeOK
<1>4. UploadTypeOK'
  BY <1>1, <1>2, <1>3 DEF UploadInv, UploadTypeOK, Rows
<1>5. \A s \in Slots : RowOf(s) \in Int /\ (RowOf(s) < row + 1 <=> RowOf(s) = row \/ RowOf(s) < row)
  BY <1>1, RowOfSlot DEF Rows
<1>6. image' = [s \in Slots |-> IF RowOf(s) < row + 1 THEN values[s] ELSE old[s]]
  <2>1. image = [s \in Slots |-> IF RowOf(s) < row THEN values[s] ELSE old[s]]
    BY DEF UploadInv, FlushProgress
  <2> QED BY <1>2, <1>5, <2>1
<1>7. FlushProgress'
  BY <1>1, <1>6 DEF FlushProgress
<1> QED BY <1>1, <1>4, <1>7 DEF UploadInv

LEMMA UploadAlwaysInv == UploadSpec => []UploadInv
<1>1. UploadInv /\ [WriteRow]_uploadVars => UploadInv'
  <2>1. UploadInv /\ UNCHANGED uploadVars => UploadInv'
    BY DEF UploadInv, UploadTypeOK, FlushProgress, uploadVars
  <2> QED BY <2>1, WriteRowUploadInv
<1> QED BY <1>1, UploadInitInv, PTL DEF UploadSpec

(* The state components keep their types: in particular the controller's map *)
(* holds nothing but supported actuation points.                             *)
THEOREM FlushTypes == UploadSpec => []UploadTypeOK
<1>1. UploadInv => UploadTypeOK
  BY DEF UploadInv
<1> QED BY <1>1, UploadAlwaysInv, PTL

(* A flush replaces one whole row after the other.                           *)
THEOREM FlushIsByRows == UploadSpec => []FlushProgress
<1>1. UploadInv => FlushProgress
  BY DEF UploadInv
<1> QED BY <1>1, UploadAlwaysInv, PTL

(* A finished upload gives every key the distance wished for, to the nearest *)
(* tenth of a millimetre within the supported range.                         *)
THEOREM UploadGrantsWish == UploadSpec => []WishGranted
<1>1. UploadInv => WishGranted
  <2> SUFFICES ASSUME UploadInv, row = 3, NEW s \in Slots
               PROVE  LET wanted == IF wish[s] < 10 * ActuationMin THEN 10 * ActuationMin
                                    ELSE IF wish[s] > 10 * ActuationMax THEN 10 * ActuationMax
                                    ELSE wish[s]
                      IN  10 * image[s] - wanted \in -5..5
    BY DEF WishGranted
  <2>1. wish[s] \in Int
    BY DEF UploadInv, UploadTypeOK
  <2>2. RowOf(s) < row
    BY RowOfSlot DEF Rows
  <2>3. image[s] = MmToByte(wish[s])
    BY <2>2 DEF UploadInv, FlushProgress
  <2> QED BY <2>1, <2>3, MmToByteNearest
<1> QED BY <1>1, UploadAlwaysInv, PTL

-------------------------------------------------------------------------------
(* The report queue.                                                         *)
(* The reports under way, in the order in which they will be read.           *)
Under == queue \o due

(* identity asks when nothing is under way, and then listens to replies that *)
(* describe the keyboard as it is.                                           *)
Drained  == pc = "ask" => queue = << >> /\ due = << >>
Answered ==
    pc = "listen" => \A i \in 1..Len(Under) :
                        Under[i].kind = "identity" => Under[i].written = written

(* Unless a poll gave up, the rows under way are those the poll in progress  *)
(* still has to take, each once, and it has taken rows of its own only.      *)
OwnRows ==
    ~behind => \A i \in 1..Len(Under) :
        IsRow(Under[i]) => pc = "rows" /\ Under[i].round = round /\ Under[i].row \notin seen
EachOnce ==
    ~behind => \A i, j \in 1..Len(Under) :
        IsRow(Under[i]) /\ IsRow(Under[j]) /\ i # j => Under[i].row # Under[j].row
Collected == ~behind /\ pc = "rows" => \A r \in seen : frame[r] = round

InTime == Drained /\ Answered /\ OwnRows /\ EachOnce /\ Collected

Inv == /\ TypeOK
       /\ Punctual => InTime
       /\ IdentityFresh
       /\ FrameInStep

-------------------------------------------------------------------------------
(* Sequences of reports.                                                     *)

LEMMA AddReports ==
    ASSUME NEW S, NEW q \in Seq(S), NEW d \in Seq(S), NEW r \in Seq(S)
    PROVE  /\ q \o (d \o r) \in Seq(S)
           /\ Len(q \o (d \o r)) = Len(q \o d) + Len(r)
           /\ \A i \in 1..Len(q \o d) : (q \o (d \o r))[i] = (q \o d)[i]
           /\ \A i \in 1..Len(r) : (q \o (d \o r))[Len(q \o d) + i] = r[i]
  OBVIOUS

LEMMA TakeReport ==
    ASSUME NEW S, NEW q \in Seq(S), NEW d \in Seq(S), q # << >>
    PROVE  /\ Tail(q) \in Seq(S)
           /\ Len(q \o d) \in Nat /\ Len(q \o d) >= 1
           /\ Head(q) \in S /\ (q \o d)[1] = Head(q)
           /\ Len(Tail(q) \o d) = Len(q \o d) - 1
           /\ \A i \in 1..Len(Tail(q) \o d) : (Tail(q) \o d)[i] = (q \o d)[i + 1]
  OBVIOUS

LEMMA DeliverReport ==
    ASSUME NEW S, NEW q \in Seq(S), NEW d \in Seq(S), d # << >>
    PROVE  /\ Append(q, Head(d)) \in Seq(S) /\ Tail(d) \in Seq(S)
           /\ Append(q, Head(d)) \o Tail(d) = q \o d
<1>1. Append(q, Head(d)) \in Seq(S) /\ Tail(d) \in Seq(S)
  OBVIOUS
<1>2. Len(Append(q, Head(d)) \o Tail(d)) = Len(q \o d)
  OBVIOUS
<1>3. \A i \in 1..Len(q \o d) : (Append(q, Head(d)) \o Tail(d))[i] = (q \o d)[i]
  OBVIOUS
<1> QED BY <1>1, <1>2, <1>3

(* What the keyboard sends are reports.                                      *)
LEMMA SentReports ==
    ASSUME NEW n \in 0..MaxCalls
    PROVE  /\ Echoes \subseteq Seq(Report)
           /\ Replies(n) \subseteq Seq(Report)
           /\ Depths(n) \subseteq Seq(Report)
<1>1. Echo \in Report /\ Stub \in Report /\ Reply(n) \in Report
  BY DEF Report, Echo, Stub, Reply
<1>2. \A r \in 0..3 : Depth(r, n) \in Report
  BY DEF Report, Depth
<1> QED BY <1>1, <1>2 DEF Echoes, Replies, Depths

(* A poll is sent each row once, and nothing else sends rows.                *)
LEMMA SentRows ==
    /\ \A reports \in Echoes : \A i \in 1..Len(reports) :
        reports[i].kind # "identity" /\ ~IsRow(reports[i])
    /\ \A n \in 0..MaxCalls : \A reports \in Replies(n) : \A i \in 1..Len(reports) :
        /\ ~IsRow(reports[i])
        /\ reports[i].kind = "identity" => reports[i].written = n
    /\ \A n \in 0..MaxCalls : \A reports \in Depths(n) :
        /\ \A i \in 1..Len(reports) : reports[i].round = n
        /\ \A i, j \in 1..Len(reports) : i # j => reports[i].row # reports[j].row
  BY DEF Echoes, Replies, Depths, IsRow, Echo, Stub, Reply, Depth

-------------------------------------------------------------------------------
(* Types.                                                                    *)

LEMMA InitTypes == Init => TypeOK
<1> SUFFICES ASSUME Init PROVE TypeOK
  OBVIOUS
<1>1. NoFrame \in [DepthRows -> 0..MaxCalls]
  BY LinkAssumption DEF NoFrame
<1>2. answer \in Answer
  BY DEF Init, Answer
<1>3. calls \in 0..MaxCalls /\ written \in 0..calls /\ round \in 0..calls
  BY LinkAssumption DEF Init
<1>4. queue \in Seq(Report) /\ due \in Seq(Report) /\ seen \in SUBSET DepthRows
  BY DEF Init
<1>5. behind \in BOOLEAN /\ frame = NoFrame /\ pc = "idle"
  BY DEF Init
<1> QED BY <1>1, <1>2, <1>3, <1>4, <1>5 DEF TypeOK

LEMMA CallTypes ==
    ASSUME TypeOK, Call
    PROVE  calls' \in 0..MaxCalls /\ calls' = calls + 1 /\ calls \in 0..MaxCalls
           /\ written \in 0..MaxCalls /\ written + 1 \in 0..calls' /\ written \in 0..calls'
           /\ round + 1 \in 0..calls' /\ round + 1 \in 0..MaxCalls /\ round \in 0..calls'
  BY LinkAssumption DEF TypeOK, Call

LEMMA WriteTypes == ASSUME TypeOK, WritePacket \/ WriteFails PROVE TypeOK'
<1>1. Echoes \subseteq Seq(Report)
  BY SentReports, LinkAssumption
<1>2. due' \in Seq(Report)
  <2>1. due \in Seq(Report)
    BY DEF TypeOK
  <2>2. due' = due \/ \E reports \in Echoes : due' = due \o reports
    BY DEF WritePacket, WriteFails
  <2>3. ASSUME NEW reports \in Echoes PROVE due \o reports \in Seq(Report)
    BY <1>1, <2>1
  <2> QED BY <2>1, <2>2, <2>3
<1>3. Call /\ written' \in 0..calls'
  BY CallTypes DEF WritePacket, WriteFails
<1>4. pc' = "idle" /\ answer' \in Answer
  BY DEF WritePacket, WriteFails, Return, Answer
<1> QED BY <1>2, <1>3, <1>4, CallTypes DEF WritePacket, WriteFails, TypeOK

LEMMA IdentityTypes == ASSUME TypeOK, StartIdentity \/ Identity PROVE TypeOK'
<1>1. CASE StartIdentity
  BY <1>1, CallTypes DEF StartIdentity, AfterCall, TypeOK
<1>2. CASE DrainOne
  BY <1>2, TakeReport DEF DrainOne, TypeOK
<1>3. CASE Quiet
  BY <1>3 DEF Quiet, TypeOK
<1>4. CASE Ask
  <2>1. written \in 0..MaxCalls /\ due \in Seq(Report)
    BY LinkAssumption DEF TypeOK
  <2>2. due' \in Seq(Report)
    BY <1>4, <2>1, SentReports DEF Ask
  <2> QED BY <1>4, <2>2 DEF Ask, TypeOK
<1>5. CASE Listen
  <2>1. queue' \in Seq(Report) /\ Head(queue) \in Report
    BY <1>5, TakeReport DEF Listen, TypeOK
  <2>2. pc' \in {"idle", "listen"} /\ answer' \in Answer
    BY <1>5, <2>1 DEF Listen, Return, Answer, TypeOK
  <2> QED BY <1>5, <2>1, <2>2 DEF Listen, TypeOK
<1>6. CASE NoResponse
  BY <1>6 DEF NoResponse, Return, Answer, TypeOK
<1> QED BY <1>1, <1>2, <1>3, <1>4, <1>5, <1>6 DEF Identity

LEMMA PollTypes == ASSUME TypeOK, StartPoll \/ Poll PROVE TypeOK'
<1>1. CASE StartPoll
  <2>1. due' \in Seq(Report)
    BY <1>1, CallTypes, SentReports DEF StartPoll, TypeOK
  <2>2. frame' \in [DepthRows -> 0..MaxCalls] /\ seen' \in SUBSET DepthRows
    BY <1>1, LinkAssumption DEF StartPoll, NoFrame
  <2> QED BY <1>1, <2>1, <2>2, CallTypes DEF StartPoll, TypeOK
<1>2. CASE TakeRow
  <2>1. queue' \in Seq(Report) /\ Head(queue) \in Report
    BY <1>2, TakeReport DEF TakeRow, TypeOK
  <2>2. IsRow(Head(queue)) => Head(queue).round \in 0..MaxCalls /\ Head(queue).row \in DepthRows
    BY <2>1 DEF IsRow, Report, Echo, Stub
  <2>3. frame' \in [DepthRows -> 0..MaxCalls] /\ seen' \in SUBSET DepthRows
    BY <1>2, <2>2 DEF TakeRow, TypeOK
  <2>4. pc' \in {"idle", "rows"} /\ answer' \in Answer
    <3>1. \/ pc' = "idle" /\ answer' = FrameAnswer(frame')
          \/ pc' = pc /\ answer' = answer
      BY <1>2 DEF TakeRow, Return
    <3>2. FrameAnswer(frame') \in Answer
      BY <2>3 DEF FrameAnswer, Answer
    <3> QED BY <1>2, <3>1, <3>2 DEF TakeRow, TypeOK
  <2> QED BY <1>2, <2>1, <2>3, <2>4 DEF TakeRow, TypeOK
<1>3. CASE PollEnds
  BY <1>3 DEF PollEnds, Return, FrameAnswer, Answer, TypeOK
<1> QED BY <1>1, <1>2, <1>3 DEF Poll

LEMMA NextTypes == ASSUME TypeOK, [Next]_vars PROVE TypeOK'
<1>1. CASE DeviceFails
  BY <1>1 DEF DeviceFails, Return, Answer, TypeOK
<1>2. CASE Deliver
  BY <1>2, DeliverReport DEF Deliver, TypeOK
<1>3. CASE UNCHANGED vars
  BY <1>3 DEF vars, TypeOK
<1> QED BY <1>1, <1>2, <1>3, WriteTypes, IdentityTypes, PollTypes DEF Next

(* The state of a link is what its declarations say.                        *)
THEOREM TypesHold == Spec => []TypeOK
<1>1. Init => TypeOK
  BY InitTypes
<1>2. TypeOK /\ [Next]_vars => TypeOK'
  BY NextTypes
<1> QED BY <1>1, <1>2, PTL DEF Spec

-------------------------------------------------------------------------------
(* The invariant.                                                            *)

LEMMA InitInv == Init => InTime /\ IdentityFresh /\ FrameInStep
  BY DEF Init, InTime, Drained, Answered, OwnRows, EachOnce, Collected, Under,
         IdentityFresh, FrameInStep, ErrorAnswer

(* Outside a poll that is in step, no rows are under way.                    *)
LEMMA NoRows ==
    ASSUME OwnRows, ~behind, pc # "rows"
    PROVE  \A i \in 1..Len(Under) : ~IsRow(Under[i])
  BY DEF OwnRows

(* What a report added at the end does.                                      *)
LEMMA AddedHere ==
    ASSUME TypeOK, NEW reports \in Seq(Report), due' = due \o reports, queue' = queue
    PROVE  /\ Len(Under') = Len(Under) + Len(reports)
           /\ \A i \in 1..Len(Under) : Under'[i] = Under[i]
           /\ \A i \in 1..Len(Under') :
                i \in 1..Len(Under) \/ \E j \in 1..Len(reports) : i = Len(Under) + j /\ Under'[i] = reports[j]
<1>1. queue \in Seq(Report) /\ due \in Seq(Report)
  BY DEF TypeOK
<1>2. Under' = queue \o (due \o reports)
  BY DEF Under
<1>3. Len(Under) \in Nat /\ Len(reports) \in Nat
  BY <1>1 DEF Under
<1>4. /\ Len(Under') = Len(Under) + Len(reports)
      /\ \A i \in 1..Len(Under) : Under'[i] = Under[i]
      /\ \A j \in 1..Len(reports) : Under'[Len(Under) + j] = reports[j]
  BY <1>1, <1>2, AddReports DEF Under
<1>5. ASSUME NEW i \in 1..Len(Under'), i \notin 1..Len(Under)
      PROVE  \E j \in 1..Len(reports) : i = Len(Under) + j /\ Under'[i] = reports[j]
  <2>1. i - Len(Under) \in 1..Len(reports) /\ i = Len(Under) + (i - Len(Under))
    BY <1>3, <1>4, <1>5
  <2> QED BY <1>4, <2>1
<1> QED BY <1>4, <1>5

(* What taking the first report does.                                        *)
LEMMA TakenHere ==
    ASSUME TypeOK, queue # << >>, queue' = Tail(queue), due' = due
    PROVE  /\ Len(Under) \in Nat /\ Len(Under) >= 1 /\ Under[1] = Head(queue) /\ Head(queue) \in Report
           /\ Len(Under') = Len(Under) - 1
           /\ \A i \in 1..Len(Under') : i + 1 \in 1..Len(Under) /\ i + 1 # 1 /\ Under'[i] = Under[i + 1]
<1>1. queue \in Seq(Report) /\ due \in Seq(Report)
  BY DEF TypeOK
<1>2. /\ Len(Under) \in Nat /\ Len(Under) >= 1 /\ Under[1] = Head(queue) /\ Head(queue) \in Report
      /\ Len(Under') = Len(Under) - 1
      /\ \A i \in 1..Len(Under') : Under'[i] = Under[i + 1]
  BY <1>1, TakeReport DEF Under
<1> QED BY <1>2

LEMMA WriteKeeps ==
    ASSUME TypeOK, InTime, WritePacket \/ WriteFails
    PROVE  InTime' /\ IdentityFresh' /\ FrameInStep'
<1>1. pc = "idle" /\ pc' = "idle" /\ answer'.kind \in {"Ok", "Error"} /\ behind' = behind /\ queue' = queue
  BY DEF WritePacket, WriteFails, Call, Return, ErrorAnswer
<1>2. ASSUME ~behind PROVE \A i \in 1..Len(Under') : ~IsRow(Under'[i])
  <2>1. \A i \in 1..Len(Under) : ~IsRow(Under[i])
    BY <1>1, <1>2, NoRows DEF InTime
  <2>2. due' = due \/ \E reports \in Echoes : due' = due \o reports
    BY DEF WritePacket, WriteFails
  <2>3. CASE due' = due
    BY <1>1, <2>1, <2>3 DEF Under
  <2>4. ASSUME NEW reports \in Echoes, due' = due \o reports
        PROVE  \A i \in 1..Len(Under') : ~IsRow(Under'[i])
    <3>1. reports \in Seq(Report)
      BY SentReports, LinkAssumption
    <3>2. \A j \in 1..Len(reports) : ~IsRow(reports[j])
      BY SentRows
    <3>3. /\ \A i \in 1..Len(Under) : Under'[i] = Under[i]
          /\ \A i \in 1..Len(Under') :
                i \in 1..Len(Under) \/ \E j \in 1..Len(reports) : i = Len(Under) + j /\ Under'[i] = reports[j]
      BY <1>1, <2>4, <3>1, AddedHere
    <3> QED BY <2>1, <3>2, <3>3
  <2> QED BY <2>2, <2>3, <2>4
<1>3. InTime'
  BY <1>1, <1>2 DEF InTime, Drained, Answered, OwnRows, EachOnce, Collected
<1> QED BY <1>1, <1>3 DEF IdentityFresh, FrameInStep

(* A report taken by identity: what is under way was under way.              *)
LEMMA TakenKeeps ==
    ASSUME TypeOK, InTime, queue # << >>, queue' = Tail(queue), due' = due,
           pc \in {"drain", "listen"}, pc' \in {pc, "idle"},
           UNCHANGED <<frame, seen, written, round, behind>>
    PROVE  InTime'
<1>1. \A i \in 1..Len(Under') : i + 1 \in 1..Len(Under) /\ Under'[i] = Under[i + 1]
  BY TakenHere
<1>2. ~behind => \A i \in 1..Len(Under') : ~IsRow(Under'[i])
  BY <1>1, NoRows DEF InTime
<1>3. Answered'
  BY <1>1 DEF InTime, Answered
<1>4. Drained' /\ Collected' /\ OwnRows' /\ EachOnce'
  BY <1>2 DEF Drained, Collected, OwnRows, EachOnce
<1> QED BY <1>3, <1>4 DEF InTime

LEMMA IdentityKeeps ==
    ASSUME TypeOK, Punctual, InTime, IdentityFresh, FrameInStep, StartIdentity \/ Identity
    PROVE  InTime' /\ IdentityFresh' /\ FrameInStep'
<1>1. CASE StartIdentity
  <2>1. /\ pc = "idle" /\ pc' = "drain" /\ Under' = Under
        /\ UNCHANGED <<answer, frame, seen, written, round, behind>>
    BY <1>1 DEF StartIdentity, AfterCall, Call, Under
  <2>2. InTime'
    BY <2>1 DEF InTime, Drained, Answered, OwnRows, EachOnce, Collected
  <2> QED BY <2>1, <2>2 DEF IdentityFresh, FrameInStep
<1>2. CASE DrainOne
  <2>1. InTime'
    BY <1>2, TakenKeeps DEF DrainOne
  <2> QED BY <1>2, <2>1 DEF DrainOne, IdentityFresh, FrameInStep
<1>3. CASE Quiet
  <2>1. queue' = << >> /\ due' = << >> /\ Len(Under') = 0
    BY <1>3 DEF Quiet, Under
  <2>2. InTime'
    BY <1>3, <2>1 DEF Quiet, InTime, Drained, Answered, OwnRows, EachOnce, Collected
  <2> QED BY <1>3, <2>2 DEF Quiet, IdentityFresh, FrameInStep
<1>4. CASE Ask
  <2>1. queue = << >> /\ due = << >> /\ written \in 0..MaxCalls
    BY <1>4, LinkAssumption DEF Ask, InTime, Drained, TypeOK
  <2>2. PICK reports \in Replies(written) : due' = due \o reports
    BY <1>4 DEF Ask
  <2>3. Under' = reports
    BY <1>4, <2>1, <2>2, SentReports DEF Ask, Under
  <2>4. \A i \in 1..Len(Under') :
            ~IsRow(Under'[i]) /\ (Under'[i].kind = "identity" => Under'[i].written = written)
    BY <2>1, <2>3, SentRows
  <2>5. InTime'
    BY <1>4, <2>4 DEF Ask, InTime, Drained, Answered, OwnRows, EachOnce, Collected
  <2> QED BY <1>4, <2>5 DEF Ask, IdentityFresh, FrameInStep
<1>5. CASE Listen
  <2>1. pc' \in {pc, "idle"}
    BY <1>5 DEF Listen, Return
  <2>2. InTime'
    BY <1>5, <2>1, TakenKeeps DEF Listen
  <2>3. /\ Len(Under) \in Nat /\ Len(Under) >= 1
        /\ Under[1] = Head(queue) /\ Head(queue) \in Report
    BY <1>5, TakenHere DEF Listen
  <2>4. Head(queue).kind = "identity" => Head(queue).written = written
    BY <1>5, <2>3 DEF Listen, InTime, Answered
  <2>5. Head(queue).kind = "identity" => Head(queue) = Reply(written)
    BY <2>3, <2>4 DEF Report, Reply, Echo, Stub
  <2>6. \/ Head(queue).kind = "identity" /\ answer' = [kind |-> "Identity", reply |-> Head(queue)]
        \/ pc' = pc /\ answer' = answer
    BY <1>5 DEF Listen, Return, Parses
  <2>7. IdentityFresh'
    BY <1>5, <2>5, <2>6 DEF Listen, IdentityFresh
  <2>8. FrameInStep'
    BY <1>5, <2>6 DEF Listen, FrameInStep
  <2> QED BY <2>2, <2>7, <2>8
<1>6. CASE NoResponse
  <2>1. InTime'
    BY <1>6 DEF NoResponse, Return, InTime, Drained, Answered, OwnRows, EachOnce, Collected, Under
  <2> QED BY <1>6, <2>1 DEF NoResponse, Return, ErrorAnswer, IdentityFresh, FrameInStep
<1> QED BY <1>1, <1>2, <1>3, <1>4, <1>5, <1>6 DEF Identity

LEMMA StartPollKeeps ==
    ASSUME TypeOK, InTime, IdentityFresh, StartPoll
    PROVE  InTime' /\ IdentityFresh' /\ FrameInStep'
<1>1. /\ pc = "idle" /\ pc' = "rows" /\ round' = round + 1 /\ round' \in 0..MaxCalls /\ seen' = {}
      /\ UNCHANGED <<answer, queue, written, behind>>
  BY CallTypes DEF StartPoll, Call
<1>2. PICK reports \in Depths(round') : due' = due \o reports
  BY DEF StartPoll
<1>3. reports \in Seq(Report)
  BY <1>1, SentReports
<1>4. /\ Len(Under') = Len(Under) + Len(reports)
      /\ \A i \in 1..Len(Under) : Under'[i] = Under[i]
      /\ \A i \in 1..Len(Under') :
            i \in 1..Len(Under) \/ \E j \in 1..Len(reports) : i = Len(Under) + j /\ Under'[i] = reports[j]
  BY <1>1, <1>2, <1>3, AddedHere
<1>5. /\ \A i \in 1..Len(reports) : reports[i].round = round'
      /\ \A i, j \in 1..Len(reports) : i # j => reports[i].row # reports[j].row
  BY <1>1, SentRows
<1>6. ~behind => \A i \in 1..Len(Under) : ~IsRow(Under[i])
  BY <1>1, NoRows DEF InTime
<1>7. ~behind => \A i \in 1..Len(Under') : IsRow(Under'[i]) =>
            \E j \in 1..Len(reports) : i = Len(Under) + j /\ Under'[i] = reports[j]
  BY <1>4, <1>6
<1>8. OwnRows'
  BY <1>1, <1>5, <1>7 DEF OwnRows
<1>9. EachOnce'
  <2>1. SUFFICES ASSUME ~behind, NEW i \in 1..Len(Under'), NEW j \in 1..Len(Under'),
                        IsRow(Under'[i]), IsRow(Under'[j]), i # j
                 PROVE  Under'[i].row # Under'[j].row
    BY <1>1 DEF EachOnce
  <2>2. PICK k \in 1..Len(reports) : i = Len(Under) + k /\ Under'[i] = reports[k]
    BY <1>7, <2>1
  <2>3. PICK l \in 1..Len(reports) : j = Len(Under) + l /\ Under'[j] = reports[l]
    BY <1>7, <2>1
  <2>4. k # l
    BY <2>1, <2>2, <2>3
  <2> QED BY <1>5, <2>2, <2>3, <2>4
<1>10. Drained' /\ Answered' /\ Collected'
  BY <1>1 DEF Drained, Answered, Collected
<1> QED BY <1>1, <1>8, <1>9, <1>10 DEF InTime, IdentityFresh, FrameInStep

LEMMA TakeRowKeeps ==
    ASSUME TypeOK, InTime, IdentityFresh, TakeRow
    PROVE  InTime' /\ IdentityFresh' /\ FrameInStep'
<1>1. /\ pc = "rows" /\ UNCHANGED <<due, written, round, calls, behind>>
      /\ queue # << >> /\ queue' = Tail(queue)
  BY DEF TakeRow
<1> DEFINE report == Head(queue)
<1>2. /\ Len(Under) \in Nat /\ Len(Under) >= 1 /\ Under[1] = report /\ report \in Report
      /\ \A i \in 1..Len(Under') : i + 1 \in 1..Len(Under) /\ i + 1 # 1 /\ Under'[i] = Under[i + 1]
      /\ \A i \in 1..Len(Under') : i \in Nat
  BY <1>1, TakenHere
<1>3. /\ seen' = IF IsRow(report) THEN seen \cup {report.row} ELSE seen
      /\ frame' = IF IsRow(report) THEN [frame EXCEPT ![report.row] = report.round] ELSE frame
  BY DEF TakeRow
<1>4. \/ seen' = DepthRows /\ pc' = "idle" /\ answer' = FrameAnswer(frame')
      \/ seen' # DepthRows /\ pc' = pc /\ answer' = answer
  BY DEF TakeRow, Return, Complete
<1>5. ~behind /\ IsRow(report) => report.round = round /\ report.row \notin seen
  BY <1>2 DEF InTime, OwnRows
<1>6. ~behind => \A i \in 1..Len(Under') :
            IsRow(Under'[i]) => Under'[i].round = round /\ Under'[i].row \notin seen'
  <2>1. SUFFICES ASSUME ~behind, NEW i \in 1..Len(Under'), IsRow(Under'[i])
                 PROVE  Under'[i].round = round /\ Under'[i].row \notin seen'
    OBVIOUS
  <2>2. i + 1 \in 1..Len(Under) /\ i + 1 # 1 /\ 1 \in 1..Len(Under) /\ Under'[i] = Under[i + 1]
    BY <1>2
  <2>3. Under'[i].round = round /\ Under'[i].row \notin seen
    BY <2>1, <2>2 DEF InTime, OwnRows
  <2>4. IsRow(report) => Under'[i].row # report.row
    BY <1>2, <2>1, <2>2 DEF InTime, EachOnce
  <2> QED BY <1>3, <2>3, <2>4
<1>7. OwnRows'
  BY <1>1, <1>4, <1>6 DEF OwnRows, IsRow
<1>8. EachOnce'
  BY <1>1, <1>2 DEF InTime, EachOnce
<1>9. ~behind => \A r \in seen' : frame'[r] = round
  BY <1>1, <1>3, <1>5 DEF InTime, Collected, TypeOK, IsRow
<1>10. Collected' /\ Drained' /\ Answered'
  BY <1>1, <1>4, <1>9 DEF Collected, Drained, Answered
<1>11. IdentityFresh'
  BY <1>1, <1>4 DEF IdentityFresh, FrameAnswer
<1>12. FrameInStep'
  <2>1. ~behind /\ pc' = "idle" => frame' = [r \in DepthRows |-> round]
    <3>1. frame' \in [DepthRows -> 0..MaxCalls]
      BY NextTypes DEF Next, Poll, TypeOK
    <3> QED BY <1>1, <1>4, <1>9, <3>1
  <2> QED BY <1>1, <1>4, <2>1 DEF FrameInStep, FrameAnswer
<1> QED BY <1>7, <1>8, <1>10, <1>11, <1>12 DEF InTime

LEMMA GivingUpKeeps ==
    ASSUME InTime, PollEnds \/ DeviceFails
    PROVE  InTime' /\ IdentityFresh' /\ FrameInStep'
<1>1. /\ pc' = "idle" /\ behind' = TRUE /\ answer'.kind \in {"Error", "Frame"}
  BY DEF PollEnds, DeviceFails, Return, FrameAnswer, ErrorAnswer
<1> QED BY <1>1 DEF InTime, Drained, Answered, OwnRows, EachOnce, Collected, IdentityFresh, FrameInStep

LEMMA DeliverKeeps ==
    ASSUME TypeOK, InTime, IdentityFresh, FrameInStep, Deliver
    PROVE  InTime' /\ IdentityFresh' /\ FrameInStep'
<1>1. Under' = Under
  BY DeliverReport DEF Deliver, TypeOK, Under
<1>2. Drained'
  BY DEF Deliver, InTime, Drained
<1>3. InTime'
  BY <1>1, <1>2 DEF Deliver, InTime, Answered, OwnRows, EachOnce, Collected
<1> QED BY <1>3 DEF Deliver, IdentityFresh, FrameInStep

LEMMA NextInv == ASSUME Inv, [Next]_vars PROVE Inv'
<1>1. TypeOK'
  BY NextTypes DEF Inv
<1>2. Punctual' = Punctual
  OBVIOUS
<1>3. CASE ~Punctual
  BY <1>1, <1>2, <1>3 DEF Inv, IdentityFresh, FrameInStep
<1>4. CASE Punctual
  <2>1. TypeOK /\ InTime /\ IdentityFresh /\ FrameInStep
    BY <1>4 DEF Inv
  <2>2. CASE UNCHANGED vars
    <3>1. InTime'
      BY <2>1, <2>2 DEF vars, InTime, Drained, Answered, OwnRows, EachOnce, Collected, Under
    <3>2. IdentityFresh' /\ FrameInStep'
      BY <2>1, <2>2 DEF vars, IdentityFresh, FrameInStep
    <3> QED BY <1>1, <3>1, <3>2 DEF Inv
  <2>3. CASE Next
    <3>1. InTime' /\ IdentityFresh' /\ FrameInStep'
      BY <1>4, <2>1, <2>3, WriteKeeps, IdentityKeeps, StartPollKeeps, TakeRowKeeps, GivingUpKeeps,
         DeliverKeeps DEF Next, Poll
    <3> QED BY <1>1, <3>1 DEF Inv
  <2> QED BY <2>2, <2>3
<1> QED BY <1>3, <1>4

(* The invariant behind both: what waits in the queue and in the call at hand. *)
THEOREM InvHolds == Spec => []Inv
<1>1. Init => Inv
  BY InitTypes, InitInv DEF Inv
<1>2. Inv /\ [Next]_vars => Inv'
  BY NextInv
<1> QED BY <1>1, <1>2, PTL DEF Spec

(* Whatever the keyboard sends, drops or delays, what an identity call of a  *)
(* daemon with a punctual keyboard returns describes the keyboard as it is.  *)
THEOREM IdentityIsFresh == Spec => []IdentityFresh
<1>1. Inv => IdentityFresh
  BY DEF Inv
<1> QED BY <1>1, InvHolds, PTL

(* And the frames polled are of their own request until a poll gives up.     *)
THEOREM FramesAreInStep == Spec => []FrameInStep
<1>1. Inv => FrameInStep
  BY DEF Inv
<1> QED BY <1>1, InvHolds, PTL
===============================================================================
