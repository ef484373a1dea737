---------------------------------- MODULE Wire ----------------------------------
(***************************************************************************)
(* The bytes of the HID reports: the packets the host builds, what the     *)
(* keyboard makes of them, and what the host makes of the keyboard's       *)
(* replies and of the echoes of its own packets (src/src/protocol/*.rs).   *)
(* HidLink abstracts a report to its kind; this module shows that kinds    *)
(* are told apart.                                                         *)
(***************************************************************************)
EXTENDS Packet, Sequences

CONSTANTS
    PayloadLen,  \* PAYLOAD_LEN: bytes after the report id (63)
    KeyMaps,     \* key maps the host flushes
    Lights,      \* lighting settings: [dir, seq, speed, brightness, rgb]
    Signatures   \* model signatures of keyboards

Byte  == 0..255
Light == [dir : Byte, seq : Byte, speed : Byte, brightness : Byte, rgb : Byte]

ASSUME WireAssumption ==
    /\ PayloadLen \in Nat
    /\ PayloadLen >= KeysPerRow + 4 /\ PayloadLen >= 17
    /\ KeyMaps \subseteq [Slots -> Byte]
    /\ Lights \subseteq Light
    /\ Signatures \subseteq (Byte \X Byte \X Byte) \ {<<0, 0, 0>>}

cmd    == [IDENTITY |-> 160, LED_MODE |-> 174, MODIFY_KEY |-> 182,
           RAPID_TRIGGER |-> 181, KEY_TRACKING |-> 183]
modify == [ACTUATION |-> 1, KEY_TRACKING |-> 3, DOWNSTROKE |-> 4, UPSTROKE |-> 5]

Bit(b) == IF b THEN 1 ELSE 0

-------------------------------------------------------------------------------
(* The builders.  A payload is a function from byte positions.               *)

Payload(prefix) == [i \in 0..(PayloadLen - 1) |-> IF i < Len(prefix) THEN prefix[i + 1] ELSE 0]

IdentityRequest == Payload(<<cmd.IDENTITY, 2>>)

LedMode(light, turbo) ==
    Payload(<<cmd.LED_MODE, 1, Bit(turbo), light.dir, light.seq, light.speed,
              light.brightness, light.rgb>>)

\* The mutant swaps the toggles.
RapidTriggerTurboSwapped(rt, turbo) ==
    Payload(<<cmd.RAPID_TRIGGER, 0, 30, 1, 0, 0, 1, Bit(rt), Bit(turbo)>>)
RapidTriggerTurbo(rt, turbo) ==
    Payload(<<cmd.RAPID_TRIGGER, 0, 30, 1, 0, 0, 1, Bit(turbo), Bit(rt)>>)

KeyTracking(on) == Payload(<<cmd.MODIFY_KEY, modify.KEY_TRACKING, Bit(on)>>)

\* RowKind: sub_command and default_value.
RowKinds      == {"ACTUATION", "DOWNSTROKE", "UPSTROKE"}
DefaultOf(kind) == IF kind = "ACTUATION" THEN DefaultActuation ELSE 0

\* modify_row on a row of a map; the mutant puts the keys over the row number.
RowPacketEarly(kind, map, row) ==
    LET keys == ModifyRow(row, Chunk(map, row), ChunkLen(row), DefaultOf(kind))
    IN  [i \in 0..(PayloadLen - 1) |->
            IF i \in 3..(Capacity(row) + 2) THEN keys[i - 3]
            ELSE Payload(<<cmd.MODIFY_KEY, modify[kind], 0, row>>)[i]]
RowPacket(kind, map, row) ==
    LET keys == ModifyRow(row, Chunk(map, row), ChunkLen(row), DefaultOf(kind))
    IN  [i \in 0..(PayloadLen - 1) |->
            IF i \in 4..(Capacity(row) + 3) THEN keys[i - 4]
            ELSE Payload(<<cmd.MODIFY_KEY, modify[kind], 0, row>>)[i]]

\* Every packet the program writes.
Outbound ==
    {IdentityRequest}
        \cup {KeyTracking(on) : on \in BOOLEAN}
        \cup {LedMode(light, turbo) : light \in Lights, turbo \in BOOLEAN}
        \cup {RapidTriggerTurbo(rt, turbo) : rt \in BOOLEAN, turbo \in BOOLEAN}
        \cup {RowPacket(kind, map, row) : kind \in RowKinds, map \in KeyMaps, row \in Rows}

-------------------------------------------------------------------------------
(* The parsers, on a report of `len` bytes.                                  *)

NoIdentity == [found |-> FALSE]

\* Identity::parse; the mutant takes the zero signature of a stub for a model.
ParsesStubs(data, len) ==
    IF data[0] # cmd.IDENTITY \/ len < 17
    THEN NoIdentity
    ELSE [found |-> TRUE, turbo |-> data[15] # 0, rt |-> data[16] # 0]
ParseIdentity(data, len) ==
    IF data[0] # cmd.IDENTITY \/ len < 17 \/ (data[4] = 0 /\ data[5] = 0 /\ data[6] = 0)
    THEN NoIdentity
    ELSE [found |-> TRUE, turbo |-> data[15] # 0, rt |-> data[16] # 0]

\* The test of poll_depths for a row of depths.
IsDepthRow(data, len) == data[0] = cmd.KEY_TRACKING /\ len >= 5 /\ data[3] < 3

(* The keyboard (external; README "Protocol summary"): what a packet sets,   *)
(* and the identity reply once its toggles are set.                          *)
Nothing == [sets |-> "nothing"]
Heard(p) ==
    CASE p[0] = cmd.RAPID_TRIGGER -> [sets |-> "toggles", turbo |-> p[7] # 0, rt |-> p[8] # 0]
      [] p[0] = cmd.LED_MODE ->
            [sets |-> "light", light |-> [dir |-> p[3], seq |-> p[4], speed |-> p[5],
                                          brightness |-> p[6], rgb |-> p[7]]]
      [] p[0] = cmd.MODIFY_KEY /\ p[1] \in {modify[kind] : kind \in RowKinds} ->
            [sets |-> CHOOSE kind \in RowKinds : modify[kind] = p[1], row |-> p[3],
             keys |-> [i \in 0..(Capacity(p[3]) - 1) |-> p[i + 4]]]
      [] OTHER -> Nothing
IdentityReply(toggles, signature) ==
    [i \in 0..(PayloadLen - 1) |->
        CASE i = 0 -> cmd.IDENTITY
          [] i = 1 -> 2
          [] i = 3 -> 1
          [] i \in 4..6 -> signature[i - 3]
          [] i = 15 -> Bit(toggles.turbo)
          [] i = 16 -> Bit(toggles.rt)
          [] OTHER -> 0]

-------------------------------------------------------------------------------
(* The keyboard makes of every packet what the controller's call meant: the  *)
(* settings it names and no other, one map's row with each key's own byte,   *)
(* and nothing of the requests.                                              *)
KeyboardUnderstands ==
    /\ \A rt, turbo \in BOOLEAN :
        Heard(RapidTriggerTurbo(rt, turbo)) = [sets |-> "toggles", turbo |-> turbo, rt |-> rt]
    /\ \A light \in Lights, turbo \in BOOLEAN :
        Heard(LedMode(light, turbo)) = [sets |-> "light", light |-> light]
    /\ \A kind \in RowKinds, map \in KeyMaps, row \in Rows :
        LET heard == Heard(RowPacket(kind, map, row))
        IN  /\ heard.sets = kind /\ heard.row = row
            /\ \A s \in Slots : RowOf(s) = row => heard.keys[s - row * KeysPerRow] = map[s]
    /\ Heard(IdentityRequest) = Nothing /\ \A on \in BOOLEAN : Heard(KeyTracking(on)) = Nothing

(* The toggles the host sets are those the next identity reply tells it, in  *)
(* a report of any length the parser accepts.                                *)
ToggleRoundTrip ==
    \A signature \in Signatures, rt, turbo \in BOOLEAN, len \in 1..PayloadLen :
        LET heard == ParseIdentity(
                        IdentityReply(Heard(RapidTriggerTurbo(rt, turbo)), signature), len)
        IN  /\ heard.found <=> len >= 17
            /\ heard.found => heard.rt = rt /\ heard.turbo = turbo

(* device.rs:86, "Skip non-identity packets and stub/echo replies that fail  *)
(* to parse": the echo of a packet, whole or cut short, is never taken for   *)
(* an identity reply, nor for a row of depths.                               *)
EchoIsNoReply ==
    \A packet \in Outbound, len \in 1..PayloadLen :
        ~ParseIdentity(packet, len).found /\ ~IsDepthRow(packet, len)
===============================================================================
