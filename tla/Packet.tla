-------------------------------- MODULE Packet --------------------------------
(***************************************************************************)
(* The part of the HID wire protocol that carries per-key values: the      *)
(* millimetre encoding, and the split of the flat key map into three row   *)
(* packets (src/src/protocol/packet.rs, consts.rs, layout.rs, and the row  *)
(* loop of Controller::flush_rows).                                        *)
(*                                                                         *)
(* Key maps are functions on Slots, as the code's [u8; TOTAL_KEYS].  A     *)
(* row packet keeps its key bytes only, indexed from 0: the command, the   *)
(* sub-command and the row number are arguments.                           *)
(***************************************************************************)
EXTENDS Integers

CONSTANTS
    KeysPerRow,   \* KEYS_PER_ROW: slots in protocol rows 0 and 1 (59)
    LastRowKeys   \* LAST_ROW_KEYS: slots in protocol row 2 (8)

ASSUME RowAssumption ==
    /\ KeysPerRow \in Nat \ {0}
    /\ LastRowKeys \in 1..KeysPerRow

TotalKeys == 2 * KeysPerRow + LastRowKeys
Slots     == 0..(TotalKeys - 1)
Rows      == 0..2

ActuationMin     == 2
ActuationMax     == 38
DefaultActuation == 20

\* The bytes a key's actuation point can have, and those of any key map.
ActuationByte == ActuationMin..ActuationMax
KeyByte       == 0..255

-------------------------------------------------------------------------------
(* (mm * 10.0).round(), on a distance given in hundredths of a millimetre:   *)
(* halves round away from zero.  The mutant truncates.                       *)
RoundTenthsDown(h) == h \div 10
RoundTenths(h)     == IF h >= 0 THEN (h + 5) \div 10 ELSE -((5 - h) \div 10)

\* Mutant of MmToByte: no upper bound.
MmToByteUnbounded(h) == IF RoundTenths(h) < ActuationMin THEN ActuationMin ELSE RoundTenths(h)

(* The device byte for a distance: rounded to 0.1 mm, clamped to the range   *)
(* the keyboard supports.                                                    *)
MmToByte(h) ==
    LET raw == RoundTenths(h)
    IN  IF raw < ActuationMin THEN ActuationMin
        ELSE IF raw > ActuationMax THEN ActuationMax
        ELSE raw

-------------------------------------------------------------------------------
\* Which row packet carries a slot.
RowOf(s) == s \div KeysPerRow

\* values.chunks(KEYS_PER_ROW): the row-th chunk, shorter at the end.
ChunkLen(row) == IF TotalKeys - row * KeysPerRow < KeysPerRow
                 THEN TotalKeys - row * KeysPerRow
                 ELSE KeysPerRow

\* The mutant starts a chunk at a multiple of its own length.
ChunkMisplaced(values, row) ==
    [i \in 0..(ChunkLen(row) - 1) |-> values[row * ChunkLen(row) + i]]
Chunk(values, row) ==
    [i \in 0..(ChunkLen(row) - 1) |-> values[row * KeysPerRow + i]]

\* How many key bytes the packet of a row holds.
Capacity(row) == IF row = 2 THEN LastRowKeys ELSE KeysPerRow

(* The key bytes of a modify-row packet: len of the caller's values, cut at  *)
(* the row's capacity and padded with the kind's default.                    *)
ModifyRow(row, keys, len, pad) ==
    LET n == IF len < Capacity(row) THEN len ELSE Capacity(row)
    IN  [i \in 0..(Capacity(row) - 1) |-> IF i < n THEN keys[i] ELSE pad]

(* What the keyboard's key map becomes on receiving a row packet: the        *)
(* firmware is external, its addressing is that of README "Key addressing".  *)
StoreRow(image, row, bytes) ==
    [s \in Slots |-> IF row * KeysPerRow <= s /\ s < row * KeysPerRow + Capacity(row)
                     THEN bytes[s - row * KeysPerRow]
                     ELSE image[s]]

\* One turn of the flush_rows loop, seen from the keyboard.
FlushRow(image, values, row, pad) ==
    StoreRow(image, row, ModifyRow(row, Chunk(values, row), ChunkLen(row), pad))
===============================================================================
