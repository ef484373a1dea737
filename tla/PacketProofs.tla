------------------------------ MODULE PacketProofs -----------------------------
(***************************************************************************)
(* What the encoding and the row packets do, for every width of the rows.  *)
(***************************************************************************)
EXTENDS Packet, TLAPS

(* Every encoded distance is an actuation point the keyboard supports.       *)
LEMMA MmToByteRange ==
    ASSUME NEW h \in Int
    PROVE  MmToByte(h) \in ActuationByte
  BY DEF MmToByte, RoundTenths, ActuationByte, ActuationMin, ActuationMax

LEMMA ActuationByteIsKeyByte == ActuationByte \subseteq KeyByte
  BY DEF ActuationByte, KeyByte, ActuationMin, ActuationMax

(* The encoded distance is the nearest tenth, or the nearer end of the range.*)
LEMMA MmToByteNearest ==
    ASSUME NEW h \in Int
    PROVE  LET wanted == IF h < 10 * ActuationMin THEN 10 * ActuationMin
                         ELSE IF h > 10 * ActuationMax THEN 10 * ActuationMax
                         ELSE h
           IN  10 * MmToByte(h) - wanted \in -5..5
  BY DEF MmToByte, RoundTenths, ActuationMin, ActuationMax

(* The rows partition the slots.                                             *)
LEMMA RowOfSlot ==
    ASSUME NEW s \in Slots
    PROVE  /\ RowOf(s) = 0 <=> s < KeysPerRow
           /\ RowOf(s) = 1 <=> KeysPerRow <= s /\ s < 2 * KeysPerRow
           /\ RowOf(s) = 2 <=> 2 * KeysPerRow <= s
           /\ RowOf(s) \in Rows
<1> DEFINE K == KeysPerRow
<1>1. K \in Nat \ {0} /\ s \in Nat /\ s < 3 * K
  BY RowAssumption DEF Slots, TotalKeys
<1>2. RowOf(s) \in Int /\ K * RowOf(s) <= s /\ s < K * (RowOf(s) + 1)
  BY <1>1, SMT DEF RowOf
<1> DEFINE r == RowOf(s)
<1>3. r \in Rows
  <2> SUFFICES ASSUME r < 0 \/ r > 2 PROVE FALSE
    BY <1>2 DEF Rows
  <2>1. CASE r < 0
    BY <1>1, <1>2, <2>1, SMT
  <2>2. CASE r > 2
    BY <1>1, <1>2, <2>2, SMT
  <2> QED BY <2>1, <2>2
<1>4. CASE r = 0 BY <1>1, <1>2, <1>4 DEF Rows
<1>5. CASE r = 1 BY <1>1, <1>2, <1>5 DEF Rows
<1>6. CASE r = 2 BY <1>1, <1>2, <1>6 DEF Rows
<1> QED BY <1>3, <1>4, <1>5, <1>6 DEF Rows

(* One packet of a flush: the keys of its row take their new values, the     *)
(* others keep what they had.                                                *)
LEMMA FlushRowEffect ==
    ASSUME NEW row \in Rows, NEW image, NEW values, NEW pad
    PROVE  FlushRow(image, values, row, pad) =
             [s \in Slots |-> IF RowOf(s) = row THEN values[s] ELSE image[s]]
<1> DEFINE K == KeysPerRow
           packet == ModifyRow(row, Chunk(values, row), ChunkLen(row), pad)
<1>1. K \in Nat /\ LastRowKeys \in 1..K /\ TotalKeys = 2 * K + LastRowKeys
  BY RowAssumption DEF TotalKeys
<1>2. ChunkLen(row) = Capacity(row) /\ Capacity(row) = (IF row = 2 THEN LastRowKeys ELSE K)
  BY <1>1 DEF ChunkLen, Capacity, Rows
<1>3. \A i \in 0..(Capacity(row) - 1) : packet[i] = values[row * K + i]
  <2> TAKE i \in 0..(Capacity(row) - 1)
  <2>1. Capacity(row) \in Nat /\ i < Capacity(row)
    BY <1>1, <1>2
  <2>2. Chunk(values, row)[i] = values[row * K + i]
    BY <1>2 DEF Chunk
  <2>3. packet[i] = Chunk(values, row)[i]
    BY <1>2, <2>1 DEF ModifyRow
  <2> QED BY <2>2, <2>3
<1>4. ASSUME NEW s \in Slots
      PROVE  RowOf(s) = row <=> row * K <= s /\ s < row * K + Capacity(row)
  BY <1>1, <1>2, RowOfSlot DEF Rows, Slots
<1>5. ASSUME NEW s \in Slots, RowOf(s) = row
      PROVE  packet[s - row * K] = values[s]
  <2>1. row * K \in Int /\ s - row * K \in 0..(Capacity(row) - 1) /\ row * K + (s - row * K) = s
    BY <1>1, <1>2, <1>4, <1>5 DEF Slots, Rows
  <2> QED BY <2>1, <1>3
<1> QED BY <1>4, <1>5 DEF FlushRow, StoreRow

(* A packet leaves a map of bytes a map of bytes, whatever the padding is.   *)
LEMMA FlushRowType ==
    ASSUME NEW row \in Rows, NEW S, NEW image \in [Slots -> S], NEW values \in [Slots -> S],
           NEW pad
    PROVE  FlushRow(image, values, row, pad) \in [Slots -> S]
  BY FlushRowEffect
===============================================================================
