-------------------------------- MODULE RowFlush -------------------------------
(***************************************************************************)
(* Request::ApplyActuation on the path that changes data only: the wanted  *)
(* distances become device bytes in the controller's map, and the map goes *)
(* to the keyboard in three row packets.  The model is small enough to be  *)
(* checked with the keyboard's real dimensions.                            *)
(***************************************************************************)
EXTENDS Packet

CONSTANTS
    Wishes,  \* wanted distances, in hundredths of a millimetre: functions on Slots
    Images   \* key maps the keyboard may hold before

ASSUME FlushAssumption ==
    /\ Wishes \subseteq [Slots -> Int]
    /\ Images \subseteq [Slots -> KeyByte]

VARIABLES
    wish,    \* the values of the request
    values,  \* Controller::actuation
    image,   \* the keyboard's actuation map
    old,     \* the map it held at the start
    row      \* the next row of flush_rows; 3 when it has returned

uploadVars == <<wish, values, image, old, row>>

UploadInit ==
    /\ wish \in Wishes
    /\ old \in Images
    /\ image = old
    /\ values = [s \in Slots |-> MmToByte(wish[s])]
    /\ row = 0

WriteRow ==
    /\ row \in Rows
    /\ image' = FlushRow(image, values, row, DefaultActuation)
    /\ row' = row + 1
    /\ UNCHANGED <<wish, values, old>>

UploadSpec == UploadInit /\ [][WriteRow]_uploadVars

-------------------------------------------------------------------------------
UploadTypeOK ==
    /\ wish \in [Slots -> Int]
    /\ values \in [Slots -> ActuationByte]
    /\ image \in [Slots -> KeyByte]
    /\ old \in [Slots -> KeyByte]
    /\ row \in 0..3

(* Each packet of a flush replaces the keys of its own row and no others, so *)
(* a flush cut short after any packet leaves whole rows, old or new.         *)
FlushProgress ==
    image = [s \in Slots |-> IF RowOf(s) < row THEN values[s] ELSE old[s]]

(* A finished upload leaves every key within half a tenth of a millimetre of *)
(* the distance asked for, or at the nearer end of the supported range.      *)
WishGranted ==
    row = 3 => \A s \in Slots :
        LET wanted == IF wish[s] < 10 * ActuationMin THEN 10 * ActuationMin
                      ELSE IF wish[s] > 10 * ActuationMax THEN 10 * ActuationMax
                      ELSE wish[s]
        IN  10 * image[s] - wanted \in -5..5
===============================================================================
