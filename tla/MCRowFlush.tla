------------------------------ MODULE MCRowFlush -------------------------------
(* Row flushes and packets with the keyboard's dimensions.                   *)
EXTENDS RowFlush, Wire

\* Distances from -1.00 mm to 6.00 mm in many arrangements.
MCWishes == {[s \in Slots |-> ((s * k + j) % 701) - 100] : k \in {1, 13, 101}, j \in 0..39}

\* A uniform keyboard, and one where no two neighbours agree.
MCImages == {[s \in Slots |-> 20], [s \in Slots |-> (s * 11) % 256]}

\* Key bytes that a misplaced parser could take for a command.
MCKeyMaps == {[s \in Slots |-> 183 - s], [s \in Slots |-> (s * 5) % 256]}
MCLights  ==
    {[dir |-> 0, seq |-> 2, speed |-> 5, brightness |-> 9, rgb |-> 255],
     [dir |-> 183, seq |-> 0, speed |-> 1, brightness |-> 0, rgb |-> 7]}
MCSignatures == {<<11, 1, 1>>, <<0, 0, 1>>}
===============================================================================
