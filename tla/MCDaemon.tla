------------------------------- MODULE MCDaemon --------------------------------
(* The daemon on small instances.                                            *)
EXTENDS DaemonRefinement, FiniteSets, TLC

CONSTANTS a, b, off, lit

\* Two keys per row and one in the last: every row has a key of its own, and the
\* last row is shorter than the others.
OneProducer == {a}
MCProducers == {a, b}
MCLeds      == {off, lit}

\* 1 and 3 can be applied; 2 names a key the layout lacks after an override it
\* knows; 4 is no TOML.
AllContent ==
    <<[act |-> 120, keys |-> (0 :> 40) @@ (4 :> 500), rt |-> TRUE, turbo |-> FALSE,
       unknown |-> FALSE],
      [act |-> 300, keys |-> (2 :> 10), rt |-> TRUE, turbo |-> TRUE, unknown |-> TRUE],
      [act |-> 155, keys |-> << >>, rt |-> TRUE, turbo |-> TRUE, unknown |-> FALSE],
      Unreadable>>
MCContent == [n \in Names |-> AllContent[n]]

MCDistances == {-100, 10, 40, 120, 155, 300, 500}

\* What the keyboard may hold when the daemon starts: its factory settings, and
\* what an earlier daemon left there.
Board(n, rt) == [act |-> [s \in Slots |-> n], down |-> [s \in Slots |-> 0],
                 up |-> [s \in Slots |-> 7], rt |-> rt, turbo |-> rt, led |-> lit]
UsedKeyboard   == {Board(38, TRUE)}

Simple(op) == [op |-> op]
Apply(n)   == [op |-> "ApplyProfile", name |-> n]

\* Profiles, and the requests that change what a profile set.
ProfileRequests ==
    {Apply(1), Apply(2), Simple("CycleProfile"),
     [op |-> "SetRapidTrigger", rt |-> FALSE, turbo |-> TRUE], Simple("ListProfiles")}

\* A vector that is too long and out of range, and what Reset undoes.
DeviceRequests ==
    {[op |-> "ApplyActuation", values |-> [i \in 0..3 |-> IF i = 2 THEN -100 ELSE 155]],
     Simple("Reset"), Simple("Depths")}
===============================================================================
