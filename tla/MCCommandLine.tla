----------------------------- MODULE MCCommandLine -----------------------------
(* The direct commands on a small instance.                                  *)
EXTENDS CommandLine, TLC

AllContent ==
    <<[act |-> 120, keys |-> (0 :> 40), rt |-> TRUE, turbo |-> FALSE, unknown |-> FALSE],
      [act |-> 500, keys |-> (2 :> 40), rt |-> FALSE, turbo |-> TRUE, unknown |-> TRUE],
      Unreadable>>
MCContent   == [n \in Names |-> AllContent[n]]
MCDistances == {40, 120, 500}

Actuation(mm, keys, unknown) ==
    [op |-> "actuation", mm |-> mm, keys |-> keys, unknown |-> unknown]

\* Keys of two rows; an unknown name after a known one; every other command.
MCCommands ==
    {Actuation(500, {}, FALSE), Actuation(40, {0, 4}, FALSE), Actuation(40, {1}, TRUE),
     [op |-> "rapid-trigger", rt |-> TRUE, turbo |-> FALSE], [op |-> "info"], [op |-> "reset"]}
        \cup {[op |-> "apply", name |-> n] : n \in Names}
===============================================================================
