-------------------------------- MODULE MCWatch --------------------------------
(* The watcher and the daemon on small instances.                            *)
EXTENDS Watch, TLC

CONSTANTS w, c, off

JustWatcher      == {w}
WatcherAndClient == {w, c}
MCLeds == {off}

\* Rules over a letter with a capital and a character without: one with any
\* pattern of up to three characters, two with short ones, or none.
MCBig == [l \in {"a"} |-> "A"]
GlobRule(p, n) == [pattern |-> p, profile |-> n]
MCRuleLists ==
    {<< >>}
        \cup {<<GlobRule(p, 1)>> : p \in BoundedSeq(Letters, 3)}
        \cup {<<GlobRule(p, 1), GlobRule(q, 3)>> : p, q \in BoundedSeq(Letters, 1)}

\* The game has a profile, the editor another, the shell none.
MCRulesFile == <<GlobRule(<<"a", "*">>, 1), GlobRule(<<"_">>, 3)>>
game   == <<"A", "_">>
editor == <<"_">>
shell  == << >>
DesktopApps == {game, shell}
WorkApps    == {game, editor}

AllContent ==
    <<[act |-> 120, keys |-> (0 :> 40), rt |-> TRUE, turbo |-> FALSE, unknown |-> FALSE],
      Unreadable,
      [act |-> 300, keys |-> << >>, rt |-> FALSE, turbo |-> FALSE, unknown |-> FALSE]>>
MCContent   == [n \in Names |-> AllContent[n]]
MCDistances == {40, 120, 300}

MCInitialKeyboards ==
    {[act |-> [s \in Slots |-> 20], down |-> [s \in Slots |-> 0],
      up |-> [s \in Slots |-> 0], rt |-> FALSE, turbo |-> FALSE, led |-> off]}

\* What the client may send: the watcher's own requests are among them.
MCRequests == {[op |-> "ApplyProfile", name |-> 1], [op |-> "ApplyProfile", name |-> 3],
               [op |-> "CycleProfile"]}
===============================================================================
