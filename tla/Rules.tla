---------------------------------- MODULE Rules ----------------------------------
(***************************************************************************)
(* Which profile the focused window gets: the rules of rules.toml in       *)
(* order, each with a glob tested without regard to case                   *)
(* (src/src/rules.rs).  The matcher is written as the code's recursion     *)
(* over suffixes; what a glob means is stated apart.                       *)
(***************************************************************************)
EXTENDS Naturals, Sequences, SequencesExt

CONSTANTS
    Small,      \* characters of lower case or none
    Big,        \* Big[a]: the capital of a, for those that have one
    RuleLists,  \* what rules.toml may say, as sequences of rules
    Profiles,
    MaxId,      \* bound on the length of an application id
    NoProfile   \* Rules::default when the file names none

Star    == "*"
Capitals == {Big[a] : a \in DOMAIN Big}
Letters == Small \cup Capitals \cup {Star}

Rule == [pattern : Seq(Letters), profile : Profiles]

ASSUME RulesAssumption ==
    /\ DOMAIN Big \subseteq Small
    /\ Star \notin Small \cup Capitals
    /\ Small \cap Capitals = {} /\ IsInjective(Big)
    /\ RuleLists \subseteq Seq(Rule)
    /\ MaxId \in Nat

-------------------------------------------------------------------------------
LowerLetter(l) == IF l \in Capitals THEN CHOOSE a \in DOMAIN Big : Big[a] = l ELSE l
Lowercase(s)   == [i \in DOMAIN s |-> LowerLetter(s[i])]

(* glob_match: a call of go, for the pattern from i and the text from j,     *)
(* with `go` for the calls it makes.  The mutant lets a star stand for one   *)
(* letter at most.                                                           *)
GoOnce(go, pattern, text, i, j) ==
    IF i > Len(pattern) THEN j > Len(text)
    ELSE IF pattern[i] = Star THEN go[<<i + 1, j>>] \/ (j <= Len(text) /\ go[<<i + 1, j + 1>>])
    ELSE j <= Len(text) /\ text[j] = pattern[i] /\ go[<<i + 1, j + 1>>]
Go(go, pattern, text, i, j) ==
    IF i > Len(pattern) THEN j > Len(text)
    ELSE IF pattern[i] = Star THEN go[<<i + 1, j>>] \/ (j <= Len(text) /\ go[<<i, j + 1>>])
    ELSE j <= Len(text) /\ text[j] = pattern[i] /\ go[<<i + 1, j + 1>>]

GlobMatch(pattern, text) ==
    LET go[at \in (1..(Len(pattern) + 1)) \X (1..(Len(text) + 1))] ==
            Go(go, pattern, text, at[1], at[2])
    IN  go[<<1, 1>>]

\* A rule's test in profile_for; the mutant forgets the pattern's case.
HitsIdOnly(rule, id) == GlobMatch(rule.pattern, Lowercase(id))
Hits(rule, id)       == GlobMatch(Lowercase(rule.pattern), Lowercase(id))

(* profile_for: the first rule that hits, or the default.  The mutant takes  *)
(* the last.                                                                 *)
LastProfileFor(rules, default, id) ==
    LET hits == {i \in DOMAIN rules : Hits(rules[i], id)}
    IN  IF hits = {} THEN default
        ELSE rules[CHOOSE i \in hits : \A j \in hits : i >= j].profile
ProfileFor(rules, default, id) ==
    LET hits == {i \in DOMAIN rules : Hits(rules[i], id)}
    IN  IF hits = {} THEN default
        ELSE rules[CHOOSE i \in hits : \A j \in hits : i <= j].profile

-------------------------------------------------------------------------------
(* What a glob means: the text is cut into a piece per pattern letter, a     *)
(* star's of any length, a letter's that letter alone.  `cut` says where     *)
(* each piece ends.                                                          *)
Means(pattern, text) ==
    \E cut \in [0..Len(pattern) -> 0..Len(text)] :
        /\ cut[0] = 0 /\ cut[Len(pattern)] = Len(text)
        /\ \A i \in 1..Len(pattern) :
            IF pattern[i] = Star THEN cut[i] >= cut[i - 1]
            ELSE cut[i] = cut[i - 1] + 1 /\ text[cut[i]] = pattern[i]

\* The ids windows can have: a star in one is a letter like any other.
Ids == BoundedSeq(Letters, MaxId)
Capital(s) == [i \in DOMAIN s |-> IF s[i] \in DOMAIN Big THEN Big[s[i]] ELSE s[i]]

\* Is this the profile of the first rule whose glob means the id, or else the default?
Chosen(profile, rules, default, id) ==
    LET means == {r \in DOMAIN rules : Means(Lowercase(rules[r].pattern), Lowercase(id))}
    IN  IF means = {} THEN profile = default
        ELSE \E r \in means : profile = rules[r].profile /\ \A q \in means : r <= q

(* rules.rs:9-10, "First matching rule wins", "tested case-insensitively",   *)
(* and rules.rs:82, "matches any run of characters, including none": the     *)
(* profile is that of the first rule whose glob means the window, adjacent   *)
(* stars and stars in ids included, and capitals change nothing.             *)
FirstRuleWins ==
    \A rules \in RuleLists, default \in Profiles \cup {NoProfile}, id \in Ids :
        LET profile == ProfileFor(rules, default, id)
            shouted == [r \in DOMAIN rules |-> [rules[r] EXCEPT !.pattern = Capital(@)]]
        IN  /\ Chosen(profile, rules, default, id)
            /\ profile = ProfileFor(shouted, default, Capital(id))
===============================================================================
