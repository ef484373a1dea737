----------------------------- MODULE DaemonProofs ------------------------------
(***************************************************************************)
(* The daemon, for every set of profiles, producers and requests and every *)
(* width of the rows: the invariant of DaemonInvariant is inductive, the   *)
(* daemon implements KeyboardService, and the focus watcher that runs in   *)
(* it knows which profile is active.                                       *)
(***************************************************************************)
EXTENDS Watch, DaemonRefinement, PacketProofs, WellFoundedInduction, FiniteSetTheorems

Ops == {"Status", "ListProfiles", "ApplyProfile", "CycleProfile", "SetActuationAll",
        "ApplyActuation", "SetRapidTrigger", "SetLed", "Reset", "Depths"}

LEMMA RequestOp == ASSUME NEW r \in Requests PROVE r \in Request /\ r.op \in Ops
<1>1. r \in Request
  BY TypesAssumption
<1> QED BY <1>1 DEF Request, Ops

\* Every step of the plan that sets up the map or writes to the keyboard is done.
WritesDone(op, past) ==
    LET profile == op \in {"ApplyProfile", "CycleProfile"}
        mapped  == profile \/ op \in {"SetActuationAll", "ApplyActuation", "Reset"}
    IN  /\ "act" \in past <=> mapped
        /\ "set" \in past \/ "load" \in past <=> mapped
        /\ "toggles" \in past <=> profile \/ op \in {"SetRapidTrigger", "Reset"}
        /\ "led" \in past <=> op \in {"SetLed", "Reset"}
        /\ "down" \in past <=> op = "Reset"
        /\ "up" \in past <=> op = "Reset"

\* While a plan writes, its map is set up, and it writes only what the request sets.
WritesBegun(op, begun) ==
    LET profile == op \in {"ApplyProfile", "CycleProfile"}
        mapped  == profile \/ op \in {"SetActuationAll", "ApplyActuation", "Reset"}
    IN  /\ "set" \in begun \/ "load" \in begun <=> mapped
        /\ "act" \in begun => mapped
        /\ "toggles" \in begun => profile \/ op \in {"SetRapidTrigger", "Reset"}
        /\ "led" \in begun => op \in {"SetLed", "Reset"}
        /\ "down" \in begun \/ "up" \in begun => op = "Reset"

(* What the order of a plan's steps guarantees at each of them.              *)
PlanOrder(op, i) ==
    LET p == Plan(op)
        past == PastOf(op, i)
        profile == op \in {"ApplyProfile", "CycleProfile"}
    IN  /\ past \subseteq Steps
        /\ i <= Len(p) =>
            /\ p[i] \in Steps
            /\ p[i] \notin past
            /\ PastOf(op, i + 1) = past \cup {p[i]}
            /\ p[i] \in {"next", "set", "list", "depths"} => past = {}
            /\ p[i] = "next" => op = "CycleProfile"
            /\ p[i] = "load" => profile /\ past \subseteq {"next"}
                                /\ (op = "CycleProfile" => "next" \in past)
            /\ p[i] = "set" => op \in {"SetActuationAll", "ApplyActuation", "Reset"}
            /\ p[i] \in {"act", "down", "up", "toggles", "led"} => "label" \notin past
            /\ p[i] = "act" => "set" \in past \/ "load" \in past
            /\ profile /\ p[i] \in {"act", "toggles", "label", "identity"} => "load" \in past
            /\ p[i] = "toggles" => profile \/ op \in {"SetRapidTrigger", "Reset"}
            /\ p[i] = "led" => op \in {"SetLed", "Reset"}
            /\ p[i] = "label" => op \notin {"Status", "ListProfiles", "Depths"}
            /\ p[i] = "label" /\ profile => "act" \in past /\ "toggles" \in past
            /\ p[i] = "label" => WritesDone(op, past)
            /\ p[i] = "identity" => past = {} \/ ("act" \in past /\ "label" \in past)
            /\ p[i] = "identity" => \/ op = "Status" /\ past = {}
                                    \/ op = "CycleProfile" /\ WritesDone(op, past)
            /\ p[i] \in {"act", "down", "up", "toggles", "led"} =>
                /\ op \notin {"Status", "ListProfiles", "Depths"}
                /\ WritesBegun(op, past \cup {p[i]})
            /\ p[i] = "list" <=> op = "ListProfiles"
            /\ p[i] = "depths" => op = "Depths"
            /\ p[i] = "next" => i = 1
            /\ op = "CycleProfile" /\ i = 1 => p[i] = "next"
            /\ p[i] = "label" /\ i = Len(p) => op \notin {"Status", "CycleProfile", "ListProfiles", "Depths"}
            /\ p[i] \notin {"identity", "list", "depths", "label"} => i < Len(p)
        /\ i = Len(p) + 1 =>
            /\ profile => "load" \in past
            /\ "set" \in past \/ "load" \in past => "act" \in past
            /\ "act" \in past \/ "toggles" \in past => "label" \in past
            /\ WritesDone(op, past)
            /\ "label" \in past <=> op \notin {"Status", "ListProfiles", "Depths"}

LEMMA PlanLen ==
    ASSUME NEW op \in Ops
    PROVE  Len(Plan(op)) \in 1..7
  BY DEF Ops, Plan

LEMMA PastGrows ==
    ASSUME NEW op
    PROVE  /\ PastOf(op, 1) = {}
           /\ \A i \in Nat \ {0} : PastOf(op, i + 1) = PastOf(op, i) \cup {Plan(op)[i]}
<1>1. 1..(1 - 1) = {} /\ \A i \in Nat \ {0} : 1..((i + 1) - 1) = 1..(i - 1) \cup {i}
  OBVIOUS
<1> QED BY <1>1 DEF PastOf

LEMMA PlanOrdered ==
    ASSUME NEW op \in Ops, NEW i \in 1..(Len(Plan(op)) + 1)
    PROVE  PlanOrder(op, i)
<1> DEFINE p == Plan(op)
<1>1. CASE op = "Status"
  <2>1. p = <<"identity">>
    BY <1>1 DEF Plan
  <2>2. Len(p) = 1 /\ p[1] = "identity"
    BY <2>1
  <2> HIDE DEF p
  <2>3. PastOf(op, 1) = {}
    BY <2>2, PastGrows DEF p
  <2>4. PastOf(op, 2) = {"identity"}
    BY <2>2, PastGrows, <2>3 DEF p
  <2>5. CASE i = 1 BY <1>1, <2>2, <2>3, <2>4, <2>5 DEF PlanOrder, WritesDone, WritesBegun, Steps, p
  <2>6. CASE i = 2 BY <1>1, <2>2, <2>4, <2>6 DEF PlanOrder, WritesDone, WritesBegun, Steps, p
  <2> QED BY <2>2, <2>5, <2>6 DEF p
<1>2. CASE op = "ListProfiles"
  <2>1. p = <<"list">>
    BY <1>2 DEF Plan
  <2>2. Len(p) = 1 /\ p[1] = "list"
    BY <2>1
  <2> HIDE DEF p
  <2>3. PastOf(op, 1) = {}
    BY <2>2, PastGrows DEF p
  <2>4. PastOf(op, 2) = {"list"}
    BY <2>2, PastGrows, <2>3 DEF p
  <2>5. CASE i = 1 BY <1>2, <2>2, <2>3, <2>4, <2>5 DEF PlanOrder, WritesDone, WritesBegun, Steps, p
  <2>6. CASE i = 2 BY <1>2, <2>2, <2>4, <2>6 DEF PlanOrder, WritesDone, WritesBegun, Steps, p
  <2> QED BY <2>2, <2>5, <2>6 DEF p
<1>3. CASE op = "ApplyProfile"
  <2>1. p = <<"load", "act", "toggles", "label">>
    BY <1>3 DEF Plan
  <2>2. Len(p) = 4 /\ p[1] = "load" /\ p[2] = "act" /\ p[3] = "toggles" /\ p[4] = "label"
    BY <2>1
  <2> HIDE DEF p
  <2>3. PastOf(op, 1) = {}
    BY <2>2, PastGrows DEF p
  <2>4. PastOf(op, 2) = {"load"}
    BY <2>2, PastGrows, <2>3 DEF p
  <2>5. PastOf(op, 3) = {"load", "act"}
    BY <2>2, PastGrows, <2>4 DEF p
  <2>6. PastOf(op, 4) = {"load", "act", "toggles"}
    BY <2>2, PastGrows, <2>5 DEF p
  <2>7. PastOf(op, 5) = {"load", "act", "toggles", "label"}
    BY <2>2, PastGrows, <2>6 DEF p
  <2>8. CASE i = 1 BY <1>3, <2>2, <2>3, <2>4, <2>8 DEF PlanOrder, WritesDone, WritesBegun, Steps, p
  <2>9. CASE i = 2 BY <1>3, <2>2, <2>4, <2>5, <2>9 DEF PlanOrder, WritesDone, WritesBegun, Steps, p
  <2>10. CASE i = 3 BY <1>3, <2>2, <2>5, <2>6, <2>10 DEF PlanOrder, WritesDone, WritesBegun, Steps, p
  <2>11. CASE i = 4 BY <1>3, <2>2, <2>6, <2>7, <2>11 DEF PlanOrder, WritesDone, WritesBegun, Steps, p
  <2>12. CASE i = 5 BY <1>3, <2>2, <2>7, <2>12 DEF PlanOrder, WritesDone, WritesBegun, Steps, p
  <2> QED BY <2>2, <2>8, <2>9, <2>10, <2>11, <2>12 DEF p
<1>4. CASE op = "CycleProfile"
  <2>1. p = <<"next", "load", "act", "toggles", "label", "identity">>
    BY <1>4 DEF Plan
  <2>2. Len(p) = 6 /\ p[1] = "next" /\ p[2] = "load" /\ p[3] = "act" /\ p[4] = "toggles" /\ p[5] = "label" /\ p[6] = "identity"
    BY <2>1
  <2> HIDE DEF p
  <2>3. PastOf(op, 1) = {}
    BY <2>2, PastGrows DEF p
  <2>4. PastOf(op, 2) = {"next"}
    BY <2>2, PastGrows, <2>3 DEF p
  <2>5. PastOf(op, 3) = {"next", "load"}
    BY <2>2, PastGrows, <2>4 DEF p
  <2>6. PastOf(op, 4) = {"next", "load", "act"}
    BY <2>2, PastGrows, <2>5 DEF p
  <2>7. PastOf(op, 5) = {"next", "load", "act", "toggles"}
    BY <2>2, PastGrows, <2>6 DEF p
  <2>8. PastOf(op, 6) = {"next", "load", "act", "toggles", "label"}
    BY <2>2, PastGrows, <2>7 DEF p
  <2>9. PastOf(op, 7) = {"next", "load", "act", "toggles", "label", "identity"}
    BY <2>2, PastGrows, <2>8 DEF p
  <2>10. CASE i = 1 BY <1>4, <2>2, <2>3, <2>4, <2>10 DEF PlanOrder, WritesDone, WritesBegun, Steps, p
  <2>11. CASE i = 2 BY <1>4, <2>2, <2>4, <2>5, <2>11 DEF PlanOrder, WritesDone, WritesBegun, Steps, p
  <2>12. CASE i = 3 BY <1>4, <2>2, <2>5, <2>6, <2>12 DEF PlanOrder, WritesDone, WritesBegun, Steps, p
  <2>13. CASE i = 4 BY <1>4, <2>2, <2>6, <2>7, <2>13 DEF PlanOrder, WritesDone, WritesBegun, Steps, p
  <2>14. CASE i = 5 BY <1>4, <2>2, <2>7, <2>8, <2>14 DEF PlanOrder, WritesDone, WritesBegun, Steps, p
  <2>15. CASE i = 6 BY <1>4, <2>2, <2>8, <2>9, <2>15 DEF PlanOrder, WritesDone, WritesBegun, Steps, p
  <2>16. CASE i = 7 BY <1>4, <2>2, <2>9, <2>16, SMTT(60) DEF PlanOrder, WritesDone, WritesBegun, Steps, p
  <2> QED BY <2>2, <2>10, <2>11, <2>12, <2>13, <2>14, <2>15, <2>16 DEF p
<1>5. CASE op = "SetActuationAll"
  <2>1. p = <<"set", "act", "label">>
    BY <1>5 DEF Plan
  <2>2. Len(p) = 3 /\ p[1] = "set" /\ p[2] = "act" /\ p[3] = "label"
    BY <2>1
  <2> HIDE DEF p
  <2>3. PastOf(op, 1) = {}
    BY <2>2, PastGrows DEF p
  <2>4. PastOf(op, 2) = {"set"}
    BY <2>2, PastGrows, <2>3 DEF p
  <2>5. PastOf(op, 3) = {"set", "act"}
    BY <2>2, PastGrows, <2>4 DEF p
  <2>6. PastOf(op, 4) = {"set", "act", "label"}
    BY <2>2, PastGrows, <2>5 DEF p
  <2>7. CASE i = 1 BY <1>5, <2>2, <2>3, <2>4, <2>7 DEF PlanOrder, WritesDone, WritesBegun, Steps, p
  <2>8. CASE i = 2 BY <1>5, <2>2, <2>4, <2>5, <2>8 DEF PlanOrder, WritesDone, WritesBegun, Steps, p
  <2>9. CASE i = 3 BY <1>5, <2>2, <2>5, <2>6, <2>9 DEF PlanOrder, WritesDone, WritesBegun, Steps, p
  <2>10. CASE i = 4 BY <1>5, <2>2, <2>6, <2>10 DEF PlanOrder, WritesDone, WritesBegun, Steps, p
  <2> QED BY <2>2, <2>7, <2>8, <2>9, <2>10 DEF p
<1>6. CASE op = "ApplyActuation"
  <2>1. p = <<"set", "act", "label">>
    BY <1>6 DEF Plan
  <2>2. Len(p) = 3 /\ p[1] = "set" /\ p[2] = "act" /\ p[3] = "label"
    BY <2>1
  <2> HIDE DEF p
  <2>3. PastOf(op, 1) = {}
    BY <2>2, PastGrows DEF p
  <2>4. PastOf(op, 2) = {"set"}
    BY <2>2, PastGrows, <2>3 DEF p
  <2>5. PastOf(op, 3) = {"set", "act"}
    BY <2>2, PastGrows, <2>4 DEF p
  <2>6. PastOf(op, 4) = {"set", "act", "label"}
    BY <2>2, PastGrows, <2>5 DEF p
  <2>7. CASE i = 1 BY <1>6, <2>2, <2>3, <2>4, <2>7 DEF PlanOrder, WritesDone, WritesBegun, Steps, p
  <2>8. CASE i = 2 BY <1>6, <2>2, <2>4, <2>5, <2>8 DEF PlanOrder, WritesDone, WritesBegun, Steps, p
  <2>9. CASE i = 3 BY <1>6, <2>2, <2>5, <2>6, <2>9 DEF PlanOrder, WritesDone, WritesBegun, Steps, p
  <2>10. CASE i = 4 BY <1>6, <2>2, <2>6, <2>10 DEF PlanOrder, WritesDone, WritesBegun, Steps, p
  <2> QED BY <2>2, <2>7, <2>8, <2>9, <2>10 DEF p
<1>7. CASE op = "SetRapidTrigger"
  <2>1. p = <<"toggles", "label">>
    BY <1>7 DEF Plan
  <2>2. Len(p) = 2 /\ p[1] = "toggles" /\ p[2] = "label"
    BY <2>1
  <2> HIDE DEF p
  <2>3. PastOf(op, 1) = {}
    BY <2>2, PastGrows DEF p
  <2>4. PastOf(op, 2) = {"toggles"}
    BY <2>2, PastGrows, <2>3 DEF p
  <2>5. PastOf(op, 3) = {"toggles", "label"}
    BY <2>2, PastGrows, <2>4 DEF p
  <2>6. CASE i = 1 BY <1>7, <2>2, <2>3, <2>4, <2>6 DEF PlanOrder, WritesDone, WritesBegun, Steps, p
  <2>7. CASE i = 2 BY <1>7, <2>2, <2>4, <2>5, <2>7 DEF PlanOrder, WritesDone, WritesBegun, Steps, p
  <2>8. CASE i = 3 BY <1>7, <2>2, <2>5, <2>8 DEF PlanOrder, WritesDone, WritesBegun, Steps, p
  <2> QED BY <2>2, <2>6, <2>7, <2>8 DEF p
<1>8. CASE op = "SetLed"
  <2>1. p = <<"led", "label">>
    BY <1>8 DEF Plan
  <2>2. Len(p) = 2 /\ p[1] = "led" /\ p[2] = "label"
    BY <2>1
  <2> HIDE DEF p
  <2>3. PastOf(op, 1) = {}
    BY <2>2, PastGrows DEF p
  <2>4. PastOf(op, 2) = {"led"}
    BY <2>2, PastGrows, <2>3 DEF p
  <2>5. PastOf(op, 3) = {"led", "label"}
    BY <2>2, PastGrows, <2>4 DEF p
  <2>6. CASE i = 1 BY <1>8, <2>2, <2>3, <2>4, <2>6 DEF PlanOrder, WritesDone, WritesBegun, Steps, p
  <2>7. CASE i = 2 BY <1>8, <2>2, <2>4, <2>5, <2>7 DEF PlanOrder, WritesDone, WritesBegun, Steps, p
  <2>8. CASE i = 3 BY <1>8, <2>2, <2>5, <2>8 DEF PlanOrder, WritesDone, WritesBegun, Steps, p
  <2> QED BY <2>2, <2>6, <2>7, <2>8 DEF p
<1>9. CASE op = "Reset"
  <2>1. p = <<"set", "led", "toggles", "act", "down", "up", "label">>
    BY <1>9 DEF Plan
  <2>2. Len(p) = 7 /\ p[1] = "set" /\ p[2] = "led" /\ p[3] = "toggles" /\ p[4] = "act" /\ p[5] = "down" /\ p[6] = "up" /\ p[7] = "label"
    BY <2>1
  <2> HIDE DEF p
  <2>3. PastOf(op, 1) = {}
    BY <2>2, PastGrows DEF p
  <2>4. PastOf(op, 2) = {"set"}
    BY <2>2, PastGrows, <2>3 DEF p
  <2>5. PastOf(op, 3) = {"set", "led"}
    BY <2>2, PastGrows, <2>4 DEF p
  <2>6. PastOf(op, 4) = {"set", "led", "toggles"}
    BY <2>2, PastGrows, <2>5 DEF p
  <2>7. PastOf(op, 5) = {"set", "led", "toggles", "act"}
    BY <2>2, PastGrows, <2>6 DEF p
  <2>8. PastOf(op, 6) = {"set", "led", "toggles", "act", "down"}
    BY <2>2, PastGrows, <2>7 DEF p
  <2>9. PastOf(op, 7) = {"set", "led", "toggles", "act", "down", "up"}
    BY <2>2, PastGrows, <2>8 DEF p
  <2>10. PastOf(op, 8) = {"set", "led", "toggles", "act", "down", "up", "label"}
    BY <2>2, PastGrows, <2>9 DEF p
  <2>11. CASE i = 1 BY <1>9, <2>2, <2>3, <2>4, <2>11 DEF PlanOrder, WritesDone, WritesBegun, Steps, p
  <2>12. CASE i = 2 BY <1>9, <2>2, <2>4, <2>5, <2>12 DEF PlanOrder, WritesDone, WritesBegun, Steps, p
  <2>13. CASE i = 3 BY <1>9, <2>2, <2>5, <2>6, <2>13 DEF PlanOrder, WritesDone, WritesBegun, Steps, p
  <2>14. CASE i = 4 BY <1>9, <2>2, <2>6, <2>7, <2>14, SMTT(60) DEF PlanOrder, WritesDone, WritesBegun, Steps, p
  <2>15. CASE i = 5 BY <1>9, <2>2, <2>7, <2>8, <2>15 DEF PlanOrder, WritesDone, WritesBegun, Steps, p
  <2>16. CASE i = 6 BY <1>9, <2>2, <2>8, <2>9, <2>16, SMTT(60) DEF PlanOrder, WritesDone, WritesBegun, Steps, p
  <2>17. CASE i = 7 BY <1>9, <2>2, <2>9, <2>10, <2>17 DEF PlanOrder, WritesDone, WritesBegun, Steps, p
  <2>18. CASE i = 8 BY <1>9, <2>2, <2>10, <2>18 DEF PlanOrder, WritesDone, WritesBegun, Steps, p
  <2> QED BY <2>2, <2>11, <2>12, <2>13, <2>14, <2>15, <2>16, <2>17, <2>18 DEF p
<1>10. CASE op = "Depths"
  <2>1. p = <<"depths">>
    BY <1>10 DEF Plan
  <2>2. Len(p) = 1 /\ p[1] = "depths"
    BY <2>1
  <2> HIDE DEF p
  <2>3. PastOf(op, 1) = {}
    BY <2>2, PastGrows DEF p
  <2>4. PastOf(op, 2) = {"depths"}
    BY <2>2, PastGrows, <2>3 DEF p
  <2>5. CASE i = 1 BY <1>10, <2>2, <2>3, <2>4, <2>5 DEF PlanOrder, WritesDone, WritesBegun, Steps, p
  <2>6. CASE i = 2 BY <1>10, <2>2, <2>4, <2>6 DEF PlanOrder, WritesDone, WritesBegun, Steps, p
  <2> QED BY <2>2, <2>5, <2>6 DEF p
<1> QED BY <1>1, <1>2, <1>3, <1>4, <1>5, <1>6, <1>7, <1>8, <1>9, <1>10 DEF Ops
-------------------------------------------------------------------------------
(* What the operators of KeyboardTypes yield.                                *)

LEMMA RequestFields ==
    ASSUME NEW r \in Requests
    PROVE  /\ r.op = "ApplyProfile" => r.name \in Names
           /\ r.op = "SetActuationAll" => r.mm \in Distances
           /\ r.op = "ApplyActuation" => \A i \in DOMAIN r.values : r.values[i] \in Distances
           /\ r.op = "SetRapidTrigger" => r.rt \in BOOLEAN /\ r.turbo \in BOOLEAN
           /\ r.op = "SetLed" => r.led \in Leds
<1>1. r \in Request
  BY RequestOp
<1>2. r.op = "ApplyProfile" => r \in [op : {"ApplyProfile"}, name : Names]
  BY <1>1 DEF Request
<1>3. r.op = "SetActuationAll" => r \in [op : {"SetActuationAll"}, mm : Distances]
  BY <1>1 DEF Request
<1>4. r.op = "ApplyActuation" =>
        \E n \in VectorLengths : r.values \in [0..(n - 1) -> Distances]
  BY <1>1 DEF Request
<1>5. r.op = "SetRapidTrigger" => r.rt \in BOOLEAN /\ r.turbo \in BOOLEAN
  BY <1>1 DEF Request
<1>6. r.op = "SetLed" => r \in [op : {"SetLed"}, led : Leds]
  BY <1>1 DEF Request
<1> QED BY <1>2, <1>3, <1>4, <1>5, <1>6

LEMMA MapOfType ==
    ASSUME NEW n \in Names, Readable(n)
    PROVE  /\ MapOf(Content[n]) \in [Slots -> ActuationByte]
           /\ Content[n].rt \in BOOLEAN /\ Content[n].turbo \in BOOLEAN
<1>1. Content[n] \in Profile
  BY TypesAssumption DEF Readable
<1> DEFINE profile == Content[n]
<1>2. /\ profile.act \in Int
      /\ \A s \in DOMAIN profile.keys : profile.keys[s] \in Int
  <2>1. profile.act \in Distances /\ profile.keys \in UNION {[D -> Distances] : D \in SUBSET Slots}
    BY <1>1 DEF Profile
  <2>2. PICK D \in SUBSET Slots : profile.keys \in [D -> Distances]
    BY <2>1
  <2> QED BY <2>1, <2>2, TypesAssumption
<1>3. MapOf(profile) \in [Slots -> ActuationByte]
  BY <1>2, MmToByteRange DEF MapOf
<1>4. profile.rt \in BOOLEAN /\ profile.turbo \in BOOLEAN
  BY <1>1 DEF Profile
<1> QED BY <1>3, <1>4

LEMMA WantedMapType ==
    ASSUME NEW r \in Requests, NEW n, NEW map \in [Slots -> ActuationByte],
           AppliesProfile(r) => n \in Names /\ Readable(n)
    PROVE  WantedMap(r, n, map) \in [Slots -> ActuationByte]
<1>1. CASE AppliesProfile(r)
  BY <1>1, MapOfType DEF WantedMap, AppliesProfile
<1>2. CASE r.op = "SetActuationAll"
  <2>1. r.mm \in Int
    BY <1>2, RequestFields, TypesAssumption
  <2> QED BY <1>2, <2>1, MmToByteRange DEF WantedMap, AppliesProfile
<1>3. CASE r.op = "ApplyActuation"
  <2>1. \A i \in DOMAIN r.values : r.values[i] \in Int
    BY <1>3, RequestFields, TypesAssumption
  <2>2. WantedMap(r, n, map) = [s \in Slots |-> IF s \in DOMAIN r.values
                                               THEN MmToByte(r.values[s]) ELSE map[s]]
    BY <1>3 DEF WantedMap, AppliesProfile
  <2> QED BY <2>1, <2>2, MmToByteRange
<1>4. CASE r.op = "Reset"
  BY <1>4 DEF WantedMap, AppliesProfile, ActuationByte, DefaultActuation, ActuationMin,
              ActuationMax
<1> QED BY <1>1, <1>2, <1>3, <1>4 DEF WantedMap

LEMMA WantedTogglesType ==
    ASSUME NEW r \in Requests, NEW n, AppliesProfile(r) => n \in Names /\ Readable(n)
    PROVE  WantedToggles(r, n).rt \in BOOLEAN /\ WantedToggles(r, n).turbo \in BOOLEAN
<1>1. CASE AppliesProfile(r)
  BY <1>1, MapOfType DEF WantedToggles, AppliesProfile
<1>2. CASE r.op = "SetRapidTrigger"
  BY <1>2, RequestFields DEF WantedToggles, AppliesProfile
<1> QED BY <1>1, <1>2 DEF WantedToggles

LEMMA WantedLedType ==
    ASSUME NEW r \in Requests
    PROVE  WantedLed(r) \in Leds
  BY RequestFields, TypesAssumption DEF WantedLed

LEMMA LabelAfterType ==
    ASSUME NEW r, NEW n, NEW label \in Label, AppliesProfile(r) => n \in Names
    PROVE  LabelAfter(r, n, label) \in Label
  BY DEF LabelAfter, Label

\* The least of a set of numbers.
LEMMA Least ==
    ASSUME NEW S \in SUBSET Nat, S # {}
    PROVE  \E n \in S : \A m \in S : n <= m
<1>1. PICK n \in S : \A m \in S : <<m, n>> \notin OpToRel(<, Nat)
  BY NatLessThanWellFounded, WFMin
<1>2. ASSUME NEW m \in S, m < n PROVE FALSE
  <2>1. <<m, n>> \in Nat \X Nat /\ <<m, n>>[1] < <<m, n>>[2]
    BY <1>2
  <2> QED BY <1>1, <2>1, Zenon DEF OpToRel
<1> QED BY <1>2

\* Induction, for a set of numbers.
LEMMA Induct ==
    ASSUME NEW S, 0 \in S, \A n \in Nat : n \in S => n + 1 \in S
    PROVE  \A n \in Nat : n \in S
<1> SUFFICES ASSUME Nat \ S # {} PROVE FALSE
  OBVIOUS
<1>1. PICK n \in Nat \ S : \A m \in Nat \ S : n <= m
  <2>1. Nat \ S \in SUBSET Nat
    OBVIOUS
  <2> QED BY <2>1, Least
<1>2. n # 0 /\ n - 1 \in Nat /\ n - 1 \in S
  BY <1>1
<1>3. (n - 1) + 1 \in S
  BY <1>2
<1> QED BY <1>1, <1>3

\* The next profile of a label: the first one after it, or the first.
LEMMA NextIs ==
    ASSUME NEW files \in SUBSET Names, files # {}, NEW label
    PROVE  /\ NextProfileName(label, files) \in files
           /\ label \in files /\ (\E m \in files : m > label) =>
                /\ NextProfileName(label, files) > label
                /\ \A m \in files : m > label => NextProfileName(label, files) <= m
           /\ label \notin files \/ (\A m \in files : ~(m > label)) =>
                \A m \in files : NextProfileName(label, files) <= m
<1> DEFINE later == {n \in files : label \in files /\ n > label}
           pool  == IF later = {} THEN files ELSE later
           next  == NextProfileName(label, files)
<1>1. pool \subseteq files /\ pool # {} /\ pool \in SUBSET Nat
  BY TypesAssumption
<1>2. next \in pool /\ \A m \in pool : next <= m
  <2>1. \E n \in pool : \A m \in pool : n <= m
    BY <1>1, Least
  <2> QED BY <2>1 DEF NextProfileName
<1> HIDE DEF next
<1>3. CASE later = {}
  <2>1. next \in files /\ (\A m \in files : next <= m)
    BY <1>2, <1>3
  <2>2. label \in files => \A m \in files : ~(m > label)
    BY <1>3
  <2> QED BY <2>1, <2>2 DEF next
<1>4. CASE later # {}
  <2>1. next \in later /\ \A m \in later : next <= m
    BY <1>2, <1>4
  <2>2. label \in files /\ \E m \in files : m > label
    BY <1>4
  <2> QED BY <2>1, <2>2 DEF next
<1> QED BY <1>3, <1>4

LEMMA NextProfileType ==
    ASSUME NEW files \in SUBSET Names, files # {}, NEW label
    PROVE  NextProfileName(label, files) \in Names
  BY NextIs

-------------------------------------------------------------------------------
(* The control state of a job.                                               *)

LEMMA ErrorIsResponse == ErrorReply \in Response /\ ErrorReply # None
  BY TypesAssumption DEF ErrorReply, Response

\* What is known whenever the device thread is about to execute a step.
LEMMA AtStep ==
    ASSUME Inv, NEW step, At(step)
    PROVE  /\ from # None /\ result = None /\ ~Failed
           /\ TypeOK /\ JobControl /\ JobProgress
           /\ req \in Requests /\ req.op \in Ops
           /\ pc \in 1..7 /\ pc <= Len(Plan(req.op))
           /\ Plan(req.op)[pc] = step
           /\ PlanOrder(req.op, pc)
<1>1. from # None /\ result = None /\ ~Failed
  BY ErrorIsResponse DEF At, Failed
<1>2. TypeOK /\ JobControl /\ JobProgress
  BY <1>1 DEF Inv
<1>3. req \in Requests /\ req.op \in Ops /\ pc <= Len(Plan(req.op)) /\ pc \in 1..(Len(Plan(req.op)) + 1)
  BY <1>1, <1>2, RequestOp DEF JobControl
<1>4. pc \in 1..7
  <2> DEFINE n == Len(Plan(req.op))
  <2>1. n \in 1..7 /\ pc <= n /\ pc \in 1..(n + 1)
    BY <1>3, PlanLen
  <2> HIDE DEF n
  <2> QED BY <2>1
<1>5. PlanOrder(req.op, pc)
  BY <1>3, PlanOrdered
<1> QED BY <1>1, <1>2, <1>3, <1>4, <1>5 DEF At

\* A step that succeeds.
LEMMA AdvanceControl ==
    ASSUME Inv, NEW step, At(step),
           NEW response \in (Response \ {ErrorReply}) \cup {None},
           response = None <=> step \notin {"identity", "list", "depths", "label"},
           Advance(response), pending' = pending, jobs' = jobs, reply' = reply
    PROVE  /\ from' = from /\ req' = req /\ name' = name /\ before' = before
           /\ pc' \in 1..8 /\ row' = 0
           /\ result' \in Response \cup {None}
           /\ JobControl' /\ ~Failed'
           /\ Past' = Past \cup {step}
           /\ \A x : ~Flushing(x)'
<1>1. /\ from # None /\ result = None /\ JobControl /\ TypeOK /\ req.op \in Ops
      /\ pc \in 1..7 /\ pc <= Len(Plan(req.op)) /\ PlanOrder(req.op, pc)
      /\ Plan(req.op)[pc] = step /\ Len(Plan(req.op)) \in 1..7
  BY AtStep, PlanLen
<1>2. /\ from' = from /\ req' = req /\ name' = name /\ before' = before
      /\ pc' = pc + 1 /\ row' = 0
      /\ result' = IF pc = Len(Plan(req.op)) THEN response ELSE None
  BY DEF Advance
<1>3. result' \in Response \cup {None} /\ ~Failed'
  BY <1>2, ErrorIsResponse DEF Failed
<1>4. step \notin {"identity", "list", "depths", "label"} => pc < Len(Plan(req.op))
  BY <1>1 DEF PlanOrder
<1>5. JobControl'
  <2>1. (pc \in 1..(Len(Plan(req.op)) + 1))'
    BY <1>1, <1>2
  <2>2. (result = None => pc <= Len(Plan(req.op)))'
    BY <1>1, <1>2, <1>4
  <2>3. (result # None => pc = Len(Plan(req.op)) + 1)'
    BY <1>1, <1>2
  <2> QED BY <1>1, <1>2, <1>3, <2>1, <2>2, <2>3 DEF JobControl
<1>6. Past' = Past \cup {step}
  BY <1>1, <1>2, PastGrows DEF Past
<1> QED BY <1>1, <1>2, <1>3, <1>5, <1>6 DEF Flushing

\* A step that makes handle return an error.
LEMMA AbortControl ==
    ASSUME Inv, NEW step, At(step), Abort
    PROVE  /\ from' = from /\ req' = req /\ name' = name /\ before' = before
           /\ pc' = pc /\ row' = row
           /\ result' \in Response \cup {None}
           /\ JobControl' /\ Failed'
<1>1. /\ JobControl /\ TypeOK /\ result' = ErrorReply
      /\ from' = from /\ req' = req /\ name' = name /\ before' = before /\ pc' = pc /\ row' = row
  BY AtStep DEF Abort
<1> QED BY <1>1, ErrorIsResponse DEF JobControl, Failed
-------------------------------------------------------------------------------
(* The steps outside handle.                                                 *)

\* The conjuncts of Inv about the job in hand and the controller.
JobInv == /\ from = None => IdleState
          /\ from # None => JobControl
          /\ from # None /\ ~Failed => JobProgress
          /\ CleanMeans

LEMMA InvParts == Inv <=> TypeOK /\ JobInv
  BY DEF Inv, JobInv

LEMMA JobStable ==
    ASSUME JobInv, UNCHANGED <<jobVars, stateVars>>
    PROVE  JobInv'
<1>1. /\ from' = from /\ req' = req /\ name' = name /\ pc' = pc /\ row' = row
      /\ result' = result /\ before' = before
      /\ mirror' = mirror /\ active' = active /\ fw' = fw /\ clean' = clean
  BY DEF jobVars, stateVars
<1>2. /\ IdleState' = IdleState /\ JobControl' = JobControl /\ Failed' = Failed
  BY <1>1 DEF IdleState, JobControl, Failed
<1>3. Past' = Past /\ \A step : Flushing(step)' = Flushing(step)
  BY <1>1 DEF Past, Flushing
<1>4. \A step : Done(step)' = Done(step) /\ Untouched(step)' = Untouched(step)
                /\ OnBoard(step)' = OnBoard(step) /\ FlushMap(step)' = FlushMap(step)
  BY <1>1 DEF Done, Untouched, OnBoard, FlushMap
<1>5. JobProgress' = JobProgress
  BY <1>1, <1>3, <1>4 DEF JobProgress
<1>6. CleanMeans' = CleanMeans
  BY <1>1, <1>2, <1>3 DEF CleanMeans, MapAhead, LabelBehind, Holds
<1> QED BY <1>1, <1>2, <1>5, <1>6 DEF JobInv

LEMMA InitInv == Init => Inv
<1> SUFFICES ASSUME Init PROVE Inv
  OBVIOUS
<1>1. mirror \in [Slots -> ActuationByte]
  BY DEF Init, ActuationByte, DefaultActuation, ActuationMin, ActuationMax
<1>2. fw \in Keyboard
  BY DaemonAssumption DEF Init
<1>3. TypeOK
  <2>1. pending \in [Producers -> Requests \cup {None}]
        /\ reply \in [Producers -> Response \cup {None}]
    BY DEF Init
  <2>2. jobs \in Seq(Job)
    BY DEF Init
  <2>3. /\ from = None /\ req = None /\ name \in Label /\ result = None /\ before = None
        /\ active \in Label
    BY DEF Init, Label
  <2>4. pc \in 1..8 /\ row \in Rows
    BY DEF Init, Rows
  <2>5. open \in BOOLEAN /\ store \in SUBSET Names /\ clean \in BOOLEAN
    BY Zenon DEF Init
  <2> QED BY <1>1, <1>2, <2>1, <2>2, <2>3, <2>4, <2>5 DEF TypeOK
<1>4. IdleState /\ CleanMeans /\ from = None
  BY DEF Init, IdleState, CleanMeans
<1> QED BY <1>3, <1>4 DEF Inv

LEMMA SubmitInv == ASSUME Inv, NEW p \in Producers, Submit(p) PROVE Inv'
<1>1. JobInv'
  BY InvParts, JobStable DEF Submit
<1>2. PICK r \in Requests : /\ pending' = [pending EXCEPT ![p] = r]
                            /\ jobs' = Append(jobs, [from |-> p, req |-> r])
  BY DEF Submit, Enqueue
<1>3. [from |-> p, req |-> r] \in Job
  BY DEF Job
<1>4. TypeOK'
  BY <1>2, <1>3 DEF Inv, TypeOK, Submit, jobVars, stateVars, envVars
<1> QED BY <1>1, <1>4, InvParts DEF Inv, JobInv

LEMMA ReceiveInv == ASSUME Inv, NEW p \in Producers, Receive(p) PROVE Inv'
<1>1. JobInv'
  BY InvParts, JobStable DEF Receive
<1>2. TypeOK'
  BY DEF Inv, TypeOK, Receive, jobVars, stateVars, envVars
<1> QED BY <1>1, <1>2 DEF Inv, JobInv

LEMMA EnvironmentInv == ASSUME Inv, Unplug \/ EditStore PROVE Inv'
<1>1. JobInv'
  BY InvParts, JobStable DEF Unplug, EditStore
<1>2. TypeOK'
  BY DEF Inv, TypeOK, Unplug, EditStore, jobVars, stateVars, producerVars
<1> QED BY <1>1, <1>2 DEF Inv, JobInv

LEMMA StutterInv == ASSUME Inv, UNCHANGED vars PROVE Inv'
<1>1. JobInv'
  BY InvParts, JobStable DEF vars
<1>2. TypeOK'
  BY DEF Inv, TypeOK, vars, jobVars, stateVars, producerVars, envVars
<1> QED BY <1>1, <1>2 DEF Inv, JobInv

LEMMA TakeInv == ASSUME Inv, Take PROVE Inv'
<1>1. /\ from = None /\ IdleState /\ TypeOK /\ CleanMeans /\ jobs # << >>
      /\ jobs \in Seq(Job)
  BY DEF Inv, Take, TypeOK
<1> DEFINE job == Head(jobs)
<1>2. job \in Job /\ jobs' \in Seq(Job)
  BY <1>1 DEF Take
<1>3. /\ from' = job.from /\ req' = job.req
      /\ name' = IF job.req.op = "ApplyProfile" THEN job.req.name ELSE None
      /\ before' = [fw |-> fw, mirror |-> mirror, active |-> active]
      /\ UNCHANGED <<pending, reply, pc, row, result, mirror, active, fw, clean, open, store>>
  BY DEF Take, stateVars, envVars
<1>4. /\ job.from \in Producers /\ job.req \in Requests /\ job.req.op \in Ops
      /\ job.from # None /\ job.req # None
  BY <1>2, RequestOp, DaemonAssumption, TypesAssumption DEF Job
<1> HIDE DEF job
<1>5. name' \in Label
  BY <1>3, <1>4, RequestFields DEF Label
<1>6. mirror \in [Slots -> KeyByte]
  BY <1>1, ActuationByteIsKeyByte DEF TypeOK
<1>7. before' \in Snapshot
  BY <1>1, <1>3, <1>6 DEF Snapshot, TypeOK
<1>8. TypeOK'
  BY <1>1, <1>2, <1>3, <1>4, <1>5, <1>7 DEF TypeOK
<1>9. pc' = 1 /\ row' = 0 /\ result' = None /\ ~Failed'
  BY <1>1, <1>3, ErrorIsResponse DEF IdleState, Failed
<1>10. Past' = {}
  BY <1>9, PastGrows DEF Past
<1>11. JobControl'
  <2> DEFINE n == Len(Plan(job.req.op))
  <2>1. n \in 1..7
    BY <1>4, PlanLen
  <2> HIDE DEF n
  <2>a. 1 \in 1..(n + 1) /\ 1 <= n
    BY <2>1
  <2>2. pc' \in 1..(Len(Plan(req'.op)) + 1) /\ pc' <= Len(Plan(req'.op))
    BY <1>3, <1>9, <2>a DEF n
  <2>3. req'.op = "ApplyProfile" => name' = req'.name
    BY <1>3
  <2> QED BY <1>3, <1>4, <1>7, <1>9, <2>2, <2>3 DEF JobControl
<1>12. JobProgress'
  <2>1. \A step : Untouched(step)'
    BY <1>3 DEF Untouched
  <2> QED BY <1>3, <1>9, <1>10, <2>1 DEF JobProgress, Flushing
<1>13. CleanMeans'
  BY <1>1, <1>3 DEF CleanMeans, Holds
<1> QED BY <1>3, <1>4, <1>8, <1>11, <1>12, <1>13 DEF Inv

LEMMA ReplyInv == ASSUME Inv, Reply PROVE Inv'
<1>1. /\ from # None /\ result # None /\ TypeOK /\ JobControl /\ CleanMeans
  BY DEF Inv, Reply
<1>2. /\ from' = None /\ req' = None /\ name' = None /\ result' = None /\ before' = None
      /\ pc' = 1 /\ row' = 0 /\ reply' = [reply EXCEPT ![from] = result]
      /\ UNCHANGED <<pending, jobs, mirror, active, fw, clean, open, store>>
  BY DEF Reply, Send, stateVars, envVars
<1>3. TypeOK'
  BY <1>1, <1>2 DEF TypeOK, Label, Rows
<1>4. IdleState'
  BY <1>2 DEF IdleState
<1>5. Failed \/ (~MapAhead /\ ~LabelBehind)
  <2> SUFFICES ASSUME ~Failed PROVE ~MapAhead /\ ~LabelBehind
    OBVIOUS
  <2>1. pc = Len(Plan(req.op)) + 1 /\ row = 0 /\ req.op \in Ops /\ req \in Requests
    <3>1. pc = Len(Plan(req.op)) + 1 /\ req \in Requests /\ row \in 0..2
      BY <1>1 DEF JobControl, TypeOK, Rows
    <3>2. Len(Plan(req.op)) \in 1..7
      BY <3>1, RequestOp, PlanLen
    <3>3. row > 0 => pc <= Len(Plan(req.op))
      BY <1>1 DEF JobControl
    <3> QED BY <3>1, <3>2, <3>3, RequestOp
  <2>2. PlanOrder(req.op, pc)
    <3>1. Len(Plan(req.op)) \in 1..7
      BY <2>1, PlanLen
    <3>2. pc \in 1..(Len(Plan(req.op)) + 1)
      BY <2>1, <3>1
    <3> QED BY <2>1, <3>2, PlanOrdered
  <2> QED BY <2>1, <2>2 DEF PlanOrder, MapAhead, LabelBehind, Flushing, Past
<1>6. CleanMeans'
  BY <1>1, <1>2, <1>5 DEF CleanMeans, Holds
<1> QED BY <1>2, <1>3, <1>4, <1>6 DEF Inv
-------------------------------------------------------------------------------
(* The steps of handle that leave the keyboard and the controller alone.     *)

LEMMA RowZero ==
    ASSUME Inv, NEW step, At(step), step \notin {"act", "down", "up"}
    PROVE  row = 0
<1>1. TypeOK /\ JobControl /\ Plan(req.op)[pc] = step
  BY AtStep
<1> QED BY <1>1 DEF TypeOK, JobControl, Rows

LEMMA AbortSame ==
    ASSUME Inv, NEW step, At(step), Abort, UNCHANGED <<producerVars, stateVars, envVars>>,
           ~MapAhead, ~LabelBehind
    PROVE  Inv'
<1>1. /\ from' = from /\ req' = req /\ name' = name /\ before' = before
      /\ pc' = pc /\ row' = row /\ result' \in Response \cup {None}
      /\ JobControl' /\ Failed'
  BY AbortControl
<1>2. UNCHANGED <<pending, jobs, reply, mirror, active, fw, clean, open, store>>
  BY DEF producerVars, stateVars, envVars
<1>3. from # None /\ TypeOK /\ CleanMeans
  BY AtStep DEF Inv
<1>4. TypeOK'
  BY <1>1, <1>2, <1>3 DEF TypeOK
<1>5. CleanMeans'
  BY <1>2, <1>3 DEF CleanMeans, Holds
<1> QED BY <1>1, <1>3, <1>4, <1>5 DEF Inv

LEMMA AdvanceSame ==
    ASSUME Inv, NEW step \in {"identity", "list", "depths"}, At(step),
           NEW response \in Response \ {ErrorReply}, Advance(response),
           UNCHANGED <<producerVars, stateVars, envVars>>
    PROVE  Inv'
<1>1. UNCHANGED <<pending, jobs, reply, mirror, active, fw, clean, open, store>>
  BY DEF producerVars, stateVars, envVars
<1>2. response # None /\ response \in (Response \ {ErrorReply}) \cup {None}
  BY TypesAssumption
<1>3. /\ from' = from /\ req' = req /\ name' = name /\ before' = before
      /\ pc' \in 1..8 /\ row' = 0 /\ result' \in Response \cup {None}
      /\ JobControl' /\ ~Failed' /\ Past' = Past \cup {step}
      /\ \A x : ~Flushing(x)'
  BY <1>1, <1>2, AdvanceControl
<1>4. from # None /\ ~Failed /\ TypeOK /\ JobProgress /\ CleanMeans
  BY AtStep DEF Inv
<1>5. row = 0 /\ \A x : ~Flushing(x)
  BY RowZero DEF Flushing
<1>6. TypeOK'
  BY <1>1, <1>3, <1>4 DEF TypeOK, Rows
<1>7. \A x : Done(x)' = Done(x) /\ Untouched(x)' = Untouched(x)
  BY <1>1, <1>3 DEF Done, Untouched, OnBoard, FlushMap
<1>8. Done(step)
  BY DEF Done
<1>9. JobProgress'
  BY <1>1, <1>3, <1>4, <1>5, <1>7, <1>8 DEF JobProgress
<1>10. MapAhead' = MapAhead /\ LabelBehind' = LabelBehind
  BY <1>3, <1>5 DEF MapAhead, LabelBehind
<1>11. CleanMeans'
  BY <1>1, <1>3, <1>4, <1>10 DEF CleanMeans, Holds
<1> QED BY <1>3, <1>4, <1>6, <1>9, <1>11 DEF Inv

LEMMA ListProfilesInv == ASSUME Inv, ListProfiles PROVE Inv'
<1>1. At("list") /\ store \in SUBSET Names
  BY DEF ListProfiles, Inv, TypeOK
<1>2. [kind |-> "Profiles", names |-> store] \in Response \ {ErrorReply}
  BY <1>1 DEF Response, ErrorReply
<1> QED BY <1>1, <1>2, AdvanceSame DEF ListProfiles

LEMMA PollDepthsInv == ASSUME Inv, PollDepths PROVE Inv'
<1>1. At("depths")
  BY DEF PollDepths
<1>2. [kind |-> "Depths"] \in Response \ {ErrorReply}
  BY DEF Response, ErrorReply
<1>3. ~MapAhead /\ ~LabelBehind
  <2>1. Past = {} /\ row = 0
    BY <1>1, AtStep, RowZero DEF PlanOrder, Past
  <2> QED BY <2>1 DEF MapAhead, LabelBehind, Flushing
<1> QED BY <1>1, <1>2, <1>3, AdvanceSame, AbortSame DEF PollDepths

LEMMA IdentityInv == ASSUME Inv, Identity PROVE Inv'
<1>1. At("identity") /\ fw \in Keyboard /\ active \in Label
  BY DEF Identity, Inv, TypeOK
<1>2. [kind |-> "Status", rt |-> fw.rt, turbo |-> fw.turbo, active |-> active]
        \in Response \ {ErrorReply}
  BY <1>1 DEF Response, ErrorReply, Keyboard
<1>3. ~MapAhead /\ ~LabelBehind
  <2>1. (Past = {} \/ ("act" \in Past /\ "label" \in Past)) /\ row = 0
    BY <1>1, AtStep, RowZero DEF PlanOrder, Past
  <2> QED BY <2>1 DEF MapAhead, LabelBehind, Flushing
<1> QED BY <1>1, <1>2, <1>3, AdvanceSame, AbortSame DEF Identity

LEMMA ChooseNextInv == ASSUME Inv, ChooseNext PROVE Inv'
<1>1. At("next") /\ TypeOK /\ JobControl /\ JobProgress /\ CleanMeans /\ from # None
      /\ req \in Requests /\ pc \in 1..7 /\ PlanOrder(req.op, pc) /\ ~Failed
      /\ Plan(req.op)[pc] = "next" /\ result = None
  BY AtStep DEF ChooseNext, Inv
<1>2. Past = {} /\ row = 0 /\ pc < Len(Plan(req.op)) /\ req.op = "CycleProfile"
      /\ PastOf(req.op, pc + 1) = {"next"}
  <2>1. row = 0
    BY <1>1, RowZero
  <2>2. pc <= Len(Plan(req.op))
    BY <1>1, AtStep
  <2>3. PastOf(req.op, pc) = {}
    BY <1>1, <2>2 DEF PlanOrder
  <2>4. pc < Len(Plan(req.op)) /\ req.op = "CycleProfile"
        /\ PastOf(req.op, pc + 1) = PastOf(req.op, pc) \cup {"next"}
    BY <1>1, <2>2 DEF PlanOrder
  <2> QED BY <2>1, <2>3, <2>4 DEF Past
<1>3. CASE Abort
  <2>1. ~MapAhead /\ ~LabelBehind
    BY <1>2 DEF MapAhead, LabelBehind, Flushing
  <2> QED BY <1>1, <1>3, <2>1, AbortSame DEF ChooseNext
<1>4. CASE /\ store # {} /\ name' = NextProfileName(active, store) /\ pc' = pc + 1
           /\ UNCHANGED <<from, req, row, result, before>>
  <2>1. UNCHANGED <<pending, jobs, reply, mirror, active, fw, clean, open, store>>
    BY DEF ChooseNext, producerVars, stateVars, envVars
  <2>2. name' \in Names
    BY <1>1, <1>4, NextProfileType DEF TypeOK
  <2>3. TypeOK'
    BY <1>1, <1>4, <2>1, <2>2 DEF TypeOK, Label
  <2>4. JobControl' /\ ~Failed'
    <3> DEFINE n == Len(Plan(req.op))
    <3>1. n \in 1..7 /\ pc < n
      BY <1>1, <1>2, RequestOp, PlanLen
    <3> HIDE DEF n
    <3>2. pc' \in 1..(n + 1) /\ pc' <= n
      BY <1>1, <1>4, <3>1
    <3> QED BY <1>1, <1>2, <1>4, <3>2 DEF JobControl, Failed, n
  <2>5. Past' = {"next"} /\ \A x : ~Flushing(x)' /\ ~Flushing(x)
    BY <1>2, <1>4 DEF Past, Flushing
  <2>6. \A x : Untouched(x)' = Untouched(x)
    BY <1>4, <2>1 DEF Untouched
  <2>7. Done("next")'
    BY <2>2 DEF Done
  <2>8. JobProgress'
    BY <1>1, <1>2, <1>4, <2>1, <2>5, <2>6, <2>7 DEF JobProgress
  <2>9. ~MapAhead /\ ~LabelBehind
    BY <1>2, <2>5 DEF MapAhead, LabelBehind
  <2>10. CleanMeans'
    BY <1>1, <2>1, <2>9 DEF CleanMeans, Holds
  <2> QED BY <1>1, <1>4, <2>3, <2>4, <2>8, <2>10 DEF Inv
<1> QED BY <1>3, <1>4 DEF ChooseNext
-------------------------------------------------------------------------------
(* The steps that change the controller: its map, and the label.             *)

\* A profile is known from the moment it is loaded.
LEMMA ProfileKnown ==
    ASSUME Inv, NEW step \in {"act", "toggles", "label"}, At(step), AppliesProfile(req)
    PROVE  name \in Names /\ Appliable(name)
<1>1. "load" \in Past
  BY AtStep DEF PlanOrder, Past, AppliesProfile
<1>2. Done("load")
  BY <1>1, AtStep DEF JobProgress
<1> QED BY <1>2 DEF Done

\* What setting up the map has in common, whichever the request.
LEMMA NewMap ==
    ASSUME Inv, NEW step \in {"load", "set"}, At(step), Advance(None),
           step = "load" => name \in Names /\ Appliable(name),
           mirror' = WantedMap(req, name, mirror), mirror' \in [Slots -> ActuationByte],
           clean' = clean, UNCHANGED <<producerVars, active, fw, envVars>>
    PROVE  Inv'
<1>1. UNCHANGED <<pending, jobs, reply, active, fw, open, store>>
  BY DEF producerVars, envVars
<1>2. /\ from' = from /\ req' = req /\ name' = name /\ before' = before
      /\ pc' \in 1..8 /\ row' = 0 /\ result' \in Response \cup {None}
      /\ JobControl' /\ ~Failed' /\ Past' = Past \cup {step}
      /\ \A x : ~Flushing(x)'
  BY <1>1, AdvanceControl
<1>3. from # None /\ ~Failed /\ TypeOK /\ JobProgress /\ CleanMeans
  BY AtStep DEF Inv
<1>4. row = 0 /\ \A x : ~Flushing(x)
  BY RowZero DEF Flushing
<1>5. /\ Past \subseteq {"next"}
  BY AtStep DEF PlanOrder, Past
<1>6. TypeOK'
  BY <1>1, <1>2, <1>3 DEF TypeOK, Rows
<1>7. mirror = before.mirror
  BY <1>3, <1>5 DEF JobProgress
<1>8. Done(step)'
  BY <1>2, <1>7 DEF Done
<1>9. \A x \in Past : Done(x)'
  BY <1>2, <1>3, <1>5 DEF JobProgress, Done
<1>10. \A x : Untouched(x)' = Untouched(x)
  BY <1>1, <1>2 DEF Untouched
<1>11. JobProgress'
  BY <1>2, <1>3, <1>4, <1>8, <1>9, <1>10 DEF JobProgress
<1>12. MapAhead' /\ LabelBehind' = LabelBehind
  BY <1>2, <1>4, <1>5 DEF MapAhead, LabelBehind
<1>13. CleanMeans'
  BY <1>1, <1>2, <1>3, <1>12 DEF CleanMeans, Holds
<1> QED BY <1>2, <1>3, <1>6, <1>11, <1>13 DEF Inv

LEMMA SetActuationInv == ASSUME Inv, SetActuation PROVE Inv'
<1>1. At("set") /\ req \in Requests /\ mirror \in [Slots -> ActuationByte]
  BY AtStep DEF SetActuation, TypeOK
<1>2. ~AppliesProfile(req)
  BY <1>1, AtStep DEF PlanOrder, AppliesProfile
<1>3. mirror' = WantedMap(req, name, mirror) /\ mirror' \in [Slots -> ActuationByte]
  BY <1>1, <1>2, WantedMapType DEF SetActuation
<1> QED BY <1>1, <1>3, NewMap DEF SetActuation

LEMMA LoadProfileInv == ASSUME Inv, LoadProfile PROVE Inv'
<1>1. /\ At("load") /\ from # None /\ TypeOK /\ CleanMeans /\ req \in Requests
      /\ mirror \in [Slots -> ActuationByte]
  BY AtStep DEF LoadProfile, TypeOK, Inv
<1>2. ~MapAhead /\ ~LabelBehind
  <2>1. Past \subseteq {"next"} /\ row = 0
    BY <1>1, AtStep, RowZero DEF PlanOrder, Past
  <2> QED BY <2>1 DEF MapAhead, LabelBehind, Flushing
<1>3. CASE Abort /\ UNCHANGED <<mirror, clean>>
  BY <1>1, <1>2, <1>3, AbortSame DEF LoadProfile, stateVars
<1>4. CASE /\ name \in store /\ Readable(name)
           /\ mirror' = WantedMap(req, name, mirror)
           /\ clean' = (clean /\ Appliable(name))
           /\ IF Appliable(name) THEN Advance(None) ELSE Abort
  <2>1. name \in Names
    BY <1>1, <1>4 DEF TypeOK
  <2>2. mirror' \in [Slots -> ActuationByte]
    BY <1>1, <1>4, <2>1, WantedMapType
  <2>3. CASE Appliable(name)
    <3>1. clean' = clean
      BY <1>1, <1>4, <2>3 DEF TypeOK
    <3> QED BY <1>1, <1>4, <2>1, <2>2, <2>3, <3>1, NewMap DEF LoadProfile
  <2>4. CASE ~Appliable(name)
    <3>1. UNCHANGED <<pending, jobs, reply, active, fw, open, store>>
      BY DEF LoadProfile, producerVars, envVars
    <3>2. /\ from' = from /\ req' = req /\ name' = name /\ before' = before
          /\ pc' = pc /\ row' = row /\ result' \in Response \cup {None}
          /\ JobControl' /\ Failed'
      BY <1>1, <1>4, <2>4, AbortControl
    <3>3. clean' = FALSE
      BY <1>4, <2>4
    <3>4. TypeOK'
      BY <1>1, <2>2, <3>1, <3>2, <3>3 DEF TypeOK
    <3> QED BY <1>1, <3>2, <3>3, <3>4 DEF Inv, CleanMeans
  <2> QED BY <2>3, <2>4
<1> QED BY <1>3, <1>4 DEF LoadProfile

LEMMA SetLabelInv == ASSUME Inv, SetLabel PROVE Inv'
<1>1. /\ At("label") /\ from # None /\ TypeOK /\ CleanMeans /\ JobProgress /\ ~Failed
      /\ req \in Requests /\ req.op \in Ops
      /\ active' = LabelAfter(req, name, active) /\ Advance([kind |-> "Ok"])
      /\ UNCHANGED <<pending, jobs, reply, mirror, fw, clean, open, store>>
  BY AtStep DEF SetLabel, Inv, producerVars, envVars
<1>2. /\ [kind |-> "Ok"] \in (Response \ {ErrorReply}) \cup {None}
      /\ [kind |-> "Ok"] # None
  <2>1. [kind |-> "Ok"] \in Response /\ [kind |-> "Ok"] # ErrorReply
    BY DEF Response, ErrorReply
  <2> QED BY <2>1, TypesAssumption
<1>3. /\ from' = from /\ req' = req /\ name' = name /\ before' = before
      /\ pc' \in 1..8 /\ row' = 0 /\ result' \in Response \cup {None}
      /\ JobControl' /\ ~Failed' /\ Past' = Past \cup {"label"}
      /\ \A x : ~Flushing(x)'
  BY <1>1, <1>2, AdvanceControl
<1>4. row = 0 /\ \A x : ~Flushing(x)
  BY <1>1, RowZero DEF Flushing
<1>5. "label" \notin Past
  BY <1>1, AtStep DEF PlanOrder, Past
<1>6. AppliesProfile(req) => name \in Names /\ Appliable(name)
  BY <1>1, ProfileKnown
<1>7. TypeOK'
  <2>1. active' \in Label
    BY <1>1, <1>6, LabelAfterType DEF TypeOK
  <2> QED BY <1>1, <1>3, <2>1 DEF TypeOK, Rows
<1>8. active = before.active
  <2>1. Untouched("label")
    BY <1>1, <1>4, <1>5 DEF JobProgress, Steps
  <2> QED BY <2>1 DEF Untouched
<1>9. Done("label")'
  BY <1>1, <1>3, <1>8 DEF Done
<1>10. \A x : x # "label" => Done(x)' = Done(x) /\ Untouched(x)' = Untouched(x)
  BY <1>1, <1>3 DEF Done, Untouched, OnBoard, FlushMap
<1>11. JobProgress'
  BY <1>1, <1>3, <1>4, <1>5, <1>9, <1>10 DEF JobProgress
<1>12. MapAhead' = MapAhead /\ ~LabelBehind'
  BY <1>3 DEF MapAhead, LabelBehind
<1>13. (active # None => Holds(active))'
  <2> SUFFICES ASSUME active' # None PROVE Holds(active)'
    OBVIOUS
  <2>1. AppliesProfile(req) /\ active' = name
    <3>1. SetsLabel(req)
      BY <1>1, AtStep DEF PlanOrder, Ops, SetsLabel, SetsMap, SetsToggles, SetsLed,
                          AppliesProfile
    <3> QED BY <1>1, <3>1 DEF LabelAfter
  <2>2. Done("load") /\ Done("act") /\ Done("toggles")
    <3>1. "load" \in Past /\ "act" \in Past /\ "toggles" \in Past
      BY <1>1, <2>1, AtStep DEF PlanOrder, Past, AppliesProfile
    <3> QED BY <1>1, <3>1 DEF JobProgress
  <2>3. WantedMap(req, name, before.mirror) = MapOf(Content[name])
    BY <2>1 DEF WantedMap, AppliesProfile
  <2>4. WantedToggles(req, name) = [rt |-> Content[name].rt, turbo |-> Content[name].turbo]
    BY <2>1 DEF WantedToggles, AppliesProfile
  <2>5. fw.act = MapOf(Content[name]) /\ fw.rt = Content[name].rt
        /\ fw.turbo = Content[name].turbo
    BY <2>2, <2>3, <2>4 DEF Done, OnBoard, FlushMap
  <2> QED BY <1>1, <1>6, <2>1, <2>5 DEF Holds, Appliable
<1>14. CleanMeans'
  BY <1>1, <1>3, <1>12, <1>13 DEF CleanMeans
<1> QED BY <1>1, <1>3, <1>7, <1>11, <1>14 DEF Inv
-------------------------------------------------------------------------------
(* The steps that write to the keyboard.                                     *)

FlushSteps == {"act", "down", "up"}

\* A row packet: one row of one map, and nothing else.
LEMMA FlushPacket ==
    ASSUME Inv, NEW step \in FlushSteps, At(step)
    PROVE  LET m == [s \in Slots |-> IF RowOf(s) = row THEN FlushMap(step)[s]
                                                       ELSE OnBoard(step)[s]]
           IN  /\ AfterPacket \in Keyboard
               /\ AfterPacket.act = IF step = "act" THEN m ELSE fw.act
               /\ AfterPacket.down = IF step = "down" THEN m ELSE fw.down
               /\ AfterPacket.up = IF step = "up" THEN m ELSE fw.up
               /\ AfterPacket.rt = fw.rt /\ AfterPacket.turbo = fw.turbo
               /\ AfterPacket.led = fw.led
<1> DEFINE m == [s \in Slots |-> IF RowOf(s) = row THEN FlushMap(step)[s]
                                                   ELSE OnBoard(step)[s]]
           zeros == [s \in Slots |-> 0]
<1>1. /\ fw \in Keyboard /\ row \in Rows /\ mirror \in [Slots -> KeyByte]
      /\ Plan(req.op)[pc] = step
  BY AtStep, ActuationByteIsKeyByte DEF TypeOK
<1>2. zeros \in [Slots -> KeyByte]
  BY DEF KeyByte
<1>3. \A x : At(x) => x = step
  BY <1>1 DEF At
<1>4. fw.act \in [Slots -> KeyByte] /\ fw.down \in [Slots -> KeyByte]
      /\ fw.up \in [Slots -> KeyByte]
  BY <1>1 DEF Keyboard
<1>5. m \in [Slots -> KeyByte]
  BY <1>1, <1>2, <1>4 DEF FlushMap, OnBoard, FlushSteps
<1>6. CASE step = "act"
  <2>1. FlushRow(fw.act, mirror, row, DefaultActuation) = m
    BY <1>1, <1>6, FlushRowEffect DEF FlushMap, OnBoard
  <2>2. AfterPacket = [fw EXCEPT !.act = m]
    BY <1>3, <1>6, <2>1 DEF AfterPacket
  <2> HIDE DEF m
  <2>3. /\ AfterPacket \in Keyboard /\ AfterPacket.act = m
        /\ AfterPacket.down = fw.down /\ AfterPacket.up = fw.up
        /\ AfterPacket.rt = fw.rt /\ AfterPacket.turbo = fw.turbo /\ AfterPacket.led = fw.led
    BY <1>1, <1>5, <2>2 DEF Keyboard
  <2> QED BY <1>6, <2>3 DEF m
<1>7. CASE step = "down"
  <2>1. FlushRow(fw.down, zeros, row, 0) = m
    BY <1>1, <1>7, FlushRowEffect DEF FlushMap, OnBoard
  <2>2. AfterPacket = [fw EXCEPT !.down = m]
    BY <1>3, <1>7, <2>1 DEF AfterPacket
  <2> HIDE DEF m
  <2>3. /\ AfterPacket \in Keyboard /\ AfterPacket.down = m
        /\ AfterPacket.act = fw.act /\ AfterPacket.up = fw.up
        /\ AfterPacket.rt = fw.rt /\ AfterPacket.turbo = fw.turbo /\ AfterPacket.led = fw.led
    BY <1>1, <1>5, <2>2 DEF Keyboard
  <2> QED BY <1>7, <2>3 DEF m
<1>8. CASE step = "up"
  <2>1. FlushRow(fw.up, zeros, row, 0) = m
    BY <1>1, <1>8, FlushRowEffect DEF FlushMap, OnBoard
  <2>2. AfterPacket = [fw EXCEPT !.up = m]
    BY <1>3, <1>8, <2>1 DEF AfterPacket
  <2> HIDE DEF m
  <2>3. /\ AfterPacket \in Keyboard /\ AfterPacket.up = m
        /\ AfterPacket.act = fw.act /\ AfterPacket.down = fw.down
        /\ AfterPacket.rt = fw.rt /\ AfterPacket.turbo = fw.turbo /\ AfterPacket.led = fw.led
    BY <1>1, <1>5, <2>2 DEF Keyboard
  <2> QED BY <1>8, <2>3 DEF m
<1> QED BY <1>6, <1>7, <1>8 DEF FlushSteps

\* The packets of set_rapid_trigger and set_led.
LEMMA SinglePacket ==
    ASSUME Inv, NEW step \in {"toggles", "led"}, At(step)
    PROVE  /\ AfterPacket \in Keyboard
           /\ AfterPacket.act = fw.act /\ AfterPacket.down = fw.down
           /\ AfterPacket.up = fw.up
           /\ AfterPacket.led = IF step = "led" THEN WantedLed(req) ELSE fw.led
           /\ AfterPacket.rt = IF step = "toggles" THEN WantedToggles(req, name).rt
                                                   ELSE fw.rt
           /\ AfterPacket.turbo = IF step = "toggles" THEN WantedToggles(req, name).turbo
                                                      ELSE fw.turbo
<1>1. fw \in Keyboard /\ Plan(req.op)[pc] = step /\ req \in Requests
  BY AtStep DEF TypeOK
<1>2. \A x : At(x) => x = step
  BY <1>1 DEF At
<1>3. CASE step = "led"
  <2>1. AfterPacket = [fw EXCEPT !.led = WantedLed(req)]
    BY <1>2, <1>3 DEF AfterPacket
  <2>2. WantedLed(req) \in Leds
    BY <1>1, WantedLedType
  <2> QED BY <1>1, <1>3, <2>1, <2>2 DEF Keyboard
<1>4. CASE step = "toggles"
  <2> DEFINE rt == WantedToggles(req, name).rt
             turbo == WantedToggles(req, name).turbo
  <2>1. AfterPacket = [fw EXCEPT !.rt = rt, !.turbo = turbo]
    BY <1>2, <1>4 DEF AfterPacket
  <2>2. rt \in BOOLEAN /\ turbo \in BOOLEAN
    BY <1>1, <1>4, ProfileKnown, WantedTogglesType DEF Appliable
  <2> HIDE DEF rt, turbo
  <2>3. AfterPacket \in Keyboard
    BY <1>1, <2>1, <2>2 DEF Keyboard
  <2> QED BY <1>1, <1>4, <2>1, <2>3 DEF Keyboard, rt, turbo
<1> QED BY <1>3, <1>4

LEMMA AtWriteSteps ==
    ASSUME AtWrite
    PROVE  \E step \in FlushSteps \cup {"toggles", "led"} : At(step)
  BY DEF AtWrite, IsFlush, FlushSteps

LEMMA WriteFailsInv == ASSUME Inv, WriteFails PROVE Inv'
<1>1. PICK step \in FlushSteps \cup {"toggles", "led"} : At(step)
  BY AtWriteSteps DEF WriteFails
<1>2. /\ from' = from /\ req' = req /\ name' = name /\ before' = before
      /\ pc' = pc /\ row' = row /\ result' \in Response \cup {None}
      /\ JobControl' /\ Failed'
  BY <1>1, AbortControl DEF WriteFails
<1>3. from # None /\ TypeOK
  BY <1>1, AtStep
<1>4. fw' \in Keyboard
  <2>1. AfterPacket \in Keyboard
    BY <1>1, FlushPacket, SinglePacket
  <2> QED BY <1>3, <2>1 DEF WriteFails, TypeOK
<1>5. clean' = FALSE /\ UNCHANGED <<pending, jobs, reply, mirror, active, open, store>>
  BY DEF WriteFails, producerVars, envVars
<1>6. TypeOK'
  BY <1>2, <1>3, <1>4, <1>5 DEF TypeOK
<1> QED BY <1>2, <1>3, <1>5, <1>6 DEF Inv, CleanMeans

\* Every row packet but the last.
LEMMA WriteRowInv ==
    ASSUME Inv, NEW step \in FlushSteps, At(step), row < LastRow, Write
    PROVE  Inv'
<1>1. /\ from # None /\ result = None /\ ~Failed /\ TypeOK /\ JobControl /\ JobProgress
      /\ CleanMeans /\ Plan(req.op)[pc] = step /\ pc <= Len(Plan(req.op))
  BY AtStep DEF Inv
<1>2. step \in Steps /\ step \notin Past /\ "label" \notin Past
      /\ (step = "act" => "set" \in Past \/ "load" \in Past)
  BY AtStep DEF PlanOrder, Past, FlushSteps
<1>3. /\ row' = row + 1 /\ fw' = AfterPacket
      /\ UNCHANGED <<from, req, name, pc, result, before>>
      /\ UNCHANGED <<pending, jobs, reply, mirror, active, open, store>>
  BY DEF Write, IsFlush, FlushSteps, producerVars, envVars
<1>4. clean' = clean
  BY <1>1 DEF Write, TypeOK, Rows, LastRow
<1>5. row \in Rows /\ row' \in Rows /\ row' > 0
  BY <1>1, <1>3 DEF TypeOK, Rows, LastRow
<1>6. /\ fw' \in Keyboard
      /\ \A x \in FlushSteps : OnBoard(x)' =
            IF x = step THEN [s \in Slots |-> IF RowOf(s) = row THEN FlushMap(x)[s]
                                                               ELSE OnBoard(x)[s]]
                        ELSE OnBoard(x)
      /\ fw'.rt = fw.rt /\ fw'.turbo = fw.turbo /\ fw'.led = fw.led
  BY <1>3, FlushPacket DEF OnBoard, FlushSteps
<1>7. TypeOK'
  BY <1>1, <1>3, <1>4, <1>5, <1>6 DEF TypeOK
<1>8. JobControl' /\ ~Failed' /\ Past' = Past /\ \A x : FlushMap(x)' = FlushMap(x)
  BY <1>1, <1>3 DEF JobControl, Failed, Past, FlushSteps, FlushMap
<1>9. \A x : /\ Flushing(x)' <=> x = step
             /\ Flushing(x) => x = step
  BY <1>1, <1>3, <1>5 DEF Flushing
<1>10. \A x : x # step /\ Done(x) => Done(x)'
  BY <1>3, <1>6, <1>8 DEF Done, FlushSteps
<1>11. \A x : x # step /\ Untouched(x) => Untouched(x)'
  BY <1>3, <1>6 DEF Untouched, OnBoard, FlushSteps
<1>12. ASSUME NEW s \in Slots, RowOf(s) < row'
       PROVE  OnBoard(step)'[s] = FlushMap(step)[s]
  <2>1. RowOf(s) = row \/ (RowOf(s) # row /\ RowOf(s) < row)
    BY <1>3, <1>5, <1>12, RowOfSlot DEF Rows
  <2>2. RowOf(s) < row => OnBoard(step)[s] = FlushMap(step)[s]
    <3>1. row > 0 => Flushing(step)
      BY <1>1 DEF Flushing
    <3>2. RowOf(s) < row => row > 0
      BY <1>5, RowOfSlot DEF Rows
    <3> QED BY <1>1, <3>1, <3>2 DEF JobProgress, FlushSteps
  <2>3. OnBoard(step)'[s] = IF RowOf(s) = row THEN FlushMap(step)[s] ELSE OnBoard(step)[s]
    BY <1>6
  <2> QED BY <2>1, <2>2, <2>3
<1>13. JobProgress'
  <2>1. \A x \in Past' : Done(x)'
    BY <1>1, <1>2, <1>8, <1>10 DEF JobProgress
  <2>2. \A x \in Steps \ Past' : Flushing(x)' \/ Untouched(x)'
    BY <1>1, <1>8, <1>9, <1>11 DEF JobProgress
  <2>3. ("set" \notin Past /\ "load" \notin Past => mirror = before.mirror)'
    BY <1>1, <1>3, <1>8 DEF JobProgress
  <2>4. \A s \in Slots, x \in FlushSteps :
            Flushing(x)' /\ RowOf(s) < row' => OnBoard(x)'[s] = FlushMap(x)'[s]
    BY <1>8, <1>9, <1>12
  <2> QED BY <2>1, <2>2, <2>3, <2>4 DEF JobProgress, FlushSteps
<1>14. CleanMeans'
  <2>1. CASE step = "act"
    <3>1. MapAhead' /\ LabelBehind'
      BY <1>2, <1>8, <1>9, <2>1 DEF MapAhead, LabelBehind
    <3> QED BY <1>1, <1>3, <1>8, <3>1 DEF CleanMeans
  <2>2. CASE step # "act"
    <3>1. fw'.act = fw.act
      BY <1>6, <2>2 DEF OnBoard, FlushSteps
    <3>2. MapAhead' = MapAhead /\ LabelBehind' = LabelBehind
      BY <1>8, <1>9, <2>2 DEF MapAhead, LabelBehind
    <3> QED BY <1>1, <1>3, <1>4, <1>6, <1>8, <3>1, <3>2 DEF CleanMeans, Holds
  <2> QED BY <2>1, <2>2
<1> QED BY <1>1, <1>3, <1>7, <1>8, <1>13, <1>14 DEF Inv

\* The last row packet.
LEMMA WriteLastRowInv ==
    ASSUME Inv, NEW step \in FlushSteps, At(step), ~(row < LastRow), Write
    PROVE  Inv'
<1>1. /\ from # None /\ ~Failed /\ TypeOK /\ JobProgress /\ CleanMeans
      /\ Plan(req.op)[pc] = step
  BY AtStep DEF Inv
<1>2. step \in Steps /\ step \notin Past /\ "label" \notin Past
      /\ (step = "act" => "set" \in Past \/ "load" \in Past)
  BY AtStep DEF PlanOrder, Past, FlushSteps
<1>3. /\ Advance(None) /\ fw' = AfterPacket
      /\ UNCHANGED <<pending, jobs, reply, mirror, active, open, store>>
  BY DEF Write, producerVars, envVars
<1>4. row = LastRow /\ clean' = (clean \/ step = "act") /\ clean' \in BOOLEAN
  <2>1. row = LastRow
    BY <1>1 DEF TypeOK, Rows, LastRow
  <2>2. At("act") <=> step = "act"
    BY <1>1 DEF At
  <2> QED BY <1>1, <2>1, <2>2 DEF Write, TypeOK
<1>5. /\ from' = from /\ req' = req /\ name' = name /\ before' = before
      /\ pc' \in 1..8 /\ row' = 0 /\ result' \in Response \cup {None}
      /\ JobControl' /\ ~Failed' /\ Past' = Past \cup {step}
      /\ \A x : ~Flushing(x)'
  BY <1>3, AdvanceControl DEF FlushSteps
<1>6. /\ fw' \in Keyboard
      /\ \A x \in FlushSteps : OnBoard(x)' =
            IF x = step THEN [s \in Slots |-> IF RowOf(s) = row THEN FlushMap(x)[s]
                                                               ELSE OnBoard(x)[s]]
                        ELSE OnBoard(x)
      /\ fw'.rt = fw.rt /\ fw'.turbo = fw.turbo /\ fw'.led = fw.led
  BY <1>3, FlushPacket DEF OnBoard, FlushSteps
<1>7. TypeOK'
  BY <1>1, <1>3, <1>4, <1>5, <1>6 DEF TypeOK, Rows
<1>8. \A x : FlushMap(x)' = FlushMap(x)
  BY <1>3 DEF FlushMap
<1>9. \A x : Flushing(x) => x = step
  BY <1>1 DEF Flushing
<1>10. OnBoard(step)' = FlushMap(step)
  <2>1. ASSUME NEW s \in Slots, RowOf(s) # row
        PROVE  OnBoard(step)[s] = FlushMap(step)[s]
    <3>1. RowOf(s) < row /\ row > 0
      BY <1>4, <2>1, RowOfSlot DEF Rows, LastRow
    <3>2. Flushing(step)
      BY <1>1, <3>1 DEF Flushing
    <3> QED BY <1>1, <3>1, <3>2 DEF JobProgress, FlushSteps
  <2>2. FlushMap(step) = [s \in Slots |-> FlushMap(step)[s]]
    BY <1>1 DEF FlushMap, TypeOK
  <2> QED BY <1>6, <2>1, <2>2
<1>11. \A x : x # step /\ Done(x) => Done(x)'
  BY <1>3, <1>5, <1>6, <1>8 DEF Done, FlushSteps
<1>12. \A x : x # step /\ Untouched(x) => Untouched(x)'
  BY <1>3, <1>5, <1>6 DEF Untouched, OnBoard, FlushSteps
<1>13. Done(step)'
  BY <1>8, <1>10 DEF Done, FlushSteps
<1>14. JobProgress'
  <2>1. \A x \in Past' : Done(x)'
    BY <1>1, <1>2, <1>5, <1>11, <1>13 DEF JobProgress
  <2>2. \A x \in Steps \ Past' : Untouched(x)'
    BY <1>1, <1>5, <1>9, <1>12 DEF JobProgress
  <2>3. ("set" \notin Past /\ "load" \notin Past => mirror = before.mirror)'
    BY <1>1, <1>3, <1>5 DEF JobProgress
  <2> QED BY <1>5, <2>1, <2>2, <2>3 DEF JobProgress
<1>15. CleanMeans'
  <2>1. CASE step = "act"
    <3>1. fw'.act = mirror'
      BY <1>3, <1>10, <2>1 DEF OnBoard, FlushMap
    <3>2. LabelBehind'
      BY <1>2, <1>5, <2>1 DEF LabelBehind
    <3> QED BY <1>1, <1>5, <3>1, <3>2 DEF CleanMeans
  <2>2. CASE step # "act"
    <3>1. fw'.act = fw.act /\ clean' = clean
      BY <1>1, <1>4, <1>6, <2>2 DEF OnBoard, FlushSteps, TypeOK
    <3>2. MapAhead' = MapAhead
      BY <1>2, <1>5, <2>2 DEF MapAhead, FlushSteps
    <3>3. LabelBehind' = LabelBehind
      <4>1. ~Flushing("act")
        BY <1>9, <2>2
      <4> QED BY <1>5, <2>2, <4>1 DEF LabelBehind, FlushSteps
    <3> QED BY <1>1, <1>3, <1>5, <1>6, <3>1, <3>2, <3>3 DEF CleanMeans, Holds
  <2> QED BY <2>1, <2>2
<1> QED BY <1>1, <1>5, <1>7, <1>14, <1>15 DEF Inv

\* The single packets.
LEMMA WriteSingleInv ==
    ASSUME Inv, NEW step \in {"toggles", "led"}, At(step), Write
    PROVE  Inv'
<1>1. /\ from # None /\ ~Failed /\ TypeOK /\ JobProgress /\ CleanMeans
      /\ Plan(req.op)[pc] = step
  BY AtStep DEF Inv
<1>2. step \in Steps /\ step \notin Past /\ "label" \notin Past
  BY AtStep DEF PlanOrder, Past
<1>3. ~IsFlush /\ ~At("act")
  BY <1>1 DEF IsFlush, At
<1>4. /\ Advance(None) /\ fw' = AfterPacket
      /\ UNCHANGED <<pending, jobs, reply, mirror, active, open, store>>
  BY <1>3 DEF Write, producerVars, envVars
<1>5. clean' = clean
  BY <1>1, <1>3 DEF Write, TypeOK
<1>6. /\ from' = from /\ req' = req /\ name' = name /\ before' = before
      /\ pc' \in 1..8 /\ row' = 0 /\ result' \in Response \cup {None}
      /\ JobControl' /\ ~Failed' /\ Past' = Past \cup {step}
      /\ \A x : ~Flushing(x)'
  BY <1>4, AdvanceControl
<1>7. row = 0 /\ \A x : ~Flushing(x)
  BY RowZero DEF Flushing
<1>8. /\ fw' \in Keyboard
      /\ fw'.act = fw.act /\ fw'.down = fw.down /\ fw'.up = fw.up
      /\ fw'.led = IF step = "led" THEN WantedLed(req) ELSE fw.led
      /\ fw'.rt = IF step = "toggles" THEN WantedToggles(req, name).rt ELSE fw.rt
      /\ fw'.turbo = IF step = "toggles" THEN WantedToggles(req, name).turbo ELSE fw.turbo
  BY <1>4, SinglePacket
<1>9. TypeOK'
  BY <1>1, <1>4, <1>5, <1>6, <1>8 DEF TypeOK, Rows
<1>10. \A x : FlushMap(x)' = FlushMap(x) /\ OnBoard(x)' = OnBoard(x)
  BY <1>4, <1>8 DEF FlushMap, OnBoard
<1>11. \A x : x # step /\ Done(x) => Done(x)'
  BY <1>4, <1>6, <1>8, <1>10 DEF Done
<1>12. \A x : x # step /\ Untouched(x) => Untouched(x)'
  BY <1>4, <1>6, <1>8 DEF Untouched
<1>13. Done(step)'
  BY <1>6, <1>8 DEF Done
<1>14. JobProgress'
  <2>1. \A x \in Past' : Done(x)'
    BY <1>1, <1>2, <1>6, <1>11, <1>13 DEF JobProgress
  <2>2. \A x \in Steps \ Past' : Untouched(x)'
    BY <1>1, <1>6, <1>7, <1>12 DEF JobProgress
  <2>3. ("set" \notin Past /\ "load" \notin Past => mirror = before.mirror)'
    BY <1>1, <1>4, <1>6 DEF JobProgress
  <2> QED BY <1>6, <2>1, <2>2, <2>3 DEF JobProgress
<1>15. CleanMeans'
  <2>1. MapAhead' = MapAhead
    BY <1>6 DEF MapAhead
  <2>2. CASE step = "toggles"
    <3>1. LabelBehind'
      BY <1>2, <1>6, <2>2 DEF LabelBehind
    <3> QED BY <1>1, <1>4, <1>5, <1>6, <1>8, <2>1, <3>1 DEF CleanMeans
  <2>3. CASE step = "led"
    <3>1. LabelBehind' = LabelBehind
      BY <1>6, <1>7, <2>3 DEF LabelBehind
    <3> QED BY <1>1, <1>4, <1>5, <1>6, <1>8, <2>1, <2>3, <3>1 DEF CleanMeans, Holds
  <2> QED BY <2>2, <2>3
<1> QED BY <1>1, <1>6, <1>9, <1>14, <1>15 DEF Inv

LEMMA WriteInv == ASSUME Inv, Write PROVE Inv'
  BY AtWriteSteps, WriteRowInv, WriteLastRowInv, WriteSingleInv DEF Write

-------------------------------------------------------------------------------
LEMMA NextInv == Inv /\ [Next]_vars => Inv'
<1> SUFFICES ASSUME Inv, [Next]_vars PROVE Inv'
  OBVIOUS
<1>1. CASE DeviceThread
  BY <1>1, TakeInv, ReplyInv, ListProfilesInv, ChooseNextInv, LoadProfileInv, SetActuationInv,
     WriteInv, WriteFailsInv, IdentityInv, PollDepthsInv, SetLabelInv
     DEF DeviceThread, HandleStep
<1>2. CASE \E p \in Producers : Submit(p) \/ Receive(p)
  BY <1>2, SubmitInv, ReceiveInv
<1>3. CASE Unplug \/ EditStore
  BY <1>3, EnvironmentInv
<1>4. CASE UNCHANGED vars
  BY <1>4, StutterInv
<1> QED BY <1>1, <1>2, <1>3, <1>4 DEF Next

(* What is known of a job in hand, at every step of handle.                   *)
THEOREM AlwaysInv == Spec => []Inv
  BY InitInv, NextInv, PTL DEF Spec

(* Types: in particular, the controller never holds, and so never sends, an  *)
(* actuation point outside the keyboard's range, whatever distances requests *)
(* and profiles carry.                                                       *)
THEOREM TypesHold == Spec => []TypeOK
<1>1. Inv => TypeOK
  BY DEF Inv
<1> QED BY <1>1, AlwaysInv, PTL

(* Between jobs, after a complete flush and no failure since, the keyboard's *)
(* actuation map is the controller's.                                        *)
THEOREM MirrorStaysInSync == Spec => []MirrorInSync
<1>1. Inv => MirrorInSync
  BY DEF Inv, CleanMeans, MirrorInSync
<1> QED BY <1>1, AlwaysInv, PTL

(* Under the same condition, the label is the profile the keyboard has.      *)
THEOREM LabelStaysTruthful == Spec => []LabelTruthful
<1>1. Inv => LabelTruthful
  BY DEF Inv, CleanMeans, LabelTruthful, Holds
<1> QED BY <1>1, AlwaysInv, PTL

-------------------------------------------------------------------------------
(* What an answer promises.                                                  *)

\* Once its writes are done, the whole of a request is on the keyboard.
LEMMA EffectDone ==
    ASSUME TypeOK, JobControl, JobProgress, row = 0, WritesDone(req.op, Past)
    PROVE  /\ fw = Effect(before.fw, before.mirror, req, name)
           /\ mirror = WantedMap(req, name, before.mirror)
<1>1. req \in Requests /\ req.op \in Ops /\ fw \in Keyboard
  BY RequestOp DEF JobControl, TypeOK
<1>2. /\ "act" \in Past <=> SetsMap(req)
      /\ "set" \in Past \/ "load" \in Past <=> SetsMap(req)
      /\ "toggles" \in Past <=> SetsToggles(req)
      /\ "led" \in Past <=> SetsLed(req)
      /\ "down" \in Past <=> req.op = "Reset"
      /\ "up" \in Past <=> req.op = "Reset"
  BY DEF WritesDone, SetsMap, SetsToggles, SetsLed, AppliesProfile
<1>3. \A x \in Steps : IF x \in Past THEN Done(x) ELSE Untouched(x)
  BY DEF JobProgress, Flushing
<1>4. mirror = WantedMap(req, name, before.mirror)
  <2>1. CASE SetsMap(req)
    BY <1>2, <1>3, <2>1 DEF Done, Steps
  <2>2. CASE ~SetsMap(req)
    <3>1. WantedMap(req, name, before.mirror) = before.mirror
      BY <2>2 DEF SetsMap, WantedMap, AppliesProfile
    <3> QED BY <1>2, <2>2, <3>1 DEF JobProgress
  <2> QED BY <2>1, <2>2
<1> DEFINE goal == Effect(before.fw, before.mirror, req, name)
<1>5. fw.act = goal.act
  BY <1>2, <1>3, <1>4 DEF Effect, Done, Untouched, OnBoard, FlushMap, Steps
<1>6. fw.down = goal.down /\ fw.up = goal.up
  BY <1>2, <1>3 DEF Effect, Done, Untouched, OnBoard, FlushMap, Steps
<1>7. fw.rt = goal.rt /\ fw.turbo = goal.turbo /\ fw.led = goal.led
  BY <1>2, <1>3 DEF Effect, Done, Untouched, Steps
<1>8. fw = [act |-> fw.act, down |-> fw.down, up |-> fw.up, rt |-> fw.rt,
            turbo |-> fw.turbo, led |-> fw.led]
  BY <1>1 DEF Keyboard
<1>9. goal = [act |-> goal.act, down |-> goal.down, up |-> goal.up, rt |-> goal.rt,
              turbo |-> goal.turbo, led |-> goal.led]
  BY DEF Effect
<1> HIDE DEF goal
<1>10. fw = goal
  BY <1>5, <1>6, <1>7, <1>8, <1>9
<1> QED BY <1>4, <1>10 DEF goal

\* A job that has been carried to the end of its plan.
LEMMA AtEnd ==
    ASSUME Inv, from # None, result # None, ~Failed
    PROVE  /\ TypeOK /\ JobControl /\ JobProgress /\ req \in Requests /\ req.op \in Ops
           /\ row = 0 /\ pc = Len(Plan(req.op)) + 1
           /\ WritesDone(req.op, Past)
           /\ "label" \in Past <=> req.op \notin {"Status", "ListProfiles", "Depths"}
           /\ AppliesProfile(req) => "load" \in Past
<1>1. /\ TypeOK /\ JobControl /\ JobProgress /\ req \in Requests /\ req.op \in Ops
      /\ pc = Len(Plan(req.op)) + 1
  BY RequestOp DEF Inv, JobControl
<1> DEFINE n == Len(Plan(req.op))
<1>2. n \in 1..7 /\ pc = n + 1 /\ row \in 0..2 /\ (row > 0 => pc <= n)
  BY <1>1, PlanLen DEF JobControl, TypeOK, Rows
<1> HIDE DEF n
<1>3. row = 0 /\ pc \in 1..(n + 1) /\ pc > n
  BY <1>2
<1>4. PlanOrder(req.op, pc)
  BY <1>1, <1>3, PlanOrdered DEF n
<1> QED BY <1>1, <1>3, <1>4 DEF PlanOrder, Past, AppliesProfile

\* At the end of a plan, the label is the one the request calls for.
LEMMA LabelDone ==
    ASSUME JobProgress, row = 0, req.op \in Ops,
           "label" \in Past <=> req.op \notin {"Status", "ListProfiles", "Depths"}
    PROVE  active = LabelAfter(req, name, before.active)
<1>1. CASE "label" \in Past
  BY <1>1 DEF JobProgress, Done
<1>2. CASE "label" \notin Past
  <2>1. active = before.active
    BY <1>2 DEF JobProgress, Untouched, Flushing, Steps
  <2> QED BY <1>2, <2>1 DEF LabelAfter, SetsLabel, SetsMap, SetsToggles, SetsLed, AppliesProfile
<1> QED BY <1>1, <1>2

(* A client that gets anything but an error has its whole request on the     *)
(* keyboard and nothing else changed there, with the controller's map and    *)
(* the label to match.                                                       *)
THEOREM AnswersAreHonest == Spec => []AnswerHonest
<1>1. Inv => AnswerHonest
  <2> SUFFICES ASSUME Inv, from # None, result # None, result # ErrorReply
               PROVE  /\ fw = Effect(before.fw, before.mirror, req, name)
                      /\ mirror = WantedMap(req, name, before.mirror)
                      /\ active = LabelAfter(req, name, before.active)
    BY DEF AnswerHonest
  <2>1. /\ TypeOK /\ JobControl /\ JobProgress /\ row = 0 /\ WritesDone(req.op, Past)
        /\ req.op \in Ops
        /\ "label" \in Past <=> req.op \notin {"Status", "ListProfiles", "Depths"}
    BY AtEnd DEF Failed
  <2>2. active = LabelAfter(req, name, before.active)
    BY <2>1, LabelDone
  <2> QED BY <2>1, <2>2, EffectDone
<1> QED BY <1>1, AlwaysInv, PTL

(* The label changes only once all the job's writes are on the keyboard.     *)
THEOREM LabelComesLast == Spec => LabelFollowsWrites
<1>1. Inv /\ [Next]_vars =>
        [active' # active => fw = Effect(before.fw, before.mirror, req, name)]_vars
  <2> SUFFICES ASSUME Inv, [Next]_vars, active' # active
               PROVE  fw = Effect(before.fw, before.mirror, req, name)
    OBVIOUS
  <2>1. SetLabel
    BY DEF Next, DeviceThread, HandleStep, Take, ListProfiles, ChooseNext, LoadProfile,
           SetActuation, Write, WriteFails, Identity, PollDepths, Reply, Submit, Receive,
           Unplug, EditStore, vars, stateVars
  <2>2. At("label")
    BY <2>1 DEF SetLabel
  <2>3. TypeOK /\ JobControl /\ JobProgress /\ row = 0 /\ WritesDone(req.op, Past)
    BY <2>2, AtStep, RowZero DEF PlanOrder, Past
  <2> QED BY <2>3, EffectDone
<1> QED BY <1>1, AlwaysInv, PTL DEF Spec, LabelFollowsWrites
-------------------------------------------------------------------------------
(* One answer for each request.                                              *)

\* Where the request of producer p is, one statement per place.
InOnePlace(p) ==
    /\ \A i \in 1..Len(jobs) : jobs[i].from = p =>
          /\ pending[p] # None /\ jobs[i].req = pending[p]
          /\ from # p /\ reply[p] = None
          /\ \A j \in 1..Len(jobs) : jobs[j].from = p => j = i
    /\ from = p => pending[p] # None /\ req = pending[p] /\ reply[p] = None
    /\ reply[p] # None => pending[p] # None
    /\ pending[p] # None =>
          from = p \/ reply[p] # None \/ \E i \in 1..Len(jobs) : jobs[i].from = p

LEMMA OnePlaceMeans ==
    ASSUME \A p \in Producers : InOnePlace(p)
    PROVE  OneReplyEach
<1> SUFFICES ASSUME NEW p \in Producers
             PROVE  LET queued   == {i \in 1..Len(jobs) : jobs[i].from = p}
                        handled  == from = p
                        answered == reply[p] # None
                    IN  /\ pending[p] = None => queued = {} /\ ~handled /\ ~answered
                        /\ pending[p] # None =>
                             \/ handled /\ queued = {} /\ ~answered /\ req = pending[p]
                             \/ answered /\ queued = {} /\ ~handled
                             \/ /\ ~handled /\ ~answered
                                /\ \E i \in queued : queued = {i} /\ jobs[i].req = pending[p]
  BY DEF OneReplyEach
<1> DEFINE queued == {i \in 1..Len(jobs) : jobs[i].from = p}
<1>1. InOnePlace(p)
  OBVIOUS
<1>2. CASE queued = {}
  BY <1>1, <1>2 DEF InOnePlace
<1>3. CASE queued # {}
  <2>1. PICK i \in 1..Len(jobs) : jobs[i].from = p
    BY <1>3
  <2>2. queued = {i} /\ i \in queued
    BY <1>1, <2>1 DEF InOnePlace
  <2> QED BY <1>1, <2>1, <2>2 DEF InOnePlace
<1> QED BY <1>2, <1>3

\* Submit puts the request of p behind the others.
LEMMA SubmitOnePlace ==
    ASSUME Inv, NEW p \in Producers, Submit(p), NEW q \in Producers, InOnePlace(q), InOnePlace(p)
    PROVE  InOnePlace(q)'
<1>1. PICK r \in Requests : /\ pending' = [pending EXCEPT ![p] = r]
                            /\ jobs' = Append(jobs, [from |-> p, req |-> r])
  BY DEF Submit, Enqueue
<1>2. /\ pending[p] = None /\ r # None /\ p # None
      /\ reply' = reply /\ from' = from /\ req' = req
  BY TypesAssumption, DaemonAssumption DEF Submit, jobVars
<1>3. jobs \in Seq(Job) /\ pending \in [Producers -> Requests \cup {None}]
  BY DEF Inv, TypeOK
<1> DEFINE n == Len(jobs)
           job == [from |-> p, req |-> r]
<1>4. n \in Nat /\ Len(jobs') = n + 1 /\ jobs'[n + 1] = job
      /\ \A i \in 1..n : jobs'[i] = jobs[i]
  <2>1. job \in Job
    BY DEF Job
  <2> HIDE DEF job
  <2> QED BY <1>1, <1>3, <2>1 DEF job
<1>5. job.from = p /\ job.req = r
  OBVIOUS
<1> HIDE DEF n, job
<1>6. 1..(n + 1) = 1..n \cup {n + 1} /\ n + 1 \notin 1..n
  BY <1>4
<1>7. CASE q = p
  <2>1. \A i \in 1..n : jobs[i].from # p
    BY <1>2 DEF InOnePlace, n
  <2>2. from # p /\ reply[p] = None /\ pending'[p] = r
    BY <1>1, <1>2, <1>3 DEF InOnePlace
  <2> QED BY <1>2, <1>4, <1>5, <1>6, <1>7, <2>1, <2>2 DEF InOnePlace
<1>8. CASE q # p
  <2>1. pending'[q] = pending[q]
    BY <1>1, <1>3, <1>8
  <2>2. \A i \in 1..(n + 1) : jobs'[i].from = q <=> i \in 1..n /\ jobs[i].from = q
    BY <1>4, <1>5, <1>6, <1>8
  <2>3. \A i \in 1..n : jobs'[i] = jobs[i]
    BY <1>4
  <2>4. /\ \A i \in 1..n : jobs[i].from = q =>
            /\ pending[q] # None /\ jobs[i].req = pending[q]
            /\ from # q /\ reply[q] = None
            /\ \A j \in 1..n : jobs[j].from = q => j = i
        /\ from = q => pending[q] # None /\ req = pending[q] /\ reply[q] = None
        /\ reply[q] # None => pending[q] # None
        /\ pending[q] # None =>
            from = q \/ reply[q] # None \/ \E i \in 1..n : jobs[i].from = q
    BY DEF InOnePlace, n
  <2> QED BY <1>2, <1>4, <1>6, <2>1, <2>2, <2>3, <2>4 DEF InOnePlace
<1> QED BY <1>7, <1>8

\* Take moves the request at the head of the channel to the device thread.
LEMMA TakeOnePlace ==
    ASSUME Inv, Take, \A q \in Producers : InOnePlace(q), NEW q \in Producers
    PROVE  InOnePlace(q)'
<1>1. jobs \in Seq(Job) /\ jobs # << >> /\ from = None /\ q # None
  BY DaemonAssumption DEF Inv, TypeOK, Take
<1> DEFINE n == Len(jobs)
           job == Head(jobs)
<1>2. n \in Nat \ {0} /\ Len(jobs') = n - 1 /\ job = jobs[1]
      /\ \A i \in 1..(n - 1) : jobs'[i] = jobs[i + 1]
  BY <1>1 DEF Take
<1>3. from' = job.from /\ req' = job.req /\ pending' = pending /\ reply' = reply
  BY DEF Take
<1> HIDE DEF n, job
<1>4. /\ \A i \in 1..n : jobs[i].from = q =>
            /\ pending[q] # None /\ jobs[i].req = pending[q]
            /\ reply[q] = None
            /\ \A j \in 1..n : jobs[j].from = q => j = i
      /\ reply[q] # None => pending[q] # None
      /\ pending[q] # None => reply[q] # None \/ \E i \in 1..n : jobs[i].from = q
  BY <1>1 DEF InOnePlace, n
<1>5. \A i \in 1..(n - 1) : i + 1 \in 1..n /\ i + 1 # 1
  BY <1>2
<1>6. \A i \in 1..n : i = 1 \/ (i - 1 \in 1..(n - 1) /\ (i - 1) + 1 = i)
  BY <1>2
<1>7. 1 \in 1..n
  BY <1>2
<1>8. CASE job.from = q
  <2>1. \A i \in 1..n : jobs[i].from = q => i = 1
    BY <1>2, <1>4, <1>7, <1>8
  <2>2. \A i \in 1..(n - 1) : jobs'[i].from # q
    BY <1>2, <1>5, <2>1
  <2>3. from' = q /\ pending'[q] # None /\ req' = pending'[q] /\ reply'[q] = None
    BY <1>2, <1>3, <1>4, <1>7, <1>8
  <2> QED BY <1>2, <2>2, <2>3 DEF InOnePlace
<1>9. CASE job.from # q
  <2>1. \A i \in 1..(n - 1) : jobs'[i].from = q =>
            /\ pending'[q] # None /\ jobs'[i].req = pending'[q]
            /\ from' # q /\ reply'[q] = None
    BY <1>2, <1>3, <1>4, <1>5, <1>9
  <2>2. \A i, j \in 1..(n - 1) : jobs'[i].from = q /\ jobs'[j].from = q => j = i
    <3> SUFFICES ASSUME NEW i \in 1..(n - 1), NEW j \in 1..(n - 1),
                        jobs'[i].from = q, jobs'[j].from = q
                 PROVE  j = i
      OBVIOUS
    <3>1. jobs[i + 1].from = q /\ jobs[j + 1].from = q
      BY <1>2
    <3>2. i + 1 = j + 1
      BY <1>4, <1>5, <3>1
    <3> QED BY <3>2
  <2>3. pending'[q] # None =>
            reply'[q] # None \/ \E i \in 1..(n - 1) : jobs'[i].from = q
    <3> SUFFICES ASSUME pending'[q] # None, reply'[q] = None
                 PROVE  \E i \in 1..(n - 1) : jobs'[i].from = q
      OBVIOUS
    <3>1. PICK i \in 1..n : jobs[i].from = q
      BY <1>3, <1>4
    <3>2. i # 1
      BY <1>2, <1>9, <3>1
    <3>3. i - 1 \in 1..(n - 1) /\ jobs'[i - 1] = jobs[i]
      BY <1>2, <1>6, <3>2
    <3> QED BY <3>1, <3>3
  <2>4. from' # q
    BY <1>3, <1>9
  <2>5. reply'[q] # None => pending'[q] # None
    BY <1>3, <1>4
  <2> QED BY <1>2, <2>1, <2>2, <2>3, <2>4, <2>5 DEF InOnePlace
<1> QED BY <1>8, <1>9

\* Reply and Receive: the answer goes to the producer that is waiting for it.
LEMMA ReplyOnePlace ==
    ASSUME Inv, Reply, NEW q \in Producers, InOnePlace(q)
    PROVE  InOnePlace(q)'
<1>1. /\ from # None /\ result # None /\ from' = None /\ jobs' = jobs /\ pending' = pending
      /\ reply' = [reply EXCEPT ![from] = result] /\ q # None
      /\ reply \in [Producers -> Response \cup {None}] /\ from \in Producers
  BY DaemonAssumption DEF Reply, Send, Inv, TypeOK
<1>2. CASE q = from
  BY <1>1, <1>2 DEF InOnePlace
<1>3. CASE q # from
  BY <1>1, <1>3 DEF InOnePlace
<1> QED BY <1>2, <1>3

LEMMA ReceiveOnePlace ==
    ASSUME Inv, NEW p \in Producers, Receive(p), NEW q \in Producers, InOnePlace(q)
    PROVE  InOnePlace(q)'
<1>1. /\ reply[p] # None /\ jobs' = jobs /\ from' = from /\ req' = req
      /\ pending' = [pending EXCEPT ![p] = None] /\ reply' = [reply EXCEPT ![p] = None]
      /\ pending \in [Producers -> Requests \cup {None}]
      /\ reply \in [Producers -> Response \cup {None}]
  BY DEF Receive, jobVars, Inv, TypeOK
<1>2. CASE q = p
  BY <1>1, <1>2 DEF InOnePlace
<1>3. CASE q # p
  BY <1>1, <1>3 DEF InOnePlace
<1> QED BY <1>2, <1>3

\* No step of handle touches the channels or forgets whose job it works on.
LEMMA HandleOnePlace ==
    ASSUME HandleStep \/ Unplug \/ EditStore \/ UNCHANGED vars,
           NEW q \in Producers, InOnePlace(q)
    PROVE  InOnePlace(q)'
<1>1. /\ pending' = pending /\ jobs' = jobs /\ reply' = reply
      /\ from' = from /\ req' = req
  BY DEF HandleStep, Unplug, EditStore, vars, producerVars, jobVars, Advance, Abort,
         ListProfiles, ChooseNext, LoadProfile, SetActuation, Write, WriteFails, Identity,
         PollDepths, SetLabel
<1> QED BY <1>1 DEF InOnePlace

LEMMA InitOnePlace == Init => \A q \in Producers : InOnePlace(q)
  BY DaemonAssumption DEF Init, InOnePlace

LEMMA NextOnePlace ==
    ASSUME Inv, \A q \in Producers : InOnePlace(q), [Next]_vars
    PROVE  \A q \in Producers : InOnePlace(q)'
<1> SUFFICES ASSUME NEW q \in Producers PROVE InOnePlace(q)'
  OBVIOUS
<1>1. ASSUME NEW p \in Producers, Submit(p) PROVE InOnePlace(q)'
  BY <1>1, SubmitOnePlace
<1>2. ASSUME NEW p \in Producers, Receive(p) PROVE InOnePlace(q)'
  BY <1>2, ReceiveOnePlace
<1>3. CASE Take
  BY <1>3, TakeOnePlace
<1>4. CASE Reply
  BY <1>4, ReplyOnePlace
<1>5. CASE HandleStep \/ Unplug \/ EditStore \/ UNCHANGED vars
  BY <1>5, HandleOnePlace
<1> QED BY <1>1, <1>2, <1>3, <1>4, <1>5 DEF Next, DeviceThread

\* Where a request is, always.
THEOREM AlwaysInOnePlace == Spec => [](\A q \in Producers : InOnePlace(q))
<1> DEFINE Q == \A q \in Producers : InOnePlace(q)
<1>1. Init => Q
  BY InitOnePlace
<1>2. Inv /\ Q /\ [Next]_vars => Q'
  BY NextOnePlace
<1> QED BY <1>1, <1>2, AlwaysInv, PTL DEF Spec

(* Every request that is dispatched is in one place and gets one answer, its *)
(* own: nothing is lost, duplicated or handed to another producer, however   *)
(* many of them share the channel.                                           *)
THEOREM OneReply == Spec => []OneReplyEach
<1>1. (\A q \in Producers : InOnePlace(q)) => OneReplyEach
  BY OnePlaceMeans
<1> QED BY <1>1, AlwaysInOnePlace, PTL

-------------------------------------------------------------------------------
(* The cycle shortcut.                                                       *)

\* The profiles that cycling from a label passes until it comes by n.
Ahead(label, n, files) ==
    {m \in files : IF label \notin files THEN m <= n
                   ELSE IF label < n THEN label < m /\ m <= n
                   ELSE label < m \/ m <= n}

\* Each step of the cycle leaves one fewer of them.
LEMMA AheadShrinks ==
    ASSUME NEW files \in SUBSET Names, NEW n \in files, NEW label,
           NextProfileName(label, files) # n
    PROVE  /\ NextProfileName(label, files) \in Ahead(label, n, files)
           /\ Ahead(NextProfileName(label, files), n, files)
                = Ahead(label, n, files) \ {NextProfileName(label, files)}
<1> DEFINE next == NextProfileName(label, files)
<1>1. files # {} /\ files \subseteq Nat /\ n \in Nat
  BY TypesAssumption
<1>2. /\ next \in files /\ next # n
      /\ label \in files /\ (\E m \in files : m > label) =>
            next > label /\ \A m \in files : m > label => next <= m
      /\ label \notin files \/ (\A m \in files : ~(m > label)) => \A m \in files : next <= m
  BY <1>1, NextIs
<1> HIDE DEF next
<1>3. next \in Ahead(label, n, files)
  BY <1>1, <1>2 DEF Ahead
<1>4. ASSUME NEW m \in files
      PROVE  m \in Ahead(next, n, files) <=> m \in Ahead(label, n, files) /\ m # next
  <2>0. m \in Nat /\ next \in Nat
    BY <1>1, <1>2
  <2>4. m \in Ahead(next, n, files) <=> IF next < n THEN next < m /\ m <= n ELSE next < m \/ m <= n
    BY <1>2 DEF Ahead
  <2>1. CASE label \notin files
    <3>1. m \in Ahead(label, n, files) <=> m <= n
      BY <2>1 DEF Ahead
    <3>2. next <= m /\ next <= n
      BY <1>2, <2>1
    <3> QED BY <1>1, <1>2, <2>0, <2>4, <3>1, <3>2
  <2>5. CASE label \in files
    <3>1. m \in Ahead(label, n, files) <=> IF label < n THEN label < m /\ m <= n ELSE label < m \/ m <= n
      BY <2>5 DEF Ahead
    <3>2. label \in Nat
      BY <1>1, <2>5
    <3>3. CASE \E k \in files : k > label
      <4>1. next > label /\ (m > label => next <= m) /\ (n > label => next <= n)
        BY <1>2, <2>5, <3>3
      <4> QED BY <1>1, <1>2, <2>0, <2>4, <3>1, <3>2, <4>1
    <3>4. CASE \A k \in files : ~(k > label)
      <4>1. next <= m /\ next <= n /\ ~(m > label) /\ ~(n > label)
        BY <1>2, <3>4
      <4> QED BY <1>1, <1>2, <2>0, <2>4, <3>1, <3>2, <4>1
    <3> QED BY <3>3, <3>4
  <2> QED BY <2>1, <2>5
<1>5. Ahead(next, n, files) = Ahead(label, n, files) \ {next}
  <2>1. Ahead(next, n, files) \subseteq files /\ Ahead(label, n, files) \subseteq files
    BY DEF Ahead
  <2> QED BY <1>4, <2>1
<1> QED BY <1>3, <1>5 DEF next

\* CycleCoversStore's recursion defines a function.
LEMMA CycleExists ==
    ASSUME NEW label, NEW files, NEW N \in Nat
    PROVE  \E nth : nth = [k \in 0..N |-> IF k = 0 THEN label ELSE NextProfileName(nth[k - 1], files)]
<1> DEFINE Cycles(f, m) == f = [k \in 0..m |-> IF k = 0 THEN label ELSE NextProfileName(f[k - 1], files)]
           S == {m \in Nat : \E f : Cycles(f, m)}
<1>1. 0 \in S
  <2>1. Cycles([k \in 0..0 |-> label], 0)
    OBVIOUS
  <2> QED BY <2>1
<1>2. ASSUME NEW m \in Nat, m \in S PROVE m + 1 \in S
  <2>1. PICK f : Cycles(f, m)
    BY <1>2
  <2> DEFINE g == [k \in 0..(m + 1) |-> IF k <= m THEN f[k] ELSE NextProfileName(f[m], files)]
  <2>2. \A k \in 0..(m + 1) : g[k] = IF k = 0 THEN label ELSE NextProfileName(g[k - 1], files)
    <3> SUFFICES ASSUME NEW k \in 0..(m + 1)
                 PROVE  g[k] = IF k = 0 THEN label ELSE NextProfileName(g[k - 1], files)
      OBVIOUS
    <3>1. CASE k = 0
      BY <2>1, <3>1
    <3>2. CASE k # 0 /\ k <= m
      <4>1. k - 1 \in 0..m /\ k \in 0..m /\ g[k - 1] = f[k - 1] /\ g[k] = f[k]
        BY <3>2
      <4>2. f[k] = NextProfileName(f[k - 1], files)
        BY <2>1, <3>2, <4>1
      <4> QED BY <3>2, <4>1, <4>2
    <3>3. CASE k = m + 1
      <4>1. g[k] = NextProfileName(f[m], files) /\ g[k - 1] = f[m] /\ k # 0
        BY <3>3
      <4> QED BY <4>1
    <3> QED BY <3>1, <3>2, <3>3
  <2>3. g = [k \in 0..(m + 1) |-> g[k]]
    OBVIOUS
  <2> HIDE DEF g
  <2>4. Cycles(g, m + 1)
    BY <2>2, <2>3
  <2> QED BY <2>4
<1> HIDE DEF S
<1>3. N \in S
  BY <1>1, <1>2, Induct
<1> QED BY <1>3 DEF S
\* The k-th name of the cycle comes k steps closer to n, unless n came before.
LEMMA CycleReaches ==
    ASSUME NEW files \in SUBSET Names, IsFiniteSet(files), NEW label, NEW n \in files, NEW nth,
           nth[0] = label, \A k \in 1..Cardinality(files) : nth[k] = NextProfileName(nth[k - 1], files)
    PROVE  \E k \in 1..Cardinality(files) : nth[k] = n
<1> DEFINE N == Cardinality(files)
           left(x) == Cardinality(Ahead(x, n, files))
<1> SUFFICES ASSUME \A k \in 1..N : nth[k] # n PROVE FALSE
  OBVIOUS
<1>1. N \in Nat
  BY FS_CardinalityType
<1>2. \A k \in 1..N : nth[k] = NextProfileName(nth[k - 1], files)
  OBVIOUS
<1>3. \A x : IsFiniteSet(Ahead(x, n, files)) /\ left(x) \in Nat /\ left(x) <= N
  <2> SUFFICES ASSUME NEW x PROVE IsFiniteSet(Ahead(x, n, files)) /\ left(x) \in Nat /\ left(x) <= N
    OBVIOUS
  <2>1. Ahead(x, n, files) \subseteq files
    BY DEF Ahead
  <2> QED BY <2>1, FS_Subset, FS_CardinalityType
<1>4. \A x : left(x) # 0
  <2> SUFFICES ASSUME NEW x PROVE left(x) # 0
    OBVIOUS
  <2>1. n \in Ahead(x, n, files)
    BY TypesAssumption DEF Ahead
  <2> QED BY <1>3, <2>1, FS_EmptySet
<1>5. \A k \in 1..N : left(nth[k]) = left(nth[k - 1]) - 1
  <2> SUFFICES ASSUME NEW k \in 1..N PROVE left(nth[k]) = left(nth[k - 1]) - 1
    OBVIOUS
  <2>1. nth[k] = NextProfileName(nth[k - 1], files) /\ nth[k] # n
    BY <1>2
  <2>2. nth[k] \in Ahead(nth[k - 1], n, files) /\ Ahead(nth[k], n, files) = Ahead(nth[k - 1], n, files) \ {nth[k]}
    BY <2>1, AheadShrinks
  <2>3. IsFiniteSet(Ahead(nth[k - 1], n, files))
    BY <1>3
  <2> QED BY <2>2, <2>3, FS_RemoveElement
<1> DEFINE S == {k \in Nat : k <= N => left(nth[k]) <= N - k}
<1> HIDE DEF N, left
<1>6. 0 \in S
  BY <1>1, <1>3
<1>7. ASSUME NEW k \in Nat, k \in S PROVE k + 1 \in S
  <2> SUFFICES ASSUME k + 1 <= N PROVE left(nth[k + 1]) <= N - (k + 1)
    OBVIOUS
  <2>1. k + 1 \in 1..N /\ (k + 1) - 1 = k /\ k <= N
    BY <1>1
  <2>2. left(nth[k + 1]) = left(nth[k]) - 1 /\ left(nth[k]) <= N - k
    BY <1>5, <1>7, <2>1
  <2> QED BY <1>1, <1>3, <2>2
<1> HIDE DEF S
<1>8. N \in S
  BY <1>1, <1>6, <1>7, Induct
<1>9. left(nth[N]) <= N - N
  BY <1>1, <1>8 DEF S
<1> QED BY <1>1, <1>3, <1>4, <1>9

\* CycleCoversStore, of a store and a label.
Covers(label, files) ==
    LET nth[k \in 0..Cardinality(files)] ==
            IF k = 0 THEN label ELSE NextProfileName(nth[k - 1], files)
    IN  \A n \in files : \E k \in 1..Cardinality(files) : nth[k] = n

LEMMA CycleCovers ==
    ASSUME NEW files \in SUBSET Names, IsFiniteSet(files), NEW label PROVE Covers(label, files)
<1> DEFINE nth[k \in 0..Cardinality(files)] ==
               IF k = 0 THEN label ELSE NextProfileName(nth[k - 1], files)
<1>1. Cardinality(files) \in Nat
  BY FS_CardinalityType
<1>2. nth = [k \in 0..Cardinality(files) |-> IF k = 0 THEN label ELSE NextProfileName(nth[k - 1], files)]
  BY <1>1, CycleExists
<1> HIDE DEF nth
<1>3. nth[0] = label /\ \A k \in 1..Cardinality(files) : nth[k] = NextProfileName(nth[k - 1], files)
  BY <1>1, <1>2
<1>4. \A n \in files : \E k \in 1..Cardinality(files) : nth[k] = n
  BY <1>3, CycleReaches
<1> QED BY <1>4 DEF nth, Covers

(* The shortcut reaches every profile of the store, whatever the label and   *)
(* however many there are.  Names are those of files, of which a file system *)
(* has finitely many.                                                        *)
THEOREM CyclingCovers ==
    ASSUME IsFiniteSet(Names)
    PROVE  Spec => []CycleCoversStore
<1>1. TypeOK => CycleCoversStore
  <2> SUFFICES ASSUME TypeOK PROVE CycleCoversStore
    OBVIOUS
  <2>1. PICK files, label : files = store /\ label = active
    OBVIOUS
  <2>2. files \in SUBSET Names /\ IsFiniteSet(files)
    BY <2>1, FS_Subset DEF TypeOK
  <2>3. Covers(label, files)
    BY <2>2, CycleCovers
  <2> QED BY <2>1, <2>3 DEF CycleCoversStore, Covers
<1> QED BY <1>1, TypesHold, PTL
-------------------------------------------------------------------------------
(* Refinement.  The instance Service has copies of the operators both share:  *)
(* they agree.                                                               *)

LEMMA SameSlots ==
    /\ Service!Slots = Slots /\ Service!KeyByte = KeyByte
    /\ \A s : Service!RowOf(s) = RowOf(s)
  BY DEF Service!Slots, Slots, Service!KeyByte, KeyByte, Service!RowOf, RowOf,
         Service!TotalKeys, TotalKeys

LEMMA SameTypes == Service!Keyboard = Keyboard /\ Service!ErrorReply = ErrorReply
  BY SameSlots DEF Service!Keyboard, Keyboard, Service!ErrorReply, ErrorReply

LEMMA SamePredicates ==
    ASSUME NEW r, NEW n
    PROVE  /\ Service!AppliesProfile(r) = AppliesProfile(r)
           /\ Service!SetsLabel(r) = SetsLabel(r)
           /\ Service!Appliable(n) = Appliable(n)
           /\ Service!Readable(n) = Readable(n)
  BY DEF Service!AppliesProfile, Service!SetsLabel, Service!Appliable, Service!Readable,
         AppliesProfile, SetsLabel, Appliable, Readable, Service!SetsMap, Service!SetsToggles,
         Service!SetsLed, SetsMap, SetsToggles, SetsLed

LEMMA SameBytes == \A mm : Service!MmToByte(mm) = MmToByte(mm)
  BY DEF Service!MmToByte, MmToByte, Service!RoundTenths, RoundTenths, Service!ActuationMin, ActuationMin, Service!ActuationMax, ActuationMax

LEMMA SameMap ==
    ASSUME NEW r, NEW n, NEW map
    PROVE  Service!WantedMap(r, n, map) = WantedMap(r, n, map)
<1>1. \A p : Service!MapOf(p) = MapOf(p)
  BY SameBytes, SameSlots DEF Service!MapOf, MapOf
<1>2. Service!AppliesProfile(r) = AppliesProfile(r) /\ Service!DefaultActuation = DefaultActuation
  BY SamePredicates DEF Service!DefaultActuation, DefaultActuation
<1> QED BY <1>1, <1>2, SameBytes, SameSlots DEF Service!WantedMap, WantedMap

LEMMA SameEffect ==
    ASSUME NEW r, NEW n, NEW map, NEW board, NEW label
    PROVE  /\ Service!Effect(board, map, r, n) = Effect(board, map, r, n)
           /\ Service!LabelAfter(r, n, label) = LabelAfter(r, n, label)
<1>1. Service!WantedToggles(r, n) = WantedToggles(r, n) /\ Service!WantedLed(r) = WantedLed(r)
  BY DEF Service!WantedToggles, WantedToggles, Service!WantedLed, WantedLed, Service!AppliesProfile, AppliesProfile
<1> QED BY <1>1, SameMap, SamePredicates, SameSlots DEF Service!Effect, Effect, Service!LabelAfter, LabelAfter, Service!SetsMap, Service!SetsToggles,
         Service!SetsLed, SetsMap, SetsToggles, SetsLed

LEMMA SameNext ==
    ASSUME NEW label, NEW files
    PROVE  Service!NextProfileName(label, files) = NextProfileName(label, files)
  BY DEF Service!NextProfileName, NextProfileName
-------------------------------------------------------------------------------
(* A job that has done nothing yet that a client could see.                  *)
LEMMA NothingYet ==
    ASSUME Inv, NEW step, At(step), Past \subseteq {"next"}, row = 0
    PROVE  NothingDone
<1>1. TypeOK /\ JobControl /\ JobProgress
  BY AtStep
<1>2. \A x \in Steps \ {"next"} : Untouched(x)
  <2>1. \A x : ~Flushing(x)
    BY DEF Flushing
  <2>2. \A x \in Steps \ Past : Flushing(x) \/ Untouched(x)
    BY <1>1 DEF JobProgress
  <2> QED BY <2>1, <2>2
<1>3. /\ fw.act = before.fw.act /\ fw.down = before.fw.down /\ fw.up = before.fw.up
      /\ fw.rt = before.fw.rt /\ fw.turbo = before.fw.turbo /\ fw.led = before.fw.led
      /\ active = before.active
  BY <1>2 DEF Untouched, Steps
<1>4. mirror = before.mirror
  BY <1>1 DEF JobProgress
<1>5. fw \in Keyboard /\ before.fw \in Keyboard
  BY <1>1 DEF TypeOK, JobControl, Snapshot
<1>6. fw = before.fw
  <2> DEFINE old == before.fw
  <2>1. old \in Keyboard /\ fw.act = old.act /\ fw.down = old.down /\ fw.up = old.up
        /\ fw.rt = old.rt /\ fw.turbo = old.turbo /\ fw.led = old.led
    BY <1>3, <1>5
  <2> HIDE DEF old
  <2>2. fw = old
    BY <1>5, <2>1 DEF Keyboard
  <2> QED BY <2>2 DEF old
<1> QED BY <1>3, <1>4, <1>6 DEF NothingDone

\* What a step changes outside of the job and of the keyboard does not matter.
LEMMA RefinementStable ==
    ASSUME RefinementInv, UNCHANGED <<jobVars, stateVars>>
    PROVE  RefinementInv'
<1>1. /\ from' = from /\ req' = req /\ name' = name /\ pc' = pc /\ row' = row
      /\ result' = result /\ before' = before
      /\ mirror' = mirror /\ active' = active /\ fw' = fw
  BY DEF jobVars, stateVars
<1>2. Failed' = Failed /\ (\A step : Flushing(step)' = Flushing(step))
  BY <1>1 DEF Failed, Flushing
<1>3. \A step : OnBoard(step)' = OnBoard(step) /\ WasOnBoard(step)' = WasOnBoard(step)
  BY <1>1 DEF OnBoard, WasOnBoard
<1>4. RowsToCome'
  BY <1>1, <1>2, <1>3 DEF RefinementInv, RowsToCome
<1>5. NothingDone' = NothingDone /\ Known' = Known /\ Intended' = Intended
  BY <1>1 DEF NothingDone, Known, Intended
<1>6. StoppedHalfway' = StoppedHalfway /\ OnlyUnreported' = OnlyUnreported
  BY <1>1, <1>5 DEF StoppedHalfway, OnlyUnreported
<1>7. FailureExplained'
  BY <1>1, <1>2, <1>5, <1>6 DEF RefinementInv, FailureExplained
<1>8. AnswerIsGood' /\ AimedOnce'
  BY <1>1, <1>2 DEF RefinementInv, AnswerIsGood, AimedOnce
<1> QED BY <1>4, <1>7, <1>8 DEF RefinementInv

\* A step that fails owes an explanation.
LEMMA AbortExplained ==
    ASSUME Inv, RefinementInv, NEW step, At(step), Abort, step # "list",
           (NothingDone \/ StoppedHalfway \/ OnlyUnreported)'
    PROVE  RefinementInv'
<1>1. /\ from' = from /\ req' = req /\ name' = name /\ before' = before
      /\ pc' = pc /\ row' = row /\ Failed'
  BY AbortControl
<1>2. req.op # "ListProfiles" /\ from # None
  BY AtStep DEF PlanOrder
<1> QED BY <1>1, <1>2 DEF RefinementInv, FailureExplained, RowsToCome, AnswerIsGood, AimedOnce

\* A step that succeeds, and ends the job with the right answer if it ends it.
LEMMA AdvanceGood ==
    ASSUME Inv, RefinementInv, NEW step, At(step),
           NEW response \in (Response \ {ErrorReply}) \cup {None},
           response = None <=> step \notin {"identity", "list", "depths", "label"},
           Advance(response), pending' = pending, jobs' = jobs, reply' = reply,
           response # None /\ pc = Len(Plan(req.op)) =>
                response = Service!GoodAnswer(req, response.names, fw', active')
    PROVE  RefinementInv'
<1>1. /\ from' = from /\ req' = req /\ name' = name /\ before' = before
      /\ pc' = pc + 1 /\ row' = 0
      /\ result' = IF pc = Len(Plan(req.op)) THEN response ELSE None
      /\ ~Failed' /\ \A x : ~Flushing(x)'
  BY AdvanceControl DEF Advance
<1>2. pc \in 1..7
  BY AtStep
<1>3. AimedOnce'
  BY <1>1, <1>2 DEF AimedOnce
<1>4. FailureExplained' /\ RowsToCome'
  BY <1>1 DEF FailureExplained, RowsToCome
<1>5. AnswerIsGood'
  BY <1>1 DEF AnswerIsGood
<1> QED BY <1>3, <1>4, <1>5 DEF RefinementInv

-------------------------------------------------------------------------------
(* Writes that stop half-way.                                                *)

\* The map is set up before anything is written.
LEMMA MapIsSetUp ==
    ASSUME Inv, NEW step \in FlushSteps \cup {"toggles", "led"}, At(step)
    PROVE  /\ mirror = WantedMap(req, name, before.mirror)
           /\ SetsLabel(req)
           /\ AppliesProfile(req) => name \in Names /\ Appliable(name)
           /\ Known
<1>1. /\ TypeOK /\ JobControl /\ JobProgress /\ req.op \in Ops
      /\ WritesBegun(req.op, Past \cup {step})
      /\ req.op \notin {"Status", "ListProfiles", "Depths"}
  BY AtStep DEF PlanOrder, Past, FlushSteps
<1>2. "set" \in Past \/ "load" \in Past <=> SetsMap(req)
  BY <1>1 DEF WritesBegun, SetsMap, AppliesProfile, FlushSteps
<1>3. mirror = WantedMap(req, name, before.mirror)
  <2>1. CASE SetsMap(req)
    BY <1>1, <1>2, <2>1 DEF JobProgress, Done
  <2>2. CASE ~SetsMap(req)
    <3>1. WantedMap(req, name, before.mirror) = before.mirror
      BY <2>2 DEF SetsMap, WantedMap, AppliesProfile
    <3> QED BY <1>1, <1>2, <2>2, <3>1 DEF JobProgress
  <2> QED BY <2>1, <2>2
<1>4. SetsLabel(req)
  BY <1>1 DEF Ops, SetsLabel, SetsMap, SetsToggles, SetsLed, AppliesProfile
<1>5. AppliesProfile(req) => name \in Names /\ Appliable(name)
  <2> SUFFICES ASSUME AppliesProfile(req) PROVE name \in Names /\ Appliable(name)
    OBVIOUS
  <2>1. "load" \in Past
    <3>1. step \in {"act", "toggles"}
      BY <1>1 DEF WritesBegun, AppliesProfile, FlushSteps
    <3> QED BY <3>1, AtStep DEF PlanOrder, Past, AppliesProfile
  <2> QED BY <1>1, <2>1 DEF JobProgress, Done
<1>6. Known
  BY <1>5, TypesAssumption DEF Known
<1> QED BY <1>3, <1>4, <1>5, <1>6

\* One map of a keyboard on which the flush at pc may have sent one packet more.
LEMMA TornMap ==
    ASSUME Inv, RefinementInv, NEW step \in FlushSteps \cup {"toggles", "led"}, At(step),
           NEW x \in FlushSteps,
           NEW map \in [Slots -> KeyByte],
           \/ map = OnBoard(x)
           \/ x = step /\ map = [s \in Slots |-> IF RowOf(s) = row THEN FlushMap(x)[s]
                                                                   ELSE OnBoard(x)[s]]
    PROVE  \E k \in 0..3 :
              /\ map = Service!Prefix(WasOnBoard(x), FlushMap(x), k)
              /\ k > 0 => x \in Past \cup {step}
<1> DEFINE Mixed(k) == \A s \in Slots :
              map[s] = IF RowOf(s) < k THEN FlushMap(x)[s] ELSE WasOnBoard(x)[s]
<1>1. /\ from # None /\ ~Failed /\ TypeOK /\ JobProgress /\ Plan(req.op)[pc] = step
      /\ step \notin Past /\ row \in Rows /\ x \in Steps
  BY AtStep DEF PlanOrder, Past, TypeOK, FlushSteps, Steps
<1>2. \A s \in Slots : RowOf(s) \in 0..2
  BY RowOfSlot DEF Rows
<1>3. CASE x \in Past
  <2>1. map = FlushMap(x)
    <3>1. OnBoard(x) = FlushMap(x)
      BY <1>1, <1>3 DEF JobProgress, Done, FlushSteps
    <3> QED BY <1>1, <1>3, <3>1
  <2>2. Mixed(3)
    BY <1>2, <2>1
  <2> WITNESS 3 \in 0..3
  <2> QED BY <1>3, <2>2, SameSlots DEF Service!Prefix
<1>4. CASE x \notin Past /\ x # step
  <2>1. ~Flushing(x)
    BY <1>1, <1>4 DEF Flushing
  <2>2. Untouched(x)
    BY <1>1, <1>4, <2>1 DEF JobProgress
  <2>3. map = WasOnBoard(x)
    BY <1>4, <2>2 DEF Untouched, OnBoard, WasOnBoard, FlushSteps
  <2>4. Mixed(0)
    BY <1>2, <2>3
  <2> WITNESS 0 \in 0..3
  <2> QED BY <2>4, SameSlots DEF Service!Prefix
<1>5. CASE x = step
  <2>1. \A s \in Slots : RowOf(s) < row => OnBoard(x)[s] = FlushMap(x)[s]
    <3> SUFFICES ASSUME NEW s \in Slots, RowOf(s) < row PROVE OnBoard(x)[s] = FlushMap(x)[s]
      OBVIOUS
    <3>1. Flushing(x)
      BY <1>1, <1>2, <1>5 DEF Flushing, Rows
    <3> QED BY <1>1, <3>1 DEF JobProgress, FlushSteps
  <2>2. \A s \in Slots : RowOf(s) >= row => OnBoard(x)[s] = WasOnBoard(x)[s]
    <3>1. CASE row > 0
      <4>1. Flushing(x)
        BY <1>1, <1>5, <3>1 DEF Flushing
      <4> QED BY <1>1, <4>1 DEF RefinementInv, RowsToCome, FlushSteps
    <3>2. CASE ~(row > 0)
      <4>1. Untouched(x)
        BY <1>1, <1>5, <3>2 DEF JobProgress, Flushing
      <4> QED BY <4>1 DEF Untouched, OnBoard, WasOnBoard, FlushSteps
    <3> QED BY <3>1, <3>2
  <2>3. CASE map = OnBoard(x)
    <3>1. Mixed(row)
      BY <1>1, <1>2, <2>1, <2>2, <2>3 DEF Rows
    <3>2. row \in 0..3
      BY <1>1 DEF Rows
    <3> WITNESS row \in 0..3
    <3> QED BY <1>5, <3>1, SameSlots DEF Service!Prefix
  <2>4. CASE map = [s \in Slots |-> IF RowOf(s) = row THEN FlushMap(x)[s] ELSE OnBoard(x)[s]]
    <3>1. Mixed(row + 1)
      BY <1>1, <1>2, <2>1, <2>2, <2>4 DEF Rows
    <3>2. row + 1 \in 0..3
      BY <1>1 DEF Rows
    <3> WITNESS row + 1 \in 0..3
    <3> QED BY <1>5, <3>1, SameSlots DEF Service!Prefix
  <2> QED BY <2>3, <2>4
<1> QED BY <1>3, <1>4, <1>5

LEMMA TornBoard ==
    ASSUME Inv, RefinementInv, NEW step \in FlushSteps \cup {"toggles", "led"}, At(step),
           NEW board \in {fw, AfterPacket}
    PROVE  board \in Keyboard /\ Service!Torn(before.fw, Intended, board)
<1>1. /\ from # None /\ ~Failed /\ TypeOK /\ JobControl /\ JobProgress /\ Plan(req.op)[pc] = step
      /\ step \notin Past /\ fw \in Keyboard /\ req \in Requests
      /\ WritesBegun(req.op, Past \cup {step})
  BY AtStep DEF PlanOrder, Past, TypeOK, FlushSteps
<1> DEFINE mapOf(x) == IF x = "act" THEN board.act ELSE IF x = "down" THEN board.down
                                                                      ELSE board.up
           goalOf(x) == IF x = "act" THEN Intended.act ELSE IF x = "down" THEN Intended.down
                                                                          ELSE Intended.up
<1>2. /\ board \in Keyboard
      /\ \A x \in FlushSteps :
            \/ mapOf(x) = OnBoard(x)
            \/ x = step /\ mapOf(x) = [s \in Slots |-> IF RowOf(s) = row THEN FlushMap(x)[s]
                                                                        ELSE OnBoard(x)[s]]
  <2>1. CASE board = fw
    BY <1>1, <2>1 DEF OnBoard, FlushSteps
  <2>2. CASE board = AfterPacket /\ step \in FlushSteps
    BY <2>2, FlushPacket DEF OnBoard, FlushSteps
  <2>3. CASE board = AfterPacket /\ step \in {"toggles", "led"}
    BY <2>3, SinglePacket DEF OnBoard, FlushSteps
  <2> QED BY <2>1, <2>2, <2>3
<1>3. \A x \in FlushSteps : mapOf(x) \in [Slots -> KeyByte]
  BY <1>2 DEF Keyboard, FlushSteps
<1>4. \A x \in FlushSteps : \E k \in 0..3 :
          /\ mapOf(x) = Service!Prefix(WasOnBoard(x), FlushMap(x), k)
          /\ k > 0 => x \in Past \cup {step}
  <2> SUFFICES ASSUME NEW x \in FlushSteps
               PROVE  \E k \in 0..3 :
                        /\ mapOf(x) = Service!Prefix(WasOnBoard(x), FlushMap(x), k)
                        /\ k > 0 => x \in Past \cup {step}
    OBVIOUS
  <2> DEFINE m == mapOf(x)
  <2>1. m \in [Slots -> KeyByte]
        /\ \/ m = OnBoard(x)
           \/ x = step /\ m = [s \in Slots |-> IF RowOf(s) = row THEN FlushMap(x)[s]
                                                                 ELSE OnBoard(x)[s]]
    BY <1>2, <1>3
  <2> HIDE DEF m
  <2>2. \E k \in 0..3 : /\ m = Service!Prefix(WasOnBoard(x), FlushMap(x), k)
                        /\ k > 0 => x \in Past \cup {step}
    BY <2>1, TornMap
  <2> QED BY <2>2 DEF m
<1>5. \A x \in FlushSteps : x \in Past \cup {step} => FlushMap(x) = goalOf(x)
  <2>1. mirror = WantedMap(req, name, before.mirror)
    BY MapIsSetUp
  <2>2. /\ "act" \in Past \cup {step} => SetsMap(req)
        /\ "down" \in Past \cup {step} => req.op = "Reset"
        /\ "up" \in Past \cup {step} => req.op = "Reset"
    BY <1>1 DEF WritesBegun, SetsMap, AppliesProfile
  <2> QED BY <2>1, <2>2 DEF FlushMap, Intended, Effect, FlushSteps
<1>6. \A x \in FlushSteps : \E k \in 0..3 :
          mapOf(x) = Service!Prefix(WasOnBoard(x), goalOf(x), k)
  <2> SUFFICES ASSUME NEW x \in FlushSteps
               PROVE  \E k \in 0..3 : mapOf(x) = Service!Prefix(WasOnBoard(x), goalOf(x), k)
    OBVIOUS
  <2>1. PICK k \in 0..3 : /\ mapOf(x) = Service!Prefix(WasOnBoard(x), FlushMap(x), k)
                          /\ k > 0 => x \in Past \cup {step}
    BY <1>4
  <2>2. Service!Prefix(WasOnBoard(x), FlushMap(x), k) = Service!Prefix(WasOnBoard(x), goalOf(x), k)
    <3>1. CASE k > 0
      BY <1>5, <2>1, <3>1
    <3>2. CASE k = 0
      <4>1. \A s \in Slots : ~(RowOf(s) < k)
        BY <3>2, RowOfSlot DEF Rows
      <4> HIDE DEF goalOf
      <4> QED BY <4>1, SameSlots DEF Service!Prefix
    <3> QED BY <3>1, <3>2
  <2> QED BY <2>1, <2>2
<1>7. \E t \in {before.fw, Intended} : board.rt = t.rt /\ board.turbo = t.turbo
  <2>1. "toggles" \in Past \cup {step} => SetsToggles(req)
    BY <1>1 DEF WritesBegun, SetsToggles, AppliesProfile
  <2>2. SetsToggles(req) => /\ Intended.rt = WantedToggles(req, name).rt
                            /\ Intended.turbo = WantedToggles(req, name).turbo
    BY DEF Intended, Effect
  <2>3. CASE "toggles" \in Past
    <3>1. fw.rt = WantedToggles(req, name).rt /\ fw.turbo = WantedToggles(req, name).turbo
      BY <1>1, <2>3 DEF JobProgress, Done
    <3>2. board.rt = fw.rt /\ board.turbo = fw.turbo
      BY <1>1, <2>3, FlushPacket, SinglePacket DEF FlushSteps
    <3> QED BY <2>1, <2>2, <2>3, <3>1, <3>2
  <2>4. CASE "toggles" \notin Past
    <3>1. fw.rt = before.fw.rt /\ fw.turbo = before.fw.turbo
      <4>1. ~Flushing("toggles")
        BY <1>1 DEF JobControl, Flushing
      <4> QED BY <1>1, <2>4, <4>1 DEF JobProgress, Untouched, Steps
    <3>2. CASE board = fw
      BY <3>1, <3>2
    <3>3. CASE board = AfterPacket /\ step = "toggles"
      <4>1. board.rt = WantedToggles(req, name).rt /\ board.turbo = WantedToggles(req, name).turbo
        BY <3>3, SinglePacket
      <4> QED BY <2>1, <2>2, <3>3, <4>1
    <3>4. CASE board = AfterPacket /\ step # "toggles"
      <4>1. board.rt = fw.rt /\ board.turbo = fw.turbo
        BY <3>4, FlushPacket, SinglePacket DEF FlushSteps
      <4> QED BY <3>1, <4>1
    <3> QED BY <3>2, <3>3, <3>4
  <2> QED BY <2>3, <2>4
<1>8. board.led \in {before.fw.led, Intended.led}
  <2>1. "led" \in Past \cup {step} => Intended.led = WantedLed(req)
    BY <1>1 DEF WritesBegun, SetsLed, Intended, Effect
  <2>2. CASE "led" \in Past
    <3>1. fw.led = WantedLed(req)
      BY <1>1, <2>2 DEF JobProgress, Done
    <3>2. board.led = fw.led
      BY <1>1, <2>2, FlushPacket, SinglePacket DEF FlushSteps
    <3> QED BY <2>1, <2>2, <3>1, <3>2
  <2>3. CASE "led" \notin Past
    <3>1. fw.led = before.fw.led
      <4>1. ~Flushing("led")
        BY <1>1 DEF JobControl, Flushing
      <4> QED BY <1>1, <2>3, <4>1 DEF JobProgress, Untouched, Steps
    <3>2. board.led = fw.led \/ (step = "led" /\ board.led = WantedLed(req))
      BY FlushPacket, SinglePacket DEF FlushSteps
    <3> QED BY <2>1, <3>1, <3>2
  <2> QED BY <2>2, <2>3
<1>9. /\ \E k \in 0..3 : board.act  = Service!Prefix(before.fw.act, Intended.act, k)
      /\ \E k \in 0..3 : board.down = Service!Prefix(before.fw.down, Intended.down, k)
      /\ \E k \in 0..3 : board.up   = Service!Prefix(before.fw.up, Intended.up, k)
  BY <1>6 DEF WasOnBoard, FlushSteps
<1> HIDE DEF mapOf, goalOf
<1> QED BY <1>2, <1>7, <1>8, <1>9, SameTypes, Zenon DEF Service!Torn
-------------------------------------------------------------------------------
(* Every step keeps the explanation.                                         *)

\* Between jobs there is nothing to explain.
LEMMA IdleExplained == ASSUME from = None PROVE RefinementInv
  BY DEF RefinementInv, FailureExplained, RowsToCome, AnswerIsGood, AimedOnce

LEMMA InitExplained == Init => RefinementInv
  BY IdleExplained DEF Init

LEMMA ReplyExplained == ASSUME Reply PROVE RefinementInv'
<1>1. from' = None
  BY DEF Reply
<1> QED BY <1>1 DEF RefinementInv, FailureExplained, RowsToCome, AnswerIsGood, AimedOnce

\* A job that has just been taken.
LEMMA TakeExplained == ASSUME Inv, Take PROVE RefinementInv'
<1>1. result' = None /\ row' = 0 /\ ~Failed'
  BY ErrorIsResponse DEF Inv, IdleState, Take, Failed
<1>2. \A x : ~Flushing(x)'
  BY <1>1 DEF Flushing
<1>3. req'.op = "CycleProfile" => name' = None
  BY DEF Take
<1> QED BY <1>1, <1>2, <1>3 DEF RefinementInv, FailureExplained, RowsToCome, AnswerIsGood, AimedOnce

\* The steps that read.
LEMMA ListExplained == ASSUME Inv, RefinementInv, ListProfiles PROVE RefinementInv'
<1> DEFINE answer == [kind |-> "Profiles", names |-> store]
<1>1. At("list") /\ store \in SUBSET Names /\ req.op = "ListProfiles"
  BY AtStep DEF ListProfiles, Inv, TypeOK, PlanOrder
<1>2. answer \in (Response \ {ErrorReply}) \cup {None} /\ answer # None
  <2>1. answer \in Response /\ answer # ErrorReply
    BY <1>1 DEF Response, ErrorReply
  <2> QED BY <2>1, TypesAssumption
<1>3. answer = Service!GoodAnswer(req, answer.names, fw', active')
  BY <1>1 DEF Service!GoodAnswer
<1>4. Advance(answer) /\ pending' = pending /\ jobs' = jobs /\ reply' = reply
  BY DEF ListProfiles, producerVars
<1> HIDE DEF answer
<1> QED BY <1>1, <1>2, <1>3, <1>4, AdvanceGood

LEMMA UnchangedDoesNothing ==
    ASSUME NothingDone, UNCHANGED <<fw, mirror, active, before>>
    PROVE  NothingDone'
  BY DEF NothingDone

LEMMA DepthsExplained == ASSUME Inv, RefinementInv, PollDepths PROVE RefinementInv'
<1> DEFINE answer == [kind |-> "Depths"]
<1>1. At("depths") /\ req.op = "Depths" /\ Past = {}
  BY AtStep DEF PollDepths, PlanOrder, Past
<1>2. answer \in (Response \ {ErrorReply}) \cup {None} /\ answer # None
  <2>1. answer \in Response /\ answer # ErrorReply
    BY DEF Response, ErrorReply
  <2> QED BY <2>1, TypesAssumption
<1>3. answer = Service!GoodAnswer(req, answer.names, fw', active')
  BY <1>1 DEF Service!GoodAnswer
<1>4. /\ pending' = pending /\ jobs' = jobs /\ reply' = reply
      /\ fw' = fw /\ mirror' = mirror /\ active' = active
  BY DEF PollDepths, producerVars, stateVars
<1>5. CASE Advance(answer)
  <2> HIDE DEF answer
  <2> QED BY <1>1, <1>2, <1>3, <1>4, <1>5, AdvanceGood
<1>6. CASE Abort
  <2>1. NothingDone
    BY <1>1, RowZero, NothingYet
  <2>2. NothingDone'
    BY <1>4, <1>6, <2>1, UnchangedDoesNothing DEF Abort
  <2> QED BY <1>1, <1>6, <2>2, AbortExplained
<1> QED BY <1>5, <1>6 DEF PollDepths

LEMMA IdentityExplained == ASSUME Inv, RefinementInv, Identity PROVE RefinementInv'
<1> DEFINE answer == [kind |-> "Status", rt |-> fw.rt, turbo |-> fw.turbo, active |-> active]
<1>1. /\ At("identity") /\ TypeOK /\ JobControl /\ JobProgress /\ row = 0
      /\ fw \in Keyboard /\ active \in Label
      /\ req.op = "Status" \/ (req.op = "CycleProfile" /\ WritesDone(req.op, Past))
      /\ req.op = "CycleProfile" => "label" \in Past /\ "load" \in Past
      /\ req.op = "Status" => Past = {}
  <2>1. At("identity")
    BY DEF Identity
  <2>2. row = 0
    BY <2>1, RowZero
  <2>3. /\ TypeOK /\ JobControl /\ JobProgress
        /\ req.op = "Status" \/ (req.op = "CycleProfile" /\ WritesDone(req.op, Past))
        /\ req.op = "Status" => Past = {}
        /\ Past = {} \/ ("act" \in Past /\ "label" \in Past)
    BY <2>1, AtStep DEF PlanOrder, Past
  <2>4. req.op = "CycleProfile" => "label" \in Past /\ "load" \in Past
    <3> SUFFICES ASSUME req.op = "CycleProfile" PROVE "label" \in Past /\ "load" \in Past
      OBVIOUS
    <3>1. "load" \in Past
      BY <2>1, AtStep DEF PlanOrder, Past
    <3> QED BY <2>3, <3>1
  <2> QED BY <2>1, <2>2, <2>3, <2>4 DEF TypeOK
<1>2. /\ pending' = pending /\ jobs' = jobs /\ reply' = reply
      /\ fw' = fw /\ mirror' = mirror /\ active' = active
  BY DEF Identity, producerVars, stateVars
<1>3. CASE Advance(answer)
  <2>1. answer \in (Response \ {ErrorReply}) \cup {None} /\ answer # None
    <3>1. answer \in Response /\ answer # ErrorReply
      BY <1>1 DEF Response, ErrorReply, Keyboard
    <3> QED BY <3>1, TypesAssumption
  <2>2. answer = Service!GoodAnswer(req, answer.names, fw', active')
    BY <1>1, <1>2 DEF Service!GoodAnswer
  <2> HIDE DEF answer
  <2> QED BY <1>1, <1>2, <1>3, <2>1, <2>2, AdvanceGood
<1>4. CASE Abort
  <2>1. UNCHANGED <<fw, mirror, active, before, req, name>>
    BY <1>2, <1>4 DEF Abort
  <2>2. CASE Past = {}
    <3>1. NothingDone
      BY <1>1, <2>2, NothingYet
    <3>2. NothingDone'
      BY <2>1, <3>1, UnchangedDoesNothing
    <3> QED BY <1>1, <1>4, <3>2, AbortExplained
  <2>4. CASE req.op = "CycleProfile"
    <3>1. fw = Intended /\ mirror = WantedMap(req, name, before.mirror)
      BY <1>1, <2>4, EffectDone DEF Intended
    <3>2. name \in Names /\ Appliable(name) /\ active = LabelAfter(req, name, before.active)
      BY <1>1, <2>4 DEF JobProgress, Done
    <3>3. active = name /\ Known
      BY <2>4, <3>2, TypesAssumption DEF LabelAfter, AppliesProfile, Known
    <3>4. OnlyUnreported
      BY <2>4, <3>1, <3>3 DEF OnlyUnreported
    <3>5. OnlyUnreported'
      BY <2>1, <3>4 DEF OnlyUnreported, Intended, Known
    <3> QED BY <1>1, <1>4, <3>5, AbortExplained
  <2> QED BY <1>1, <2>2, <2>4
<1> QED BY <1>3, <1>4 DEF Identity

LEMMA ChooseExplained == ASSUME Inv, RefinementInv, ChooseNext PROVE RefinementInv'
<1>1. /\ At("next") /\ Past = {} /\ row = 0 /\ result = None /\ pc = 1
  BY AtStep, RowZero DEF ChooseNext, PlanOrder, Past
<1>2. UNCHANGED <<fw, mirror, active>>
  BY DEF ChooseNext, stateVars
<1>3. CASE Abort
  <2>1. NothingDone
    BY <1>1, NothingYet
  <2>2. NothingDone'
    BY <1>2, <1>3, <2>1, UnchangedDoesNothing DEF Abort
  <2> QED BY <1>1, <1>3, <2>2, AbortExplained
<1>4. CASE pc' = pc + 1 /\ UNCHANGED <<from, req, row, result, before>>
  <2>1. ~Failed' /\ \A x : ~Flushing(x)'
    BY <1>1, <1>4, ErrorIsResponse DEF Failed, Flushing
  <2> QED BY <1>1, <1>4, <2>1
          DEF RefinementInv, FailureExplained, RowsToCome, AnswerIsGood, AimedOnce
<1> QED BY <1>3, <1>4 DEF ChooseNext
-------------------------------------------------------------------------------
\* The steps that set up the map.
LEMMA AdvanceNone ==
    ASSUME Inv, RefinementInv, NEW step, At(step), Advance(None), UNCHANGED producerVars,
           step \notin {"identity", "list", "depths", "label"}
    PROVE  RefinementInv'
<1>1. None \in (Response \ {ErrorReply}) \cup {None}
  OBVIOUS
<1>2. pending' = pending /\ jobs' = jobs /\ reply' = reply
  BY DEF producerVars
<1> QED BY <1>1, <1>2, AdvanceGood

LEMMA SetExplained == ASSUME Inv, RefinementInv, SetActuation PROVE RefinementInv'
  BY AdvanceNone DEF SetActuation

LEMMA LoadExplained == ASSUME Inv, RefinementInv, LoadProfile PROVE RefinementInv'
<1>1. /\ At("load") /\ row = 0 /\ req.op \in {"ApplyProfile", "CycleProfile"}
      /\ Past \subseteq {"next"} /\ TypeOK /\ UNCHANGED <<fw, active, producerVars>>
  BY AtStep, RowZero DEF LoadProfile, PlanOrder, Past
<1>2. NothingDone
  BY <1>1, NothingYet
<1>3. CASE Abort /\ UNCHANGED <<mirror, clean>>
  <2>1. NothingDone'
    BY <1>1, <1>2, <1>3, UnchangedDoesNothing DEF Abort
  <2> QED BY <1>1, <1>3, <2>1, AbortExplained
<1>4. CASE Advance(None)
  BY <1>1, <1>4, AdvanceNone
<1>5. CASE /\ name \in store /\ Readable(name) /\ ~Appliable(name)
           /\ mirror' = WantedMap(req, name, mirror) /\ Abort
  <2>1. UNCHANGED <<req, name, before>>
    BY <1>5 DEF Abort
  <2>2. name # None
    BY <1>1, <1>5, TypesAssumption DEF TypeOK
  <2>3. mirror' = WantedMap(req, name, before.mirror) /\ fw' = before.fw /\ active' = before.active
    BY <1>1, <1>2, <1>5 DEF NothingDone
  <2>4. SetsLabel(req) /\ ~Known /\ AppliesProfile(req)
    BY <1>1, <1>5 DEF SetsLabel, SetsMap, AppliesProfile, Known
  <2>5. StoppedHalfway'
    BY <1>5, <2>1, <2>2, <2>3, <2>4 DEF StoppedHalfway, Known
  <2> QED BY <1>1, <1>5, <2>5, AbortExplained
<1> QED BY <1>3, <1>4, <1>5 DEF LoadProfile

LEMMA LabelExplained == ASSUME Inv, RefinementInv, SetLabel PROVE RefinementInv'
<1> DEFINE answer == [kind |-> "Ok"]
<1>1. At("label") /\ Advance(answer) /\ pending' = pending /\ jobs' = jobs /\ reply' = reply
  BY DEF SetLabel, producerVars
<1>2. answer \in (Response \ {ErrorReply}) \cup {None} /\ answer # None
  <2>1. answer \in Response /\ answer # ErrorReply
    BY DEF Response, ErrorReply
  <2> QED BY <2>1, TypesAssumption
<1>3. pc = Len(Plan(req.op)) => answer = Service!GoodAnswer(req, answer.names, fw', active')
  <2> SUFFICES ASSUME pc = Len(Plan(req.op))
               PROVE  answer = Service!GoodAnswer(req, answer.names, fw', active')
    OBVIOUS
  <2>1. req.op \notin {"Status", "CycleProfile", "ListProfiles", "Depths"}
    BY <1>1, AtStep DEF PlanOrder
  <2> QED BY <2>1 DEF Service!GoodAnswer
<1> HIDE DEF answer
<1> QED BY <1>1, <1>2, <1>3, AdvanceGood

\* The steps that write.
LEMMA WriteExplained == ASSUME Inv, RefinementInv, Write PROVE RefinementInv'
<1>1. PICK step \in FlushSteps \cup {"toggles", "led"} : At(step)
  BY AtWriteSteps DEF Write
<1>2. fw' = AfterPacket /\ UNCHANGED <<producerVars, mirror, active>>
  BY DEF Write
<1>3. CASE Advance(None)
  BY <1>1, <1>2, <1>3, AdvanceNone DEF FlushSteps
<1>4. CASE /\ IsFlush /\ row < LastRow /\ row' = row + 1
           /\ UNCHANGED <<from, req, name, pc, result, before>>
  <2>1. /\ from # None /\ result = None /\ ~Failed /\ TypeOK /\ JobProgress
        /\ Plan(req.op)[pc] = step /\ step \notin Past /\ row \in Rows
        /\ ~(req.op = "CycleProfile" /\ pc = 1)
    BY <1>1, AtStep DEF PlanOrder, Past, TypeOK, FlushSteps
  <2>2. step \in FlushSteps
    BY <1>1, <1>4, <2>1 DEF IsFlush, At, FlushSteps
  <2>3. ~Failed' /\ result' = None
    BY <1>4, <2>1 DEF Failed
  <2>4. \A x : Flushing(x)' => x = step
    BY <1>4, <2>1 DEF Flushing
  <2>5. WasOnBoard(step)' = WasOnBoard(step)
    BY <1>4 DEF WasOnBoard
  <2>6. ASSUME NEW s \in Slots, RowOf(s) >= row + 1
        PROVE  OnBoard(step)'[s] = WasOnBoard(step)[s]
    <3>1. RowOf(s) # row /\ RowOf(s) >= row
      BY <2>1, <2>6, RowOfSlot DEF Rows
    <3>2. OnBoard(step)'[s] = OnBoard(step)[s]
      BY <1>1, <1>2, <2>2, <3>1, FlushPacket DEF OnBoard, FlushSteps
    <3>3. CASE row > 0
      <4>1. Flushing(step)
        BY <2>1, <3>3 DEF Flushing
      <4> QED BY <2>1, <2>2, <3>1, <3>2, <4>1 DEF RefinementInv, RowsToCome, FlushSteps
    <3>4. CASE ~(row > 0)
      <4>1. Untouched(step)
        BY <2>1, <2>2, <3>4 DEF JobProgress, Flushing, FlushSteps, Steps
      <4> QED BY <2>2, <3>2, <4>1 DEF Untouched, OnBoard, WasOnBoard, FlushSteps
    <3> QED BY <3>3, <3>4
  <2>7. RowsToCome'
    BY <1>4, <2>4, <2>5, <2>6 DEF RowsToCome
  <2> QED BY <1>4, <2>1, <2>3, <2>7 DEF RefinementInv, FailureExplained, AnswerIsGood, AimedOnce
<1> QED BY <1>3, <1>4 DEF Write

LEMMA WriteFailsExplained == ASSUME Inv, RefinementInv, WriteFails PROVE RefinementInv'
<1>1. PICK step \in FlushSteps \cup {"toggles", "led"} : At(step)
  BY AtWriteSteps DEF WriteFails
<1>2. Abort /\ UNCHANGED <<mirror, active, req, name, before>>
  BY DEF WriteFails, Abort
<1>3. /\ mirror = WantedMap(req, name, before.mirror)
      /\ SetsLabel(req) /\ Known
      /\ AppliesProfile(req) => name \in Names /\ Appliable(name)
  BY <1>1, MapIsSetUp
<1>4. active = before.active
  <2>1. "label" \notin Past /\ JobProgress /\ ~Flushing("label")
    BY <1>1, AtStep DEF PlanOrder, Past, FlushSteps, Flushing
  <2> QED BY <2>1 DEF JobProgress, Untouched, Steps
<1>5. Service!Torn(before.fw, Intended, fw')
  <2>1. fw' \in {fw, AfterPacket}
    BY DEF WriteFails
  <2> DEFINE board == fw'
  <2>2. board \in {fw, AfterPacket}
    BY <2>1
  <2> HIDE DEF board
  <2>3. Service!Torn(before.fw, Intended, board)
    BY <1>1, <2>2, TornBoard
  <2> QED BY <2>3 DEF board
<1>6. Intended' = Intended /\ Known' /\ (AppliesProfile(req) => name # None /\ Readable(name))
  BY <1>2, <1>3, TypesAssumption DEF Intended, Known, Appliable
<1>7. StoppedHalfway'
  BY <1>2, <1>3, <1>4, <1>5, <1>6 DEF StoppedHalfway
<1> QED BY <1>1, <1>2, <1>7, AbortExplained DEF FlushSteps

\* RefinementInv is kept by every step.
LEMMA NextExplained == Inv /\ RefinementInv /\ [Next]_vars => RefinementInv'
<1> SUFFICES ASSUME Inv, RefinementInv, [Next]_vars PROVE RefinementInv'
  OBVIOUS
<1>1. CASE DeviceThread
  BY <1>1, TakeExplained, ReplyExplained, ListExplained, ChooseExplained, LoadExplained,
     SetExplained, WriteExplained, WriteFailsExplained, IdentityExplained, DepthsExplained,
     LabelExplained DEF DeviceThread, HandleStep
<1>2. CASE UNCHANGED <<jobVars, stateVars>>
  BY <1>2, RefinementStable
<1>3. CASE (\E p \in Producers : Submit(p) \/ Receive(p)) \/ Unplug \/ EditStore \/ UNCHANGED vars
  BY <1>2, <1>3 DEF Submit, Receive, Unplug, EditStore, vars
<1> QED BY <1>1, <1>3 DEF Next

\* Whatever has happened, the answer a job is about to get has a reason.
THEOREM AlwaysExplained == Spec => []RefinementInv
  BY InitExplained, NextExplained, AlwaysInv, PTL DEF Spec
-------------------------------------------------------------------------------
(* Every step of the daemon is a step of the service, or none.               *)

LEMMA InitIsService == Init => Service!Init
<1> SUFFICES ASSUME Init PROVE Service!Init
  OBVIOUS
<1>1. Idle
  BY DEF Init, Idle
<1>2. boardThen = fw /\ mapThen = mirror /\ labelThen = active /\ namesRead = None
  BY <1>1 DEF boardThen, mapThen, labelThen, namesRead
<1>3. Service!Slots = Slots /\ Service!DefaultActuation = DefaultActuation
  BY SameSlots DEF Service!DefaultActuation, DefaultActuation
<1> QED BY <1>2, <1>3 DEF Init, Service!Init

\* The producers' steps.
LEMMA SubmitIsInvoke == ASSUME NEW p \in Producers, Submit(p) PROVE Service!Invoke(p)
<1>1. UNCHANGED <<boardThen, mapThen, labelThen, namesRead>>
  BY DEF Submit, jobVars, stateVars, boardThen, mapThen, labelThen, namesRead, Idle
<1> QED BY <1>1 DEF Submit, Service!Invoke, jobVars, envVars

LEMMA ReceiveIsReturn == ASSUME NEW p \in Producers, Receive(p) PROVE Service!Return(p)
<1>1. UNCHANGED <<boardThen, mapThen, labelThen, namesRead>>
  BY DEF Receive, jobVars, stateVars, boardThen, mapThen, labelThen, namesRead, Idle
<1> QED BY <1>1 DEF Receive, Service!Return, jobVars, envVars

LEMMA EditIsEditFiles == ASSUME Inv, EditStore PROVE Service!EditFiles
<1>1. UNCHANGED <<boardThen, mapThen, labelThen, namesRead>>
  BY DEF EditStore, jobVars, stateVars, boardThen, mapThen, labelThen, namesRead, Idle
<1>2. store' \in SUBSET Names
  BY DEF EditStore, Inv, TypeOK
<1> QED BY <1>1, <1>2 DEF EditStore, Service!EditFiles, producerVars, jobVars

\* A job is taken: the service begins to serve its producer.
LEMMA TakeIsBegin ==
    ASSUME Inv, Take, \A p \in Producers : InOnePlace(p)
    PROVE  \E p \in Producers : Service!Begin(p)
<1> DEFINE job == Head(jobs)
<1>1. jobs \in Seq(Job) /\ jobs # << >> /\ from = None
  BY DEF Take, Inv, TypeOK
<1>2. job \in Job /\ Len(jobs) \in Nat \ {0} /\ job = jobs[1] /\ 1 \in 1..Len(jobs)
  BY <1>1
<1>3. /\ from' = job.from /\ req' = job.req /\ result' = None
      /\ name' = IF job.req.op = "ApplyProfile" THEN job.req.name ELSE None
      /\ before' = [fw |-> fw, mirror |-> mirror, active |-> active]
      /\ UNCHANGED <<pending, reply, fw, mirror, active, store>>
  BY DEF Take, stateVars, envVars, Inv, IdleState
<1> HIDE DEF job
<1>4. job.from \in Producers
  BY <1>2 DEF Job
<1>5. pending[job.from] # None /\ pending[job.from] = job.req /\ reply[job.from] = None
  BY <1>2, <1>4 DEF InOnePlace
<1>6. from' # None /\ ~Idle' /\ Idle
  BY <1>1, <1>3, <1>4, DaemonAssumption DEF Idle
<1>7. UNCHANGED <<boardThen, mapThen, labelThen, namesRead>>
  BY <1>3, <1>6 DEF boardThen, mapThen, labelThen, namesRead
<1>8. name = None
  BY <1>1 DEF Inv, IdleState
<1>9. Service!Begin(job.from)
  BY <1>1, <1>3, <1>5, <1>7 DEF Service!Begin
<1> QED BY <1>4, <1>9

\* While the job is in hand, what the service has is what the job found.
LEMMA InHand ==
    ASSUME from # None, UNCHANGED <<from, req, before>>
    PROVE  /\ UNCHANGED <<boardThen, mapThen, labelThen>>
           /\ req.op # "ListProfiles" => UNCHANGED namesRead
  BY DEF boardThen, mapThen, labelThen, namesRead, Idle

LEMMA ListIsLook ==
    ASSUME Inv, ListProfiles, \A p \in Producers : InOnePlace(p)
    PROVE  \E p \in Producers : Service!Look(p)
<1>1. At("list") /\ from # None /\ result = None /\ req.op = "ListProfiles" /\ TypeOK
      /\ pc \in 1..7 /\ pc <= Len(Plan(req.op))
  BY AtStep DEF ListProfiles, PlanOrder
<1>2. pc = Len(Plan(req.op))
  <2>1. Plan(req.op) = <<"list">>
    BY <1>1 DEF Plan
  <2> DEFINE n == Len(Plan(req.op))
  <2>2. n = 1 /\ pc <= n
    BY <1>1, <2>1
  <2> HIDE DEF n
  <2>3. pc = n
    BY <1>1, <2>2
  <2> QED BY <2>3 DEF n
<1>3. /\ result' = [kind |-> "Profiles", names |-> store]
      /\ UNCHANGED <<from, req, name, before, pending, reply, store>>
  BY <1>2 DEF ListProfiles, Advance, producerVars, envVars
<1>4. result' # None
  <2>1. [kind |-> "Profiles", names |-> store] \in Response
    BY <1>1 DEF TypeOK, Response
  <2> QED BY <1>3, <2>1, TypesAssumption
<1>5. namesRead = None /\ namesRead' = store
  BY <1>1, <1>3, <1>4 DEF namesRead, Idle
<1>6. from \in Producers /\ pending[from] = req
  BY <1>1 DEF TypeOK, InOnePlace
<1>7. UNCHANGED <<boardThen, mapThen, labelThen>>
  BY <1>1, <1>3, InHand
<1>8. Service!Look(from)
  BY <1>1, <1>3, <1>5, <1>6, <1>7 DEF Service!Look
<1> QED BY <1>6, <1>8

LEMMA ChooseIsAim ==
    ASSUME Inv, RefinementInv, ChooseNext, \A p \in Producers : InOnePlace(p)
    PROVE  (\E p \in Producers : Service!Aim(p)) \/ UNCHANGED Service!vars
<1>1. At("next") /\ from # None /\ ~Failed /\ req.op = "CycleProfile" /\ TypeOK /\ pc = 1
      /\ JobProgress /\ Past = {} /\ row = 0
  BY AtStep, RowZero DEF ChooseNext, PlanOrder, Past
<1>2. UNCHANGED <<from, req, before, pending, reply, store>>
  BY DEF ChooseNext, Abort, producerVars, envVars
<1>3. UNCHANGED <<boardThen, mapThen, labelThen, namesRead>>
  BY <1>1, <1>2, InHand
<1>4. CASE Abort
  <2>1. name' = name
    BY <1>4 DEF Abort
  <2> QED BY <1>2, <1>3, <2>1 DEF Service!vars
<1>5. CASE store # {} /\ name' = NextProfileName(active, store)
  <2>1. name = None
    BY <1>1 DEF RefinementInv, AimedOnce
  <2>2. labelThen = active
    <3>1. NothingDone
      BY <1>1, NothingYet
    <3> QED BY <1>1, <3>1 DEF NothingDone, labelThen, Idle
  <2>3. from \in Producers /\ pending[from] = req
    BY <1>1 DEF TypeOK, InOnePlace
  <2>4. name' = Service!NextProfileName(labelThen, store)
    BY <1>5, <2>2, SameNext
  <2>5. Service!Aim(from)
    BY <1>1, <1>2, <1>3, <1>5, <2>1, <2>3, <2>4 DEF Service!Aim
  <2> QED BY <2>3, <2>5
<1> QED BY <1>4, <1>5 DEF ChooseNext

\* The other steps of handle, and the keyboard being unplugged, show nothing.
LEMMA HandleIsHidden ==
    ASSUME Inv,
           \/ LoadProfile \/ SetActuation \/ Write \/ WriteFails \/ Identity
           \/ PollDepths \/ SetLabel
    PROVE  UNCHANGED Service!vars
<1>1. UNCHANGED <<from, req, name, before, pending, reply, store>>
  BY DEF LoadProfile, SetActuation, Write, WriteFails, Identity, PollDepths, SetLabel,
         Advance, Abort, producerVars, envVars
<1>2. PICK step \in Steps \ {"list"} : At(step)
  BY DEF LoadProfile, SetActuation, Write, WriteFails, Identity, PollDepths, SetLabel,
         AtWrite, IsFlush, Steps
<1>3. from # None /\ req.op # "ListProfiles"
  BY <1>2, AtStep DEF PlanOrder
<1>4. UNCHANGED <<boardThen, mapThen, labelThen, namesRead>>
  BY <1>1, <1>3, InHand
<1> QED BY <1>1, <1>4 DEF Service!vars

LEMMA UnplugIsHidden == ASSUME Unplug \/ UNCHANGED vars PROVE UNCHANGED Service!vars
  BY DEF Unplug, vars, producerVars, jobVars, stateVars, envVars, Service!vars, boardThen,
         mapThen, labelThen, namesRead, Idle
-------------------------------------------------------------------------------
(* The answer: the instant at which a request takes effect.                  *)

\* What every answer does to what the service shows.
LEMMA ReplyFinishes ==
    ASSUME Inv, Reply, \A p \in Producers : InOnePlace(p)
    PROVE  /\ from \in Producers /\ pending[from] = req
           /\ boardThen = before.fw /\ mapThen = before.mirror /\ labelThen = before.active
           /\ boardThen' = fw /\ mapThen' = mirror /\ labelThen' = active
           /\ Service!Finish(from, result)
<1>1. /\ from # None /\ from' = None /\ name' = None
      /\ reply' = [reply EXCEPT ![from] = result]
      /\ UNCHANGED <<pending, store, fw, mirror, active>>
  BY DEF Reply, Send, stateVars, envVars
<1>2. from \in Producers /\ pending[from] = req
  BY <1>1 DEF Inv, TypeOK, InOnePlace
<1>3. boardThen = before.fw /\ mapThen = before.mirror /\ labelThen = before.active
  BY <1>1 DEF boardThen, mapThen, labelThen, Idle
<1>4. boardThen' = fw /\ mapThen' = mirror /\ labelThen' = active /\ namesRead' = None
  BY <1>1 DEF boardThen, mapThen, labelThen, namesRead, Idle
<1>5. Service!Finish(from, result)
  BY <1>1, <1>4 DEF Service!Finish
<1> QED BY <1>2, <1>3, <1>4, <1>5

LEMMA GoodReplyIsSucceed ==
    ASSUME Inv, RefinementInv, Reply, ~Failed, \A p \in Producers : InOnePlace(p)
    PROVE  Service!Succeed(from)
<1>1. /\ from # None /\ result # None /\ result # ErrorReply
      /\ TypeOK /\ JobControl /\ JobProgress /\ row = 0
      /\ WritesDone(req.op, Past) /\ (AppliesProfile(req) => "load" \in Past)
      /\ ("label" \in Past <=> req.op \notin {"Status", "ListProfiles", "Depths"})
      /\ req.op \in Ops
  BY AtEnd DEF Reply, Failed
<1>2. /\ fw = Effect(before.fw, before.mirror, req, name)
      /\ mirror = WantedMap(req, name, before.mirror)
  BY <1>1, EffectDone
<1>3. active = LabelAfter(req, name, before.active)
  BY <1>1, LabelDone
<1>4. AppliesProfile(req) => name # None /\ Appliable(name)
  BY <1>1, TypesAssumption DEF JobProgress, Done
<1>5. result = Service!GoodAnswer(req, result.names, fw, active)
  BY <1>1 DEF RefinementInv, AnswerIsGood, Failed
<1>6. req.op = "ListProfiles" => namesRead = result.names /\ namesRead # None
  <2> SUFFICES ASSUME req.op = "ListProfiles" PROVE namesRead = result.names /\ namesRead # None
    OBVIOUS
  <2>1. namesRead = result.names
    BY <1>1 DEF namesRead, Idle
  <2>2. result.kind = "Profiles"
    BY <1>5 DEF Service!GoodAnswer
  <2>3. result.names \in SUBSET Names
    BY <1>1, <2>2 DEF TypeOK, Response
  <2> QED BY <2>1, <2>3, TypesAssumption
<1>7. result = Service!GoodAnswer(req, namesRead, fw, active)
  BY <1>5, <1>6 DEF Service!GoodAnswer
<1>8. Service!Ready(from)
  BY <1>4, <1>6, ReplyFinishes, SamePredicates DEF Service!Ready
<1> QED BY <1>2, <1>3, <1>7, <1>8, ReplyFinishes, SameEffect, SameMap DEF Service!Succeed

LEMMA BadReplyIsExplained ==
    ASSUME Inv, RefinementInv, Reply, Failed, \A p \in Producers : InOnePlace(p)
    PROVE  Service!Refuse(from) \/ Service!Fail(from) \/ Service!FailReport(from)
<1>1. /\ from # None /\ result = Service!ErrorReply /\ req.op # "ListProfiles"
      /\ NothingDone \/ StoppedHalfway \/ OnlyUnreported
  BY SameTypes DEF Reply, RefinementInv, FailureExplained, Failed
<1>2. Service!Ready(from) <=> Known
  BY <1>1, ReplyFinishes, SamePredicates DEF Service!Ready, Known
<1>3. CASE NothingDone
  BY <1>1, <1>3, ReplyFinishes DEF NothingDone, Service!Refuse
<1>4. CASE StoppedHalfway
  <2>1. Service!Effect(before.fw, before.mirror, req, name) = Intended
    BY SameEffect DEF Intended
  <2> QED BY <1>1, <1>2, <1>4, <2>1, ReplyFinishes, SameMap, SamePredicates
          DEF StoppedHalfway, Service!Fail
<1>5. CASE OnlyUnreported
  <2>1. Service!Effect(before.fw, before.mirror, req, name) = Intended
    BY SameEffect DEF Intended
  <2> QED BY <1>1, <1>2, <1>5, <2>1, ReplyFinishes, SameMap
          DEF OnlyUnreported, Service!FailReport
<1> QED BY <1>1, <1>3, <1>4, <1>5

LEMMA NextIsService ==
    ASSUME Inv, RefinementInv, \A p \in Producers : InOnePlace(p), [Next]_vars
    PROVE  [Service!Next]_Service!vars
<1>1. ASSUME NEW p \in Producers, Submit(p) PROVE Service!Next
  BY <1>1, SubmitIsInvoke DEF Service!Next
<1>2. ASSUME NEW p \in Producers, Receive(p) PROVE Service!Next
  BY <1>2, ReceiveIsReturn DEF Service!Next
<1>3. CASE Take
  BY <1>3, TakeIsBegin DEF Service!Next
<1>4. CASE ListProfiles
  BY <1>4, ListIsLook DEF Service!Next
<1>5. CASE ChooseNext
  BY <1>5, ChooseIsAim DEF Service!Next
<1>6. CASE HandleStep /\ ~ListProfiles /\ ~ChooseNext
  BY <1>6, HandleIsHidden DEF HandleStep
<1>7. CASE Reply
  BY <1>7, ReplyFinishes, GoodReplyIsSucceed, BadReplyIsExplained DEF Service!Next
<1>8. CASE EditStore
  BY <1>8, EditIsEditFiles DEF Service!Next
<1>9. CASE Unplug \/ UNCHANGED vars
  BY <1>9, UnplugIsHidden
<1> QED BY <1>1, <1>2, <1>3, <1>4, <1>5, <1>6, <1>7, <1>8, <1>9
        DEF Next, DeviceThread, HandleStep

(* Whatever the threads, the channel, the packets and their failures do, the *)
(* daemon is the atomic service its clients can count on.                    *)
THEOREM DaemonImplements == Spec => ImplementsService
<1>1. Spec => [](\A q \in Producers : InOnePlace(q))
  BY AlwaysInOnePlace
<1>2. Inv /\ RefinementInv /\ (\A q \in Producers : InOnePlace(q)) /\ [Next]_vars
        => [Service!Next]_Service!vars
  BY NextIsService
<1> QED BY <1>1, <1>2, InitIsService, AlwaysInv, AlwaysExplained, PTL
        DEF Spec, ImplementsService, Service!Spec
-------------------------------------------------------------------------------
(* The rules the watcher asks.                                               *)

\* A function that go is.
Goes(go, pattern, text) ==
    go = [at \in (1..(Len(pattern) + 1)) \X (1..(Len(text) + 1)) |-> Go(go, pattern, text, at[1], at[2])]

\* What go should say: the text from j has a cut for the pattern from i.
Cuts(pattern, text, i, j, cut) ==
    /\ cut \in [(i - 1)..Len(pattern) -> 0..Len(text)]
    /\ cut[i - 1] = j - 1 /\ cut[Len(pattern)] = Len(text)
    /\ \A k \in i..Len(pattern) :
        IF pattern[k] = Star THEN cut[k] >= cut[k - 1]
        ELSE cut[k] = cut[k - 1] + 1 /\ text[cut[k]] = pattern[k]

Rest(pattern, text, i, j) == \E cut : Cuts(pattern, text, i, j, cut)

LEMMA GlobIsGo ==
    ASSUME NEW p, NEW t, \E f : Goes(f, p, t)
    PROVE  \E f : Goes(f, p, t) /\ GlobMatch(p, t) = f[<<1, 1>>]
<1> DEFINE go == CHOOSE go : go = [at \in (1..(Len(p) + 1)) \X (1..(Len(t) + 1)) |-> Go(go, p, t, at[1], at[2])]
<1>1. Goes(go, p, t)
  BY DEF Goes
<1>2. GlobMatch(p, t) = go[<<1, 1>>]
  BY DEF GlobMatch
<1> QED BY <1>1, <1>2

LEMMA RestEnd ==
    ASSUME NEW S, NEW p \in Seq(S), NEW t \in Seq(S), NEW j \in 1..(Len(t) + 1)
    PROVE  Rest(p, t, Len(p) + 1, j) <=> j > Len(t)
<1>1. ASSUME NEW cut, Cuts(p, t, Len(p) + 1, j, cut) PROVE j > Len(t)
  BY <1>1 DEF Cuts
<1>2. ASSUME j > Len(t) PROVE Rest(p, t, Len(p) + 1, j)
  <2> DEFINE cut == [k \in Len(p)..Len(p) |-> Len(t)]
  <2>1. Cuts(p, t, Len(p) + 1, j, cut)
    BY <1>2 DEF Cuts
  <2> QED BY <2>1 DEF Rest
<1> QED BY <1>1, <1>2 DEF Rest

LEMMA RestStar ==
    ASSUME NEW S, NEW p \in Seq(S), NEW t \in Seq(S), NEW i \in 1..Len(p), NEW j \in 1..(Len(t) + 1),
           p[i] = Star
    PROVE  Rest(p, t, i, j) <=> Rest(p, t, i + 1, j) \/ (j <= Len(t) /\ Rest(p, t, i, j + 1))
<1> DEFINE P == Len(p)
           T == Len(t)
<1>0. P \in Nat /\ T \in Nat /\ i \in 1..P /\ j \in 1..(T + 1)
  OBVIOUS
<1>1. ASSUME Rest(p, t, i + 1, j) PROVE Rest(p, t, i, j)
  <2>1. PICK c : Cuts(p, t, i + 1, j, c)
    BY <1>1 DEF Rest
  <2>2. /\ c \in [i..P -> 0..T] /\ c[i] = j - 1 /\ c[P] = T
        /\ \A k \in (i + 1)..P : IF p[k] = Star THEN c[k] >= c[k - 1]
                                 ELSE c[k] = c[k - 1] + 1 /\ t[c[k]] = p[k]
    BY <2>1, <1>0 DEF Cuts
  <2> DEFINE cut == [k \in (i - 1)..P |-> IF k = i - 1 THEN j - 1 ELSE c[k]]
  <2> HIDE DEF P, T
  <2>3. cut \in [(i - 1)..P -> 0..T] /\ cut[i - 1] = j - 1 /\ cut[P] = T
    BY <1>0, <2>2
  <2>4. \A k \in i..P : cut[k] = c[k]
    BY <1>0
  <2>5. ASSUME NEW k \in i..P
        PROVE IF p[k] = Star THEN cut[k] >= cut[k - 1] ELSE cut[k] = cut[k - 1] + 1 /\ t[cut[k]] = p[k]
    <3>1. CASE k = i
      BY <1>0, <2>2, <2>3, <2>4, <3>1
    <3>2. CASE k \in (i + 1)..P
      <4>1. cut[k] = c[k] /\ cut[k - 1] = c[k - 1]
        BY <1>0, <2>4, <3>2
      <4> QED BY <2>2, <3>2, <4>1
    <3> QED BY <1>0, <3>1, <3>2
  <2> HIDE DEF cut
  <2> QED BY <2>3, <2>5 DEF Rest, Cuts, P, T
<1>2. ASSUME j <= T, Rest(p, t, i, j + 1) PROVE Rest(p, t, i, j)
  <2>1. PICK c : Cuts(p, t, i, j + 1, c)
    BY <1>2 DEF Rest
  <2>2. /\ c \in [(i - 1)..P -> 0..T] /\ c[i - 1] = j /\ c[P] = T
        /\ \A k \in i..P : IF p[k] = Star THEN c[k] >= c[k - 1]
                                 ELSE c[k] = c[k - 1] + 1 /\ t[c[k]] = p[k]
    BY <2>1, <1>0 DEF Cuts
  <2> DEFINE cut == [c EXCEPT ![i - 1] = j - 1]
  <2> HIDE DEF P, T
  <2>3. cut \in [(i - 1)..P -> 0..T] /\ cut[i - 1] = j - 1 /\ cut[P] = T
    BY <1>0, <2>2
  <2>4. \A k \in i..P : cut[k] = c[k]
    BY <1>0, <2>2
  <2>5. ASSUME NEW k \in i..P
        PROVE IF p[k] = Star THEN cut[k] >= cut[k - 1] ELSE cut[k] = cut[k - 1] + 1 /\ t[cut[k]] = p[k]
    <3>1. CASE k = i
      <4>1. c[i] >= c[i - 1] /\ c[i] \in 0..T
        BY <1>0, <2>2
      <4> QED BY <1>0, <2>2, <2>3, <2>4, <3>1, <4>1
    <3>2. CASE k \in (i + 1)..P
      <4>1. cut[k] = c[k] /\ cut[k - 1] = c[k - 1]
        BY <1>0, <2>4, <3>2
      <4> QED BY <2>2, <3>2, <4>1
    <3> QED BY <1>0, <3>1, <3>2
  <2> HIDE DEF cut
  <2> QED BY <2>3, <2>5 DEF Rest, Cuts, P, T
<1>3. ASSUME Rest(p, t, i, j) PROVE Rest(p, t, i + 1, j) \/ (j <= Len(t) /\ Rest(p, t, i, j + 1))
  <2>1. PICK c : Cuts(p, t, i, j, c)
    BY <1>3 DEF Rest
  <2>2. /\ c \in [(i - 1)..P -> 0..T] /\ c[i - 1] = j - 1 /\ c[P] = T
        /\ \A k \in i..P : IF p[k] = Star THEN c[k] >= c[k - 1]
                                 ELSE c[k] = c[k - 1] + 1 /\ t[c[k]] = p[k]
    BY <2>1, <1>0 DEF Cuts
  <2> HIDE DEF P, T
  <2>3. c[i] \in 0..T /\ c[i] >= j - 1
    BY <1>0, <2>2
  <2>4. CASE c[i] = j - 1
    <3> DEFINE cut == [k \in i..P |-> c[k]]
    <3>1. cut \in [i..P -> 0..T] /\ cut[i] = j - 1 /\ cut[P] = T
      BY <1>0, <2>2, <2>4
    <3>2. ASSUME NEW k \in (i + 1)..P
          PROVE IF p[k] = Star THEN cut[k] >= cut[k - 1] ELSE cut[k] = cut[k - 1] + 1 /\ t[cut[k]] = p[k]
      <4>1. cut[k] = c[k] /\ cut[k - 1] = c[k - 1] /\ k \in i..P
        BY <1>0
      <4> QED BY <2>2, <4>1
    <3> HIDE DEF cut
    <3>3. (i + 1) - 1 = i
      BY <1>0
    <3>4. Cuts(p, t, i + 1, j, cut)
      BY <3>1, <3>2, <3>3 DEF Cuts, P, T
    <3> QED BY <3>4 DEF Rest
  <2>5. CASE c[i] >= j
    <3> DEFINE cut == [c EXCEPT ![i - 1] = j]
    <3>1. j <= T
      BY <1>0, <2>3, <2>5
    <3>2. cut \in [(i - 1)..P -> 0..T] /\ cut[i - 1] = j /\ cut[P] = T /\ (j + 1) - 1 = j
      BY <1>0, <2>2, <3>1
    <3>3. \A k \in i..P : cut[k] = c[k]
      BY <1>0, <2>2
    <3>4. ASSUME NEW k \in i..P
          PROVE IF p[k] = Star THEN cut[k] >= cut[k - 1] ELSE cut[k] = cut[k - 1] + 1 /\ t[cut[k]] = p[k]
      <4>1. CASE k = i
        BY <1>0, <2>5, <3>2, <3>3, <4>1
      <4>2. CASE k \in (i + 1)..P
        <5>1. cut[k] = c[k] /\ cut[k - 1] = c[k - 1]
          BY <1>0, <3>3, <4>2
        <5> QED BY <2>2, <4>2, <5>1
      <4> QED BY <1>0, <4>1, <4>2
    <3> HIDE DEF cut
    <3>5. Cuts(p, t, i, j + 1, cut)
      BY <3>2, <3>4 DEF Cuts, P, T
    <3> QED BY <3>1, <3>5 DEF Rest, T
  <2> QED BY <1>0, <2>3, <2>4, <2>5
<1> QED BY <1>1, <1>2, <1>3

LEMMA RestLetter ==
    ASSUME NEW S, NEW p \in Seq(S), NEW t \in Seq(S), NEW i \in 1..Len(p), NEW j \in 1..(Len(t) + 1),
           p[i] # Star
    PROVE  Rest(p, t, i, j) <=> j <= Len(t) /\ t[j] = p[i] /\ Rest(p, t, i + 1, j + 1)
<1> DEFINE P == Len(p)
           T == Len(t)
<1>0. P \in Nat /\ T \in Nat /\ i \in 1..P /\ j \in 1..(T + 1)
  OBVIOUS
<1>1. ASSUME j <= T, t[j] = p[i], Rest(p, t, i + 1, j + 1) PROVE Rest(p, t, i, j)
  <2>1. PICK c : Cuts(p, t, i + 1, j + 1, c)
    BY <1>1 DEF Rest
  <2>2. /\ c \in [i..P -> 0..T] /\ c[i] = j /\ c[P] = T
        /\ \A k \in (i + 1)..P : IF p[k] = Star THEN c[k] >= c[k - 1]
                                 ELSE c[k] = c[k - 1] + 1 /\ t[c[k]] = p[k]
    BY <2>1, <1>0 DEF Cuts
  <2> DEFINE cut == [k \in (i - 1)..P |-> IF k = i - 1 THEN j - 1 ELSE c[k]]
  <2> HIDE DEF P, T
  <2>3. cut \in [(i - 1)..P -> 0..T] /\ cut[i - 1] = j - 1 /\ cut[P] = T
    <3>1. \A k \in (i - 1)..P : k # i - 1 => k \in i..P
      BY <1>0
    <3>2. j - 1 \in 0..T /\ i - 1 \in (i - 1)..P /\ P \in (i - 1)..P /\ P # i - 1
      BY <1>0
    <3>3. cut \in [(i - 1)..P -> 0..T]
      BY <2>2, <3>1, <3>2
    <3> QED BY <2>2, <3>2, <3>3
  <2>4. \A k \in i..P : cut[k] = c[k]
    BY <1>0
  <2>5. ASSUME NEW k \in i..P
        PROVE IF p[k] = Star THEN cut[k] >= cut[k - 1] ELSE cut[k] = cut[k - 1] + 1 /\ t[cut[k]] = p[k]
    <3>1. CASE k = i
      BY <1>0, <1>1, <2>2, <2>3, <2>4, <3>1
    <3>2. CASE k \in (i + 1)..P
      <4>1. cut[k] = c[k] /\ cut[k - 1] = c[k - 1]
        BY <1>0, <2>4, <3>2
      <4> QED BY <2>2, <3>2, <4>1
    <3> QED BY <1>0, <3>1, <3>2
  <2> HIDE DEF cut
  <2> QED BY <2>3, <2>5 DEF Rest, Cuts, P, T
<1>2. ASSUME Rest(p, t, i, j) PROVE j <= T /\ t[j] = p[i] /\ Rest(p, t, i + 1, j + 1)
  <2>1. PICK c : Cuts(p, t, i, j, c)
    BY <1>2 DEF Rest
  <2>2. /\ c \in [(i - 1)..P -> 0..T] /\ c[i - 1] = j - 1 /\ c[P] = T
        /\ \A k \in i..P : IF p[k] = Star THEN c[k] >= c[k - 1]
                                 ELSE c[k] = c[k - 1] + 1 /\ t[c[k]] = p[k]
    BY <2>1, <1>0 DEF Cuts
  <2> HIDE DEF P, T
  <2>3. c[i] \in 0..T /\ c[i] = j /\ t[j] = p[i]
    BY <1>0, <2>2
  <2> DEFINE cut == [k \in i..P |-> c[k]]
  <2>4. cut \in [i..P -> 0..T] /\ cut[i] = j /\ cut[P] = T
    BY <1>0, <2>2, <2>3
  <2>5. ASSUME NEW k \in (i + 1)..P
        PROVE IF p[k] = Star THEN cut[k] >= cut[k - 1] ELSE cut[k] = cut[k - 1] + 1 /\ t[cut[k]] = p[k]
    <3>1. cut[k] = c[k] /\ cut[k - 1] = c[k - 1] /\ k \in i..P
      BY <1>0
    <3> QED BY <2>2, <3>1
  <2> HIDE DEF cut
  <2>6. (i + 1) - 1 = i /\ (j + 1) - 1 = j
    BY <1>0
  <2>7. Cuts(p, t, i + 1, j + 1, cut)
    BY <2>4, <2>5, <2>6 DEF Cuts, P, T
  <2> QED BY <1>0, <2>3, <2>7 DEF Rest
<1> QED BY <1>1, <1>2

\* A function agrees with Rest when it agrees with what go makes of it.
RestFcn(p, t) == [at \in (1..(Len(p) + 1)) \X (1..(Len(t) + 1)) |-> Rest(p, t, at[1], at[2])]

LEMMA GoRest ==
    ASSUME NEW S, NEW p \in Seq(S), NEW t \in Seq(S), NEW go,
           NEW i \in 1..(Len(p) + 1), NEW j \in 1..(Len(t) + 1),
           i <= Len(p) => (go[<<i + 1, j>>] <=> Rest(p, t, i + 1, j)),
           i <= Len(p) /\ j <= Len(t) => (go[<<i, j + 1>>] <=> Rest(p, t, i, j + 1))
               /\ (go[<<i + 1, j + 1>>] <=> Rest(p, t, i + 1, j + 1))
    PROVE  Go(go, p, t, i, j) <=> Rest(p, t, i, j)
<1>1. CASE i > Len(p)
  <2>1. i = Len(p) + 1
    BY <1>1
  <2>2. Go(go, p, t, i, j) <=> j > Len(t)
    BY <1>1 DEF Go
  <2>3. Rest(p, t, Len(p) + 1, j) <=> j > Len(t)
    BY RestEnd
  <2> QED BY <2>1, <2>2, <2>3
<1>2. CASE i <= Len(p)
  <2>1. i \in 1..Len(p) /\ ~(i > Len(p))
    BY <1>2
  <2>2. CASE p[i] = Star
    <3>1. Go(go, p, t, i, j) <=> go[<<i + 1, j>>] \/ (j <= Len(t) /\ go[<<i, j + 1>>])
      BY <2>1, <2>2 DEF Go
    <3> QED BY <1>2, <2>1, <2>2, <3>1, RestStar
  <2>3. CASE p[i] # Star
    <3>1. Go(go, p, t, i, j) <=> j <= Len(t) /\ t[j] = p[i] /\ go[<<i + 1, j + 1>>]
      BY <2>1, <2>3 DEF Go
    <3> QED BY <1>2, <2>1, <2>3, <3>1, RestLetter
  <2> QED BY <2>2, <2>3
<1> QED BY <1>1, <1>2

LEMMA RestGoes ==
    ASSUME NEW S, NEW p \in Seq(S), NEW t \in Seq(S) PROVE Goes(RestFcn(p, t), p, t)
<1> DEFINE f == RestFcn(p, t)
           P == 1..(Len(p) + 1)
           T == 1..(Len(t) + 1)
<1>1. \A i \in P, j \in T : f[<<i, j>>] = Rest(p, t, i, j)
  BY DEF RestFcn
<1> HIDE DEF f
<1>2. ASSUME NEW i \in P, NEW j \in T PROVE Go(f, p, t, i, j) <=> Rest(p, t, i, j)
  <2>1. i <= Len(p) => (f[<<i + 1, j>>] <=> Rest(p, t, i + 1, j))
    BY <1>1
  <2>2. i <= Len(p) /\ j <= Len(t) => (f[<<i, j + 1>>] <=> Rest(p, t, i, j + 1))
               /\ (f[<<i + 1, j + 1>>] <=> Rest(p, t, i + 1, j + 1))
    <3>1. j <= Len(t) => j + 1 \in T
      OBVIOUS
    <3>2. i <= Len(p) => i + 1 \in P
      OBVIOUS
    <3> QED BY <1>1, <3>1, <3>2
  <2> QED BY <2>1, <2>2, GoRest
<1>3. \A at \in P \X T : Rest(p, t, at[1], at[2]) = Go(f, p, t, at[1], at[2])
  <2> SUFFICES ASSUME NEW at \in P \X T PROVE Rest(p, t, at[1], at[2]) = Go(f, p, t, at[1], at[2])
    OBVIOUS
  <2>1. at[1] \in P /\ at[2] \in T
    OBVIOUS
  <2>2. Rest(p, t, at[1], at[2]) <=> Go(f, p, t, at[1], at[2])
    BY <1>2, <2>1
  <2>3. Rest(p, t, at[1], at[2]) \in BOOLEAN /\ Go(f, p, t, at[1], at[2]) \in BOOLEAN
    <3>1. Rest(p, t, at[1], at[2]) \in BOOLEAN
      BY Zenon DEF Rest
    <3>2. Go(f, p, t, at[1], at[2]) \in BOOLEAN
      <4>1. CASE at[1] > Len(p)
        BY <2>1, <4>1 DEF Go
      <4>2. CASE ~(at[1] > Len(p)) /\ p[at[1]] = Star
        BY <4>2, Zenon DEF Go
      <4>3. CASE ~(at[1] > Len(p)) /\ p[at[1]] # Star
        BY <4>3, Zenon DEF Go
      <4> QED BY <4>1, <4>2, <4>3
    <3> QED BY <3>1, <3>2
  <2> QED BY <2>2, <2>3
<1>4. f = [at \in P \X T |-> Rest(p, t, at[1], at[2])]
  BY DEF f, RestFcn
<1>5. f = [at \in P \X T |-> Go(f, p, t, at[1], at[2])]
  BY <1>3, <1>4
<1> QED BY <1>5 DEF Goes, f

LEMMA GoesRest ==
    ASSUME NEW S, NEW p \in Seq(S), NEW t \in Seq(S), NEW go, Goes(go, p, t)
    PROVE  go[<<1, 1>>] <=> Rest(p, t, 1, 1)
<1> DEFINE P == 1..(Len(p) + 1)
           T == 1..(Len(t) + 1)
           togo(i, j) == (Len(p) + 1 - i) + (Len(t) + 1 - j)
           N == {n \in Nat : \A i \in P, j \in T : togo(i, j) <= n => (go[<<i, j>>] <=> Rest(p, t, i, j))}
<1>1. ASSUME NEW i \in P, NEW j \in T PROVE go[<<i, j>>] <=> Go(go, p, t, i, j)
  <2>1. <<i, j>> \in P \X T /\ <<i, j>>[1] = i /\ <<i, j>>[2] = j
    OBVIOUS
  <2> QED BY <2>1 DEF Goes
<1>2. 0 \in N
  <2> SUFFICES ASSUME NEW i \in P, NEW j \in T, togo(i, j) <= 0 PROVE go[<<i, j>>] <=> Rest(p, t, i, j)
    OBVIOUS
  <2>1. ~(i <= Len(p))
    OBVIOUS
  <2> QED BY <1>1, <2>1, GoRest
<1>3. ASSUME NEW n \in Nat, n \in N PROVE n + 1 \in N
  <2> SUFFICES ASSUME NEW i \in P, NEW j \in T, togo(i, j) <= n + 1 PROVE go[<<i, j>>] <=> Rest(p, t, i, j)
    OBVIOUS
  <2>0. \A k \in P, l \in T : togo(k, l) <= n => (go[<<k, l>>] <=> Rest(p, t, k, l))
    BY <1>3
  <2>1. i <= Len(p) => i + 1 \in P /\ togo(i + 1, j) <= n
    OBVIOUS
  <2>2. j <= Len(t) => j + 1 \in T /\ togo(i, j + 1) <= n
    OBVIOUS
  <2>3. i <= Len(p) /\ j <= Len(t) => i + 1 \in P /\ j + 1 \in T /\ togo(i + 1, j + 1) <= n
    OBVIOUS
  <2> HIDE DEF togo
  <2>4. i <= Len(p) => (go[<<i + 1, j>>] <=> Rest(p, t, i + 1, j))
    BY <2>0, <2>1
  <2>5. i <= Len(p) /\ j <= Len(t) => (go[<<i, j + 1>>] <=> Rest(p, t, i, j + 1))
               /\ (go[<<i + 1, j + 1>>] <=> Rest(p, t, i + 1, j + 1))
    BY <2>0, <2>2, <2>3
  <2> QED BY <1>1, <2>4, <2>5, GoRest
<1>4. togo(1, 1) \in Nat /\ 1 \in P /\ 1 \in T
  OBVIOUS
<1> HIDE DEF N
<1>5. togo(1, 1) \in N
  BY <1>2, <1>3, <1>4, Induct
<1> QED BY <1>4, <1>5 DEF N

(* glob_match is right: it says that a pattern means a text exactly when the *)
(* text can be cut into a piece per letter of the pattern.                   *)
THEOREM GlobsMean ==
    ASSUME NEW S, NEW p \in Seq(S), NEW t \in Seq(S)
    PROVE  GlobMatch(p, t) <=> Means(p, t)
<1>1. PICK go : Goes(go, p, t) /\ GlobMatch(p, t) = go[<<1, 1>>]
  BY RestGoes, GlobIsGo
<1>2. GlobMatch(p, t) <=> Rest(p, t, 1, 1)
  BY <1>1, GoesRest
<1>3. Rest(p, t, 1, 1) <=> Means(p, t)
  <2>1. 1 - 1 = 0
    OBVIOUS
  <2> QED BY <2>1 DEF Rest, Cuts, Means
<1> QED BY <1>2, <1>3

LowerLetters == {LowerLetter(l) : l \in Letters}

LEMMA LowerSeq == ASSUME NEW s \in Seq(Letters) PROVE Lowercase(s) \in Seq(LowerLetters)
<1>1. s \in [1..Len(s) -> Letters] /\ Len(s) \in Nat
  OBVIOUS
<1>2. Lowercase(s) \in [1..Len(s) -> LowerLetters]
  BY <1>1 DEF Lowercase, LowerLetters
<1> QED BY <1>1, <1>2

LEMMA LowerCapital ==
    ASSUME NEW s \in Seq(Letters) PROVE Capital(s) \in Seq(Letters) /\ Lowercase(Capital(s)) = Lowercase(s)
<1>1. s \in [1..Len(s) -> Letters] /\ Len(s) \in Nat
  OBVIOUS
<1>2. ASSUME NEW l \in DOMAIN Big PROVE Big[l] \in Capitals /\ LowerLetter(Big[l]) = l /\ LowerLetter(l) = l
  <2>1. Big[l] \in Capitals /\ l \notin Capitals
    BY RulesAssumption DEF Capitals
  <2>2. \A a \in DOMAIN Big : Big[a] = Big[l] => a = l
    BY RulesAssumption DEF IsInjective
  <2> QED BY <2>1, <2>2 DEF LowerLetter
<1>3. Capital(s) \in [1..Len(s) -> Letters]
  BY <1>1, <1>2 DEF Capital, Letters
<1>4. \A i \in 1..Len(s) : LowerLetter(Capital(s)[i]) = LowerLetter(s[i])
  BY <1>1, <1>2 DEF Capital
<1>5. Lowercase(Capital(s)) = Lowercase(s)
  BY <1>1, <1>3, <1>4 DEF Lowercase
<1> QED BY <1>1, <1>3, <1>5

LEMMA HitsMean ==
    ASSUME NEW rule \in Rule, NEW id \in Seq(Letters)
    PROVE  Hits(rule, id) <=> Means(Lowercase(rule.pattern), Lowercase(id))
<1>1. Lowercase(rule.pattern) \in Seq(LowerLetters) /\ Lowercase(id) \in Seq(LowerLetters)
  BY LowerSeq DEF Rule
<1> QED BY <1>1, GlobsMean DEF Hits

\* profile_for chooses by the meaning of the globs.
LEMMA ProfileChosen ==
    ASSUME NEW rules \in Seq(Rule), NEW default, NEW id \in Seq(Letters)
    PROVE  Chosen(ProfileFor(rules, default, id), rules, default, id)
<1> DEFINE hits  == {i \in DOMAIN rules : Hits(rules[i], id)}
           means == {r \in DOMAIN rules : Means(Lowercase(rules[r].pattern), Lowercase(id))}
           profile == ProfileFor(rules, default, id)
           first == CHOOSE i \in hits : \A j \in hits : i <= j
<1>1. hits = means
  <2>1. \A r \in DOMAIN rules : rules[r] \in Rule
    OBVIOUS
  <2> QED BY <2>1, HitsMean
<1>2. profile = IF hits = {} THEN default ELSE rules[first].profile
  BY DEF ProfileFor
<1>3. hits # {} => first \in hits /\ \A j \in hits : first <= j
  <2>1. hits \in SUBSET Nat
    OBVIOUS
  <2> HIDE DEF hits
  <2>2. hits # {} => \E i \in hits : \A j \in hits : i <= j
    BY <2>1, Least
  <2> QED BY <2>2
<1> HIDE DEF hits, first, means, profile
<1>4. IF means = {} THEN profile = default
      ELSE \E r \in means : profile = rules[r].profile /\ \A q \in means : r <= q
  BY <1>1, <1>2, <1>3
<1> QED BY <1>4 DEF Chosen, means, profile

\* Capitals change nothing.
LEMMA ProfileShouted ==
    ASSUME NEW rules \in Seq(Rule), NEW default, NEW id \in Seq(Letters)
    PROVE  ProfileFor([r \in DOMAIN rules |-> [rules[r] EXCEPT !.pattern = Capital(@)]], default, Capital(id))
                = ProfileFor(rules, default, id)
<1> DEFINE shouted == [r \in DOMAIN rules |-> [rules[r] EXCEPT !.pattern = Capital(@)]]
           loud    == {i \in DOMAIN shouted : Hits(shouted[i], Capital(id))}
           hits    == {i \in DOMAIN rules : Hits(rules[i], id)}
<1>1. ASSUME NEW r \in DOMAIN rules
      PROVE  /\ shouted[r].profile = rules[r].profile /\ shouted[r].pattern = Capital(rules[r].pattern)
             /\ rules[r].pattern \in Seq(Letters)
  <2>1. rules[r] \in Rule
    OBVIOUS
  <2>2. shouted[r] = [rules[r] EXCEPT !.pattern = Capital(@)]
    OBVIOUS
  <2> QED BY <2>1, <2>2 DEF Rule
<1>2. DOMAIN shouted = DOMAIN rules
  OBVIOUS
<1> HIDE DEF shouted
<1>3. \A r \in DOMAIN rules : Hits(shouted[r], Capital(id)) = Hits(rules[r], id)
  BY <1>1, LowerCapital DEF Hits
<1>4. loud = hits
  BY <1>2, <1>3
<1>5. ProfileFor(shouted, default, Capital(id))
        = IF loud = {} THEN default ELSE shouted[CHOOSE i \in loud : \A j \in loud : i <= j].profile
  BY DEF ProfileFor
<1>6. ProfileFor(rules, default, id)
        = IF hits = {} THEN default ELSE rules[CHOOSE i \in hits : \A j \in hits : i <= j].profile
  BY DEF ProfileFor
<1>7. hits # {} => (CHOOSE i \in hits : \A j \in hits : i <= j) \in hits
  <2>1. hits \in SUBSET Nat
    OBVIOUS
  <2> HIDE DEF hits
  <2>2. hits # {} => \E i \in hits : \A j \in hits : i <= j
    BY <2>1, Least
  <2> QED BY <2>2
<1>8. \A r \in hits : r \in DOMAIN rules
  OBVIOUS
<1> HIDE DEF hits, loud
<1>9. ProfileFor(shouted, default, Capital(id)) = ProfileFor(rules, default, id)
  <2>1. CASE hits = {}
    BY <1>4, <1>5, <1>6, <2>1
  <2>2. CASE hits # {}
    <3> DEFINE first == CHOOSE i \in hits : \A j \in hits : i <= j
    <3>1. first \in hits /\ loud = hits
      BY <1>4, <1>7, <2>2
    <3>2. ProfileFor(shouted, default, Capital(id)) = shouted[first].profile
      BY <1>5, <2>2, <3>1
    <3>3. ProfileFor(rules, default, id) = rules[first].profile
      BY <1>6, <2>2
    <3> HIDE DEF first
    <3> QED BY <1>1, <1>8, <3>1, <3>2, <3>3
  <2> QED BY <2>1, <2>2
<1> QED BY <1>9 DEF shouted

LEMMA RulesAreRight == FirstRuleWins
<1> SUFFICES ASSUME NEW rules \in RuleLists, NEW default \in Profiles \cup {NoProfile}, NEW id \in Ids
             PROVE  /\ Chosen(ProfileFor(rules, default, id), rules, default, id)
                    /\ ProfileFor(rules, default, id)
                        = ProfileFor([r \in DOMAIN rules |-> [rules[r] EXCEPT !.pattern = Capital(@)]],
                                     default, Capital(id))
  BY DEF FirstRuleWins
<1>1. rules \in Seq(Rule)
  BY RulesAssumption
<1>2. id \in Seq(Letters)
  BY RulesAssumption DEF Ids, BoundedSeq, SeqOf
<1> QED BY <1>1, <1>2, ProfileChosen, ProfileShouted

LEMMA RuleForType == RuleFor \in [Apps -> Names \cup {None}]
<1> SUFFICES ASSUME NEW app \in Apps PROVE ProfileFor(RulesFile, Default, app) \in Names \cup {None}
  BY DEF RuleFor
<1>1. Chosen(ProfileFor(RulesFile, Default, app), RulesFile, Default, app)
  BY WatchAssumption, ProfileChosen
<1>2. \A r \in DOMAIN RulesFile : RulesFile[r].profile \in Profiles
  <2>1. \A r \in DOMAIN RulesFile : RulesFile[r] \in Rule
    BY WatchAssumption
  <2> QED BY <2>1 DEF Rule
<1> QED BY <1>1, <1>2, WatchAssumption DEF Chosen
-------------------------------------------------------------------------------
(* The focus watcher.                                                        *)

\* What the watcher asks for is a request like another.
LEMMA HandleIsSubmit ==
    ASSUME CallIsJob, NEW i, Handle(i)
    PROVE  Submit(Watcher)
<1>1. pending[Watcher] = None
  BY DEF CallIsJob, Handle
<1>2. PICK r \in Requests : Dispatch(r)
  BY WatchAssumption, RuleForType DEF Handle, Skips
<1> QED BY <1>1, <1>2 DEF Submit, Dispatch

\* What the watcher does is, to the daemon, what any producer may do.
LEMMA WatchIsDaemon ==
    ASSUME CallIsJob, [WatchNext]_allVars
    PROVE  [Next]_vars
<1>1. CASE DaemonStep
  BY <1>1 DEF DaemonStep, Next
<1>2. CASE Deliver \/ (\E i \in 1..Len(calls) : Skip(i)) \/ UNCHANGED allVars
  BY <1>2 DEF Deliver, Skip, allVars
<1>3. CASE \E i \in 1..Len(calls) : Handle(i)
  BY <1>3, HandleIsSubmit, WatchAssumption, RuleForType DEF Next
<1>4. CASE Conclude
  BY <1>4, WatchAssumption, RuleForType DEF Conclude, Next
<1> QED BY <1>1, <1>2, <1>3, <1>4 DEF WatchNext

LEMMA InitCallIsJob == WatchInit => CallIsJob /\ BelievedActive /\ AnswerTellsActive
  BY WatchAssumption, RuleForType, DaemonAssumption
     DEF WatchInit, Init, CallIsJob, BelievedActive, AnswerTellsActive

\* The daemon and the other producers leave the watcher's request alone.
LEMMA DaemonKeepsCall ==
    ASSUME Inv, DaemonStep
    PROVE  UNCHANGED <<watchVars, pending[Watcher]>>
<1>1. pending \in [Producers -> Requests \cup {None}] /\ Watcher \in Producers
  BY WatchAssumption, RuleForType DEF Inv, TypeOK
<1>2. CASE \E p \in Producers \ {Watcher} : Submit(p) \/ Receive(p)
  BY <1>1, <1>2 DEF DaemonStep, Submit, Receive
<1>3. CASE DeviceThread
  <2>1. pending' = pending
    BY <1>3 DEF DeviceThread, Take, Reply, HandleStep, ListProfiles, ChooseNext, LoadProfile,
                SetActuation, Write, WriteFails, Identity, PollDepths, SetLabel, producerVars
  <2> QED BY <2>1 DEF DaemonStep
<1>4. CASE Unplug \/ EditStore
  BY <1>4 DEF DaemonStep, Unplug, EditStore, producerVars
<1> QED BY <1>2, <1>3, <1>4 DEF DaemonStep

LEMMA CallStaysJob ==
    ASSUME Inv, CallIsJob, [WatchNext]_allVars
    PROVE  CallIsJob'
<1>1. pending \in [Producers -> Requests \cup {None}] /\ Watcher \in Producers
  BY WatchAssumption, RuleForType DEF Inv, TypeOK
<1>2. CASE UNCHANGED <<watchVars, pending[Watcher]>>
  BY <1>2 DEF CallIsJob, watchVars
<1>3. CASE DaemonStep
  BY <1>2, <1>3, DaemonKeepsCall
<1>4. CASE Deliver
  BY <1>4 DEF Deliver, CallIsJob, vars, producerVars
<1>5. CASE \E i \in 1..Len(calls) : Skip(i)
  <2>1. PICK i \in 1..Len(calls) : Skip(i)
    BY <1>5
  <2>2. UNCHANGED <<pending, call, current>>
    BY <2>1 DEF Skip, vars, producerVars
  <2>3. focus' = focus \/ focus' = current
    BY <2>1 DEF Skip, Skips
  <2> QED BY <2>2, <2>3 DEF CallIsJob
<1>6. CASE \E i \in 1..Len(calls) : Handle(i)
  <2>1. PICK i \in 1..Len(calls) : Handle(i)
    BY <1>6
  <2>2. UNCHANGED <<current, focus>> /\ call' = calls[i]
    BY <2>1 DEF Handle
  <2>3. CASE calls[i] \in Apps /\ ~Skips(calls[i])
             /\ Dispatch([op |-> "ApplyProfile", name |-> RuleFor[calls[i]]])
    <3>1. pending'[Watcher] = [op |-> "ApplyProfile", name |-> RuleFor[calls[i]]]
      BY <1>1, <2>3 DEF Dispatch
    <3>2. RuleFor[calls[i]] \in Names \ {current}
      BY <2>3, WatchAssumption, RuleForType DEF Skips
    <3> QED BY <2>2, <2>3, <3>1, <3>2, WatchAssumption, RuleForType DEF CallIsJob
  <2>4. CASE calls[i] = CycleCall /\ Dispatch([op |-> "CycleProfile"])
    <3>1. pending'[Watcher] = [op |-> "CycleProfile"]
      BY <1>1, <2>4 DEF Dispatch
    <3> QED BY <2>2, <2>4, <3>1, WatchAssumption, RuleForType DEF CallIsJob
  <2> QED BY <2>1, <2>3, <2>4 DEF Handle
<1>7. CASE Conclude
  <2>1. call' = None /\ pending'[Watcher] = None
    BY <1>1, <1>7 DEF Conclude, Receive
  <2>2. focus' # None => focus' = current'
    BY <1>7 DEF Conclude, CurrentAfter
  <2> QED BY <2>1, <2>2, WatchAssumption, RuleForType DEF CallIsJob
<1>8. CASE UNCHANGED allVars
  BY <1>2, <1>8 DEF allVars, vars, producerVars
<1> QED BY <1>3, <1>4, <1>5, <1>6, <1>7, <1>8 DEF WatchNext

-------------------------------------------------------------------------------
(* A watcher that is the daemon's only client knows what is active.          *)

\* The job's answer, as the watcher will read it.
LEMMA ReplyTells ==
    ASSUME Inv, RefinementInv, \A p \in Producers : InOnePlace(p), CallIsJob, BelievedActive,
           Reply, from = Watcher
    PROVE  /\ ~blind /\ call \in Apps /\ result = ErrorReply => active = current
           /\ result # ErrorReply =>
                \/ call \in Apps /\ result.kind = "Ok" /\ active = RuleFor[call]
                \/ call = CycleCall /\ result.kind = "Status" /\ active = result.active
<1>1. /\ from # None /\ result # None
      /\ pending[Watcher] # None /\ req = pending[Watcher]
  BY WatchAssumption, RuleForType, DaemonAssumption DEF Reply, InOnePlace
<1>2. /\ call \in Apps => req = [op |-> "ApplyProfile", name |-> RuleFor[call]]
      /\ call = CycleCall => req = [op |-> "CycleProfile"]
      /\ call \in Apps \cup {CycleCall}
  BY <1>1 DEF CallIsJob
<1>3. ~blind => before.active = current
  BY <1>1 DEF BelievedActive
<1>4. ASSUME ~blind, call \in Apps, result = ErrorReply PROVE active = current
  <2>1. NothingDone \/ StoppedHalfway
    BY <1>1, <1>2, <1>4 DEF RefinementInv, FailureExplained, Failed, OnlyUnreported
  <2>2. active = before.active
    BY <2>1 DEF NothingDone, StoppedHalfway
  <2> QED BY <1>3, <1>4, <2>2
<1>5. ASSUME result # ErrorReply
      PROVE  \/ call \in Apps /\ result.kind = "Ok" /\ active = RuleFor[call]
             \/ call = CycleCall /\ result.kind = "Status" /\ active = result.active
  <2>1. /\ JobControl /\ JobProgress /\ row = 0 /\ req.op \in Ops
        /\ "label" \in Past <=> req.op \notin {"Status", "ListProfiles", "Depths"}
    BY <1>1, <1>5, AtEnd DEF Failed
  <2>2. active = LabelAfter(req, name, before.active)
    BY <2>1, LabelDone
  <2>3. result = Service!GoodAnswer(req, result.names, fw, active)
    BY <1>1, <1>5 DEF RefinementInv, AnswerIsGood, Failed
  <2>4. CASE call \in Apps
    <3>1. result.kind = "Ok"
      BY <1>2, <2>3, <2>4 DEF Service!GoodAnswer
    <3>2. active = RuleFor[call]
      BY <1>2, <2>1, <2>2, <2>4 DEF LabelAfter, AppliesProfile, JobControl
    <3> QED BY <2>4, <3>1, <3>2
  <2>5. CASE call = CycleCall
    <3>1. result.kind = "Status" /\ result.active = active
      BY <1>2, <2>3, <2>5 DEF Service!GoodAnswer
    <3> QED BY <2>5, <3>1
  <2> QED BY <1>2, <2>4, <2>5
<1> QED BY <1>4, <1>5

LEMMA BeliefKept ==
    ASSUME Inv, RefinementInv, \A p \in Producers : InOnePlace(p), CallIsJob, Alone,
           BelievedActive, AnswerTellsActive, [WatchNext]_allVars
    PROVE  BelievedActive' /\ AnswerTellsActive'
<1>1. /\ TypeOK /\ Watcher \in Producers /\ from \in {Watcher, None} /\ Watcher # None
      /\ InOnePlace(Watcher)
      /\ reply \in [Producers -> Response \cup {None}]
  BY WatchAssumption, RuleForType, DaemonAssumption DEF Inv, TypeOK, Alone
<1>2. from # None => reply[Watcher] = None
  BY <1>1 DEF InOnePlace
<1>3. CASE UNCHANGED <<watchVars, from, reply, active, before>>
  BY <1>3 DEF BelievedActive, AnswerTellsActive, watchVars
<1>4. CASE Deliver \/ \E i \in 1..Len(calls) : Skip(i)
  <2>1. UNCHANGED <<call, current, blind, from, reply, active, before>>
    BY <1>4 DEF Deliver, Skip, vars, producerVars, jobVars, stateVars
  <2> QED BY <2>1 DEF BelievedActive, AnswerTellsActive
<1>5. CASE \E i \in 1..Len(calls) : Handle(i)
  <2>1. call = None /\ UNCHANGED <<current, blind, from, reply, active, before>>
    BY <1>5 DEF Handle, Dispatch, jobVars, stateVars
  <2>2. from = None /\ reply[Watcher] = None
    BY <1>1, <2>1 DEF CallIsJob, InOnePlace
  <2> QED BY <2>1, <2>2, ErrorIsResponse DEF BelievedActive, AnswerTellsActive
<1>6. CASE Conclude
  <2>1. /\ reply[Watcher] # None /\ from' = from /\ active' = active /\ reply'[Watcher] = None
        /\ call # None
    BY <1>1, <1>6 DEF Conclude, Receive, jobVars, stateVars
  <2>2. from = None
    BY <1>1, <1>2, <2>1
  <2>3. ~blind' => active = current'
    <3>1. CASE reply[Watcher] = ErrorReply
      <4>1. current' = current /\ blind' = (blind \/ (call = CycleCall /\ active # current))
        BY <1>6, <3>1 DEF Conclude, CurrentAfter, ErrorReply
      <4> QED BY <2>1, <3>1, <4>1 DEF BelievedActive, CallIsJob
    <3>2. CASE reply[Watcher] # ErrorReply
      <4>1. current' = CurrentAfter(reply[Watcher])
        BY <1>6 DEF Conclude
      <4> QED BY <2>1, <3>2, <4>1, WatchAssumption, RuleForType DEF AnswerTellsActive, CurrentAfter
    <3> QED BY <3>1, <3>2
  <2> QED BY <2>1, <2>2, <2>3, ErrorIsResponse DEF BelievedActive, AnswerTellsActive
<1>7. CASE DaemonStep
  <2>1. UNCHANGED watchVars /\ (DeviceThread \/ Unplug \/ EditStore)
    BY <1>7 DEF DaemonStep, Alone
  <2>2. CASE Unplug \/ EditStore
    BY <1>3, <2>1, <2>2 DEF Unplug, EditStore, producerVars, jobVars, stateVars
  <2>3. CASE Take
    <3>1. jobs[1].from = Watcher /\ 1 \in 1..Len(jobs) /\ from = None
      <4>1. jobs \in Seq(Job) /\ jobs # << >> /\ from = None
        BY <1>1, <2>3 DEF Take, TypeOK
      <4>2. 1 \in 1..Len(jobs) /\ jobs[1] \in Job
        BY <4>1
      <4> QED BY <4>1, <4>2 DEF Job, Alone
    <3>2. reply[Watcher] = None
      BY <1>1, <3>1 DEF InOnePlace
    <3>3. reply' = reply /\ active' = active /\ before'.active = active /\ from' = Head(jobs).from
      BY <2>3 DEF Take, stateVars
    <3>4. from' # None
      <4>1. jobs \in Seq(Job) /\ jobs # << >>
        BY <1>1, <2>3 DEF Take, TypeOK
      <4>2. Head(jobs) = jobs[1]
        BY <4>1
      <4> QED BY <1>1, <3>1, <3>3, <4>2
    <3> QED BY <2>1, <3>1, <3>2, <3>3, <3>4, ErrorIsResponse
            DEF BelievedActive, AnswerTellsActive, watchVars
  <2>4. CASE HandleStep
    <3>1. from # None
      BY <2>4 DEF HandleStep, ListProfiles, ChooseNext, LoadProfile, SetActuation, Write,
                  WriteFails, AtWrite, IsFlush, Identity, PollDepths, SetLabel, At
    <3>2. from' = from /\ before' = before /\ reply' = reply
      BY <2>4 DEF HandleStep, ListProfiles, ChooseNext, LoadProfile, SetActuation, Write,
                  WriteFails, Identity, PollDepths, SetLabel, Advance, Abort, producerVars
    <3> QED BY <1>2, <2>1, <3>1, <3>2, ErrorIsResponse
            DEF BelievedActive, AnswerTellsActive, watchVars
  <2>5. CASE Reply
    <3>1. from # None /\ from' = None /\ active' = active
          /\ reply' = [reply EXCEPT ![from] = result] /\ result # None
      BY <2>5 DEF Reply, Send, stateVars
    <3>2. from = Watcher /\ reply'[Watcher] = result
      BY <1>1, <3>1
    <3> QED BY <2>1, <2>5, <3>1, <3>2, ReplyTells
            DEF BelievedActive, AnswerTellsActive, watchVars
  <2> QED BY <2>1, <2>2, <2>3, <2>4, <2>5 DEF DeviceThread
<1>8. CASE UNCHANGED allVars
  BY <1>3, <1>8 DEF allVars, vars, producerVars, jobVars, stateVars
<1> QED BY <1>4, <1>5, <1>6, <1>7, <1>8 DEF WatchNext

\* All that is known of the daemon and of the watcher in it.
WatchedInv == Inv /\ RefinementInv /\ (\A p \in Producers : InOnePlace(p)) /\ WatchInv

(* The watcher's call is the daemon's job, and its copy of the label is what *)
(* the label was when the job began.                                         *)
THEOREM AlwaysWatched == WatchSpec => []WatchedInv
<1>1. WatchInit => WatchedInv
  <2> SUFFICES ASSUME WatchInit PROVE WatchedInv
    OBVIOUS
  <2>1. Init
    BY DEF WatchInit
  <2>2. \A p \in Producers : InOnePlace(p)
    BY <2>1, InitOnePlace
  <2> QED BY <2>1, <2>2, InitInv, InitExplained, InitCallIsJob DEF WatchedInv, WatchInv
<1>2. WatchedInv /\ [WatchNext]_allVars => WatchedInv'
  <2> SUFFICES ASSUME WatchedInv, [WatchNext]_allVars PROVE WatchedInv'
    OBVIOUS
  <2>1. Inv /\ RefinementInv /\ (\A p \in Producers : InOnePlace(p)) /\ CallIsJob
    BY DEF WatchedInv, WatchInv
  <2>2. [Next]_vars
    BY <2>1, WatchIsDaemon
  <2>3. Inv' /\ RefinementInv' /\ (\A p \in Producers : InOnePlace(p))'
    BY <2>1, <2>2, NextInv, NextExplained, NextOnePlace
  <2>4. CallIsJob'
    BY <2>1, CallStaysJob
  <2>5. Alone => BelievedActive' /\ AnswerTellsActive'
    BY <2>1, BeliefKept DEF WatchedInv, WatchInv
  <2>6. WatchInv'
    BY <2>4, <2>5 DEF WatchInv, Alone
  <2> QED BY <2>3, <2>6 DEF WatchedInv
<1> QED BY <1>1, <1>2, PTL DEF WatchSpec

(* A watcher at rest has the keyboard on the focused application's profile.  *)
THEOREM AutoSwitchFollows == WatchSpec => []AutoSwitchFollowsFocus
<1>1. WatchedInv => AutoSwitchFollowsFocus
  <2> SUFFICES ASSUME WatchedInv, Alone, call = None, focus # None, ~blind
               PROVE  active = focus /\ (clean => fw.act = MapOf(Content[focus]))
    BY DEF AutoSwitchFollowsFocus
  <2>1. from = None /\ reply[Watcher] = None
    BY WatchAssumption, RuleForType DEF WatchedInv, WatchInv, CallIsJob, Inv, TypeOK, Alone, InOnePlace
  <2>2. active = focus
    BY <2>1 DEF WatchedInv, WatchInv, CallIsJob, BelievedActive
  <2>3. clean => fw.act = MapOf(Content[active])
    BY <2>1, <2>2 DEF WatchedInv, Inv, CleanMeans, Holds
  <2> QED BY <2>2, <2>3
<1> QED BY <1>1, AlwaysWatched, PTL

(* The profile that is active is never applied again for a focus change.     *)
THEOREM AppliesNothingTwice == WatchSpec => NoNeedlessApply
<1>1. WatchedInv /\ [WatchNext]_allVars =>
        [Alone /\ ~blind /\ from = None /\ from' = Watcher /\ req'.op = "ApplyProfile"
            => req'.name # active]_allVars
  <2> SUFFICES ASSUME WatchedInv, [WatchNext]_allVars, Alone, ~blind, from = None,
                      from' = Watcher, req'.op = "ApplyProfile"
               PROVE  req'.name # active
    OBVIOUS
  <2>1. Inv /\ CallIsJob /\ BelievedActive /\ (\A p \in Producers : InOnePlace(p))
        /\ Watcher \in Producers /\ Watcher # None
    BY WatchAssumption, RuleForType, DaemonAssumption DEF WatchedInv, WatchInv
  <2>2. Take
    <3>1. [Next]_vars
      BY <2>1, WatchIsDaemon
    <3>2. from' # None
      BY <2>1
    <3> QED BY <3>1, <3>2 DEF Next, DeviceThread, HandleStep, ListProfiles, ChooseNext,
              LoadProfile, SetActuation, Write, WriteFails, Identity, PollDepths, SetLabel,
              Reply, Submit, Receive, Unplug, EditStore, vars, jobVars, Advance, Abort
  <2>3. InOnePlace(Watcher)'
    BY <2>1, <2>2, TakeOnePlace
  <2>4. pending' = pending /\ req' = pending[Watcher] /\ pending[Watcher] # None
    BY <2>2, <2>3 DEF InOnePlace, Take
  <2>5. call \in Apps /\ req'.name = RuleFor[call] /\ RuleFor[call] # current
    BY <2>1, <2>4 DEF CallIsJob
  <2>6. reply[Watcher] = None
    BY <2>2, <2>3 DEF InOnePlace, Take
  <2>7. active = current
    BY <2>1, <2>6 DEF BelievedActive
  <2> QED BY <2>5, <2>7
<1> QED BY <1>1, AlwaysWatched, PTL DEF WatchSpec, NoNeedlessApply

(* While an activation is handled, the job the daemon is given names the     *)
(* profile of the first rule whose glob means the window's id.               *)
THEOREM RulesAlwaysChoose == WatchSpec => []RulesChoose
<1>1. WatchedInv => RulesChoose
  <2> SUFFICES ASSUME WatchedInv, call \in Apps
               PROVE  /\ pending[Watcher].op = "ApplyProfile"
                      /\ Chosen(pending[Watcher].name, RulesFile, Default, call)
    BY RulesAreRight DEF RulesChoose
  <2>1. pending[Watcher] = [op |-> "ApplyProfile", name |-> RuleFor[call]]
    BY DEF WatchedInv, WatchInv, CallIsJob
  <2>2. PICK app \in Apps : app = call
    OBVIOUS
  <2>3. RuleFor[app] = ProfileFor(RulesFile, Default, app)
    BY DEF RuleFor
  <2>4. Chosen(RuleFor[app], RulesFile, Default, app)
    BY <2>3, ProfileChosen, WatchAssumption, RuleForType
  <2> QED BY <2>1, <2>2, <2>4
<1> QED BY <1>1, AlwaysWatched, PTL
===============================================================================
