----------------------------- MODULE LifecycleProofs -----------------------------
(***************************************************************************)
(* Proofs about Lifecycle: types; clients are only ever connected to a     *)
(* process that listens and served by one that is up.                      *)
(***************************************************************************)
EXTENDS Lifecycle, TLAPS

IInv == TypeOK /\ ServedByTheLiving

-------------------------------------------------------------------------------
LEMMA InitTypeOK == Init => TypeOK
BY LifecycleAssumption DEF Init, TypeOK, Unconnected

LEMMA StepTypeOK == TypeOK /\ [Next]_vars => TypeOK'
<1> SUFFICES ASSUME TypeOK, [Next]_vars PROVE TypeOK'
  OBVIOUS
<1> USE LifecycleAssumption DEF TypeOK
<1>1. ASSUME NEW d \in Daemons, Launch(d) PROVE TypeOK'
  BY <1>1 DEF Launch
<1>2. ASSUME NEW d \in Daemons, Clear(d) PROVE TypeOK'
  BY <1>2 DEF Clear, PathCleared
<1>3. ASSUME NEW d \in Daemons, Exit(d), UNCHANGED <<path, plugged, rules, desktop>>, crashes' \in 0..MaxCrashes
      PROVE TypeOK'
  BY <1>3 DEF Exit, Unconnected
<1>4. ASSUME NEW d \in Daemons, Bind(d) PROVE TypeOK'
  <2>1. CASE path = None /\ path' = d /\ pc' = [pc EXCEPT ![d] = "open"]
             /\ UNCHANGED <<handle, watching, client>> /\ UNCHANGED <<plugged, rules, desktop, crashes>>
    BY <2>1
  <2>2. CASE Exit(d) /\ UNCHANGED path /\ UNCHANGED <<plugged, rules, desktop, crashes>>
    BY <2>2, <1>3
  <2> QED BY <1>4, <2>1, <2>2 DEF Bind
<1>5. ASSUME NEW d \in Daemons, Open(d) PROVE TypeOK'
  BY <1>5 DEF Open
<1>6. ASSUME NEW d \in Daemons, OpenFails(d) PROVE TypeOK'
  BY <1>6, <1>3 DEF OpenFails
<1>7. ASSUME NEW d \in Daemons, StartWatch(d) PROVE TypeOK'
  <2>1. PICK b \in BOOLEAN : watching' = [watching EXCEPT ![d] = b]
    BY <1>7, Zenon DEF StartWatch, Starts
  <2> QED BY <1>7, <2>1 DEF StartWatch
<1>8. ASSUME NEW d \in Daemons, Crash(d) PROVE TypeOK'
  <2>1. crashes' \in 0..MaxCrashes
    BY <1>8 DEF Crash
  <2> QED BY <2>1, <1>8, <1>3 DEF Crash
<1>9. ASSUME NEW d \in Daemons, Restart(d) PROVE TypeOK'
  BY <1>9 DEF Restart
<1>10. ASSUME NEW c \in Clients, Connect(c) PROVE TypeOK'
  BY <1>10 DEF Connect
<1>11. ASSUME NEW c \in Clients, Accept(c) PROVE TypeOK'
  BY <1>11 DEF Accept
<1>12. ASSUME NEW c \in Clients, AcceptFails(c) PROVE TypeOK'
  BY <1>12 DEF AcceptFails, LoopKept, Unconnected
<1>13. ASSUME NEW c \in Clients, HangUp(c) PROVE TypeOK'
  BY <1>13 DEF HangUp, Unconnected
<1>14. CASE Unplug
  BY <1>14 DEF Unplug
<1>15. CASE PlugIn
  BY <1>15 DEF PlugIn
<1>16. CASE EditRules \/ LogIn
  BY <1>16 DEF EditRules, LogIn
<1>17. CASE UNCHANGED vars
  BY <1>17 DEF vars
<1> QED
  BY <1>1, <1>2, <1>4, <1>5, <1>6, <1>7, <1>8, <1>9, <1>10, <1>11, <1>12, <1>13,
     <1>14, <1>15, <1>16, <1>17 DEF Next, Run

(* The variables of a daemon's process, its clients and the keyboard always  *)
(* have their types, whatever the sets of daemons and clients.               *)
THEOREM TypesHold == Spec => []TypeOK
BY InitTypeOK, StepTypeOK, PTL DEF Spec

-------------------------------------------------------------------------------
(* Every step keeps connected clients with a process that listens, and       *)
(* served ones with a process that is up: a process stops listening only     *)
(* when it ends, which cuts its clients off.                                 *)
LEMMA StepServed ==
    ASSUME TypeOK, ServedByTheLiving, [Next]_vars
    PROVE  ServedByTheLiving'
<1> DEFINE Alive(b) == /\ client[b].to # None => pc[client[b].to] \in {"open", "watch", "up"}
                       /\ client[b].served => pc[client[b].to] = "up"
<1>0. /\ \A b \in Clients : Alive(b)
      /\ (\A b \in Clients : Alive(b)') => ServedByTheLiving'
  BY DEF ServedByTheLiving, Listening
<1> USE LifecycleAssumption, <1>0 DEF TypeOK
<1>1. ASSUME NEW d \in Daemons, Launch(d) PROVE \A b \in Clients : Alive(b)'
  BY <1>1 DEF Launch
<1>2. ASSUME NEW d \in Daemons, Clear(d) PROVE \A b \in Clients : Alive(b)'
  BY <1>2 DEF Clear
<1>3. ASSUME NEW d \in Daemons, Exit(d) PROVE \A b \in Clients : Alive(b)'
  BY <1>3 DEF Exit, Unconnected
<1>4. ASSUME NEW d \in Daemons, Bind(d) PROVE \A b \in Clients : Alive(b)'
  <2>1. CASE pc' = [pc EXCEPT ![d] = "open"] /\ UNCHANGED client
    BY <1>4, <2>1 DEF Bind
  <2> QED BY <1>3, <1>4, <2>1 DEF Bind
<1>5. ASSUME NEW d \in Daemons, Open(d) PROVE \A b \in Clients : Alive(b)'
  BY <1>5 DEF Open
<1>6. ASSUME NEW d \in Daemons, OpenFails(d) PROVE \A b \in Clients : Alive(b)'
  BY <1>3, <1>6 DEF OpenFails
<1>7. ASSUME NEW d \in Daemons, StartWatch(d) PROVE \A b \in Clients : Alive(b)'
  BY <1>7 DEF StartWatch
<1>8. ASSUME NEW d \in Daemons, Crash(d) PROVE \A b \in Clients : Alive(b)'
  BY <1>3, <1>8 DEF Crash
<1>9. ASSUME NEW d \in Daemons, Restart(d) PROVE \A b \in Clients : Alive(b)'
  BY <1>9 DEF Restart
<1>10. ASSUME NEW c \in Clients, Connect(c) PROVE \A b \in Clients : Alive(b)'
  BY <1>10 DEF Connect, Unconnected, Listening
<1>11. ASSUME NEW c \in Clients, Accept(c) PROVE \A b \in Clients : Alive(b)'
  BY <1>11 DEF Accept, Accepts
<1>12. ASSUME NEW c \in Clients, AcceptFails(c) PROVE \A b \in Clients : Alive(b)'
  BY <1>12 DEF AcceptFails, LoopKept, Unconnected
<1>13. ASSUME NEW c \in Clients, HangUp(c) PROVE \A b \in Clients : Alive(b)'
  BY <1>13 DEF HangUp, Unconnected
<1>14. ASSUME Unplug \/ PlugIn \/ EditRules \/ LogIn \/ UNCHANGED vars
       PROVE \A b \in Clients : Alive(b)'
  BY <1>14 DEF Unplug, PlugIn, EditRules, LogIn, vars
<1> HIDE DEF Alive, TypeOK
<1> QED
  BY <1>1, <1>2, <1>4, <1>5, <1>6, <1>7, <1>8, <1>9, <1>10, <1>11, <1>12, <1>13, <1>14
  DEF Next, Run

(* A client that is served is served by a process whose keyboard came up     *)
(* first, and none hangs on a process that is gone, whatever is started,     *)
(* restarted, killed or plugged in, in any order.                            *)
THEOREM ServedByLiving == Spec => []ServedByTheLiving
<1>1. Init => IInv
  <2>1. Init => \A c \in Clients : client[c].to = None /\ ~client[c].served
    BY DEF Init, Unconnected
  <2> QED BY <2>1, InitTypeOK DEF IInv, ServedByTheLiving
<1>2. IInv /\ [Next]_vars => IInv'
  BY StepTypeOK, StepServed DEF IInv
<1>3. IInv => ServedByTheLiving
  BY DEF IInv
<1> QED BY <1>1, <1>2, <1>3, PTL DEF Spec

===============================================================================
