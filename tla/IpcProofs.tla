------------------------------- MODULE IpcProofs -------------------------------
(***************************************************************************)
(* Connections keep their shape, responses answer lines in the order sent, *)
(* and a client that hung up leaves at most one more execution behind, for *)
(* any clients, lines and buffers.                                         *)
(***************************************************************************)
EXTENDS Ipc, FiniteSetTheorems, TLAPS

(* A thread is in the channel once at most, and only while it waits; it has  *)
(* a line in hand then and while it writes.                                  *)
OneJobEach ==
    /\ \A i, j \in 1..Len(jobs) : jobs[i] = jobs[j] => i = j
    /\ \A i \in 1..Len(jobs) : pc[jobs[i]] = "wait" /\ jobs[i] \notin ready
    /\ \A c \in ready : pc[c] = "wait"
    /\ \A c \in Clients : pc[c] \in {"wait", "write"} => line[c] # 0

(* After an execution that began too late the thread's next write fails.     *)
LastOne ==
    \A c \in Clients :
        /\ late[c] \in {0, 1}
        /\ late[c] = 1 =>
            /\ gone[c]
            /\ pc[c] \in {"write", "ended"} \/ (pc[c] = "wait" /\ c \in ready)

Inv == TypeOK /\ OneJobEach /\ LastOne

-------------------------------------------------------------------------------
LEMMA HeadTail ==
    ASSUME NEW S, NEW q \in Seq(S), q # << >>
    PROVE  Head(q) \in S /\ Tail(q) \in Seq(S)
  OBVIOUS

LEMMA InitInv == Init => Inv
<1> SUFFICES ASSUME Init PROVE Inv
  OBVIOUS
<1> DEFINE none == [c \in Clients |-> << >>]
<1>1. sent = none /\ inbox = none /\ outbox = none /\ got = none /\ done = none
  BY DEF Init
<1>2. none \in [Clients -> Seq(Line)] /\ none \in [Clients -> Numbers]
  BY DEF Numbers
<1>3. /\ gone \in [Clients -> BOOLEAN] /\ late \in [Clients -> Nat] /\ ready \in SUBSET Clients
      /\ pc \in [Clients -> {"read", "wait", "write", "ended"}]
      /\ line \in [Clients -> 0..MaxLines] /\ jobs = << >>
  BY IpcAssumption DEF Init
<1> HIDE DEF none
<1>4. TypeOK
  BY <1>1, <1>2, <1>3 DEF TypeOK
<1>5. OneJobEach /\ LastOne
  BY DEF Init, OneJobEach, LastOne
<1> QED BY <1>4, <1>5 DEF Inv

LEMMA SendKeeps == ASSUME Inv, NEW c \in Clients, SendLine(c) PROVE Inv'
<1>1. PICK kind \in Kinds :
        LET l == [id |-> Len(sent[c]) + 1, kind |-> kind]
        IN  /\ sent'  = [sent  EXCEPT ![c] = Append(@, l)]
            /\ inbox' = [inbox EXCEPT ![c] = Append(@, l)]
  BY DEF SendLine
<1>2. sent[c] \in Seq(Line) /\ inbox[c] \in Seq(Line) /\ Len(sent[c]) < MaxLines
  BY DEF SendLine, Inv, TypeOK
<1>3. Len(sent[c]) + 1 \in 1..MaxLines
  BY <1>2, IpcAssumption
<1> DEFINE l == [id |-> Len(sent[c]) + 1, kind |-> kind]
<1>4. l \in Line
  BY <1>3 DEF Line
<1> HIDE DEF l
<1>5. Append(sent[c], l) \in Seq(Line) /\ Append(inbox[c], l) \in Seq(Line)
  BY <1>2, <1>4
<1>6. sent' \in [Clients -> Seq(Line)] /\ inbox' \in [Clients -> Seq(Line)]
  BY <1>1, <1>5 DEF l, Inv, TypeOK
<1>7. UNCHANGED <<outbox, got, gone, pc, line, jobs, ready, done, late>>
  BY DEF SendLine
<1> QED BY <1>6, <1>7 DEF Inv, TypeOK, OneJobEach, LastOne

LEMMA ClientKeeps == ASSUME Inv, NEW c \in Clients, ReadResponse(c) \/ HangUp(c) PROVE Inv'
<1>1. CASE ReadResponse(c)
  <2>1. outbox[c] \in Seq(1..MaxLines) /\ got[c] \in Seq(1..MaxLines) /\ outbox[c] # << >>
    BY <1>1 DEF ReadResponse, Inv, TypeOK, Numbers
  <2>2. Append(got[c], Head(outbox[c])) \in Numbers /\ Tail(outbox[c]) \in Numbers
    <3>1. Head(outbox[c]) \in 1..MaxLines /\ Tail(outbox[c]) \in Seq(1..MaxLines)
      BY <2>1, HeadTail
    <3> QED BY <2>1, <3>1 DEF Numbers
  <2> QED BY <1>1, <2>2 DEF ReadResponse, Inv, TypeOK, OneJobEach, LastOne
<1>2. CASE HangUp(c)
  BY <1>2 DEF HangUp, Inv, TypeOK, OneJobEach, LastOne
<1> QED BY <1>1, <1>2

LEMMA ReadKeeps == ASSUME Inv, NEW c \in Clients, ReadLine(c) PROVE Inv'
<1> DEFINE l == Head(inbox[c])
<1>1. l \in Line /\ Tail(inbox[c]) \in Seq(Line)
  BY DEF ReadLine, Inv, TypeOK
<1>2. l.id \in 1..MaxLines /\ OnLine(l.kind) \in {"read", "wait", "write", "ended"}
  BY <1>1 DEF Line, Kinds, OnLine
<1>3. /\ pc[c] = "read"
      /\ pc' = [pc EXCEPT ![c] = OnLine(l.kind)] /\ line' = [line EXCEPT ![c] = l.id]
      /\ jobs' = IF pc'[c] = "wait" THEN Append(jobs, c) ELSE jobs
      /\ UNCHANGED <<clientVars, outbox, ready, done, late>>
  BY DEF ReadLine, Dispatch
<1>4. TypeOK'
  <2>1. inbox' \in [Clients -> Seq(Line)]
    BY <1>1 DEF ReadLine, Inv, TypeOK
  <2>2. pc' \in [Clients -> {"read", "wait", "write", "ended"}] /\ line' \in [Clients -> 0..MaxLines]
    BY <1>2, <1>3, IpcAssumption DEF Inv, TypeOK
  <2>3. jobs' \in Seq(Clients)
    BY <1>3 DEF Inv, TypeOK
  <2> QED BY <1>3, <2>1, <2>2, <2>3 DEF clientVars, Inv, TypeOK
<1> HIDE DEF l
<1>5. \A i \in 1..Len(jobs) : jobs[i] # c
  BY <1>3 DEF Inv, OneJobEach
<1>6. c \notin ready
  BY <1>3 DEF Inv, OneJobEach
<1>7. pc \in [Clients -> {"read", "wait", "write", "ended"}] /\ line \in [Clients -> 0..MaxLines]
      /\ jobs \in Seq(Clients) /\ ready \in SUBSET Clients
  BY DEF Inv, TypeOK
<1>8. OneJobEach'
  <2>1. CASE pc'[c] = "wait"
    <3>1. jobs' = Append(jobs, c)
      BY <1>3, <2>1
    <3>2. /\ Len(jobs') = Len(jobs) + 1 /\ jobs'[Len(jobs) + 1] = c
          /\ \A i \in 1..Len(jobs) : jobs'[i] = jobs[i] /\ jobs[i] \in Clients
      BY <1>7, <3>1
    <3>3. \A i \in 1..Len(jobs') : i \in 1..Len(jobs) \/ i = Len(jobs) + 1
      BY <1>7, <3>2
    <3>4. \A i, j \in 1..Len(jobs') : jobs'[i] = jobs'[j] => i = j
      BY <1>5, <3>2, <3>3 DEF Inv, OneJobEach
    <3>5. \A i \in 1..Len(jobs') : pc'[jobs'[i]] = "wait" /\ jobs'[i] \notin ready'
      BY <1>3, <1>5, <1>6, <1>7, <2>1, <3>2, <3>3 DEF Inv, OneJobEach
    <3>6. \A d \in ready' : pc'[d] = "wait"
      BY <1>3, <1>6, <1>7 DEF Inv, OneJobEach
    <3>7. \A d \in Clients : pc'[d] \in {"wait", "write"} => line'[d] # 0
      BY <1>2, <1>3, <1>7 DEF Inv, OneJobEach
    <3> QED BY <3>4, <3>5, <3>6, <3>7 DEF OneJobEach
  <2>2. CASE pc'[c] # "wait"
    <3>1. jobs' = jobs /\ ready' = ready
      BY <1>3, <2>2
    <3>2. \A d \in Clients : pc'[d] \in {"wait", "write"} => line'[d] # 0
      BY <1>2, <1>3, <1>7 DEF Inv, OneJobEach
    <3>3. \A d \in Clients \ {c} : pc'[d] = pc[d]
      BY <1>3, <1>7
    <3>4. \A i \in 1..Len(jobs) : jobs[i] \in Clients
      BY <1>7
    <3> QED BY <1>5, <1>6, <1>7, <3>1, <3>2, <3>3, <3>4 DEF Inv, OneJobEach
  <2> QED BY <2>1, <2>2
<1>9. LastOne'
  BY <1>3, <1>7 DEF Inv, LastOne, clientVars
<1> QED BY <1>4, <1>8, <1>9 DEF Inv

(* Steps of a thread outside the channel.                                    *)
LEMMA ThreadKeeps ==
    ASSUME Inv, NEW c \in Clients, EndOfLines(c) \/ Wake(c) \/ WriteResponse(c) \/ WriteFails(c)
    PROVE  Inv'
<1>1. pc \in [Clients -> {"read", "wait", "write", "ended"}] /\ jobs \in Seq(Clients)
      /\ ready \in SUBSET Clients
  BY DEF Inv, TypeOK
<1>2. \A i \in 1..Len(jobs) : jobs[i] \in Clients
  BY <1>1
<1>3. CASE EndOfLines(c)
  BY <1>1, <1>2, <1>3 DEF EndOfLines, clientVars, Inv, TypeOK, OneJobEach, LastOne
<1>4. CASE Wake(c)
  <2>1. \A i \in 1..Len(jobs) : jobs[i] # c
    BY <1>4 DEF Wake, Inv, OneJobEach
  <2> QED BY <1>1, <1>2, <1>4, <2>1 DEF Wake, clientVars, Inv, TypeOK, OneJobEach, LastOne
<1>5. CASE WriteResponse(c)
  <2>1. line[c] \in 1..MaxLines /\ outbox[c] \in Seq(1..MaxLines)
    BY <1>5, IpcAssumption DEF WriteResponse, Inv, TypeOK, OneJobEach, Numbers
  <2>2. Append(outbox[c], line[c]) \in Numbers
    BY <2>1 DEF Numbers
  <2>3. TypeOK'
    BY <1>5, <2>2 DEF WriteResponse, clientVars, Inv, TypeOK
  <2>4. OneJobEach'
    BY <1>1, <1>2, <1>5 DEF WriteResponse, clientVars, Inv, OneJobEach
  <2>5. LastOne'
    BY <1>1, <1>5 DEF WriteResponse, clientVars, Inv, LastOne
  <2> QED BY <2>3, <2>4, <2>5 DEF Inv
<1>6. CASE WriteFails(c)
  BY <1>1, <1>2, <1>6 DEF WriteFails, AfterFailedWrite, clientVars, Inv, TypeOK, OneJobEach, LastOne
<1> QED BY <1>3, <1>4, <1>5, <1>6

LEMMA ExecuteKeeps == ASSUME Inv, Execute PROVE Inv'
<1> DEFINE c == Head(jobs)
<1>1. /\ jobs \in Seq(Clients) /\ jobs # << >> /\ jobs' = Tail(jobs) /\ ready' = ready \cup {c}
      /\ done' = [done EXCEPT ![c] = Append(@, line[c])]
      /\ late' = [late EXCEPT ![c] = IF gone[c] THEN @ + 1 ELSE @]
      /\ UNCHANGED <<clientVars, inbox, outbox, pc, line>>
  BY DEF Execute, Inv, TypeOK
<1>2. /\ c \in Clients /\ c = jobs[1] /\ 1 \in 1..Len(jobs) /\ Len(jobs) \in Nat
      /\ Tail(jobs) \in Seq(Clients) /\ Len(Tail(jobs)) = Len(jobs) - 1
      /\ \A i \in 1..Len(Tail(jobs)) : Tail(jobs)[i] = jobs[i + 1] /\ i + 1 \in 1..Len(jobs) /\ i + 1 # 1
  BY <1>1
<1> HIDE DEF c
<1>3. pc[c] = "wait" /\ c \notin ready
  BY <1>2 DEF Inv, OneJobEach
<1>4. TypeOK'
  <2>1. line[c] \in 1..MaxLines /\ done[c] \in Seq(1..MaxLines)
    BY <1>2, <1>3, IpcAssumption DEF Inv, TypeOK, OneJobEach, Numbers
  <2>2. Append(done[c], line[c]) \in Numbers
    BY <2>1 DEF Numbers
  <2> QED BY <1>1, <1>2, <2>2 DEF clientVars, Inv, TypeOK
<1>5. OneJobEach'
  <2>1. \A i \in 1..Len(jobs') : jobs'[i] # c
    BY <1>1, <1>2 DEF Inv, OneJobEach
  <2>2. \A i, j \in 1..Len(jobs') : jobs'[i] = jobs'[j] => i = j
    BY <1>1, <1>2 DEF Inv, OneJobEach
  <2>3. \A i \in 1..Len(jobs') : pc'[jobs'[i]] = "wait" /\ jobs'[i] \notin ready'
    BY <1>1, <1>2, <2>1 DEF Inv, OneJobEach
  <2>4. \A d \in ready' : pc'[d] = "wait"
    BY <1>1, <1>3 DEF Inv, OneJobEach
  <2>5. \A d \in Clients : pc'[d] \in {"wait", "write"} => line'[d] # 0
    BY <1>1 DEF Inv, OneJobEach
  <2> QED BY <2>2, <2>3, <2>4, <2>5 DEF OneJobEach
<1>6. LastOne'
  <2>1. late[c] = 0
    BY <1>2, <1>3 DEF Inv, LastOne
  <2> QED BY <1>1, <1>2, <1>3, <2>1 DEF clientVars, Inv, TypeOK, LastOne
<1> QED BY <1>4, <1>5, <1>6 DEF Inv

LEMMA NextInv == ASSUME Inv, [Next]_vars PROVE Inv'
<1>1. CASE UNCHANGED vars
  BY <1>1 DEF vars, clientVars, Inv, TypeOK, OneJobEach, LastOne
<1> QED BY <1>1, ExecuteKeeps, SendKeeps, ClientKeeps, ReadKeeps, ThreadKeeps DEF Next, Serve

LEMMA InvHolds == Spec => []Inv
<1>1. Init => Inv
  BY InitInv
<1>2. Inv /\ [Next]_vars => Inv'
  BY NextInv
<1> QED BY <1>1, <1>2, PTL DEF Spec

(* Connections, their lines and their responses are what they are declared   *)
(* to be.                                                                    *)
THEOREM TypesHold == Spec => []TypeOK
<1>1. Inv => TypeOK
  BY DEF Inv
<1> QED BY <1>1, InvHolds, PTL

(* A client that has hung up has at most one more request executed.          *)
THEOREM OneExecutionAfterHangUp == Spec => []OneAfterHangUp
<1>1. Inv => OneAfterHangUp
  BY DEF Inv, LastOne, OneAfterHangUp
<1> QED BY <1>1, InvHolds, PTL

-------------------------------------------------------------------------------
(* Responses in step.  Per client: its thread has read the first line[c]     *)
(* lines, in order; as many responses as lines that ask for one have gone    *)
(* out, and as many requests are done, but for the line in hand.             *)
Asks == {"request", "bad", "garbled"}

Lines(c) ==
    /\ \A i \in 1..Len(sent[c]) : sent[c][i].id = i
    /\ line[c] \in 0..Len(sent[c]) /\ Len(inbox[c]) = Len(sent[c]) - line[c]
    /\ \A i \in 1..Len(inbox[c]) : inbox[c][i] = sent[c][line[c] + i]
    /\ pc[c] = "wait" => sent[c][line[c]].kind = "request"
    /\ pc[c] = "write" => sent[c][line[c]].kind \in {"request", "bad"}

\* Is the request in hand done?
Executed(c) == c \in ready \/ (pc[c] = "write" /\ sent[c][line[c]].kind = "request")

Counts(c) ==
    /\ pc[c] = "read" => Count(sent[c], line[c], Asks) = Len(Responses(c))
    /\ pc[c] \in {"wait", "write"} => Count(sent[c], line[c], Asks) = Len(Responses(c)) + 1
    /\ pc[c] = "wait" /\ c \notin ready => Count(sent[c], line[c], {"request"}) = Len(done[c]) + 1
    /\ pc[c] \in {"read", "write"} \/ c \in ready => Count(sent[c], line[c], {"request"}) = Len(done[c])
    /\ Executed(c) => Contains(done[c], line[c])

Earned(c) ==
    \A i \in 1..Len(Responses(c)) :
        sent[c][Responses(c)[i]].kind = "request" => Contains(done[c], Responses(c)[i])

Talk(c) ==
    Lines(c) /\ Counts(c) /\ InStep(sent[c], Responses(c), Asks) /\ InStep(sent[c], done[c], {"request"}) /\ Earned(c)

TalkInv == Inv /\ \A c \in Clients : Talk(c)

-------------------------------------------------------------------------------
(* Counting lines.                                                           *)
LEMMA Counted ==
    ASSUME NEW lines, NEW n \in Nat, NEW kinds
    PROVE  IsFiniteSet({i \in 1..n : lines[i].kind \in kinds}) /\ Count(lines, n, kinds) \in Nat
<1>1. IsFiniteSet(1..n)
  BY FS_Interval
<1>2. IsFiniteSet({i \in 1..n : lines[i].kind \in kinds})
  BY <1>1, FS_Subset
<1> QED BY <1>2, FS_CardinalityType DEF Count

LEMMA CountNone == ASSUME NEW lines, NEW kinds PROVE Count(lines, 0, kinds) = 0
<1>1. {i \in 1..0 : lines[i].kind \in kinds} = {}
  OBVIOUS
<1> QED BY <1>1, FS_EmptySet DEF Count

LEMMA CountNext ==
    ASSUME NEW lines, NEW n \in Nat, NEW kinds
    PROVE  /\ lines[n + 1].kind \in kinds => Count(lines, n + 1, kinds) = Count(lines, n, kinds) + 1
           /\ lines[n + 1].kind \notin kinds => Count(lines, n + 1, kinds) = Count(lines, n, kinds)
<1> DEFINE first == {i \in 1..n : lines[i].kind \in kinds}
           more  == {i \in 1..(n + 1) : lines[i].kind \in kinds}
<1>1. IsFiniteSet(first)
  BY Counted
<1>2. CASE lines[n + 1].kind \in kinds
  <2>1. more = first \cup {n + 1} /\ n + 1 \notin first
    BY <1>2
  <2>2. Cardinality(more) = Cardinality(first) + 1
    BY <1>1, <2>1, FS_AddElement
  <2> QED BY <1>2, <2>2 DEF Count
<1>3. CASE lines[n + 1].kind \notin kinds
  <2>1. more = first
    BY <1>3
  <2> QED BY <1>3, <2>1 DEF Count
<1> QED BY <1>2, <1>3

\* Lines that come later do not count.
LEMMA CountKept ==
    ASSUME NEW lines, NEW longer, NEW n \in Nat, NEW kinds, \A i \in 1..n : longer[i] = lines[i]
    PROVE  Count(longer, n, kinds) = Count(lines, n, kinds)
<1>1. {i \in 1..n : longer[i].kind \in kinds} = {i \in 1..n : lines[i].kind \in kinds}
  OBVIOUS
<1> QED BY <1>1 DEF Count

LEMMA InStepKept ==
    ASSUME NEW lines, NEW longer, NEW numbers, NEW kinds, InStep(lines, numbers, kinds),
           Len(lines) \in Nat, Len(longer) \in Nat, Len(lines) <= Len(longer),
           \A i \in 1..Len(lines) : longer[i] = lines[i]
    PROVE  InStep(longer, numbers, kinds)
<1> SUFFICES ASSUME NEW k \in 1..Len(numbers)
             PROVE  /\ numbers[k] \in 1..Len(longer) /\ longer[numbers[k]].kind \in kinds
                    /\ Count(longer, numbers[k], kinds) = k
  BY DEF InStep
<1> DEFINE n == numbers[k]
<1>1. n \in 1..Len(lines) /\ lines[n].kind \in kinds /\ Count(lines, n, kinds) = k
  BY DEF InStep
<1> HIDE DEF n
<1>2. n \in Nat /\ n \in 1..Len(longer) /\ \A i \in 1..n : longer[i] = lines[i]
  BY <1>1
<1>3. Count(longer, n, kinds) = k /\ longer[n].kind \in kinds
  BY <1>1, <1>2, CountKept
<1> QED BY <1>2, <1>3 DEF n

\* One more number in step.
LEMMA InStepNext ==
    ASSUME NEW lines, NEW S, NEW numbers \in Seq(S), NEW kinds, InStep(lines, numbers, kinds),
           NEW n \in 1..Len(lines), lines[n].kind \in kinds,
           Count(lines, n, kinds) = Len(numbers) + 1
    PROVE  InStep(lines, Append(numbers, n), kinds)
<1> DEFINE more == Append(numbers, n)
<1>1. /\ Len(more) = Len(numbers) + 1 /\ more[Len(numbers) + 1] = n
      /\ \A k \in 1..Len(numbers) : more[k] = numbers[k]
      /\ Len(numbers) \in Nat
  OBVIOUS
<1> HIDE DEF more
<1>2. \A k \in 1..Len(more) : k \in 1..Len(numbers) \/ k = Len(numbers) + 1
  BY <1>1
<1>3. InStep(lines, more, kinds)
  BY <1>1, <1>2 DEF InStep
<1> QED BY <1>3 DEF more

-------------------------------------------------------------------------------
\* A client with which nothing happens.
LEMMA Untouched ==
    ASSUME NEW c \in Clients, Talk(c),
           sent'[c] = sent[c], inbox'[c] = inbox[c], outbox'[c] = outbox[c], got'[c] = got[c],
           done'[c] = done[c], pc'[c] = pc[c], line'[c] = line[c], c \in ready' <=> c \in ready
    PROVE  Talk(c)'
<1>1. Responses(c)' = Responses(c)
  BY DEF Responses
<1>3. Lines(c)'
  BY DEF Talk, Lines
<1>4. Counts(c)'
  BY <1>1 DEF Talk, Counts, Executed
<1>5. InStep(sent[c], Responses(c), Asks)' /\ InStep(sent[c], done[c], {"request"})'
  BY <1>1 DEF Talk, InStep
<1>6. Earned(c)'
  BY <1>1 DEF Talk, Earned
<1> QED BY <1>3, <1>4, <1>5, <1>6 DEF Talk

LEMMA TalkInit == Init => TalkInv
<1> SUFFICES ASSUME Init PROVE TalkInv
  OBVIOUS
<1> SUFFICES ASSUME NEW c \in Clients PROVE Talk(c)
  BY InitInv DEF TalkInv
<1>1. /\ sent[c] = << >> /\ inbox[c] = << >> /\ outbox[c] = << >> /\ got[c] = << >> /\ done[c] = << >>
      /\ pc[c] = "read" /\ line[c] = 0 /\ ready = {}
  BY DEF Init
<1>2. Responses(c) = << >> /\ Len(<< >>) = 0
  BY <1>1 DEF Responses
<1>3. Lines(c)
  BY <1>1, <1>2 DEF Lines
<1>4. Counts(c)
  BY <1>1, <1>2, CountNone DEF Counts, Executed
<1> QED BY <1>1, <1>2, <1>3, <1>4 DEF Talk, InStep, Earned

-------------------------------------------------------------------------------
(* The steps.                                                               *)
LEMMA SendTalk == ASSUME TalkInv, NEW c \in Clients, SendLine(c) PROVE \A d \in Clients : Talk(d)'
<1> SUFFICES ASSUME NEW d \in Clients PROVE Talk(d)'
  OBVIOUS
<1>1. PICK kind \in Kinds :
        LET l == [id |-> Len(sent[c]) + 1, kind |-> kind]
        IN  /\ sent'  = [sent  EXCEPT ![c] = Append(@, l)]
            /\ inbox' = [inbox EXCEPT ![c] = Append(@, l)]
  BY DEF SendLine
<1>2. UNCHANGED <<outbox, got, gone, pc, line, jobs, ready, done, late>>
  BY DEF SendLine
<1>3. /\ sent \in [Clients -> Seq(Line)] /\ inbox \in [Clients -> Seq(Line)]
      /\ sent[c] \in Seq(Line) /\ inbox[c] \in Seq(Line) /\ Talk(d) /\ Talk(c)
  BY DEF TalkInv, Inv, TypeOK
<1>4. CASE d # c
  <2>1. sent'[d] = sent[d] /\ inbox'[d] = inbox[d]
    BY <1>1, <1>3, <1>4
  <2> QED BY <1>2, <1>3, <2>1, Untouched
<1>5. CASE d = c
  <2> DEFINE l == [id |-> Len(sent[c]) + 1, kind |-> kind]
             lines == sent[c]
             longer == sent'[c]
  <2>1. longer = Append(lines, l) /\ inbox'[c] = Append(inbox[c], l) /\ l.id = Len(lines) + 1
    BY <1>1, <1>3
  <2> HIDE DEF l
  <2>2. /\ Len(lines) \in Nat /\ Len(longer) = Len(lines) + 1 /\ longer[Len(lines) + 1] = l
        /\ \A i \in 1..Len(lines) : longer[i] = lines[i]
        /\ Len(inbox[c]) \in Nat /\ Len(inbox'[c]) = Len(inbox[c]) + 1 /\ inbox'[c][Len(inbox[c]) + 1] = l
        /\ \A i \in 1..Len(inbox[c]) : inbox'[c][i] = inbox[c][i]
    BY <1>3, <2>1
  <2>3. /\ Responses(c)' = Responses(c) /\ done' = done /\ line' = line /\ pc' = pc /\ ready' = ready
    BY <1>2 DEF Responses
  <2> HIDE DEF lines, longer
  <2>4. Lines(c) /\ Counts(c) /\ InStep(lines, Responses(c), Asks) /\ InStep(lines, done[c], {"request"}) /\ Earned(c)
    BY <1>3 DEF Talk, lines
  <2>5. Lines(c)'
    <3>1. line[c] \in 0..Len(lines) /\ Len(inbox[c]) = Len(lines) - line[c]
      BY <2>4 DEF Lines, lines
    <3>2. \A i \in 1..Len(longer) : longer[i].id = i
      BY <2>1, <2>2, <2>4 DEF Lines, lines
    <3>3. \A i \in 1..Len(inbox'[c]) : inbox'[c][i] = longer[line[c] + i]
      <4> SUFFICES ASSUME NEW i \in 1..Len(inbox'[c]) PROVE inbox'[c][i] = longer[line[c] + i]
        OBVIOUS
      <4>1. CASE i \in 1..Len(inbox[c])
        <5>1. inbox[c][i] = lines[line[c] + i] /\ line[c] + i \in 1..Len(lines)
          BY <2>4, <3>1, <4>1 DEF Lines, lines
        <5> QED BY <2>2, <4>1, <5>1
      <4>2. CASE i = Len(inbox[c]) + 1
        BY <2>2, <3>1, <4>2
      <4> QED BY <2>2, <4>1, <4>2
    <3>4. pc[c] \in {"wait", "write"} => line[c] \in 1..Len(lines)
      BY <3>1 DEF TalkInv, Inv, OneJobEach
    <3>5. pc[c] = "wait" => longer[line[c]].kind = "request"
      BY <2>2, <2>4, <3>4 DEF Lines, lines
    <3>6. pc[c] = "write" => longer[line[c]].kind \in {"request", "bad"}
      BY <2>2, <2>4, <3>4 DEF Lines, lines
    <3> QED BY <2>2, <2>3, <3>1, <3>2, <3>3, <3>5, <3>6 DEF Lines, longer
  <2>6. \A n \in 0..Len(lines) : \A kinds : Count(longer, n, kinds) = Count(lines, n, kinds)
    <3> SUFFICES ASSUME NEW n \in 0..Len(lines), NEW kinds PROVE Count(longer, n, kinds) = Count(lines, n, kinds)
      OBVIOUS
    <3>1. n \in Nat /\ \A i \in 1..n : longer[i] = lines[i]
      BY <2>2
    <3> QED BY <3>1, CountKept
  <2>7. line[c] \in 0..Len(lines) /\ (pc[c] = "write" => line[c] \in 1..Len(lines))
    BY <2>2, <2>4 DEF Lines, lines, TalkInv, Inv, OneJobEach
  <2>8. Counts(c)'
    <3>1. Executed(c)' => Executed(c)
      BY <2>2, <2>3, <2>7 DEF Executed, lines, longer
    <3>2. Count(longer, line[c], Asks) = Count(lines, line[c], Asks)
          /\ Count(longer, line[c], {"request"}) = Count(lines, line[c], {"request"})
      BY <2>6, <2>7
    <3> QED BY <2>3, <2>4, <3>1, <3>2 DEF Counts, lines, longer
  <2>9. InStep(longer, Responses(c), Asks) /\ InStep(longer, done[c], {"request"})
    BY <2>2, <2>4, InStepKept
  <2>10. Earned(c)'
    <3>1. \A i \in 1..Len(Responses(c)) : Responses(c)[i] \in 1..Len(lines)
      BY <2>4 DEF InStep
    <3> QED BY <2>2, <2>3, <2>4, <3>1 DEF Earned, lines, longer
  <2>11. InStep(sent[c], Responses(c), Asks)' /\ InStep(sent[c], done[c], {"request"})'
    BY <2>3, <2>9 DEF longer, InStep
  <2> QED BY <1>5, <2>5, <2>8, <2>10, <2>11 DEF Talk
<1> QED BY <1>4, <1>5

\* What a client reads it was sent: its responses are the same.
LEMMA SameResponses ==
    ASSUME NEW S, NEW g \in Seq(S), NEW o \in Seq(S), o # << >>
    PROVE  Append(g, Head(o)) \o Tail(o) = g \o o
  OBVIOUS

LEMMA ClientTalk ==
    ASSUME TalkInv, NEW c \in Clients, ReadResponse(c) \/ HangUp(c) PROVE \A d \in Clients : Talk(d)'
<1> SUFFICES ASSUME NEW d \in Clients PROVE Talk(d)'
  OBVIOUS
<1>1. Talk(d)
  BY DEF TalkInv
<1>2. UNCHANGED <<sent, inbox, pc, line, ready, done>>
  BY DEF ReadResponse, HangUp
<1>3. Responses(d)' = Responses(d)
  <2>1. CASE HangUp(c)
    BY <2>1 DEF HangUp, Responses
  <2>2. CASE ReadResponse(c)
    <3>1. /\ outbox[c] \in Seq(1..MaxLines) /\ got[c] \in Seq(1..MaxLines) /\ outbox[c] # << >>
          /\ got \in [Clients -> Numbers] /\ outbox \in [Clients -> Numbers]
      BY <2>2 DEF ReadResponse, TalkInv, Inv, TypeOK, Numbers
    <3>2. CASE d # c
      BY <2>2, <3>1, <3>2 DEF ReadResponse, Responses
    <3>3. CASE d = c
      <4>1. got'[c] = Append(got[c], Head(outbox[c])) /\ outbox'[c] = Tail(outbox[c])
        BY <2>2, <3>1 DEF ReadResponse
      <4>2. got'[c] \o outbox'[c] = got[c] \o outbox[c]
        BY <3>1, <4>1, SameResponses
      <4> QED BY <3>3, <4>2 DEF Responses
    <3> QED BY <3>2, <3>3
  <2> QED BY <2>1, <2>2
<1>4. Lines(d)'
  BY <1>1, <1>2 DEF Talk, Lines
<1>5. Counts(d)'
  BY <1>1, <1>2, <1>3 DEF Talk, Counts, Executed
<1>6. InStep(sent[d], Responses(d), Asks)' /\ InStep(sent[d], done[d], {"request"})'
  BY <1>1, <1>2, <1>3 DEF Talk, InStep
<1>7. Earned(d)'
  BY <1>1, <1>2, <1>3 DEF Talk, Earned
<1> QED BY <1>4, <1>5, <1>6, <1>7 DEF Talk

LEMMA ReadTalk == ASSUME TalkInv, NEW c \in Clients, ReadLine(c) PROVE \A d \in Clients : Talk(d)'
<1> SUFFICES ASSUME NEW d \in Clients PROVE Talk(d)'
  OBVIOUS
<1> DEFINE l == Head(inbox[c])
<1>1. /\ pc[c] = "read" /\ inbox[c] # << >>
      /\ inbox' = [inbox EXCEPT ![c] = Tail(@)] /\ line' = [line EXCEPT ![c] = l.id]
      /\ pc' = [pc EXCEPT ![c] = OnLine(l.kind)]
      /\ UNCHANGED <<sent, got, outbox, ready, done>>
  BY DEF ReadLine, clientVars
<1>2. /\ inbox \in [Clients -> Seq(Line)] /\ pc \in [Clients -> {"read", "wait", "write", "ended"}]
      /\ line \in [Clients -> 0..MaxLines] /\ sent[c] \in Seq(Line) /\ Talk(d) /\ Talk(c) /\ c \notin ready
  BY <1>1 DEF TalkInv, Inv, TypeOK, OneJobEach
<1>3. CASE d # c
  <2>1. inbox'[d] = inbox[d] /\ line'[d] = line[d] /\ pc'[d] = pc[d]
    BY <1>1, <1>2, <1>3
  <2> QED BY <1>1, <1>2, <2>1, Untouched
<1>4. CASE d = c
  <2> DEFINE lines == sent[c]
             rest  == Tail(inbox[c])
             n     == line[c]
  <2>1. /\ inbox[c] \in Seq(Line) /\ Len(inbox[c]) \in Nat /\ 1 \in 1..Len(inbox[c]) /\ l = inbox[c][1]
        /\ Len(rest) = Len(inbox[c]) - 1 /\ \A i \in 1..Len(rest) : rest[i] = inbox[c][i + 1]
    BY <1>1, <1>2
  <2>2. inbox'[c] = rest /\ line'[c] = l.id /\ pc'[c] = OnLine(l.kind)
    BY <1>1, <1>2
  <2>3. Responses(c)' = Responses(c)
    BY <1>1 DEF Responses
  <2>4. Lines(c) /\ Counts(c) /\ InStep(lines, Responses(c), Asks) /\ InStep(lines, done[c], {"request"}) /\ Earned(c)
    BY <1>2 DEF Talk
  <2>5. n \in 0..Len(lines) /\ Len(inbox[c]) = Len(lines) - n /\ Len(lines) \in Nat
    BY <1>2, <2>4 DEF Lines
  <2> HIDE DEF l, lines, rest, n
  <2>6. n + 1 \in 1..Len(lines) /\ l = lines[n + 1] /\ l.id = n + 1 /\ n \in Nat
    <3>1. inbox[c][1] = lines[n + 1] /\ \A i \in 1..Len(lines) : lines[i].id = i
      BY <2>1, <2>4 DEF Lines, lines, n
    <3>2. n \in Nat /\ n + 1 \in 1..Len(lines)
      BY <2>1, <2>5
    <3> QED BY <2>1, <3>1, <3>2
  <2>7. line'[c] = n + 1 /\ pc'[c] = OnLine(lines[n + 1].kind)
    BY <2>2, <2>6
  <2>12. lines[n + 1].kind \in Kinds
    <3>1. lines \in Seq(Line)
      BY <1>2 DEF lines
    <3>2. lines[n + 1] \in Line
      BY <2>6, <3>1
    <3> QED BY <3>2 DEF Line
  <2>8. Lines(c)'
    <3>1. Len(rest) = Len(lines) - (n + 1)
      BY <2>1, <2>5
    <3>2. \A i \in 1..Len(rest) : rest[i] = lines[n + 1 + i]
      <4> SUFFICES ASSUME NEW i \in 1..Len(rest) PROVE rest[i] = lines[n + 1 + i]
        OBVIOUS
      <4>1. i + 1 \in 1..Len(inbox[c])
        BY <2>1
      <4>2. inbox[c][i + 1] = lines[n + (i + 1)]
        BY <2>4, <4>1 DEF Lines, lines, n
      <4>3. n + (i + 1) = n + 1 + i
        BY <2>6, <2>1
      <4> QED BY <2>1, <4>2, <4>3
    <3>3. pc'[c] = "wait" => lines[n + 1].kind = "request"
      BY <2>7, <2>12 DEF OnLine, Kinds
    <3>4. pc'[c] = "write" => lines[n + 1].kind \in {"request", "bad"}
      BY <2>7, <2>12 DEF OnLine, Kinds
    <3>5. \A i \in 1..Len(lines) : lines[i].id = i
      BY <2>4 DEF Lines, lines
    <3>6. sent'[c] = lines
      BY <1>1 DEF lines
    <3>7. n + 1 \in 0..Len(lines)
      BY <2>6, <2>5
    <3> QED BY <2>2, <2>7, <3>1, <3>2, <3>3, <3>4, <3>5, <3>6, <3>7 DEF Lines
  <2>9. Counts(c)'
    <3>1. Count(lines, n, Asks) = Len(Responses(c)) /\ Count(lines, n, {"request"}) = Len(done[c])
      BY <1>1, <2>4 DEF Counts, lines, n
    <3>2. c \notin ready'
      BY <1>1, <1>2
    <3>3. sent'[c] = lines /\ done'[c] = done[c]
      BY <1>1 DEF lines
    <3> DEFINE kind == lines[n + 1].kind
               asks == Count(lines, n + 1, Asks)
               reqs == Count(lines, n + 1, {"request"})
    <3>5. /\ kind \in Asks => asks = Len(Responses(c)) + 1
          /\ kind \notin Asks => asks = Len(Responses(c))
          /\ kind \in {"request"} => reqs = Len(done[c]) + 1
          /\ kind \notin {"request"} => reqs = Len(done[c])
      BY <2>6, <3>1, CountNext
    <3> HIDE DEF kind, asks, reqs
    <3>6. pc'[c] = OnLine(kind) /\ kind \in Kinds
      BY <2>7, <2>12 DEF kind
    <3>7. /\ pc'[c] = "read" => asks = Len(Responses(c)) /\ reqs = Len(done[c])
          /\ pc'[c] = "wait" => asks = Len(Responses(c)) + 1 /\ reqs = Len(done[c]) + 1
          /\ pc'[c] = "write" => asks = Len(Responses(c)) + 1 /\ reqs = Len(done[c]) /\ kind # "request"
      BY <3>5, <3>6 DEF OnLine, Kinds, Asks
    <3>8. ~ Executed(c)'
      BY <2>7, <3>2, <3>3, <3>7 DEF Executed, kind
    <3> QED BY <2>3, <2>7, <3>2, <3>3, <3>7, <3>8 DEF Counts, asks, reqs
  <2>10. InStep(sent[c], Responses(c), Asks)' /\ InStep(sent[c], done[c], {"request"})'
    BY <1>1, <2>3, <2>4 DEF lines, InStep
  <2>11. Earned(c)'
    BY <1>1, <2>3, <2>4 DEF Earned
  <2> QED BY <1>4, <2>8, <2>9, <2>10, <2>11 DEF Talk
<1> QED BY <1>3, <1>4

LEMMA ThreadTalk ==
    ASSUME TalkInv, NEW c \in Clients, EndOfLines(c) \/ Wake(c) \/ WriteFails(c)
    PROVE  \A d \in Clients : Talk(d)'
<1> SUFFICES ASSUME NEW d \in Clients PROVE Talk(d)'
  OBVIOUS
<1>1. UNCHANGED <<sent, got, inbox, outbox, line, done>>
  BY DEF EndOfLines, Wake, WriteFails, clientVars
<1>2. Talk(d) /\ pc \in [Clients -> {"read", "wait", "write", "ended"}]
  BY DEF TalkInv, Inv, TypeOK
<1>3. Responses(d)' = Responses(d)
  BY <1>1 DEF Responses
<1>4. CASE d # c
  <2>1. pc'[d] = pc[d] /\ (d \in ready' <=> d \in ready)
    BY <1>2, <1>4 DEF EndOfLines, Wake, WriteFails
  <2> QED BY <1>1, <1>2, <2>1, Untouched
<1>5. CASE d = c /\ pc'[c] = "ended"
  <2>1. c \notin ready'
    BY <1>2, <1>5 DEF EndOfLines, Wake, WriteFails, TalkInv, Inv, OneJobEach
  <2>2. Lines(c)'
    BY <1>1, <1>2, <1>5 DEF Talk, Lines
  <2>3. Counts(c)'
    BY <1>5, <2>1 DEF Counts, Executed
  <2> QED BY <1>1, <1>2, <1>3, <1>5, <2>2, <2>3 DEF Talk, InStep, Earned
<1>6. CASE d = c /\ Wake(c)
  <2>1. pc[c] = "wait" /\ pc'[c] = "write" /\ c \in ready
    BY <1>2, <1>6 DEF Wake
  <2>2. Lines(c)'
    BY <1>1, <1>2, <1>6, <2>1 DEF Talk, Lines
  <2>3. Counts(c)'
    <3>1. sent[c][line[c]].kind = "request" /\ Counts(c)
      BY <1>2, <1>6, <2>1 DEF Talk, Lines
    <3> QED BY <1>1, <1>3, <1>6, <2>1, <3>1 DEF Counts, Executed
  <2> QED BY <1>1, <1>2, <1>3, <1>6, <2>2, <2>3 DEF Talk, InStep, Earned
<1>7. EndOfLines(c) \/ WriteFails(c) => pc'[c] = "ended"
  BY <1>2 DEF EndOfLines, WriteFails, AfterFailedWrite
<1> QED BY <1>4, <1>5, <1>6, <1>7

LEMMA WriteTalk ==
    ASSUME TalkInv, NEW c \in Clients, WriteResponse(c) PROVE \A d \in Clients : Talk(d)'
<1> SUFFICES ASSUME NEW d \in Clients PROVE Talk(d)'
  OBVIOUS
<1>1. /\ pc[c] = "write" /\ outbox' = [outbox EXCEPT ![c] = Append(@, line[c])]
      /\ pc' = [pc EXCEPT ![c] = "read"] /\ UNCHANGED <<sent, got, inbox, line, ready, done>>
  BY DEF WriteResponse, clientVars
<1>2. /\ Talk(d) /\ pc \in [Clients -> {"read", "wait", "write", "ended"}]
      /\ outbox \in [Clients -> Numbers] /\ outbox[c] \in Seq(1..MaxLines)
      /\ got[c] \in Seq(1..MaxLines) /\ line[c] # 0 /\ c \notin ready
  BY <1>1 DEF TalkInv, Inv, TypeOK, OneJobEach, Numbers
<1>3. CASE d # c
  <2>1. pc'[d] = pc[d] /\ outbox'[d] = outbox[d]
    BY <1>1, <1>2, <1>3
  <2> QED BY <1>1, <1>2, <2>1, Untouched
<1>4. CASE d = c
  <2> DEFINE lines == sent[c]
             n     == line[c]
             old   == Responses(c)
             new   == Responses(c)'
  <2>1. /\ outbox'[c] = Append(outbox[c], n) /\ pc'[c] = "read" /\ sent'[c] = lines
        /\ line'[c] = n /\ done'[c] = done[c] /\ c \notin ready'
    BY <1>1, <1>2
  <2>2. Lines(c) /\ Counts(c) /\ InStep(lines, old, Asks) /\ InStep(lines, done[c], {"request"}) /\ Earned(c)
    BY <1>2, <1>4 DEF Talk
  <2>3. /\ n \in 1..Len(lines) /\ lines[n].kind \in Asks /\ Count(lines, n, Asks) = Len(old) + 1
        /\ Count(lines, n, {"request"}) = Len(done[c])
        /\ lines[n].kind = "request" => Contains(done[c], n)
    BY <1>1, <1>2, <2>2 DEF Lines, Counts, Executed, Asks
  <2> HIDE DEF n, lines
  <2>14. n \in 1..MaxLines
    BY <1>2, IpcAssumption DEF TalkInv, Inv, TypeOK, n
  <2>4. new = Append(old, n)
    <3>1. got[c] \o Append(outbox[c], n) = Append(got[c] \o outbox[c], n)
      <4>1. ASSUME NEW e \in 1..MaxLines PROVE got[c] \o Append(outbox[c], e) = Append(got[c] \o outbox[c], e)
        <5> DEFINE g == got[c]
                   o == outbox[c]
        <5>1. g \in Seq(1..MaxLines) /\ o \in Seq(1..MaxLines)
          BY <1>2
        <5> HIDE DEF g, o
        <5>2. g \o Append(o, e) = Append(g \o o, e)
          BY <5>1
        <5> QED BY <5>2 DEF g, o
      <4> QED BY <2>14, <4>1
    <3> QED BY <1>1, <2>1, <3>1 DEF Responses
  <2>5. old \in Seq(1..MaxLines)
    BY <1>2 DEF Responses
  <2> HIDE DEF old, new
  <2>13. /\ Len(old) \in Nat /\ Len(new) = Len(old) + 1 /\ new[Len(old) + 1] = n
        /\ \A i \in 1..Len(old) : new[i] = old[i]
    BY <2>4, <2>5
  <2>7. Lines(c)'
    BY <1>1, <2>1, <2>2 DEF Lines, lines, n
  <2>8. Counts(c)'
    BY <2>1, <2>3, <2>13 DEF Counts, Executed, new
  <2>9. InStep(lines, new, Asks)
    BY <2>2, <2>3, <2>4, <2>5, InStepNext
  <2>10. \A i \in 1..Len(new) : lines[new[i]].kind = "request" => Contains(done[c], new[i])
    <3> SUFFICES ASSUME NEW i \in 1..Len(new) PROVE lines[new[i]].kind = "request" => Contains(done[c], new[i])
      OBVIOUS
    <3>1. CASE i \in 1..Len(old)
      BY <2>2, <2>13, <3>1 DEF Earned, lines, old
    <3>2. CASE i = Len(old) + 1
      BY <2>3, <2>13, <3>2
    <3> QED BY <2>13, <3>1, <3>2
  <2>11. Earned(c)'
    BY <2>1, <2>10 DEF Earned, new, lines
  <2>12. InStep(sent[c], Responses(c), Asks)' /\ InStep(sent[c], done[c], {"request"})'
    BY <2>1, <2>2, <2>9 DEF InStep, new
  <2> QED BY <1>4, <2>7, <2>8, <2>11, <2>12 DEF Talk
<1> QED BY <1>3, <1>4

\* What a sequence contains once more is appended.
LEMMA ContainsAppend ==
    ASSUME NEW S, NEW q \in Seq(S), NEW e
    PROVE  Contains(Append(q, e), e) /\ \A f : Contains(q, f) => Contains(Append(q, e), f)
<1> DEFINE more == Append(q, e)
<1>1. /\ Len(q) \in Nat /\ Len(more) = Len(q) + 1 /\ more[Len(q) + 1] = e
      /\ \A k \in 1..Len(q) : more[k] = q[k]
  OBVIOUS
<1> HIDE DEF more
<1>2. Len(q) + 1 \in 1..Len(more) /\ \A k \in 1..Len(q) : k \in 1..Len(more)
  BY <1>1
<1>3. Contains(more, e) /\ \A f : Contains(q, f) => Contains(more, f)
  BY <1>1, <1>2 DEF Contains
<1> QED BY <1>3 DEF more

LEMMA ExecuteTalk == ASSUME TalkInv, Execute PROVE \A d \in Clients : Talk(d)'
<1> SUFFICES ASSUME NEW d \in Clients PROVE Talk(d)'
  OBVIOUS
<1>0. PICK c \in Clients : c = Head(jobs) /\ c = jobs[1] /\ 1 \in 1..Len(jobs)
  BY DEF Execute, TalkInv, Inv, TypeOK
<1>1. /\ ready' = ready \cup {c}
      /\ done' = [done EXCEPT ![c] = Append(@, line[c])]
      /\ UNCHANGED <<sent, got, inbox, outbox, pc, line>>
  BY <1>0 DEF Execute, clientVars
<1>3. /\ Talk(d) /\ Talk(c) /\ pc[c] = "wait" /\ c \notin ready /\ line[c] # 0
      /\ done \in [Clients -> Numbers] /\ done[c] \in Seq(1..MaxLines)
  BY <1>0 DEF TalkInv, Inv, TypeOK, OneJobEach, Numbers
<1>4. CASE d # c
  <2>1. done'[d] = done[d] /\ (d \in ready' <=> d \in ready)
    BY <1>1, <1>3, <1>4
  <2> QED BY <1>1, <1>3, <2>1, Untouched
<1>5. CASE d = c
  <2> DEFINE lines == sent[c]
             n     == line[c]
             old   == done[c]
             new   == done'[c]
  <2>1. new = Append(old, n) /\ c \in ready' /\ sent'[c] = lines /\ line'[c] = n /\ pc'[c] = "wait"
    BY <1>1, <1>3
  <2>2. Responses(c)' = Responses(c)
    BY <1>1 DEF Responses
  <2>3. Lines(c) /\ Counts(c) /\ InStep(lines, Responses(c), Asks) /\ InStep(lines, old, {"request"}) /\ Earned(c)
    BY <1>3 DEF Talk
  <2>4. /\ n \in 1..Len(lines) /\ lines[n].kind = "request" /\ Count(lines, n, Asks) = Len(Responses(c)) + 1
        /\ Count(lines, n, {"request"}) = Len(old) + 1 /\ old \in Seq(1..MaxLines)
    BY <1>3, <2>3 DEF Lines, Counts
  <2> HIDE DEF lines, n, old, new
  <2>5. Len(new) = Len(old) + 1 /\ Contains(new, n) /\ \A f : Contains(old, f) => Contains(new, f)
    BY <2>1, <2>4, ContainsAppend
  <2>6. Lines(c)'
    BY <1>1, <2>3 DEF Lines
  <2>7. Counts(c)'
    BY <2>1, <2>2, <2>4, <2>5 DEF Counts, Executed, new
  <2>8. InStep(lines, new, {"request"})
    BY <2>1, <2>3, <2>4, InStepNext
  <2>9. Earned(c)'
    BY <2>1, <2>2, <2>3, <2>5 DEF Earned, lines, old, new
  <2>10. InStep(sent[c], Responses(c), Asks)' /\ InStep(sent[c], done[c], {"request"})'
    BY <2>1, <2>2, <2>3, <2>8 DEF InStep, lines, new
  <2> QED BY <1>5, <2>6, <2>7, <2>9, <2>10 DEF Talk
<1> QED BY <1>4, <1>5

LEMMA NextTalk == ASSUME TalkInv, [Next]_vars PROVE TalkInv'
<1>1. Inv'
  BY NextInv DEF TalkInv
<1>2. \A d \in Clients : Talk(d)'
  <2>1. CASE UNCHANGED vars
    <3> SUFFICES ASSUME NEW d \in Clients PROVE Talk(d)'
      OBVIOUS
    <3>1. UNCHANGED <<sent, inbox, outbox, got, done, pc, line, ready>> /\ Talk(d)
      BY <2>1 DEF vars, clientVars, TalkInv
    <3> QED BY <3>1, Untouched
  <2> QED BY <2>1, SendTalk, ClientTalk, ReadTalk, ThreadTalk, WriteTalk, ExecuteTalk DEF Next, Serve
<1> QED BY <1>1, <1>2 DEF TalkInv

(* The k-th response a client sees answers the k-th line it sent that asks   *)
(* for one, however far it sends ahead of its thread; its requests are       *)
(* executed in order, each once, and a response it sees was earned.          *)
THEOREM ResponsesStayInStep == Spec => []ResponsesInStep
<1>1. Init => TalkInv
  BY TalkInit
<1>2. TalkInv /\ [Next]_vars => TalkInv'
  BY NextTalk
<1>3. TalkInv => ResponsesInStep
  BY DEF TalkInv, Talk, Earned, Asks, ResponsesInStep
<1> QED BY <1>1, <1>2, <1>3, PTL DEF Spec
================================================================================
