----------------------------------- MODULE Ipc -----------------------------------
(***************************************************************************)
(* Connections: lines in, lines out (src/src/ipc.rs, serve_connection in   *)
(* src/src/daemon.rs).  One thread per client reads its lines in turn,     *)
(* dispatches the requests to the device thread and writes the responses.  *)
(* Clients may send ahead, send what is no request, stop reading, or hang  *)
(* up at any moment.  Daemon is what the device thread does with a job.    *)
(***************************************************************************)
EXTENDS Naturals, Sequences, FiniteSets, SequencesExt

CONSTANTS
    Clients,
    Readers,   \* the clients that go on reading what they are sent
    MaxLines,  \* bound on the lines a client sends
    Room,      \* responses a socket's buffer holds
    None

ASSUME IpcAssumption ==
    /\ Readers \subseteq Clients
    /\ MaxLines \in Nat /\ Room \in Nat \ {0}
    /\ None \notin Clients

(* A line is its number and what it holds; a response answers a line.        *)
Kinds == {"request", "blank", "bad", "garbled"}
Line  == [id : 1..MaxLines, kind : Kinds]

VARIABLES
    \* per client
    sent,     \* the lines it has sent
    inbox,    \* those its thread has not read yet
    outbox,   \* responses, as the numbers of their lines, that it has not read
    got,      \* those it has read
    gone,     \* has it hung up?
    \* per connection thread
    pc,       \* "read", "wait" in dispatch, "write", "ended"
    line,     \* the number of the line in hand
    \* device thread
    jobs,     \* the channel: clients whose threads wait
    ready,    \* threads whose reply channel holds an answer
    done,     \* history: the lines executed, per client
    late      \* history: how many of them began after the client hung up

clientVars == <<sent, got, gone>>
vars == <<clientVars, inbox, outbox, pc, line, jobs, ready, done, late>>

-------------------------------------------------------------------------------
Init ==
    /\ sent = [c \in Clients |-> << >>] /\ inbox = sent /\ outbox = sent
    /\ got = sent /\ done = sent
    /\ gone = [c \in Clients |-> FALSE]
    /\ pc = [c \in Clients |-> "read"]
    /\ line = [c \in Clients |-> 0]
    /\ jobs = << >> /\ ready = {}
    /\ late = [c \in Clients |-> 0]

\* A client writes a line: Client::request, or anything else.
SendLine(c) ==
    /\ ~gone[c] /\ Len(sent[c]) < MaxLines
    /\ \E kind \in Kinds :
        LET l == [id |-> Len(sent[c]) + 1, kind |-> kind]
        IN  /\ sent'  = [sent  EXCEPT ![c] = Append(@, l)]
            /\ inbox' = [inbox EXCEPT ![c] = Append(@, l)]
    /\ UNCHANGED <<outbox, got, gone, pc, line, jobs, ready, done, late>>

\* A client reads a response.
ReadResponse(c) ==
    /\ ~gone[c] /\ outbox[c] # << >>
    /\ got'    = [got    EXCEPT ![c] = Append(@, Head(outbox[c]))]
    /\ outbox' = [outbox EXCEPT ![c] = Tail(@)]
    /\ UNCHANGED <<sent, gone, inbox, pc, line, jobs, ready, done, late>>

HangUp(c) ==
    /\ ~gone[c]
    /\ gone' = [gone EXCEPT ![c] = TRUE]
    /\ UNCHANGED <<sent, got, inbox, outbox, pc, line, jobs, ready, done, late>>

-------------------------------------------------------------------------------
(* serve_connection.                                                         *)

\* What becomes of the thread on a line: a blank one is skipped, a bad one answered
\* at once, one that is no text ends the connection.  The mutant skips bad lines.
BadSkipped(kind) ==
    CASE kind = "request" -> "wait" [] kind = "garbled" -> "ended" [] OTHER -> "read"
OnLine(kind) ==
    CASE kind = "request" -> "wait" [] kind = "bad"     -> "write"
      [] kind = "blank"   -> "read" [] kind = "garbled" -> "ended"

\* The channel after dispatch sends the job; the mutant sends it again.
DispatchTwice(queue, c) == queue \o <<c, c>>
Dispatch(queue, c)      == Append(queue, c)

ReadLine(c) ==
    /\ pc[c] = "read" /\ inbox[c] # << >>
    /\ inbox' = [inbox EXCEPT ![c] = Tail(@)]
    /\ line'  = [line  EXCEPT ![c] = Head(inbox[c]).id]
    /\ pc'    = [pc    EXCEPT ![c] = OnLine(Head(inbox[c]).kind)]
    /\ jobs'  = IF pc'[c] = "wait" THEN Dispatch(jobs, c) ELSE jobs
    /\ UNCHANGED <<clientVars, outbox, ready, done, late>>

\* All lines are read and there will be no more; or the read fails, as it may when
\* the client has left responses unread.
EndOfLines(c) ==
    /\ pc[c] = "read" /\ gone[c]
    /\ inbox[c] = << >> \/ outbox[c] # << >>
    /\ pc' = [pc EXCEPT ![c] = "ended"]
    /\ UNCHANGED <<clientVars, inbox, outbox, line, jobs, ready, done, late>>

\* dispatch returns.
Wake(c) ==
    /\ pc[c] = "wait" /\ c \in ready
    /\ ready' = ready \ {c}
    /\ pc' = [pc EXCEPT ![c] = "write"]
    /\ UNCHANGED <<clientVars, inbox, outbox, line, jobs, done, late>>

\* The response is written once the socket has room for it.
WriteResponse(c) ==
    /\ pc[c] = "write" /\ ~gone[c]
    /\ Len(outbox[c]) < Room
    /\ outbox' = [outbox EXCEPT ![c] = Append(@, line[c])]
    /\ pc' = [pc EXCEPT ![c] = "read"]
    /\ UNCHANGED <<clientVars, inbox, line, jobs, ready, done, late>>

\* After a failed write; the mutant goes on to the next line.
AfterFailedWriteOn == "read"
AfterFailedWrite   == "ended"

\* The client is gone: the write fails.
WriteFails(c) ==
    /\ pc[c] = "write" /\ gone[c]
    /\ pc' = [pc EXCEPT ![c] = AfterFailedWrite]
    /\ UNCHANGED <<clientVars, inbox, outbox, line, jobs, ready, done, late>>

(* device_loop: the next job, done and answered; the thread that waits for   *)
(* the answer is there, whether or not its client is.  The mutant waits for  *)
(* room in the client's socket.                                              *)
AnswersWhenRead(c) == Len(outbox[c]) < Room
Answers(c)         == TRUE

Execute ==
    /\ jobs # << >>
    /\ LET c == Head(jobs) IN
        /\ Answers(c)
        /\ ready' = ready \cup {c}
        /\ done'  = [done EXCEPT ![c] = Append(@, line[c])]
        /\ late'  = [late EXCEPT ![c] = IF gone[c] THEN @ + 1 ELSE @]
    /\ jobs' = Tail(jobs)
    /\ UNCHANGED <<clientVars, inbox, outbox, pc, line>>

-------------------------------------------------------------------------------
Serve(c) == ReadLine(c) \/ EndOfLines(c) \/ Wake(c) \/ WriteResponse(c) \/ WriteFails(c)

Next ==
    \/ Execute
    \/ \E c \in Clients : SendLine(c) \/ ReadResponse(c) \/ HangUp(c) \/ Serve(c)

Spec == Init /\ [][Next]_vars

(* Threads run, the device thread ends every job (Daemon!EveryJobAnswered),  *)
(* and readers read.                                                         *)
FairSpec ==
    /\ Spec
    /\ WF_vars(Execute)
    /\ \A c \in Clients : WF_vars(Serve(c))
    /\ \A c \in Readers : WF_vars(ReadResponse(c))

-------------------------------------------------------------------------------
Numbers == Seq(1..MaxLines)

TypeOK ==
    /\ sent \in [Clients -> Seq(Line)]
    /\ inbox \in [Clients -> Seq(Line)]
    /\ outbox \in [Clients -> Numbers]
    /\ got \in [Clients -> Numbers]
    /\ gone \in [Clients -> BOOLEAN]
    /\ pc \in [Clients -> {"read", "wait", "write", "ended"}]
    /\ line \in [Clients -> 0..MaxLines]
    /\ jobs \in Seq(Clients)
    /\ ready \in SUBSET Clients
    /\ done \in [Clients -> Numbers]
    /\ late \in [Clients -> Nat]

\* How many of the first n lines are of these kinds.
Count(lines, n, kinds) == Cardinality({i \in 1..n : lines[i].kind \in kinds})

\* The k-th of the numbers is that of the k-th line of these kinds.
InStep(lines, numbers, kinds) ==
    \A k \in 1..Len(numbers) :
        /\ numbers[k] \in 1..Len(lines) /\ lines[numbers[k]].kind \in kinds
        /\ Count(lines, numbers[k], kinds) = k

Responses(c) == got[c] \o outbox[c]

(* ipc.rs:3, "one [`Request`] per line in, one [`Response`] per line out":   *)
(* the k-th response a client sees answers the k-th line it sent that was    *)
(* not blank, however far it sent ahead; its requests are executed in the    *)
(* order sent, each once, and a response it sees to one was earned.          *)
ResponsesInStep ==
    \A c \in Clients :
        /\ InStep(sent[c], Responses(c), {"request", "bad", "garbled"})
        /\ InStep(sent[c], done[c], {"request"})
        /\ \A i \in 1..Len(Responses(c)) :
            sent[c][Responses(c)[i]].kind = "request" => Contains(done[c], Responses(c)[i])

(* A client that has hung up has at most one more request executed, although *)
(* its thread reads on until a response cannot be written.                   *)
OneAfterHangUp == \A c \in Clients : late[c] <= 1

(* A connection whose client has hung up ends, whatever it left behind.      *)
ConnectionEnds == \A c \in Clients : gone[c] ~> pc[c] = "ended"

(* daemon.rs:6, "allowing concurrent clients": a client that reads is served *)
(* even when another has stopped reading and its responses fill the buffer.  *)
ReadersAreServed ==
    \A c \in Readers : pc[c] \in {"wait", "write"} ~> pc[c] \in {"read", "ended"}
===============================================================================
