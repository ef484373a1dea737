-------------------------------- MODULE HidLink --------------------------------
(***************************************************************************)
(* The device thread and the keyboard as two ends of a HID interface: the  *)
(* reports the keyboard owes, the reports queued in the handle, and the    *)
(* calls that read them (src/src/device.rs, Controller::poll_depths).      *)
(*                                                                         *)
(* Each step of Daemon that reads the keyboard (Identity, PollDepths) is   *)
(* one call here.  A report is abstracted to its kind; an identity reply   *)
(* carries the number of writes it describes, a depth row its number and   *)
(* the request it answers.                                                 *)
(***************************************************************************)
EXTENDS Integers, Sequences

CONSTANTS
    MaxCalls,  \* bound on the calls the device thread makes
    Punctual   \* is the keyboard never silent for 15 ms while it owes a report?

ASSUME LinkAssumption == MaxCalls \in Nat /\ Punctual \in BOOLEAN

VARIABLES
    pc,        \* the call in progress: none, drain or the rest of identity, poll_depths
    answer,    \* what the last call returned
    frame,     \* poll_depths: the request each row's values answer; 0 for zeros
    seen,      \* poll_depths: the rows that have arrived
    queue,     \* reports in the handle, not read yet
    due,       \* reports the keyboard still has to send
    written,   \* configuration packets that have reached the keyboard
    round,     \* depth requests that have reached it
    calls,
    behind     \* history: a poll gave up, and nothing was drained since

vars == <<pc, answer, frame, seen, queue, due, written, round, calls, behind>>

DepthRows     == 0..2
NoFrame  == [r \in DepthRows |-> 0]
ErrorAnswer == [kind |-> "Error"]

Echo       == [kind |-> "echo"]
Stub       == [kind |-> "stub"]
Reply(n)   == [kind |-> "identity", written |-> n]
Depth(r, n) == [kind |-> "depth", row |-> r, round |-> n]

Report == {Echo, Stub} \cup [kind : {"identity"}, written : 0..MaxCalls]
            \cup [kind : {"depth"}, row : 0..3, round : 0..MaxCalls]

(* What the keyboard sends for a packet (external): the echo of a write; a   *)
(* reply to the identity request, after a stub or instead of it one while it *)
(* is busy; three rows of depths, of which it may drop some or send one no   *)
(* key map has.  It may stay silent.                                         *)
Echoes     == {<< >>, <<Echo>>}
Replies(n) == {<< >>, <<Reply(n)>>, <<Stub>>, <<Stub, Reply(n)>>, <<Echo, Reply(n)>>}
Depths(n)  == {<< >>, <<Depth(0, n), Depth(1, n), Depth(2, n)>>, <<Depth(0, n), Depth(2, n)>>,
               <<Depth(0, n), Depth(3, n), Depth(1, n), Depth(2, n)>>}

-------------------------------------------------------------------------------
Init ==
    /\ pc = "idle" /\ answer = ErrorAnswer
    /\ frame = NoFrame /\ seen = {}
    /\ queue = << >> /\ due = << >>
    /\ written = 0 /\ round = 0 /\ calls = 0
    /\ behind = FALSE

\* A call begins.
Call ==
    /\ pc = "idle"
    /\ calls < MaxCalls
    /\ calls' = calls + 1

Return(value) == pc' = "idle" /\ answer' = value

\* Device::write of a configuration packet, as flush_rows and the toggles do.
WritePacket ==
    /\ Call
    /\ Return([kind |-> "Ok"])
    /\ written' = written + 1
    /\ \E reports \in Echoes : due' = due \o reports
    /\ UNCHANGED <<frame, seen, queue, round, behind>>

\* The write returns an error, whether or not the packet got through.
WriteFails ==
    /\ Call
    /\ Return(ErrorAnswer)
    /\ \/ UNCHANGED <<written, due>>
       \/ written' = written + 1 /\ \E reports \in Echoes : due' = due \o reports
    /\ UNCHANGED <<frame, seen, queue, round, behind>>

-------------------------------------------------------------------------------
(* Device::identity.                                                         *)

\* Where identity begins; the mutant asks without draining first.
AfterCallUndrained == "ask"
AfterCall          == "drain"

StartIdentity ==
    /\ Call
    /\ pc' = AfterCall
    /\ UNCHANGED <<answer, frame, seen, queue, due, written, round, behind>>

\* drain: a report within the 15 ms of a read is thrown away.
DrainOne ==
    /\ pc = "drain"
    /\ queue # << >>
    /\ queue' = Tail(queue)
    /\ UNCHANGED <<pc, answer, frame, seen, due, written, round, calls, behind>>

\* drain: a read finds nothing in 15 ms.
Quiet ==
    /\ pc = "drain"
    /\ queue = << >>
    /\ Punctual => due = << >>
    /\ pc' = "ask"
    /\ behind' = FALSE
    /\ UNCHANGED <<answer, frame, seen, queue, due, written, round, calls>>

Ask ==
    /\ pc = "ask"
    /\ \E reports \in Replies(written) : due' = due \o reports
    /\ pc' = "listen"
    /\ UNCHANGED <<answer, frame, seen, queue, written, round, calls, behind>>

\* Identity::parse gives Some; the mutant takes a stub for a reply.
ParsesAnyIdentity(report) == report.kind \in {"identity", "stub"}
Parses(report)            == report.kind = "identity"

Listen ==
    /\ pc = "listen"
    /\ queue # << >>
    /\ queue' = Tail(queue)
    /\ IF Parses(Head(queue))
          THEN Return([kind |-> "Identity", reply |-> Head(queue)])
          ELSE UNCHANGED <<pc, answer>>
    /\ UNCHANGED <<frame, seen, due, written, round, calls, behind>>

\* Is the 2 s or 80 ms deadline looked at?  The mutant reads until it is answered.
DeadlineIgnored == FALSE
DeadlineChecked == TRUE

NoResponse ==
    /\ pc = "listen"
    /\ DeadlineChecked
    /\ Return(ErrorAnswer)
    /\ UNCHANGED <<frame, seen, queue, due, written, round, calls, behind>>

-------------------------------------------------------------------------------
(* Controller::poll_depths.                                                  *)

StartPoll ==
    /\ Call
    /\ pc' = "rows"
    /\ round' = round + 1
    /\ \E reports \in Depths(round') : due' = due \o reports
    /\ frame' = NoFrame /\ seen' = {}
    /\ UNCHANGED <<answer, queue, written, behind>>

FrameAnswer(f) == [kind |-> "Frame", frame |-> f]

\* Does a report carry a row of the key map?  The mutant forgets the bound.
IsAnyRow(report) == report.kind = "depth"
IsRow(report)    == report.kind = "depth" /\ report.row \in DepthRows

\* Is the frame finished?  The mutant stops at the first row.
Begun(rows)    == rows # {}
Complete(rows) == rows = DepthRows

TakeRow ==
    /\ pc = "rows"
    /\ queue # << >>
    /\ queue' = Tail(queue)
    /\ LET report == Head(queue)
           rows   == IF IsRow(report) THEN seen \cup {report.row} ELSE seen
           values == IF IsRow(report) THEN [frame EXCEPT ![report.row] = report.round] ELSE frame
       IN  /\ seen' = rows /\ frame' = values
           /\ IF Complete(rows) THEN Return(FrameAnswer(values)) ELSE UNCHANGED <<pc, answer>>
    /\ UNCHANGED <<due, written, round, calls, behind>>

\* 80 ms are over: what has arrived, or None, which handle answers with an error.
PollEnds ==
    /\ pc = "rows"
    /\ DeadlineChecked
    /\ Return(IF seen = {} THEN ErrorAnswer ELSE FrameAnswer(frame))
    /\ behind' = TRUE
    /\ UNCHANGED <<frame, seen, queue, due, written, round, calls>>

\* A read or a write returns an error: `?`.
DeviceFails ==
    /\ pc # "idle"
    /\ Return(ErrorAnswer)
    /\ behind' = TRUE
    /\ UNCHANGED <<frame, seen, queue, due, written, round, calls>>

-------------------------------------------------------------------------------
\* A report reaches the handle (external).
Deliver ==
    /\ due # << >>
    /\ queue' = Append(queue, Head(due))
    /\ due' = Tail(due)
    /\ UNCHANGED <<pc, answer, frame, seen, written, round, calls, behind>>

Identity == DrainOne \/ Quiet \/ Ask \/ Listen \/ NoResponse
Poll     == TakeRow \/ PollEnds

Next == \/ WritePacket \/ WriteFails \/ StartIdentity \/ StartPoll
        \/ Identity \/ Poll \/ DeviceFails \/ Deliver

Spec == Init /\ [][Next]_vars

(* A call in progress goes on (its reads have timeouts, its deadlines pass), *)
(* and the keyboard sends what it owes.  Nobody need make a call, and        *)
(* nothing need fail.                                                        *)
FairSpec == Spec /\ WF_vars(Identity) /\ WF_vars(Poll) /\ WF_vars(Deliver)

-------------------------------------------------------------------------------
Answer == {ErrorAnswer, [kind |-> "Ok"]} \cup [kind : {"Identity"}, reply : Report]
            \cup [kind : {"Frame"}, frame : [DepthRows -> 0..MaxCalls]]

(* Types; a frame has the three rows of the key map and no other.            *)
TypeOK ==
    /\ pc \in {"idle", "drain", "ask", "listen", "rows"}
    /\ answer \in Answer
    /\ frame \in [DepthRows -> 0..MaxCalls]
    /\ seen \in SUBSET DepthRows
    /\ queue \in Seq(Report)
    /\ due \in Seq(Report)
    /\ calls \in 0..MaxCalls
    /\ written \in 0..calls
    /\ round \in 0..calls
    /\ behind \in BOOLEAN

(* device.rs:68, "so a following read sees only fresh replies": what an      *)
(* identity call returns describes the keyboard after every write made       *)
(* before it, provided the keyboard is never silent for 15 ms while it owes  *)
(* a report.  Daemon!Identity rests on it.                                   *)
IdentityFresh ==
    Punctual /\ answer.kind = "Identity" => answer.reply = Reply(written)

(* A frame has rows of its own request only, until a poll gives up: its rows *)
(* that arrive late stay in the queue until identity drains it.              *)
FrameInStep ==
    ~behind /\ Punctual /\ answer.kind = "Frame" /\ pc = "idle" =>
        answer.frame = [r \in DepthRows |-> round]

(* controller.rs:128, "one full key-depth frame", "one request ... yields    *)
(* three inbound packets (one per protocol row)": no frame has rows of two   *)
(* requests.                                                                 *)
FrameOfOneRound ==
    answer.kind = "Frame" /\ pc = "idle" => \A r \in DepthRows : answer.frame[r] \in {0, round}

(* A call ends whatever the keyboard sends or leaves out, drain included: a  *)
(* keyboard that answers requests and streams nothing else falls silent.     *)
CallsReturn == pc # "idle" ~> pc = "idle"
===============================================================================
