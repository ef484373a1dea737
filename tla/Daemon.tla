-------------------------------- MODULE Daemon ---------------------------------
(***************************************************************************)
(* The daemon: producers (IPC connections and the focus watcher) that      *)
(* dispatch requests over an mpsc channel, and the device thread that      *)
(* executes them one at a time on the Controller, packet by packet         *)
(* (src/src/daemon.rs, src/src/controller.rs).                             *)
(***************************************************************************)
EXTENDS KeyboardTypes, Sequences, FiniteSets

CONSTANTS
    Producers,       \* whoever calls dispatch: connections and the focus watcher
    InitialKeyboards \* configurations the keyboard may be found in

ASSUME DaemonAssumption ==
    /\ None \notin Producers
    /\ InitialKeyboards \subseteq Keyboard

VARIABLES
    \* producers and channel
    pending,   \* pending[p]: the request producer p waits for in dispatch, or None
    jobs,      \* the mpsc channel: a sequence of jobs
    reply,     \* reply[p]: the response in p's reply channel, or None
    \* device thread
    from,      \* whose job is being handled, or None in job_rx.recv()
    req,       \* that job's request
    name,      \* the profile it applies, once known
    pc,        \* the next step of handle, an index into Plan
    row,       \* the next row packet of the flush at pc
    result,    \* the response of handle, or None until it returns
    mirror,    \* Controller::actuation
    active,    \* State::active_profile
    \* environment
    fw,        \* the configuration the keyboard's firmware holds
    open,      \* does the HID handle opened at startup still reach a device?
    store,     \* the profiles that exist in profiles_dir()
    \* history
    clean,     \* the last flush was complete, and no job has failed half-way since
    before     \* keyboard, mirror and label when the job in hand was taken

producerVars == <<pending, jobs, reply>>
jobVars      == <<from, req, name, pc, row, result, before>>
stateVars    == <<mirror, active, fw, clean>>
envVars      == <<open, store>>
vars         == <<producerVars, jobVars, stateVars, envVars>>

-------------------------------------------------------------------------------
(* The state-changing calls and device accesses of handle, in order.  The    *)
(* mutant labels a cycled profile before its toggles are set.                *)
PlanLabelsEarly(op) ==
    CASE op = "Status"          -> <<"identity">>
      [] op = "ListProfiles"    -> <<"list">>
      [] op = "ApplyProfile"    -> <<"load", "act", "label", "toggles">>
      [] op = "CycleProfile"    -> <<"next", "load", "act", "label", "toggles", "identity">>
      [] op = "SetActuationAll" -> <<"set", "act", "label">>
      [] op = "ApplyActuation"  -> <<"set", "act", "label">>
      [] op = "SetRapidTrigger" -> <<"toggles", "label">>
      [] op = "SetLed"          -> <<"led", "label">>
      [] op = "Reset"           -> <<"set", "led", "toggles", "act", "down", "up", "label">>
      [] op = "Depths"          -> <<"depths">>
Plan(op) ==
    CASE op = "Status"          -> <<"identity">>
      [] op = "ListProfiles"    -> <<"list">>
      [] op = "ApplyProfile"    -> <<"load", "act", "toggles", "label">>
      [] op = "CycleProfile"    -> <<"next", "load", "act", "toggles", "label", "identity">>
      [] op = "SetActuationAll" -> <<"set", "act", "label">>
      [] op = "ApplyActuation"  -> <<"set", "act", "label">>
      [] op = "SetRapidTrigger" -> <<"toggles", "label">>
      [] op = "SetLed"          -> <<"led", "label">>
      [] op = "Reset"           -> <<"set", "led", "toggles", "act", "down", "up", "label">>
      [] op = "Depths"          -> <<"depths">>

At(step) == from # None /\ result = None /\ Plan(req.op)[pc] = step

\* The step at pc is over: the next one, or the end of handle with `response`.
Advance(response) ==
    /\ row' = 0
    /\ pc' = pc + 1
    /\ result' = IF pc = Len(Plan(req.op)) THEN response ELSE None
    /\ UNCHANGED <<from, req, name, before>>

\* The `?` operator: handle returns an error here and now.  The mutant drops the
\* one after set_rapid_trigger.
AbortSwallowed ==
    /\ result' = IF At("toggles") THEN [kind |-> "Ok"] ELSE ErrorReply
    /\ UNCHANGED <<from, req, name, pc, row, before>>
Abort ==
    /\ result' = ErrorReply
    /\ UNCHANGED <<from, req, name, pc, row, before>>

-------------------------------------------------------------------------------
Init ==
    /\ pending = [p \in Producers |-> None]
    /\ jobs    = << >>
    /\ reply   = [p \in Producers |-> None]
    /\ from = None /\ req = None /\ name = None /\ result = None /\ before = None
    /\ pc = 1 /\ row = 0
    /\ mirror = [s \in Slots |-> DefaultActuation]
    /\ active = None
    /\ fw \in InitialKeyboards
    /\ open = TRUE
    /\ store \in SUBSET Names
    /\ clean = FALSE

\* The mutant queues the newest job first.
EnqueueFirst(queue, job) == <<job>> \o queue
Enqueue(queue, job)      == Append(queue, job)

\* dispatch, up to reply_rx.recv().
Submit(p) ==
    /\ pending[p] = None
    /\ \E r \in Requests :
        /\ pending' = [pending EXCEPT ![p] = r]
        /\ jobs' = Enqueue(jobs, [from |-> p, req |-> r])
    /\ UNCHANGED <<reply, jobVars, stateVars, envVars>>

\* dispatch returns; the connection writes the answer back to its client.
Receive(p) ==
    /\ reply[p] # None
    /\ pending' = [pending EXCEPT ![p] = None]
    /\ reply'   = [reply EXCEPT ![p] = None]
    /\ UNCHANGED <<jobs, jobVars, stateVars, envVars>>

\* device_loop: the next job.
Take ==
    /\ from = None
    /\ jobs # << >>
    /\ LET job == Head(jobs) IN
        /\ from' = job.from
        /\ req'  = job.req
        /\ name' = IF job.req.op = "ApplyProfile" THEN job.req.name ELSE None
    /\ jobs' = Tail(jobs)
    /\ before' = [fw |-> fw, mirror |-> mirror, active |-> active]
    /\ UNCHANGED <<pending, reply, pc, row, result, stateVars, envVars>>

\* The reply channels after job.reply.send(response); the mutant answers everyone.
SendToAll(replies, p, response) == [q \in Producers |-> response]
Send(replies, p, response)      == [replies EXCEPT ![p] = response]

\* device_loop: the job is answered.
Reply ==
    /\ from # None /\ result # None
    /\ reply' = Send(reply, from, result)
    /\ from' = None /\ req' = None /\ name' = None /\ result' = None /\ before' = None
    /\ pc' = 1 /\ row' = 0
    /\ UNCHANGED <<pending, jobs, stateVars, envVars>>

-------------------------------------------------------------------------------
(* The profile store.                                                        *)

ListProfiles ==
    /\ At("list")
    /\ Advance([kind |-> "Profiles", names |-> store])
    /\ UNCHANGED <<producerVars, stateVars, envVars>>

\* CycleProfile: next_profile_name.
ChooseNext ==
    /\ At("next")
    /\ \/ /\ store # {}
          /\ name' = NextProfileName(active, store)
          /\ pc' = pc + 1
          /\ UNCHANGED <<from, req, row, result, before>>
       \/ store = {} /\ Abort
    /\ UNCHANGED <<producerVars, stateVars, envVars>>

(* load_profile, and Profile::apply up to the flush: the overrides of a      *)
(* profile with an unknown key have changed the map when apply gives up.     *)
LoadProfile ==
    /\ At("load")
    /\ \/ /\ name \in store /\ Readable(name)
          /\ mirror' = WantedMap(req, name, mirror)
          /\ clean' = (clean /\ Appliable(name))
          /\ IF Appliable(name) THEN Advance(None) ELSE Abort
       \/ /\ ~(name \in store /\ Readable(name))
          /\ Abort
          /\ UNCHANGED <<mirror, clean>>
    /\ UNCHANGED <<producerVars, active, fw, envVars>>

-------------------------------------------------------------------------------
(* The controller.                                                           *)

\* set_actuation_all, set_actuation_index for each value, or the fills of
\* write_defaults.
SetActuation ==
    /\ At("set")
    /\ mirror' = WantedMap(req, name, mirror)
    /\ Advance(None)
    /\ UNCHANGED <<producerVars, active, fw, clean, envVars>>

IsFlush == At("act") \/ At("down") \/ At("up")

\* The row of the last packet of a flush; the mutant stops one row short.
LastRowMissed == 1
LastRow       == 2

\* The keyboard after the packet at pc (and row) has reached it.
AfterPacket ==
    LET zeros == [s \in Slots |-> 0]
    IN  CASE At("act")  -> [fw EXCEPT !.act = FlushRow(fw.act, mirror, row, DefaultActuation)]
          [] At("down") -> [fw EXCEPT !.down = FlushRow(fw.down, zeros, row, 0)]
          [] At("up")   -> [fw EXCEPT !.up = FlushRow(fw.up, zeros, row, 0)]
          [] At("led")  -> [fw EXCEPT !.led = WantedLed(req)]
          [] OTHER      -> [fw EXCEPT !.rt = WantedToggles(req, name).rt,
                                      !.turbo = WantedToggles(req, name).turbo]

AtWrite == IsFlush \/ At("led") \/ At("toggles")

\* Device::write of one packet: a row of flush_rows, set_rapid_trigger, set_led.
Write ==
    /\ AtWrite
    /\ open
    /\ fw' = AfterPacket
    /\ IF IsFlush /\ row < LastRow
          THEN /\ row' = row + 1
               /\ UNCHANGED <<from, req, name, pc, result, before>>
          ELSE Advance(None)
    /\ clean' = (clean \/ (At("act") /\ row = LastRow))
    /\ UNCHANGED <<producerVars, mirror, active, envVars>>

\* Device::write returns an error, whether or not the packet got through.
WriteFails ==
    /\ AtWrite
    /\ \/ fw' = fw
       \/ open /\ fw' = AfterPacket
    /\ clean' = FALSE
    /\ Abort
    /\ UNCHANGED <<producerVars, mirror, active, envVars>>

\* Device::identity, for status_response.
Identity ==
    /\ At("identity")
    /\ \/ open /\ Advance([kind |-> "Status", rt |-> fw.rt, turbo |-> fw.turbo,
                           active |-> active])
       \/ Abort
    /\ UNCHANGED <<producerVars, stateVars, envVars>>

\* Controller::poll_depths: a frame, or no answer in time, or a device error.
PollDepths ==
    /\ At("depths")
    /\ \/ open /\ Advance([kind |-> "Depths"])
       \/ Abort
    /\ UNCHANGED <<producerVars, stateVars, envVars>>

\* The end of apply_named, or into_response on success.
SetLabel ==
    /\ At("label")
    /\ active' = LabelAfter(req, name, active)
    /\ Advance([kind |-> "Ok"])
    /\ UNCHANGED <<producerVars, mirror, fw, clean, envVars>>

-------------------------------------------------------------------------------
(* The environment (external): the keyboard is unplugged, after which the    *)
(* handle is never reopened; the user edits the profile directory.           *)

Unplug ==
    /\ open
    /\ open' = FALSE
    /\ UNCHANGED <<producerVars, jobVars, stateVars, store>>

EditStore ==
    /\ \E n \in Names : store' \in {store \cup {n}, store \ {n}}
    /\ store' # store
    /\ UNCHANGED <<producerVars, jobVars, stateVars, open>>

-------------------------------------------------------------------------------
HandleStep == \/ ListProfiles \/ ChooseNext \/ LoadProfile \/ SetActuation
              \/ Write \/ WriteFails \/ Identity \/ PollDepths \/ SetLabel

DeviceThread == Take \/ HandleStep \/ Reply

Next ==
    \/ DeviceThread
    \/ \E p \in Producers : Submit(p) \/ Receive(p)
    \/ Unplug
    \/ EditStore

Spec == Init /\ [][Next]_vars

(* The device thread is a loop over a blocking recv whose device accesses    *)
(* all return; a producer blocked in dispatch wakes when it is answered.     *)
FairSpec == /\ Spec
            /\ WF_vars(DeviceThread)
            /\ \A p \in Producers : WF_vars(Receive(p))
-------------------------------------------------------------------------------
Job  == [from : Producers, req : Requests]
Step == 1..7

Snapshot == [fw : Keyboard, mirror : [Slots -> KeyByte], active : Label]

(* Types, and the bytes the program itself computes: the controller's map    *)
(* holds only actuation points the keyboard supports.                        *)
TypeOK ==
    /\ pending \in [Producers -> Requests \cup {None}]
    /\ jobs \in Seq(Job)
    /\ reply \in [Producers -> Response \cup {None}]
    /\ from \in Producers \cup {None}
    /\ req \in Requests \cup {None}
    /\ from = None <=> req = None
    /\ name \in Label
    /\ pc \in 1..8
    /\ row \in Rows
    /\ result \in Response \cup {None}
    /\ mirror \in [Slots -> ActuationByte]
    /\ active \in Label
    /\ fw \in Keyboard
    /\ open \in BOOLEAN
    /\ store \in SUBSET Names
    /\ clean \in BOOLEAN
    /\ before \in Snapshot \cup {None}

(* Between jobs, and unless a job has failed half-way since the last flush,  *)
(* the keyboard's actuation map is the controller's: what controller.rs:24   *)
(* calls "mirrored from what we last pushed to the device".                  *)
MirrorInSync == from = None /\ clean => fw.act = mirror

(* Under the same condition, the label Status reports is the profile the     *)
(* keyboard really has: its whole actuation map and its toggles.             *)
LabelTruthful ==
    from = None /\ clean /\ active # None =>
        /\ Readable(active)
        /\ fw.act = MapOf(Content[active])
        /\ fw.rt = Content[active].rt /\ fw.turbo = Content[active].turbo

(* A response other than an error is given only when the whole of what the   *)
(* request asks for is on the keyboard, nothing else there has changed, and  *)
(* the controller's map and the label say so.                                *)
AnswerHonest ==
    from # None /\ result # None /\ result # ErrorReply =>
        /\ fw = Effect(before.fw, before.mirror, req, name)
        /\ mirror = WantedMap(req, name, before.mirror)
        /\ active = LabelAfter(req, name, before.active)

(* A producer blocked in dispatch has its request in exactly one place: the  *)
(* channel, the device thread, or answered in its reply channel.  No answer  *)
(* is lost, duplicated or handed to another producer.                        *)
OneReplyEach ==
    \A p \in Producers :
        LET queued   == {i \in 1..Len(jobs) : jobs[i].from = p}
            handled  == from = p
            answered == reply[p] # None
        IN  /\ pending[p] = None => queued = {} /\ ~handled /\ ~answered
            /\ pending[p] # None =>
                 \/ handled /\ queued = {} /\ ~answered /\ req = pending[p]
                 \/ answered /\ queued = {} /\ ~handled
                 \/ /\ ~handled /\ ~answered
                    /\ \E i \in queued : queued = {i} /\ jobs[i].req = pending[p]

(* The shortcut reaches every profile: from any label, cycling as many times *)
(* as there are profiles, with each applied, comes by each of them.          *)
CycleCoversStore ==
    LET nth[k \in 0..Cardinality(store)] ==
            IF k = 0 THEN active ELSE NextProfileName(nth[k - 1], store)
    IN  \A n \in store : \E k \in 1..Cardinality(store) : nth[k] = n

(* The label changes only once every write of the job is on the keyboard, so *)
(* a job that fails never leaves a label it did not earn.                    *)
LabelFollowsWrites ==
    [][active' # active => fw = Effect(before.fw, before.mirror, req, name)]_vars

(* Every request dispatched is answered: the channel is first in, first out, *)
(* and a job ends whatever the device does.                                  *)
EveryJobAnswered == \A p \in Producers : pending[p] # None ~> pending[p] = None
===============================================================================
