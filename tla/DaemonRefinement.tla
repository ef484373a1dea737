--------------------------- MODULE DaemonRefinement ----------------------------
(***************************************************************************)
(* The daemon implements KeyboardService.  While a job is in hand, the      *)
(* abstract keyboard, map and label are those the device thread started     *)
(* from: the job takes effect when its answer is sent.                      *)
(***************************************************************************)
EXTENDS DaemonInvariant

Idle == from = None

\* The keyboard, the map and the label the job in hand started from.
boardThen == IF Idle THEN fw ELSE before.fw
mapThen   == IF Idle THEN mirror ELSE before.mirror
labelThen == IF Idle THEN active ELSE before.active

\* The names a listing has read.
namesRead == IF ~Idle /\ req.op = "ListProfiles" /\ result # None THEN result.names ELSE None

Service == INSTANCE KeyboardService WITH
    asked   <- pending,
    answer  <- reply,
    serving <- from,
    target  <- name,
    listed  <- namesRead,
    kb      <- boardThen,
    map     <- mapThen,
    label   <- labelThen,
    files   <- store

(* Whatever the threads, the channel, the packets and their failures do, a   *)
(* client sees the atomic service.                                           *)
ImplementsService == Service!Spec

-------------------------------------------------------------------------------
(* Why it does: what Inv does not say of a job that has failed, is about to, *)
(* or is about to be answered.                                               *)

\* All the request needs is known.
Known == AppliesProfile(req) => name # None /\ Appliable(name)

Intended == Effect(before.fw, before.mirror, req, name)

\* A job that failed did nothing,
NothingDone == fw = before.fw /\ mirror = before.mirror /\ active = before.active

\* or stopped with its map set up and its writes torn,
StoppedHalfway ==
    /\ SetsLabel(req)
    /\ AppliesProfile(req) => name # None /\ Readable(name)
    /\ mirror = WantedMap(req, name, before.mirror)
    /\ active = before.active
    /\ IF Known THEN Service!Torn(before.fw, Intended, fw) ELSE fw = before.fw

\* or did everything but report the status.
OnlyUnreported ==
    /\ req.op = "CycleProfile" /\ Known
    /\ fw = Intended /\ mirror = WantedMap(req, name, before.mirror) /\ active = name

FailureExplained ==
    from # None /\ Failed =>
        /\ req.op # "ListProfiles"
        /\ NothingDone \/ StoppedHalfway \/ OnlyUnreported

\* The rows a flush has yet to send are as the job found them.
WasOnBoard(step) == IF step = "act" THEN before.fw.act
                    ELSE IF step = "down" THEN before.fw.down ELSE before.fw.up
RowsToCome ==
    from # None /\ ~Failed =>
        \A s \in Slots, step \in {"act", "down", "up"} :
            Flushing(step) /\ RowOf(s) >= row => OnBoard(step)[s] = WasOnBoard(step)[s]

\* The answer of a job that ended well says what it should; a cycle's profile is
\* chosen by its first step and by no other.
AnswerIsGood ==
    from # None /\ result # None /\ ~Failed =>
        result = Service!GoodAnswer(req, result.names, fw, active)
AimedOnce == from # None /\ ~Failed /\ req.op = "CycleProfile" /\ pc = 1 => name = None

RefinementInv == FailureExplained /\ RowsToCome /\ AnswerIsGood /\ AimedOnce
===============================================================================
