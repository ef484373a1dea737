--------------------------------- MODULE Watch ---------------------------------
(***************************************************************************)
(* The focus watcher, composed with the daemon it runs in: KWin reports    *)
(* window activations and the cycle shortcut over D-Bus, and FocusService  *)
(* turns them into jobs for the device thread (src/src/watch.rs).          *)
(***************************************************************************)
EXTENDS Daemon, Rules

CONSTANTS
    Watcher,   \* the producer that is the FocusService
    Apps,      \* the ids of the applications
    RulesFile, \* the rules of rules.toml; none if there is no such file
    Default,   \* its default profile, or None
    CycleCall, \* the shortcut's D-Bus call
    MaxCalls   \* bound on the D-Bus calls waiting to be handled

\* The profile Rules::profile_for gives an application, or None.
RuleFor == [app \in Apps |-> ProfileFor(RulesFile, Default, app)]

ASSUME WatchAssumption ==
    /\ Watcher \in Producers
    /\ Apps \subseteq Seq(Letters) /\ RulesFile \in Seq(Rule)
    /\ Profiles \subseteq Names /\ Default \in Profiles \cup {None}
    /\ CycleCall \notin Apps
    /\ None \notin Apps \cup {CycleCall}
    /\ MaxCalls \in Nat
    /\ [op |-> "CycleProfile"] \in Requests
    /\ \A a \in Apps : RuleFor[a] # None =>
            [op |-> "ApplyProfile", name |-> RuleFor[a]] \in Requests

VARIABLES
    calls,     \* D-Bus calls received and not yet handled
    call,      \* the call being handled: `&mut self` lets in one at a time
    current,   \* FocusService::current
    \* history
    focus,     \* the profile the last activation handled chose; None if it
               \* failed, or since a cycle
    blind      \* a cycle changed the profile and could not report which

watchVars == <<calls, call, current, focus, blind>>
allVars   == <<vars, watchVars>>

WatchInit ==
    /\ Init
    /\ calls = << >> /\ call = None
    /\ current = None
    /\ focus = None /\ blind = FALSE

\* KWin calls Activated or CycleProfile (external).
Deliver ==
    /\ Len(calls) < MaxCalls
    /\ \E c \in Apps \cup {CycleCall} : calls' = Append(calls, c)
    /\ UNCHANGED <<vars, call, current, focus, blind>>

\* Each call is a task of its own: they get at the service in any order.
Without(queue, i) == [j \in 1..(Len(queue) - 1) |-> IF j < i THEN queue[j] ELSE queue[j + 1]]

\* dispatch, from the watcher's side.
Dispatch(r) ==
    /\ pending' = [pending EXCEPT ![Watcher] = r]
    /\ jobs' = Enqueue(jobs, [from |-> Watcher, req |-> r])
    /\ UNCHANGED <<reply, jobVars, stateVars, envVars>>

\* activated: does it return before it dispatches?  The mutant never skips a
\* profile it is already on.
SkipsNothing(app) == RuleFor[app] = None
Skips(app)        == RuleFor[app] = None \/ current = RuleFor[app]

\* activated, when it does nothing.
Skip(i) ==
    /\ call = None
    /\ calls[i] \in Apps /\ Skips(calls[i])
    /\ calls' = Without(calls, i)
    /\ focus' = IF RuleFor[calls[i]] = None THEN focus ELSE RuleFor[calls[i]]
    /\ UNCHANGED <<vars, call, current, blind>>

\* activated and cycle_profile, up to the dispatch.
Handle(i) ==
    /\ call = None
    /\ \/ /\ calls[i] \in Apps /\ ~Skips(calls[i])
          /\ Dispatch([op |-> "ApplyProfile", name |-> RuleFor[calls[i]]])
       \/ /\ calls[i] = CycleCall
          /\ Dispatch([op |-> "CycleProfile"])
    /\ call' = calls[i]
    /\ calls' = Without(calls, i)
    /\ UNCHANGED <<current, focus, blind>>

\* What FocusService::current becomes on an answer.  The mutant ignores cycles.
CurrentIgnoresCycle(response) ==
    IF call \in Apps /\ response.kind = "Ok" THEN RuleFor[call] ELSE current
CurrentAfter(response) ==
    IF call \in Apps /\ response.kind = "Ok" THEN RuleFor[call]
    ELSE IF call = CycleCall /\ response.kind = "Status" THEN response.active
    ELSE current

\* The rest of activated and cycle_profile.
Conclude ==
    /\ call # None
    /\ Receive(Watcher)
    /\ LET response == reply[Watcher] IN
        /\ current' = CurrentAfter(response)
        /\ focus' = IF call \in Apps /\ response.kind = "Ok" THEN RuleFor[call] ELSE None
        /\ blind' = IF response = ErrorReply
                    THEN blind \/ (call = CycleCall /\ active # current)
                    ELSE FALSE
    /\ call' = None
    /\ UNCHANGED calls

DaemonStep ==
    /\ \/ DeviceThread \/ Unplug \/ EditStore
       \/ \E p \in Producers \ {Watcher} : Submit(p) \/ Receive(p)
    /\ UNCHANGED watchVars

WatchNext ==
    \/ DaemonStep
    \/ Deliver
    \/ \E i \in 1..Len(calls) : Skip(i) \/ Handle(i)
    \/ Conclude

WatchSpec == WatchInit /\ [][WatchNext]_allVars

-------------------------------------------------------------------------------
(* The properties of a daemon nobody else sends requests to.                 *)
Alone == Producers = {Watcher}

(* While the watcher is at rest, the label is the profile the focused        *)
(* application's rule names, and so is the keyboard unless a later job       *)
(* failed half-way: the profile switched away from by the shortcut is        *)
(* applied again when its window is next activated.                          *)
AutoSwitchFollowsFocus ==
    Alone /\ call = None /\ focus # None /\ ~blind =>
        /\ active = focus
        /\ clean => fw.act = MapOf(Content[focus])

(* While an activation is handled the daemon is asked for the profile that   *)
(* the rules give, and rules choose as the comments of rules.rs say: the     *)
(* first whose glob means the window's id, whatever the case.                *)
RulesChoose ==
    call \in Apps =>
        /\ FirstRuleWins
        /\ pending[Watcher].op = "ApplyProfile"
        /\ Chosen(pending[Watcher].name, RulesFile, Default, call)

(* The watcher never has the device thread apply the profile that is already *)
(* active, however often its windows are activated (watch.rs:70, "don't      *)
(* re-apply on every focus").                                                *)
NoNeedlessApply ==
    [][Alone /\ ~blind /\ from = None /\ from' = Watcher /\ req'.op = "ApplyProfile"
        => req'.name # active]_allVars

(* Why both hold.  The call in hand is the watcher's job, and what the        *)
(* watcher believes was so when that job began.                              *)

\* The watcher is in dispatch exactly while it handles a call.
CallIsJob ==
    /\ call \in Apps \cup {CycleCall, None}
    /\ call = None => pending[Watcher] = None
    /\ call \in Apps =>
        /\ RuleFor[call] \in Names \ {current}
        /\ pending[Watcher] = [op |-> "ApplyProfile", name |-> RuleFor[call]]
    /\ call = CycleCall => pending[Watcher] = [op |-> "CycleProfile"]
    /\ focus # None => focus = current

\* Before the job and, unless it has changed the label, after it.
BelievedActive ==
    ~blind => /\ from = None /\ reply[Watcher] = None => active = current
              /\ from # None => before.active = current
              /\ call \in Apps /\ reply[Watcher] = ErrorReply => active = current

\* The answer the watcher is about to collect.
AnswerTellsActive ==
    reply[Watcher] # None /\ reply[Watcher] # ErrorReply =>
        \/ call \in Apps /\ reply[Watcher].kind = "Ok" /\ active = RuleFor[call]
        \/ call = CycleCall /\ reply[Watcher].kind = "Status" /\ active = reply[Watcher].active

WatchInv == CallIsJob /\ (Alone => BelievedActive /\ AnswerTellsActive)

(* watch.rs:70, "already on this profile": an activation is skipped only     *)
(* when the daemon's active profile is the one its rule names.               *)
SkipOnlyWhenActive ==
    [][\A i \in 1..Len(calls) :
        Skip(i) /\ RuleFor[calls[i]] # None => active = RuleFor[calls[i]]]_allVars

(* The same comment, of the keyboard: an activation is skipped only when the *)
(* keyboard has the profile's map, also after a switch away from it failed.  *)
SkipOnlyWhenApplied ==
    [][\A i \in 1..Len(calls) :
        Alone /\ Skip(i) /\ RuleFor[calls[i]] # None =>
            fw.act = MapOf(Content[RuleFor[calls[i]]])]_allVars
===============================================================================
