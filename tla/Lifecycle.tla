-------------------------------- MODULE Lifecycle --------------------------------
(***************************************************************************)
(* The daemon as a process: it takes the socket path, opens the keyboard,  *)
(* starts the focus watcher and accepts clients (run in                    *)
(* src/src/daemon.rs, start in src/src/watch.rs, Client::connect in        *)
(* src/src/ipc.rs), under a service manager that restarts it when it fails *)
(* (src/packaging/fawnd.service), or started by hand beside it.            *)
(***************************************************************************)
EXTENDS Naturals

CONSTANTS
    Daemons,     \* the processes that run fawnd-daemon
    Supervised,  \* those among them the service manager runs
    Clients,
    RulesFiles,  \* what rules.toml may be: "none", "good", "bad"
    Sessions,    \* may the session bus and KWin be there, or not, at the start?
    MaxCrashes,  \* bound on crashes
    None

ASSUME LifecycleAssumption ==
    /\ Supervised \subseteq Daemons
    /\ RulesFiles \subseteq {"none", "good", "bad"}
    /\ Sessions \subseteq BOOLEAN
    /\ MaxCrashes \in Nat
    /\ None \notin Daemons

VARIABLES
    pc,       \* where run is in each process
    path,     \* the daemon whose socket the path names (it may be gone), or None
    handle,   \* does the daemon's HID handle reach the keyboard?
    watching, \* does the daemon have the D-Bus service and the KWin script?
    client,   \* the daemon a client is connected to, and whether it is served
    plugged,  \* is the keyboard plugged in?
    rules,    \* what rules.toml is
    desktop,  \* are the session bus and KWin there?
    crashes

vars == <<pc, path, handle, watching, client, plugged, rules, desktop, crashes>>

Unconnected   == [to |-> None, served |-> FALSE]
Listening(d)  == pc[d] \in {"open", "watch", "up"}

-------------------------------------------------------------------------------
Init ==
    /\ pc = [d \in Daemons |-> IF d \in Supervised THEN "clear" ELSE "off"]
    /\ path \in Daemons \cup {None}
    /\ handle = [d \in Daemons |-> FALSE]
    /\ watching = [d \in Daemons |-> FALSE]
    /\ client = [c \in Clients |-> Unconnected]
    /\ plugged \in BOOLEAN
    /\ rules \in RulesFiles /\ desktop \in Sessions
    /\ crashes = 0

\* The user starts a daemon by hand.
Launch(d) ==
    /\ pc[d] = "off"
    /\ pc' = [pc EXCEPT ![d] = "clear"]
    /\ UNCHANGED <<path, handle, watching, client, plugged, rules, desktop, crashes>>

\* remove_file; the mutant leaves the file of an earlier run.
PathUncleared(d) == path
PathCleared(d)   == None

Clear(d) ==
    /\ pc[d] = "clear"
    /\ pc' = [pc EXCEPT ![d] = "bind"]
    /\ path' = PathCleared(d)
    /\ UNCHANGED <<handle, watching, client, plugged, rules, desktop, crashes>>

(* The process ends with an error: its socket closes and its clients are cut *)
(* off, those that were never accepted too; the socket file stays.           *)
Exit(d) ==
    /\ pc' = [pc EXCEPT ![d] = "failed"]
    /\ handle' = [handle EXCEPT ![d] = FALSE]
    /\ watching' = [watching EXCEPT ![d] = FALSE]
    /\ client' = [c \in Clients |-> IF client[c].to = d THEN Unconnected ELSE client[c]]

\* bind fails on a path that exists.
Bind(d) ==
    /\ pc[d] = "bind"
    /\ \/ /\ path = None
          /\ path' = d
          /\ pc' = [pc EXCEPT ![d] = "open"]
          /\ UNCHANGED <<handle, watching, client>>
       \/ path # None /\ Exit(d) /\ UNCHANGED path
    /\ UNCHANGED <<plugged, rules, desktop, crashes>>

\* device_loop up to the ready channel: Controller::open and the handshake.
Open(d) ==
    /\ pc[d] = "open" /\ plugged
    /\ pc' = [pc EXCEPT ![d] = "watch"]
    /\ handle' = [handle EXCEPT ![d] = TRUE]
    /\ UNCHANGED <<path, watching, client, plugged, rules, desktop, crashes>>

\* There is no keyboard, or it does not answer.
OpenFails(d) ==
    /\ pc[d] = "open"
    /\ Exit(d)
    /\ UNCHANGED <<path, plugged, rules, desktop, crashes>>

(* watch::start: the rules, the D-Bus name (one owner at a time), the KWin   *)
(* script; an error leaves the daemon without a watcher.  The mutant gives   *)
(* up without rules.                                                         *)
StartsWithRules(file) == file = "good"
Starts(file)          == file # "bad"

StartWatch(d) ==
    /\ pc[d] = "watch"
    /\ pc' = [pc EXCEPT ![d] = "up"]
    /\ watching' = [watching EXCEPT ![d] =
                        Starts(rules) /\ desktop /\ \A e \in Daemons : ~watching[e]]
    /\ UNCHANGED <<path, handle, client, plugged, rules, desktop, crashes>>

\* The process is killed.
Crash(d) ==
    /\ pc[d] \notin {"off", "failed"}
    /\ crashes < MaxCrashes
    /\ crashes' = crashes + 1
    /\ Exit(d)
    /\ UNCHANGED <<path, plugged, rules, desktop>>

(* Restart=on-failure, RestartSec=5: two starts in the ten seconds of the    *)
(* default limit of five, so the service manager never gives up.             *)
Restart(d) ==
    /\ d \in Supervised
    /\ pc[d] = "failed"
    /\ pc' = [pc EXCEPT ![d] = "clear"]
    /\ UNCHANGED <<path, handle, watching, client, plugged, rules, desktop, crashes>>

-------------------------------------------------------------------------------
(* Client::connect succeeds once the path names a listening socket; what the *)
(* client then asks waits until the connection is accepted.                  *)
Connect(c) ==
    /\ client[c] = Unconnected
    /\ path # None /\ Listening(path)
    /\ client' = [client EXCEPT ![c].to = path]
    /\ UNCHANGED <<pc, path, handle, watching, plugged, rules, desktop, crashes>>

\* Does run accept clients?  The mutant does so before the device is up.
AcceptsEarly(d) == Listening(d)
Accepts(d)      == pc[d] = "up"

Accept(c) ==
    /\ client[c].to # None /\ ~client[c].served
    /\ Accepts(client[c].to)
    /\ client' = [client EXCEPT ![c].served = TRUE]
    /\ UNCHANGED <<pc, path, handle, watching, plugged, rules, desktop, crashes>>

\* The loop goes on when accept fails; the mutant leaves it.
LoopLeft == "deaf"
LoopKept == "up"

\* accept fails for a client, which is dropped.
AcceptFails(c) ==
    /\ client[c].to # None /\ ~client[c].served
    /\ pc[client[c].to] = "up"
    /\ pc' = [pc EXCEPT ![client[c].to] = LoopKept]
    /\ client' = [client EXCEPT ![c] = Unconnected]
    /\ UNCHANGED <<path, handle, watching, plugged, rules, desktop, crashes>>

\* A client is done.
HangUp(c) ==
    /\ client[c].served
    /\ client' = [client EXCEPT ![c] = Unconnected]
    /\ UNCHANGED <<pc, path, handle, watching, plugged, rules, desktop, crashes>>

\* The keyboard is unplugged and plugged in; no handle survives it.
Unplug ==
    /\ plugged
    /\ plugged' = FALSE
    /\ handle' = [d \in Daemons |-> FALSE]
    /\ UNCHANGED <<pc, path, watching, client, rules, desktop, crashes>>

PlugIn ==
    /\ ~plugged
    /\ plugged' = TRUE
    /\ UNCHANGED <<pc, path, handle, watching, client, rules, desktop, crashes>>

\* The user writes, breaks, mends or removes rules.toml, which nobody reads until
\* a daemon starts its watcher.
EditRules ==
    /\ rules' \in RulesFiles
    /\ UNCHANGED <<pc, path, handle, watching, client, plugged, desktop, crashes>>

\* The session comes up after the daemon.
LogIn ==
    /\ ~desktop
    /\ desktop' = TRUE
    /\ UNCHANGED <<pc, path, handle, watching, client, plugged, rules, crashes>>

-------------------------------------------------------------------------------
Run(d) == Clear(d) \/ Bind(d) \/ Open(d) \/ OpenFails(d) \/ StartWatch(d)

Next ==
    \/ \E d \in Daemons : Launch(d) \/ Run(d) \/ Crash(d) \/ Restart(d)
    \/ \E c \in Clients : Connect(c) \/ Accept(c) \/ AcceptFails(c) \/ HangUp(c)
    \/ Unplug \/ PlugIn \/ EditRules \/ LogIn

Spec == Init /\ [][Next]_vars

(* A process runs on and systemd restarts it; the backlog is served in       *)
(* order; a keyboard that is tried again and again while it is there is      *)
(* opened some day.                                                          *)
FairSpec ==
    /\ Spec
    /\ \A d \in Daemons : WF_vars(Run(d)) /\ SF_vars(Open(d)) /\ WF_vars(Restart(d))
    /\ \A c \in Clients : WF_vars(Accept(c))

-------------------------------------------------------------------------------
TypeOK ==
    /\ pc \in [Daemons -> {"off", "clear", "bind", "open", "watch", "up", "failed"}]
    /\ path \in Daemons \cup {None}
    /\ handle \in [Daemons -> BOOLEAN]
    /\ watching \in [Daemons -> BOOLEAN]
    /\ client \in [Clients -> [to : Daemons \cup {None}, served : BOOLEAN]]
    /\ plugged \in BOOLEAN
    /\ rules \in RulesFiles /\ desktop \in BOOLEAN
    /\ crashes \in 0..MaxCrashes

(* daemon.rs:55, "Wait for the device to come up (or fail) before accepting  *)
(* clients": who is served is served by a process that is up, and no client  *)
(* hangs on a process that is gone.                                          *)
ServedByTheLiving ==
    \A c \in Clients :
        /\ client[c].to # None => Listening(client[c].to)
        /\ client[c].served => pc[client[c].to] = "up"

(* Whoever connects is accepted or cut off: a client that connects before    *)
(* the keyboard is open never waits for ever.                                *)
ClientsSettle ==
    \A c \in Clients :
        client[c].to # None /\ ~client[c].served ~>
            client[c].served \/ client[c].to = None

(* fawnd.service:12, "Keep retrying if the keyboard isn't plugged in yet",   *)
(* and fawnd.service:5, without session bus and KWin "the daemon still runs  *)
(* fine": the service comes up and stays reachable at the socket path,       *)
(* whatever an earlier run left there and whatever rules.toml is, unless     *)
(* another daemon is started by hand.                                        *)
StartsOncePlugged ==
    <>[]plugged /\ [](\A d \in Daemons \ Supervised : pc[d] = "off") =>
        \A d \in Supervised : <>[](pc[d] = "up" /\ path = d)

(* What a running daemon has lost, or never got (its keyboard by unplugging, *)
(* its socket path to a daemon started by hand, its hotkey by a rules.toml   *)
(* that did not parse or by a session that came late), it does not get back; *)
(* the next process does.  Once the service has ended, and with keyboard,    *)
(* session and a rules.toml that parses there from then on and no other      *)
(* daemon running, it comes up with all three and keeps them.                *)
Undisturbed(d) ==
    /\ plugged /\ desktop /\ rules # "bad"
    /\ \A e \in Daemons \ {d} : pc[e] \in {"off", "failed"}
Whole(d) == pc[d] = "up" /\ path = d /\ handle[d] /\ watching[d]

RestartMends ==
    \A d \in Supervised : [](pc[d] = "failed" /\ []Undisturbed(d) => <>[]Whole(d))

-------------------------------------------------------------------------------
(* What comments say and the code does not keep.                             *)

(* fawnd.service:12 goes on "(or is unplugged)": once the keyboard is        *)
(* plugged in for good, the service gets hold of it.                         *)
RecoversFromUnplug == <>[]plugged => \A d \in Supervised : <>[]handle[d]

(* daemon.rs:44, "clear a stale socket": the file removed is that of a       *)
(* process that is gone.                                                     *)
ClearsStaleOnly ==
    [][\A d \in Daemons : Clear(d) /\ path # None /\ path # d => ~Listening(path)]_vars

(* watch.rs:94, "the hotkey works regardless" of a rules.toml, in a session  *)
(* that was there first and in which no other daemon was started.            *)
HotkeyRegardless ==
    \A d \in Daemons :
        desktop /\ pc[d] = "up" /\ (\A e \in Daemons \ {d} : pc[e] = "off") => watching[d]
===============================================================================
