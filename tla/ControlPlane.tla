----------------------------- MODULE ControlPlane -----------------------------
(***************************************************************************)
(* The control plane as a process (index.js): it removes the containers of *)
(* an earlier run, serves sessions (SessionManager), shuts down on a       *)
(* signal or dies, and may be started again.  Devices and the daemon       *)
(* outlive the process; the registry, its pools and timers do not.         *)
(***************************************************************************)
EXTENDS SessionManager

CONSTANT MaxStarts      \* bounds how often the process is started

ASSUME StartsAssumption == MaxStarts \in Nat \ {0}

VARIABLES
    process,    \* "listing" and "removing": what reapOrphans() awaits; "up";
                \* "closing": shutdown() awaits; "down" or "crashed"
    starts,     \* processes started so far
    former,     \* sessions of earlier processes, or of one that has ended
    awaited,    \* the sessions whose destroy() shutdown() awaits
    signalled,  \* history: the sessions registered when the signal came
    listed,     \* the containers `docker ps` has named to reapOrphans()
    missed      \* history: containers a teardown or reapOrphans() was to
                \* remove, and did not

processVars == <<process, starts, former, awaited, signalled, listed, missed>>
allVars     == <<vars, processVars>>

Containers == {s \in Session : backend[s] = "container"}
Serving    == process \in {"up", "closing"}

-----------------------------------------------------------------------------
(* Startup *)

\* Fault: the server listens without waiting for reapOrphans().
ListAndServe ==
    /\ process = "listing"
    /\ process' = "up"
    /\ listed' = {s \in Containers : device[s] = "running"}
    /\ UNCHANGED <<vars, starts, former, awaited, signalled, missed>>

\* `docker ps` names what runs: not a container the daemon is still creating.
\* When it fails there is nothing to remove.
ListOrphans ==
    /\ process = "listing"
    /\ \/ /\ listed' = {s \in Containers : device[s] = "running"}
          /\ missed' = missed \cup {s \in Containers : device[s] = "pending"}
          /\ process' = IF listed' = {} THEN "up" ELSE "removing"
       \/ /\ "stop" \in Faults
          /\ listed' = {}
          /\ missed' = missed \cup {s \in Containers : device[s] \in {"pending", "running"}}
          /\ process' = "up"
    /\ UNCHANGED <<vars, starts, former, awaited, signalled>>

\* `docker rm --force`; the server listens whether or not it succeeded.
RemoveOrphans ==
    /\ process = "removing"
    /\ process' = "up"
    /\ listed' = {}
    /\ \/ /\ device' = [s \in Session |-> IF s \in listed THEN "gone" ELSE device[s]]
          /\ UNCHANGED missed
       \/ /\ "stop" \in Faults
          /\ missed' = missed \cup listed
          /\ UNCHANGED device
    /\ UNCHANGED <<sessions, state, backend, error, poolVars, boot, stop, stream,
                   viewerVars, starts, former, awaited, signalled>>

-----------------------------------------------------------------------------
(* The registry's actions, for the sessions of this process.  A connection  *)
(* that was busy when the server stopped listening can still create one;    *)
(* the reaper's timer is cleared.                                           *)

Requests(s) ==
    /\ Serving
    /\ \/ \E b \in Backends :
            s \notin former /\ (Create(s, b) \/ CreateWithoutPorts(s, b))
       \/ Delete(s)
       \/ Attach(s) \/ Detach(s)
    /\ UNCHANGED processVars

Boots(s) ==
    /\ ContainerStarted(s) \/ DeviceStarted(s) \/ StreamStarted(s) \/ BootFails(s)
    /\ UNCHANGED processVars

Falters(s) ==
    /\ StreamCloses(s) \/ IdleTimeout(s)
    /\ UNCHANGED processVars

Reap ==
    /\ process = "up"
    /\ ReapIdle
    /\ UNCHANGED processVars

Outlasts(s) == s \in Containers /\ device[s] \in {"pending", "running"}

TeardownSettles(s) ==
    /\ DestroyEnds(s)
    /\ missed' = IF Outlasts(s) THEN missed \cup {s} ELSE missed
    /\ UNCHANGED <<process, starts, former, awaited, signalled, listed>>

DaemonActs(s) ==
    /\ DeviceComesUp(s) \/ DeviceStops(s)
    /\ UNCHANGED processVars

\* A device of an earlier process ends by itself, or by a command that process
\* gave; an emulator may be killed with its parent.
OrphanEnds(s) ==
    /\ s \in former /\ device[s] \in {"pending", "running"}
    /\ device' = [device EXCEPT ![s] = "gone"]
    /\ UNCHANGED <<sessions, state, backend, error, poolVars, boot, stop,
                   stream, viewerVars, processVars>>

-----------------------------------------------------------------------------
(* The end of the process *)

\* What a process knows ends with it, its sockets and connections too.  What is
\* left of a session is its device, under its name, with its port.
Forget ==
    LET left == {s \in Session : device[s] \in {"pending", "running"}}
    IN  /\ former' = left
        /\ adbPort' = [s \in Session |-> IF s \in left THEN adbPort[s] ELSE NoPort]
        /\ device' = [s \in Session |-> IF s \in left THEN device[s] ELSE "none"]
        /\ backend' = [s \in Session |-> IF s \in left THEN backend[s] ELSE "none"]
        /\ sessions' = {}
        /\ state' = [s \in Session |-> "none"]
        /\ error' = [s \in Session |-> FALSE]
        /\ streamPort' = [s \in Session |-> NoPort]
        /\ adbFree' = NewPool(AdbMin, AdbMax)
        /\ streamFree' = NewPool(AdbMax, AdbMax + StreamSpan)
        /\ boot' = [s \in Session |-> "none"]
        /\ stop' = [s \in Session |-> "none"]
        /\ stream' = [s \in Session |-> "none"]
        /\ clients' = [s \in Session |-> 0]
        /\ idle' = [s \in Session |-> FALSE]
        /\ listed' = {}
        /\ missed' = missed \cap left
        /\ UNCHANGED starts

\* SIGTERM or SIGINT: shutdown(), up to the await in SessionManager.shutdown().
\* Fault: the sessions still booting are left to themselves.
SignalReadyOnly ==
    /\ process = "up"
    /\ process' = "closing"
    /\ awaited' = {s \in sessions : state[s] = "ready"}
    /\ Destroy(awaited')
    /\ signalled' = sessions
    /\ UNCHANGED <<backend, error, poolVars, boot, device, idle, starts, former,
                   listed, missed>>

Signal ==
    /\ process = "up"
    /\ process' = "closing"
    /\ awaited' = sessions
    /\ Destroy(sessions)
    /\ signalled' = sessions
    /\ UNCHANGED <<backend, error, poolVars, boot, device, idle, starts, former,
                   listed, missed>>

\* allSettled() is over: process.exit(0).
Exit ==
    /\ process = "closing"
    /\ \A s \in awaited : stop[s] = "done"
    /\ process' = "down"
    /\ Forget /\ UNCHANGED <<awaited, signalled>>

Crash ==
    /\ process \notin {"down", "crashed"}
    /\ process' = "crashed"
    /\ awaited' = {} /\ signalled' = {}
    /\ Forget

Start ==
    /\ process \in {"down", "crashed"} /\ starts < MaxStarts
    /\ process' = "listing"
    /\ starts' = starts + 1
    /\ awaited' = {} /\ signalled' = {}
    /\ UNCHANGED <<vars, former, listed, missed>>

-----------------------------------------------------------------------------
ProcessInit ==
    /\ Init
    /\ process = "listing" /\ starts = 1
    /\ former = {} /\ awaited = {} /\ signalled = {} /\ listed = {} /\ missed = {}

ProcessNext ==
    \/ ListOrphans \/ RemoveOrphans
    \/ \E s \in Session : Requests(s)
    \/ \E s \in Session : Boots(s)
    \/ \E s \in Session : Falters(s)
    \/ Reap
    \/ \E s \in Session : TeardownSettles(s)
    \/ \E s \in Session : DaemonActs(s)
    \/ \E s \in Session : OrphanEnds(s)
    \/ Signal \/ Exit \/ Crash \/ Start

ProcessSpec == ProcessInit /\ [][ProcessNext]_allVars

\* Every await of the code is bounded by a timeout (execFile, Adb.connect,
\* waitForBoot, connectWithRetry), the reaper is an interval timer, shutdown()
\* goes on when its destroys have settled, and docker acts on the commands it
\* is given, `docker ps` included, which has no timeout.
ProcessFairness ==
    /\ WF_allVars(ListOrphans) /\ WF_allVars(RemoveOrphans)
    /\ WF_allVars(Reap) /\ WF_allVars(Exit)
    /\ \A s \in Session :
        /\ WF_allVars(Boots(s))
        /\ WF_allVars(IdleTimeout(s) /\ UNCHANGED processVars)
        /\ WF_allVars(TeardownSettles(s))
        /\ WF_allVars(s \notin former /\ DeviceComesUp(s) /\ UNCHANGED processVars)
        /\ WF_allVars(stop[s] # "none" /\ DeviceStops(s) /\ UNCHANGED processVars)

ProcessFairSpec == ProcessSpec /\ ProcessFairness

-----------------------------------------------------------------------------
(* Properties *)

\* The registry's types survive a restart, and only a serving process has
\* sessions, none of them an earlier one's.
ProcessTypeOK ==
    /\ TypeOK
    /\ process \in {"listing", "removing", "up", "closing", "down", "crashed"}
    /\ starts \in 1 .. MaxStarts
    /\ former \subseteq Session
    /\ awaited \subseteq signalled /\ signalled \subseteq Session
    /\ listed \subseteq Containers /\ missed \subseteq Containers
    /\ sessions \cap former = {} /\ listed \subseteq former
    /\ ~Serving => sessions = {}

\* A container that runs while the server is up belongs to a session, or is
\* being stopped, or is known to have slipped through: it came up after the
\* `docker stop`, or the `docker ps`, that was meant for it, or docker failed.
NoContainerForgotten ==
    process = "up" =>
        \A s \in Containers :
            device[s] = "running" =>
                s \in sessions \/ stop[s] = "stopping" \/ s \in missed

\* A shutdown leaves no container of a session that was registered when the
\* signal came, except one that slipped through its own teardown.
ShutdownStopsContainers ==
    process = "down" =>
        \A s \in signalled \cap Containers : device[s] = "running" => s \in missed

\* Nothing that happens to sessions, to requests still coming in or to devices
\* keeps a signalled process from ending.
ShutdownEnds == process = "closing" ~> process \in {"down", "crashed"}

\* What create() promises its caller: the boot ends, one way or the other.
BootSettles ==
    \A s \in Session : state[s] = "starting" ~> state[s] # "starting"

\* "A session with no attached socket is torn down after this long", whether
\* its stream, its device or the process is the first to go.
IdleSessionsAreReaped ==
    \A s \in Session : s \in sessions /\ clients[s] = 0
                          ~> s \notin sessions \/ clients[s] > 0
=============================================================================
