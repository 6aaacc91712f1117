---------------------------- MODULE SessionManager ----------------------------
(***************************************************************************)
(* The session registry of the control plane: SessionManager, Session and  *)
(* PortPool (sessions.js) with the device backends they drive.             *)
(*                                                                         *)
(* One action is one run of JavaScript between two awaits.  `boot` and     *)
(* `stop` are the program counters of the two asynchronous procedures a    *)
(* session can have in flight at once, #boot() and destroy().  `device` is *)
(* the container or emulator process outside the control plane.            *)
(***************************************************************************)
EXTENDS Integers, Sequences, FiniteSets, Functions

CONSTANTS
    Session,       \* the ids create() draws; bounds the sessions of a run
    MaxSessions,   \* config.maxSessions
    AdbMin,        \* config.adbPortRange[0]
    AdbMax,        \* config.adbPortRange[1], exclusive
    StreamSpan,    \* width of the stream port range; 100 in the code
    MaxViewers,    \* bound on the sockets attached to one session
    Backends,      \* backends requested: "container", "emulator"
    Faults         \* environment faults: "boot", "stop", "death"

ASSUME ConstantsAssumption ==
    /\ MaxSessions \in Nat
    /\ AdbMin \in Nat \ {0}
    /\ AdbMax \in Nat
    /\ AdbMin <= AdbMax
    /\ StreamSpan \in Nat
    /\ MaxViewers \in Nat
    /\ Backends \subseteq {"container", "emulator"}
    /\ Faults \subseteq {"boot", "stop", "death"}

VARIABLES
    sessions,      \* keys of the registry Map
    state,         \* Session.state; "none" before create()
    backend,       \* Session.backend
    error,         \* Session.error is set
    adbPort,       \* Session.adbPort, NoPort while undefined
    streamPort,    \* Session.streamPort
    adbFree,       \* SessionManager.adbPorts.free
    streamFree,    \* SessionManager.streamPorts.free
    boot,          \* where #boot() is suspended
    stop,          \* where destroy() is suspended
    device,        \* the device outside the process
    stream,        \* Session.bridge and the ScrcpyStream behind it
    clients,       \* Session.bridge.clients.size
    idle           \* Date.now() - lastSeenAt > config.idleTimeoutMs

poolVars   == <<adbPort, streamPort, adbFree, streamFree>>
viewerVars == <<clients, idle>>
vars == <<sessions, state, backend, error, poolVars, boot, stop, device,
          stream, viewerVars>>

-----------------------------------------------------------------------------
(* PortPool *)

NoPort == 0

AdbPorts    == AdbMin .. (AdbMax - 1)
StreamPorts == AdbMax .. (AdbMax + StreamSpan - 1)

\* Fault: the upper end of the range taken as inclusive.
NewPoolInclusive(min, max) == [i \in 1 .. (max - min + 1) |-> min + i - 1]

NewPool(min, max) == [i \in 1 .. (max - min) |-> min + i - 1]

\* Faults: give() that does not look whether the port is already there, and
\* give() that makes the pool a stack.
GiveUnchecked(pool, port) ==
    IF port = NoPort THEN pool ELSE Append(pool, port)

GiveInFront(pool, port) ==
    IF port = NoPort \/ port \in Range(pool) THEN pool ELSE <<port>> \o pool

Give(pool, port) ==
    IF port = NoPort \/ port \in Range(pool) THEN pool ELSE Append(pool, port)

\* Fault: only the adb port is given back.
GiveAdbPort(s) ==
    /\ adbFree' = Give(adbFree, adbPort[s])
    /\ UNCHANGED streamFree

GivePorts(s) ==
    /\ adbFree' = Give(adbFree, adbPort[s])
    /\ streamFree' = Give(streamFree, streamPort[s])

-----------------------------------------------------------------------------
(* Devices.  A container exists once the daemon has acted on `docker run`; *)
(* an emulator is a child process from the moment it is spawned.           *)

\* A serial is a port and a kind of device, so adb reaches whichever device of
\* that kind has the port.
Reachable(s) ==
    \E t \in Session : /\ device[t] = "running"
                       /\ adbPort[t] = adbPort[s] /\ backend[t] = backend[s]

Bound(port) == \E t \in Session : device[t] = "running" /\ adbPort[t] = port

\* `docker stop` and `docker rm` act on a container that exists; a signal
\* reaches an emulator process whether or not it has finished starting.
Stoppable(s) ==
    \/ device[s] = "running"
    \/ device[s] = "pending" /\ backend[s] = "emulator"

DeviceComesUp(s) ==
    /\ device[s] = "pending"
    /\ ~Bound(adbPort[s])
    /\ device' = [device EXCEPT ![s] = "running"]
    /\ UNCHANGED <<sessions, state, backend, error, poolVars, boot, stop,
                   stream, viewerVars>>

DeviceStops(s) ==
    /\ Stoppable(s)
    /\ \/ stop[s] = "stopping"
       \/ stop[s] = "done" /\ backend[s] = "emulator"   \* SIGKILL 5s later
       \/ "death" \in Faults
    /\ device' = [device EXCEPT ![s] = "gone"]
    /\ UNCHANGED <<sessions, state, backend, error, poolVars, boot, stop,
                   stream, viewerVars>>

-----------------------------------------------------------------------------
(* destroy(): the synchronous part, for every session of S. *)

\* Fault: the registry entry outlives the synchronous part.
DestroyKeepingEntry(S) ==
    /\ state' = [s \in Session |-> IF s \in S THEN "stopping" ELSE state[s]]
    /\ stop' = [s \in Session |-> IF s \in S THEN "stopping" ELSE stop[s]]
    /\ stream' = [s \in Session |->
                    IF s \in S /\ stream[s] = "open" THEN "closed" ELSE stream[s]]
    /\ clients' = [s \in Session |-> IF s \in S THEN 0 ELSE clients[s]]
    /\ UNCHANGED sessions

Destroy(S) ==
    /\ sessions' = sessions \ S
    /\ state' = [s \in Session |-> IF s \in S THEN "stopping" ELSE state[s]]
    /\ stop' = [s \in Session |-> IF s \in S THEN "stopping" ELSE stop[s]]
    /\ stream' = [s \in Session |->
                    IF s \in S /\ stream[s] = "open" THEN "closed" ELSE stream[s]]
    /\ clients' = [s \in Session |-> IF s \in S THEN 0 ELSE clients[s]]

\* The rest of destroy(), once device.stop() has settled.
\* Fault: the registry is consulted again after the await.
DestroyEndsIfRegistered(s) ==
    /\ stop[s] = "stopping" /\ s \in sessions
    /\ backend[s] = "emulator" \/ device[s] # "running" \/ "stop" \in Faults
    /\ GivePorts(s)
    /\ stop' = [stop EXCEPT ![s] = "done"]
    /\ UNCHANGED <<sessions, state, backend, error, adbPort, streamPort, boot,
                   device, stream, viewerVars>>

DestroyEnds(s) ==
    /\ stop[s] = "stopping"
    /\ backend[s] = "emulator" \/ device[s] # "running" \/ "stop" \in Faults
    /\ GivePorts(s)
    /\ stop' = [stop EXCEPT ![s] = "done"]
    /\ UNCHANGED <<sessions, state, backend, error, adbPort, streamPort, boot,
                   device, stream, viewerVars>>

Delete(s) ==
    /\ s \in sessions
    /\ Destroy({s})
    /\ UNCHANGED <<backend, error, poolVars, boot, device, idle>>

\* Fault: only sessions whose stream is up are looked at.
ReapStreaming ==
    LET expired == {s \in sessions : /\ state[s] = "ready" /\ stream[s] = "open"
                                     /\ clients[s] = 0 /\ idle[s]}
    IN  /\ expired # {}
        /\ Destroy(expired)
        /\ UNCHANGED <<backend, error, poolVars, boot, device, idle>>

\* #reapIdle(), with idleMs evaluated for every registered session.
ReapIdle ==
    LET expired == {s \in sessions : state[s] = "ready" /\ clients[s] = 0 /\ idle[s]}
    IN  /\ expired # {}
        /\ Destroy(expired)
        /\ UNCHANGED <<backend, error, poolVars, boot, device, idle>>

-----------------------------------------------------------------------------
(* create() and #boot() *)

\* create() up to the first await of #boot(): the ports are taken, and the
\* device has been asked for, before the caller sees the session.
Create(s, b) ==
    /\ state[s] = "none"
    /\ Cardinality(sessions) < MaxSessions
    /\ adbFree # <<>> /\ streamFree # <<>>
    /\ sessions' = sessions \cup {s}
    /\ state' = [state EXCEPT ![s] = "starting"]
    /\ backend' = [backend EXCEPT ![s] = b]
    /\ adbPort' = [adbPort EXCEPT ![s] = Head(adbFree)]
    /\ streamPort' = [streamPort EXCEPT ![s] = Head(streamFree)]
    /\ adbFree' = Tail(adbFree)
    /\ streamFree' = Tail(streamFree)
    /\ boot' = [boot EXCEPT ![s] = IF b = "container" THEN "run" ELSE "wait"]
    /\ device' = [device EXCEPT ![s] = "pending"]
    /\ UNCHANGED <<error, stop, stream, viewerVars>>

\* take() throws before the try block: the session fails and is destroyed
\* within the same turn, and an adb port already taken is not recorded.
CreateWithoutPorts(s, b) ==
    /\ state[s] = "none"
    /\ Cardinality(sessions) < MaxSessions
    /\ adbFree = <<>> \/ streamFree = <<>>
    /\ adbFree' = IF adbFree = <<>> THEN <<>> ELSE Tail(adbFree)
    /\ state' = [state EXCEPT ![s] = "stopping"]
    /\ backend' = [backend EXCEPT ![s] = b]
    /\ error' = [error EXCEPT ![s] = TRUE]
    /\ boot' = [boot EXCEPT ![s] = "done"]
    /\ stop' = [stop EXCEPT ![s] = "done"]
    /\ UNCHANGED <<sessions, adbPort, streamPort, streamFree, device, stream,
                   viewerVars>>

\* `docker run` returns.
ContainerStarted(s) ==
    /\ boot[s] = "run"
    /\ device[s] \in {"running", "gone"}
    /\ boot' = [boot EXCEPT ![s] = "wait"]
    /\ UNCHANGED <<sessions, state, backend, error, poolVars, stop, device,
                   stream, viewerVars>>

\* device.start() resolves: adb is connected and Android has booted.
DeviceStarted(s) ==
    /\ boot[s] = "wait"
    /\ Reachable(s)
    /\ boot' = [boot EXCEPT ![s] =
                  IF state[s] = "stopping" THEN "done" ELSE "stream"]
    /\ UNCHANGED <<sessions, state, backend, error, poolVars, stop, device,
                   stream, viewerVars>>

\* stream.start() resolves; state is not looked at again.
StreamStarted(s) ==
    /\ boot[s] = "stream"
    /\ Reachable(s)
    /\ boot' = [boot EXCEPT ![s] = "done"]
    /\ stream' = [stream EXCEPT ![s] = "open"]
    /\ state' = [state EXCEPT ![s] = "ready"]
    /\ idle' = [idle EXCEPT ![s] = FALSE]
    /\ UNCHANGED <<sessions, backend, error, poolVars, stop, device, clients>>

\* Fault: waiting without a deadline.
CanFailOnError(s) ==
    /\ boot[s] \in {"run", "wait", "stream"}
    /\ \/ "boot" \in Faults
       \/ device[s] = "pending" /\ Bound(adbPort[s])

\* What an await of #boot() waits for has not happened and no longer can.
CanFail(s) ==
    /\ boot[s] \in {"run", "wait", "stream"}
    /\ \/ "boot" \in Faults
       \/ device[s] = "pending" /\ Bound(adbPort[s])
       \/ device[s] # "pending" /\ ~Reachable(s)

\* An await of #boot() rejects.  The catch block gives the ports back, the
\* caller's catch sets 'failed' and calls destroy(), which finds the session
\* only if nobody destroyed it meanwhile.  `docker run` fails because the
\* daemon refused, or because the client timed out and the daemon goes on.
BootFails(s) ==
    /\ CanFail(s)
    /\ boot' = [boot EXCEPT ![s] = "done"]
    /\ error' = [error EXCEPT ![s] = TRUE]
    /\ GivePorts(s)
    /\ \/ /\ device[s] # "pending" \/ "boot" \in Faults
          /\ UNCHANGED device
       \/ /\ device[s] = "pending"
          /\ device' = [device EXCEPT ![s] = "gone"]
    /\ IF s \in sessions
       THEN Destroy({s})
       ELSE /\ state' = [state EXCEPT ![s] = "failed"]
            /\ UNCHANGED <<sessions, stop, stream, clients>>
    /\ UNCHANGED <<backend, adbPort, streamPort, idle>>

-----------------------------------------------------------------------------
(* The bridge and its sockets. *)

\* Fault: the token is enough, whatever the state.
AttachAnyState(s) ==
    /\ s \in sessions
    /\ clients[s] < MaxViewers
    /\ clients' = [clients EXCEPT ![s] = @ + 1]
    /\ idle' = [idle EXCEPT ![s] = FALSE]
    /\ UNCHANGED <<sessions, state, backend, error, poolVars, boot, stop,
                   device, stream>>

\* The 'upgrade' handler finds the session by token, then attach().
Attach(s) ==
    /\ s \in sessions /\ state[s] = "ready"
    /\ clients[s] < MaxViewers
    /\ clients' = [clients EXCEPT ![s] = @ + 1]
    /\ idle' = [idle EXCEPT ![s] = FALSE]
    /\ UNCHANGED <<sessions, state, backend, error, poolVars, boot, stop,
                   device, stream>>

Detach(s) ==
    /\ clients[s] > 0
    /\ clients' = [clients EXCEPT ![s] = @ - 1]
    /\ idle' = [idle EXCEPT ![s] = FALSE]
    /\ UNCHANGED <<sessions, state, backend, error, poolVars, boot, stop,
                   device, stream>>

\* The server behind an open stream is gone: the 'close' handler of the bridge.
StreamCloses(s) ==
    /\ stream[s] = "open"
    /\ ~Reachable(s) \/ "death" \in Faults
    /\ stream' = [stream EXCEPT ![s] = "closed"]
    /\ clients' = [clients EXCEPT ![s] = 0]
    /\ UNCHANGED <<sessions, state, backend, error, poolVars, boot, stop,
                   device, idle>>

\* config.idleTimeoutMs passes without a touch().
IdleTimeout(s) ==
    /\ s \in sessions /\ state[s] = "ready" /\ ~idle[s]
    /\ idle' = [idle EXCEPT ![s] = TRUE]
    /\ UNCHANGED <<sessions, state, backend, error, poolVars, boot, stop,
                   device, stream, clients>>

-----------------------------------------------------------------------------
Init ==
    /\ sessions = {}
    /\ state = [s \in Session |-> "none"]
    /\ backend = [s \in Session |-> "none"]
    /\ error = [s \in Session |-> FALSE]
    /\ adbPort = [s \in Session |-> NoPort]
    /\ streamPort = [s \in Session |-> NoPort]
    /\ adbFree = NewPool(AdbMin, AdbMax)
    /\ streamFree = NewPool(AdbMax, AdbMax + StreamSpan)
    /\ boot = [s \in Session |-> "none"]
    /\ stop = [s \in Session |-> "none"]
    /\ device = [s \in Session |-> "none"]
    /\ stream = [s \in Session |-> "none"]
    /\ clients = [s \in Session |-> 0]
    /\ idle = [s \in Session |-> FALSE]

Next ==
    \/ \E s \in Session, b \in Backends : Create(s, b)
    \/ \E s \in Session, b \in Backends : CreateWithoutPorts(s, b)
    \/ \E s \in Session : ContainerStarted(s)
    \/ \E s \in Session : DeviceStarted(s)
    \/ \E s \in Session : StreamStarted(s)
    \/ \E s \in Session : BootFails(s)
    \/ \E s \in Session : Delete(s)
    \/ \E s \in Session : DestroyEnds(s)
    \/ ReapIdle
    \/ \E s \in Session : Attach(s)
    \/ \E s \in Session : Detach(s)
    \/ \E s \in Session : StreamCloses(s)
    \/ \E s \in Session : IdleTimeout(s)
    \/ \E s \in Session : DeviceComesUp(s)
    \/ \E s \in Session : DeviceStops(s)

Spec == Init /\ [][Next]_vars

-----------------------------------------------------------------------------
(* Properties *)

\* Every variable stays within the values the code gives it.
TypeOK ==
    /\ sessions \subseteq Session
    /\ state \in [Session -> {"none", "starting", "ready", "stopping", "failed"}]
    /\ backend \in [Session -> Backends \cup {"none"}]
    /\ error \in [Session -> BOOLEAN]
    /\ adbPort \in [Session -> AdbPorts \cup {NoPort}]
    /\ streamPort \in [Session -> StreamPorts \cup {NoPort}]
    /\ adbFree \in Seq(AdbPorts)
    /\ streamFree \in Seq(StreamPorts)
    /\ boot \in [Session -> {"none", "run", "wait", "stream", "done"}]
    /\ stop \in [Session -> {"none", "stopping", "done"}]
    /\ device \in [Session -> {"none", "pending", "running", "gone"}]
    /\ stream \in [Session -> {"none", "open", "closed"}]
    /\ clients \in [Session -> 0 .. MaxViewers]
    /\ idle \in [Session -> BOOLEAN]

Distinct(pool) == \A i, j \in DOMAIN pool : pool[i] = pool[j] => i = j

\* give() is called twice for one take() on several paths (the catch of #boot()
\* and the finally of destroy()); no pool ever lists a port twice for that.
PoolsDistinct == Distinct(adbFree) /\ Distinct(streamFree)

Holds(s) == adbPort[s] # NoPort /\ stop[s] # "done"

\* Whatever the order of failing boots and teardowns, a port that is not free
\* belongs to a session whose teardown has yet to give it back: none is lost.
NoPortLost ==
    /\ \A p \in AdbPorts : p \in Range(adbFree)
                            \/ \E s \in Session : Holds(s) /\ adbPort[s] = p
    /\ \A p \in StreamPorts : p \in Range(streamFree)
                            \/ \E s \in Session : Holds(s) /\ streamPort[s] = p

\* The pool is a queue, so the double give() lets two sessions share a port
\* only when the whole range has been handed out: no port was left unused.
ReuseOnlyAfterFullCycle ==
    \A s, t \in Session :
        s # t /\ Holds(s) /\ Holds(t) /\ adbPort[s] = adbPort[t]
            => \A p \in Range(adbFree) : \E u \in Session : adbPort[u] = p

\* A socket is attached only to a session that is registered, ready and bridged:
\* one deleted while booting may become 'ready' later, but out of reach.
ViewersOnlyOnLiveSessions ==
    \A s \in Session :
        clients[s] > 0 => /\ s \in sessions /\ state[s] = "ready"
                          /\ stop[s] = "none" /\ boot[s] = "done"
                          /\ stream[s] # "none"

\* What GET /api/sessions/:id shows of a session: its state, or 404.
phase ==
    [s \in Session |-> CASE state[s] = "none" -> "absent"
                         [] s \in sessions    -> state[s]
                         [] OTHER             -> "gone"]

Lifecycle == INSTANCE SessionLifecycle WITH viewers <- clients

\* To its clients the registry is SessionLifecycle, although #boot() and
\* destroy() interleave and a destroyed session's boot still assigns its state.
ImplementsLifecycle == Lifecycle!Spec

-----------------------------------------------------------------------------
(* What comments and documents of the repository say, and the code does not *)

\* PROTOCOL.md on polling: "`failed` sessions carry the reason in `error`".
FailureIsPollable ==
    [][\A s \in sessions : state[s] = "starting" /\ error'[s]
            => s \in sessions' /\ state'[s] = "failed"]_vars
=============================================================================
