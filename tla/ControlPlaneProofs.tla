-------------------------- MODULE ControlPlaneProofs --------------------------
(***************************************************************************)
(* However often the control plane is started, crashes or is told to stop: *)
(*                                                                         *)
(* - every container that runs while it serves is accounted for, and so is *)
(*   every container it leaves behind when it exits;                       *)
(* - its port pools keep what SessionManagerProofs says of them within one *)
(*   process, and sockets hang on its own ready sessions only;             *)
(* - a client sees SessionLifecycle until the process ends.                *)
(***************************************************************************)
EXTENDS ControlPlane, SessionManagerProofs

\* How the fields of a session go together across restarts: one of an earlier
\* process has a device and nothing else, an id not yet drawn has nothing.
SessionInv ==
    \A s \in Session :
        /\ state[s] = "none" => /\ s \notin sessions
                                /\ boot[s] = "none" /\ stop[s] = "none"
        /\ s \in sessions => stop[s] = "none"
        /\ s \in former => state[s] = "none"
        /\ s \notin former /\ state[s] = "none" => device[s] = "none"
                                                   /\ backend[s] = "none"

\* What each stage of the process implies.
StageInv ==
    /\ ~Serving => \A s \in Session : state[s] = "none"
    /\ process # "removing" => listed = {}

\* NoContainerForgotten for containers still being created too, and for what
\* `docker rm` has yet to remove.
LeftInv ==
    /\ Serving => \A s \in Session :
                     Outlasts(s) => s \in sessions \/ stop[s] = "stopping"
                                                   \/ s \in missed
    /\ process = "removing" => \A s \in Session :
                     Outlasts(s) => s \in listed \cup missed

\* Every session that was registered when the signal came is being torn down,
\* and the process waits for it.
ShutdownInv ==
    /\ process = "closing" =>
        /\ signalled \subseteq awaited
        /\ \A s \in signalled : /\ stop[s] # "none"
                                /\ Outlasts(s) /\ stop[s] = "done" => s \in missed
    /\ process = "down" => \A s \in signalled : Outlasts(s) => s \in missed

\* ProcessTypeOK without the registry's own types.
StageTypeOK ==
    /\ process \in {"listing", "removing", "up", "closing", "down", "crashed"}
    /\ starts \in 1 .. MaxStarts
    /\ former \subseteq Session
    /\ awaited \subseteq signalled /\ signalled \subseteq Session
    /\ listed \subseteq Containers /\ missed \subseteq Containers
    /\ sessions \cap former = {} /\ listed \subseteq former
    /\ ~Serving => sessions = {}

ProcessInv == StageTypeOK /\ SessionInv /\ StageInv /\ LeftInv /\ ShutdownInv

\* The registry's variables the invariant is about.
LEMMA Shapes ==
    ASSUME TypeOK
    PROVE  /\ sessions \subseteq Session
           /\ state \in [Session -> {"none", "starting", "ready", "stopping", "failed"}]
           /\ backend \in [Session -> Backends \cup {"none"}]
           /\ boot \in [Session -> {"none", "run", "wait", "stream", "done"}]
           /\ stop \in [Session -> {"none", "stopping", "done"}]
           /\ device \in [Session -> {"none", "pending", "running", "gone"}]
  BY DEF TypeOK

-----------------------------------------------------------------------------
(* Steps of a serving process *)

\* A step that leaves the registry, the teardowns and the kinds of device as
\* they are and brings no device to life that had ended keeps the invariant.
LEMMA QuietStep ==
    ASSUME TypeOK, ProcessInv, UNCHANGED processVars,
           UNCHANGED <<sessions, stop, backend>>,
           \A s \in Session :
             /\ device'[s] \in {"pending", "running"}
                  => device[s] \in {"pending", "running"}
             /\ device[s] = "none" => device'[s] = "none"
             /\ state'[s] = "none" <=> state[s] = "none"
             /\ state[s] = "none" => boot'[s] = boot[s]
    PROVE  ProcessInv'
<1> USE Shapes DEF ProcessInv, processVars, Containers, Serving, Outlasts
<1>1. StageTypeOK'
  BY DEF StageTypeOK
<1>2. SessionInv'
  BY DEF SessionInv
<1>3. StageInv'
  BY DEF StageInv
<1>4. LeftInv'
  BY DEF LeftInv
<1>5. ShutdownInv'
  BY DEF ShutdownInv, StageTypeOK
<1>6. QED BY <1>1, <1>2, <1>3, <1>4, <1>5

\* Registered sessions begin their teardown: DELETE, the reaper, a failed boot.
LEMMA TeardownStep ==
    ASSUME TypeOK, ProcessInv, UNCHANGED processVars, UNCHANGED backend,
           NEW S \in SUBSET sessions, Destroy(S),
           \A s \in Session :
             /\ device'[s] \in {"pending", "running"}
                  => device[s] \in {"pending", "running"}
             /\ device[s] = "none" => device'[s] = "none"
             /\ s \notin S => boot'[s] = boot[s]
    PROVE  ProcessInv'
<1> USE Shapes DEF ProcessInv, processVars, Containers, Serving, Outlasts, Destroy
<1>1. StageTypeOK'
  BY DEF StageTypeOK
<1>2. SessionInv'
  BY DEF SessionInv
<1>3. StageInv'
  BY DEF StageInv, StageTypeOK
<1>4. LeftInv'
  BY DEF LeftInv
<1>5. ShutdownInv'
  BY DEF ShutdownInv, StageTypeOK, SessionInv
<1>6. QED BY <1>1, <1>2, <1>3, <1>4, <1>5

\* create() draws an id no earlier process has left a device under.
LEMMA CreateStep ==
    ASSUME TypeOK, ProcessInv, UNCHANGED processVars, Serving,
           NEW s \in Session, NEW b \in Backends, s \notin former,
           Create(s, b) \/ CreateWithoutPorts(s, b)
    PROVE  ProcessInv'
<1> USE Shapes DEF ProcessInv, processVars, Containers, Serving, Outlasts
<1>1. /\ state[s] = "none" /\ stop[s] = "none"
      /\ device[s] = "none" /\ backend[s] = "none"
      /\ s \notin missed /\ s \notin listed
  BY DEF Create, CreateWithoutPorts, SessionInv, StageTypeOK
<1>2. CASE Create(s, b)
  <2>1. /\ sessions' = sessions \cup {s}
        /\ state' = [state EXCEPT ![s] = "starting"]
        /\ backend' = [backend EXCEPT ![s] = b]
        /\ device' = [device EXCEPT ![s] = "pending"]
        /\ \A t \in Session \ {s} : boot'[t] = boot[t]
        /\ UNCHANGED stop
    BY <1>2 DEF Create
  <2>2. StageTypeOK'
    BY <1>1, <2>1 DEF StageTypeOK
  <2>3. SessionInv'
    BY <1>1, <2>1 DEF SessionInv
  <2>4. StageInv'
    BY <2>1 DEF StageInv
  <2>5. LeftInv'
    BY <2>1 DEF LeftInv
  <2>6. ShutdownInv'
    BY <1>1, <2>1 DEF ShutdownInv, StageTypeOK
  <2>7. QED BY <2>2, <2>3, <2>4, <2>5, <2>6
<1>3. CASE CreateWithoutPorts(s, b)
  <2>1. /\ state' = [state EXCEPT ![s] = "stopping"]
        /\ backend' = [backend EXCEPT ![s] = b]
        /\ stop' = [stop EXCEPT ![s] = "done"]
        /\ \A t \in Session \ {s} : boot'[t] = boot[t]
        /\ UNCHANGED <<sessions, device>>
    BY <1>3 DEF CreateWithoutPorts
  <2>2. StageTypeOK'
    BY <1>1, <2>1 DEF StageTypeOK
  <2>3. SessionInv'
    BY <1>1, <2>1 DEF SessionInv
  <2>4. StageInv'
    BY <2>1 DEF StageInv
  <2>5. LeftInv'
    BY <1>1, <2>1 DEF LeftInv
  <2>6. ShutdownInv'
    BY <1>1, <2>1 DEF ShutdownInv, StageTypeOK
  <2>7. QED BY <2>2, <2>3, <2>4, <2>5, <2>6
<1>4. QED BY <1>2, <1>3

\* An await of #boot() rejects.
LEMMA BootFailsStep ==
    ASSUME TypeOK, ProcessInv, UNCHANGED processVars,
           NEW s \in Session, BootFails(s)
    PROVE  ProcessInv'
<1>1. /\ boot[s] \in {"run", "wait", "stream"} /\ state[s] # "none"
      /\ boot' = [boot EXCEPT ![s] = "done"]
      /\ \/ UNCHANGED device
         \/ device[s] = "pending" /\ device' = [device EXCEPT ![s] = "gone"]
      /\ UNCHANGED backend
  <2>1. boot[s] \in {"run", "wait", "stream"}
    BY DEF BootFails, CanFail
  <2>2. state[s] # "none"
    BY <2>1 DEF ProcessInv, SessionInv
  <2>3. QED BY <2>1, <2>2 DEF BootFails
<1>2. \A t \in Session :
        /\ device'[t] \in {"pending", "running"} => device[t] \in {"pending", "running"}
        /\ device[t] = "none" => device'[t] = "none"
  BY <1>1, Shapes
<1>3. CASE s \in sessions
  <2>1. Destroy({s})
    BY <1>3 DEF BootFails
  <2>2. {s} \in SUBSET sessions /\ \A t \in Session : t \notin {s} => boot'[t] = boot[t]
    BY <1>1, <1>3, Shapes
  <2>3. QED BY <1>1, <1>2, <2>1, <2>2, TeardownStep
<1>4. CASE s \notin sessions
  <2>1. state' = [state EXCEPT ![s] = "failed"] /\ UNCHANGED <<sessions, stop>>
    BY <1>4 DEF BootFails
  <2>2. \A t \in Session : /\ state'[t] = "none" <=> state[t] = "none"
                           /\ state[t] = "none" => boot'[t] = boot[t]
    BY <1>1, <2>1, Shapes
  <2>3. QED BY <1>1, <1>2, <2>1, <2>2, QuietStep
<1>5. QED BY <1>3, <1>4

\* destroy() ends; a container that outlasts it is a missed one.
LEMMA SettleStep ==
    ASSUME TypeOK, ProcessInv, NEW s \in Session, TeardownSettles(s)
    PROVE  ProcessInv'
<1> USE Shapes DEF ProcessInv, Containers, Serving, Outlasts
<1>1. /\ stop[s] = "stopping" /\ stop' = [stop EXCEPT ![s] = "done"]
      /\ UNCHANGED <<sessions, state, backend, boot, device>>
      /\ UNCHANGED <<process, starts, former, awaited, signalled, listed>>
      /\ missed' = IF Outlasts(s) THEN missed \cup {s} ELSE missed
  BY DEF TeardownSettles, DestroyEnds
<1>2. StageTypeOK'
  BY <1>1 DEF StageTypeOK
<1>3. SessionInv'
  BY <1>1 DEF SessionInv
<1>4. StageInv'
  BY <1>1 DEF StageInv
<1>5. LeftInv'
  BY <1>1 DEF LeftInv
<1>6. ShutdownInv'
  BY <1>1 DEF ShutdownInv, StageTypeOK
<1>7. QED BY <1>2, <1>3, <1>4, <1>5, <1>6

-----------------------------------------------------------------------------
(* Steps of the process, and of what it has left behind *)

\* `docker ps` has answered, or failed.
LEMMA ListStep ==
    ASSUME TypeOK, ProcessInv, ListOrphans
    PROVE  ProcessInv'
<1> USE Shapes DEF ProcessInv, Containers, Serving, Outlasts
<1>1. /\ process = "listing" /\ process' \in {"up", "removing"}
      /\ UNCHANGED <<vars, starts, former, awaited, signalled>>
      /\ listed' \subseteq {s \in Containers : device[s] = "running"}
      /\ missed' \subseteq Containers
      /\ process' = "up" => listed' = {}
      /\ \A s \in Session : Outlasts(s) => s \in listed' \cup missed'
  BY DEF ListOrphans, StageTypeOK
<1>2. UNCHANGED <<sessions, state, backend, boot, stop, device>>
  BY <1>1 DEF vars
<1>3. \A s \in Session : state[s] = "none"
  BY <1>1 DEF StageInv
<1>4. listed' \subseteq former
  BY <1>1, <1>3 DEF SessionInv
<1>5. StageTypeOK'
  BY <1>1, <1>2, <1>4 DEF StageTypeOK
<1>6. SessionInv'
  BY <1>1, <1>2 DEF SessionInv
<1>7. StageInv'
  BY <1>1, <1>2, <1>3 DEF StageInv
<1>8. LeftInv'
  BY <1>1, <1>2 DEF LeftInv
<1>9. ShutdownInv'
  BY <1>1, <1>2 DEF ShutdownInv
<1>10. QED BY <1>5, <1>6, <1>7, <1>8, <1>9

\* `docker rm` has removed what `docker ps` named, or failed.
LEMMA RemoveStep ==
    ASSUME TypeOK, ProcessInv, RemoveOrphans
    PROVE  ProcessInv'
<1> USE Shapes DEF ProcessInv, Containers, Serving, Outlasts
<1>1. /\ process = "removing" /\ process' = "up" /\ listed' = {}
      /\ UNCHANGED <<sessions, state, backend, boot, stop>>
      /\ UNCHANGED <<starts, former, awaited, signalled>>
  BY DEF RemoveOrphans
<1>2. \/ /\ device' = [s \in Session |-> IF s \in listed THEN "gone" ELSE device[s]]
         /\ UNCHANGED missed
      \/ missed' = missed \cup listed /\ UNCHANGED device
  BY DEF RemoveOrphans
<1>3. \A s \in Session : state[s] = "none"
  BY <1>1 DEF StageInv
<1>4. StageTypeOK'
  BY <1>1, <1>2 DEF StageTypeOK
<1>5. SessionInv'
  BY <1>1, <1>2 DEF SessionInv, StageTypeOK
<1>6. StageInv'
  BY <1>1 DEF StageInv
<1>7. LeftInv'
  BY <1>1, <1>2 DEF LeftInv
<1>8. ShutdownInv'
  BY <1>1 DEF ShutdownInv
<1>9. QED BY <1>4, <1>5, <1>6, <1>7, <1>8

\* SIGTERM or SIGINT: every registered session starts its teardown.
LEMMA SignalStep ==
    ASSUME TypeOK, ProcessInv, Signal
    PROVE  ProcessInv'
<1> USE Shapes DEF ProcessInv, Containers, Serving, Outlasts
<1>1. /\ process = "up" /\ process' = "closing"
      /\ awaited' = sessions /\ signalled' = sessions
      /\ UNCHANGED <<backend, boot, device, starts, former, listed, missed>>
  BY DEF Signal
<1>2. /\ sessions' = {}
      /\ state' = [s \in Session |-> IF s \in sessions THEN "stopping" ELSE state[s]]
      /\ stop' = [s \in Session |-> IF s \in sessions THEN "stopping" ELSE stop[s]]
  BY DEF Signal, Destroy
<1>3. StageTypeOK'
  BY <1>1, <1>2 DEF StageTypeOK
<1>4. SessionInv'
  BY <1>1, <1>2 DEF SessionInv, StageTypeOK
<1>5. StageInv'
  BY <1>1, <1>2 DEF StageInv
<1>6. LeftInv'
  BY <1>1, <1>2 DEF LeftInv
<1>7. ShutdownInv'
  BY <1>1, <1>2 DEF ShutdownInv
<1>8. QED BY <1>3, <1>4, <1>5, <1>6, <1>7

\* The process ends: devices that have not ended are all that is left.
LEMMA EndStep ==
    ASSUME TypeOK, ProcessInv, Exit \/ Crash
    PROVE  ProcessInv'
<1> USE Shapes DEF ProcessInv, Containers, Serving, Outlasts
<1> DEFINE left == {s \in Session : device[s] \in {"pending", "running"}}
<1>1. /\ former' = left
      /\ device' = [s \in Session |-> IF s \in left THEN device[s] ELSE "none"]
      /\ backend' = [s \in Session |-> IF s \in left THEN backend[s] ELSE "none"]
      /\ sessions' = {} /\ listed' = {} /\ missed' = missed \cap left
      /\ state' = [s \in Session |-> "none"]
      /\ boot' = [s \in Session |-> "none"]
      /\ stop' = [s \in Session |-> "none"]
      /\ UNCHANGED starts
  BY DEF Exit, Crash, Forget
<1>2. \/ /\ process = "closing" /\ process' = "down"
         /\ UNCHANGED <<awaited, signalled>>
         /\ \A s \in awaited : stop[s] = "done"
      \/ process' = "crashed" /\ awaited' = {} /\ signalled' = {}
  BY DEF Exit, Crash
<1>3. StageTypeOK'
  BY <1>1, <1>2 DEF StageTypeOK
<1>4. SessionInv'
  BY <1>1 DEF SessionInv
<1>5. StageInv'
  BY <1>1, <1>2 DEF StageInv
<1>6. LeftInv'
  BY <1>1, <1>2 DEF LeftInv
<1>7. ShutdownInv'
  <2>1. CASE process' = "crashed"
    BY <2>1 DEF ShutdownInv
  <2>2. CASE process = "closing" /\ process' = "down"
    <3>1. UNCHANGED <<awaited, signalled>> /\ \A s \in awaited : stop[s] = "done"
      BY <1>2, <2>2
    <3>2. \A s \in signalled : Outlasts(s) => s \in missed
      BY <2>2, <3>1 DEF ShutdownInv
    <3>3. QED BY <1>1, <2>2, <3>1, <3>2 DEF ShutdownInv, StageTypeOK
  <2>3. QED BY <1>2, <2>1, <2>2
<1>8. QED BY <1>3, <1>4, <1>5, <1>6, <1>7

\* The next process starts, and knows nothing.
LEMMA StartStep ==
    ASSUME TypeOK, ProcessInv, Start
    PROVE  ProcessInv'
<1> USE Shapes DEF ProcessInv, Containers, Serving, Outlasts
<1>1. /\ process \in {"down", "crashed"} /\ process' = "listing"
      /\ starts' \in 1 .. MaxStarts
      /\ awaited' = {} /\ signalled' = {}
      /\ UNCHANGED <<former, listed, missed>>
  BY StartsAssumption DEF Start, StageTypeOK
<1>2. UNCHANGED <<sessions, state, backend, boot, stop, device>>
  BY DEF Start, vars
<1>3. StageTypeOK'
  BY <1>1, <1>2 DEF StageTypeOK
<1>4. SessionInv'
  BY <1>1, <1>2 DEF SessionInv
<1>5. StageInv'
  BY <1>1, <1>2 DEF StageInv
<1>6. LeftInv' /\ ShutdownInv'
  BY <1>1 DEF LeftInv, ShutdownInv
<1>7. QED BY <1>3, <1>4, <1>5, <1>6

-----------------------------------------------------------------------------
(* The invariant *)

LEMMA ProcessInitInv == ProcessInit => TypeOK /\ ProcessInv
<1> SUFFICES ASSUME ProcessInit PROVE TypeOK /\ ProcessInv
  OBVIOUS
<1>1. TypeOK
  BY TypeOKInit DEF ProcessInit
<1>2. StageTypeOK
  BY StartsAssumption DEF ProcessInit, Init, StageTypeOK, Serving
<1>3. SessionInv /\ StageInv /\ LeftInv /\ ShutdownInv
  BY DEF ProcessInit, Init, SessionInv, StageInv, LeftInv, ShutdownInv, Serving
<1>4. QED BY <1>1, <1>2, <1>3 DEF ProcessInv

\* What the process does to the registry is a step of the registry, except that
\* it ends with the process and that devices of an earlier one go.
LEMMA ProcessTypes == TypeOK /\ ProcessInv /\ [ProcessNext]_allVars => TypeOK'
<1> SUFFICES ASSUME TypeOK, ProcessInv, [ProcessNext]_allVars PROVE TypeOK'
  OBVIOUS
<1>1. CASE [Next]_vars
  BY <1>1, TypeOKNext
<1>2. CASE ListOrphans \/ Start
  BY <1>2, <1>1 DEF ListOrphans, Start, vars
<1>3. CASE RemoveOrphans
  <2>1. device' \in [Session -> {"none", "pending", "running", "gone"}]
    BY <1>3, Shapes DEF RemoveOrphans
  <2>2. QED BY <1>3, <2>1 DEF RemoveOrphans, TypeOK, poolVars, viewerVars
<1>4. ASSUME NEW s \in Session, Requests(s) PROVE TypeOK'
  <2>1. Next
    BY <1>4 DEF Requests, Next
  <2>2. QED BY <1>1, <2>1
<1>5. ASSUME NEW s \in Session, Boots(s) \/ Falters(s) PROVE TypeOK'
  <2>1. Next
    BY <1>5 DEF Boots, Falters, Next
  <2>2. QED BY <1>1, <2>1
<1>6. ASSUME NEW s \in Session, TeardownSettles(s) \/ DaemonActs(s) PROVE TypeOK'
  <2>1. Next
    BY <1>6 DEF TeardownSettles, DaemonActs, Next
  <2>2. QED BY <1>1, <2>1
<1>7. CASE Reap
  BY <1>1, <1>7 DEF Reap, Next
<1>8. ASSUME NEW s \in Session, OrphanEnds(s) PROVE TypeOK'
  BY <1>8 DEF OrphanEnds, TypeOK, poolVars, viewerVars
<1>9. CASE Signal
  <2>1. 0 \in 0 .. MaxViewers
    BY ConstantsAssumption
  <2>2. QED BY <1>9, <2>1 DEF Signal, Destroy, TypeOK, poolVars
<1>10. CASE Exit \/ Crash
  <2>1. Forget
    BY <1>10 DEF Exit, Crash
  <2>2. 0 \in 0 .. MaxViewers
    BY ConstantsAssumption
  <2>3. adbFree' \in Seq(AdbPorts) /\ streamFree' \in Seq(StreamPorts)
    BY <2>1, NewPoolsTyped DEF Forget
  <2>4. QED BY <2>1, <2>2, <2>3 DEF Forget, TypeOK
<1>11. CASE UNCHANGED allVars
  BY <1>1, <1>11 DEF allVars
<1>12. QED BY <1>2, <1>3, <1>4, <1>5, <1>6, <1>7, <1>8, <1>9, <1>10, <1>11
           DEF ProcessNext

LEMMA ProcessNextInv ==
    TypeOK /\ ProcessInv /\ [ProcessNext]_allVars => ProcessInv'
<1> SUFFICES ASSUME TypeOK, ProcessInv, [ProcessNext]_allVars PROVE ProcessInv'
  OBVIOUS
<1>1. CASE ListOrphans
  BY <1>1, ListStep
<1>2. CASE RemoveOrphans
  BY <1>2, RemoveStep
<1>3. ASSUME NEW s \in Session, Requests(s) PROVE ProcessInv'
  <2>1. Serving /\ UNCHANGED processVars
    BY <1>3 DEF Requests
  <2>2. ASSUME NEW b \in Backends, s \notin former,
               Create(s, b) \/ CreateWithoutPorts(s, b)
        PROVE  ProcessInv'
    BY <2>1, <2>2, CreateStep
  <2>3. CASE Delete(s)
    <3>1. /\ {s} \in SUBSET sessions /\ Destroy({s})
          /\ UNCHANGED <<backend, boot, device>>
      BY <2>3 DEF Delete
    <3>2. QED BY <2>1, <3>1, TeardownStep
  <2>4. CASE Attach(s) \/ Detach(s)
    <3>1. UNCHANGED <<sessions, state, backend, boot, stop, device>>
      BY <2>4 DEF Attach, Detach
    <3>2. QED BY <2>1, <3>1, QuietStep
  <2>5. QED BY <1>3, <2>2, <2>3, <2>4 DEF Requests
<1>4. ASSUME NEW s \in Session, Boots(s) PROVE ProcessInv'
  <2>1. UNCHANGED processVars
    BY <1>4 DEF Boots
  <2>2. CASE BootFails(s)
    BY <2>1, <2>2, BootFailsStep
  <2>3. CASE ContainerStarted(s) \/ DeviceStarted(s) \/ StreamStarted(s)
    <3>1. /\ UNCHANGED <<sessions, backend, stop, device>>
          /\ boot[s] \in {"run", "wait", "stream"}
          /\ \A t \in Session \ {s} : boot'[t] = boot[t]
          /\ state' = state \/ state' = [state EXCEPT ![s] = "ready"]
      BY <2>3, Shapes DEF ContainerStarted, DeviceStarted, StreamStarted
    <3>2. state[s] # "none"
      BY <3>1 DEF ProcessInv, SessionInv
    <3>3. \A t \in Session : /\ state'[t] = "none" <=> state[t] = "none"
                             /\ state[t] = "none" => boot'[t] = boot[t]
      BY <3>1, <3>2, Shapes
    <3>4. QED BY <2>1, <3>1, <3>3, QuietStep
  <2>4. QED BY <1>4, <2>2, <2>3 DEF Boots
<1>5. ASSUME NEW s \in Session, Falters(s) PROVE ProcessInv'
  <2>1. /\ UNCHANGED processVars
        /\ UNCHANGED <<sessions, state, backend, boot, stop, device>>
    BY <1>5 DEF Falters, StreamCloses, IdleTimeout
  <2>2. QED BY <2>1, QuietStep
<1>6. CASE Reap
  <2>1. PICK S \in SUBSET sessions : Destroy(S) /\ UNCHANGED <<backend, boot, device>>
    BY <1>6 DEF Reap, ReapIdle
  <2>2. UNCHANGED processVars
    BY <1>6 DEF Reap
  <2>3. QED BY <2>1, <2>2, TeardownStep
<1>7. ASSUME NEW s \in Session, TeardownSettles(s) PROVE ProcessInv'
  BY <1>7, SettleStep
<1>8. ASSUME NEW s \in Session, DaemonActs(s) \/ OrphanEnds(s) PROVE ProcessInv'
  <2>1. UNCHANGED processVars
    BY <1>8 DEF DaemonActs, OrphanEnds
  <2>2. /\ UNCHANGED <<sessions, state, backend, boot, stop>>
        /\ device[s] \in {"pending", "running"}
        /\ \/ device[s] = "pending" /\ device' = [device EXCEPT ![s] = "running"]
           \/ device' = [device EXCEPT ![s] = "gone"]
    BY <1>8 DEF DaemonActs, OrphanEnds, DeviceComesUp, DeviceStops, Stoppable
  <2>3. \A t \in Session :
          /\ device'[t] \in {"pending", "running"} => device[t] \in {"pending", "running"}
          /\ device[t] = "none" => device'[t] = "none"
    BY <2>2, Shapes
  <2>4. QED BY <2>1, <2>2, <2>3, QuietStep
<1>9. CASE Signal
  BY <1>9, SignalStep
<1>10. CASE Exit \/ Crash
  BY <1>10, EndStep
<1>11. CASE Start
  BY <1>11, StartStep
<1>12. CASE UNCHANGED allVars
  <2>1. UNCHANGED processVars /\ UNCHANGED <<sessions, state, backend, boot, stop, device>>
    BY <1>12 DEF allVars, vars
  <2>2. QED BY <2>1, QuietStep
<1>13. QED BY <1>1, <1>2, <1>3, <1>4, <1>5, <1>6, <1>7, <1>8, <1>9, <1>10, <1>11,
              <1>12 DEF ProcessNext

LEMMA ProcessInvariant == ProcessSpec => [](TypeOK /\ ProcessInv)
BY ProcessInitInv, ProcessTypes, ProcessNextInv, PTL DEF ProcessSpec

\* The types survive a restart; only a serving process has sessions, and none of
\* them is a session of an earlier process.
THEOREM ProcessTypeCorrect == ProcessSpec => []ProcessTypeOK
<1>1. TypeOK /\ ProcessInv => ProcessTypeOK
  BY DEF ProcessInv, StageTypeOK, ProcessTypeOK
<1>2. QED BY <1>1, ProcessInvariant, PTL

\* Whatever crashed before, a container that runs while the server is up is a
\* session's, is being stopped, or slipped through a `docker` command.
THEOREM ContainersAccountedFor == ProcessSpec => []NoContainerForgotten
<1>1. TypeOK /\ ProcessInv => NoContainerForgotten
  BY DEF ProcessInv, LeftInv, NoContainerForgotten, Serving, Outlasts, Containers
<1>2. QED BY <1>1, ProcessInvariant, PTL

\* A shutdown waits for the teardown of every session that was registered when
\* the signal came, whatever is created or booted meanwhile.
THEOREM ShutdownLeavesNone == ProcessSpec => []ShutdownStopsContainers
<1>1. TypeOK /\ ProcessInv => ShutdownStopsContainers
  BY DEF ProcessInv, ShutdownInv, StageTypeOK, ShutdownStopsContainers, Outlasts,
         Containers
<1>2. QED BY <1>1, ProcessInvariant, PTL

-----------------------------------------------------------------------------
(* The registry across restarts *)

\* Every step of the process is one on the ports that the registry knows, or the
\* end of the process.
LEMMA RegistryStep ==
    ASSUME TypeOK, ProcessInv, RegistryInv, Portless(former), [ProcessNext]_allVars
    PROVE  (PortStep /\ RegistryInv' /\ former' = former) \/ Forget
<1> DEFINE Goal == PortStep /\ RegistryInv' /\ former' = former
<1>0. ASSUME former' = former, [Next]_vars PROVE Goal
  <2>1. ProcessInv'
    BY ProcessNextInv
  <2>2. \A s \in former \cap Session : state'[s] = "none"
    BY <1>0, <2>1 DEF ProcessInv, SessionInv
  <2>3. PortStep
    BY <1>0, <2>2, PortSteps
  <2>4. QED BY <1>0, <2>3, RegistryNext
<1>1. ASSUME former' = former,
             UNCHANGED <<sessions, state, poolVars, boot, stop, stream, clients>>
      PROVE  Goal
  <2>1. PortStep
    BY <1>1 DEF PortStep, Untouched, Drawn, poolVars
  <2>2. RegistryInv'
    BY <1>1 DEF RegistryInv
  <2>3. QED BY <1>1, <2>1, <2>2
<1>2. CASE ListOrphans \/ Start
  BY <1>0, <1>2 DEF ListOrphans, Start
<1>3. CASE RemoveOrphans
  BY <1>1, <1>3 DEF RemoveOrphans, viewerVars
<1>4. ASSUME NEW s \in Session, OrphanEnds(s) PROVE Goal
  BY <1>1, <1>4 DEF OrphanEnds, viewerVars, processVars
<1>5. ASSUME NEW s \in Session, Requests(s) PROVE Goal
  BY <1>0, <1>5 DEF Requests, processVars, Next
<1>6. ASSUME NEW s \in Session, Boots(s) \/ Falters(s) PROVE Goal
  BY <1>0, <1>6 DEF Boots, Falters, processVars, Next
<1>7. ASSUME NEW s \in Session, TeardownSettles(s) \/ DaemonActs(s) PROVE Goal
  BY <1>0, <1>7 DEF TeardownSettles, DaemonActs, processVars, Next
<1>8. CASE Reap
  BY <1>0, <1>8 DEF Reap, processVars, Next
<1>9. CASE Signal
  <2>1. /\ Destroy(sessions) /\ UNCHANGED <<poolVars, boot>> /\ former' = former
        /\ sessions \subseteq Session
    BY <1>9 DEF Signal, TypeOK
  <2>2. /\ sessions' = {}
        /\ state' = [s \in Session |-> IF s \in sessions THEN "stopping" ELSE state[s]]
        /\ stop' = [s \in Session |-> IF s \in sessions THEN "stopping" ELSE stop[s]]
        /\ clients' = [s \in Session |-> IF s \in sessions THEN 0 ELSE clients[s]]
    BY <2>1 DEF Destroy
  <2>3. RegistryInv'
    BY <2>1, <2>2 DEF RegistryInv
  <2>4. Drawn' = Drawn
    BY <2>2 DEF Drawn, RegistryInv
  <2>5. PortStep
    BY <2>1, <2>2, <2>4, Shapes DEF RegistryInv, PortStep, Untouched, poolVars
  <2>6. QED BY <2>1, <2>3, <2>5
<1>10. CASE Exit \/ Crash
  BY <1>10 DEF Exit, Crash
<1>11. CASE UNCHANGED allVars
  BY <1>0, <1>11 DEF allVars, processVars
<1>12. QED BY <1>2, <1>3, <1>4, <1>5, <1>6, <1>7, <1>8, <1>9, <1>10, <1>11
           DEF ProcessNext

\* SessionManager's invariants, where the ids of earlier processes keep the ports
\* of the devices they have left.
AcrossInv == RegistryInv /\ Portless(former) /\ PoolsDistinct /\ CycleInv

LEMMA AcrossInit == ProcessInit => AcrossInv
<1> SUFFICES ASSUME ProcessInit PROVE AcrossInv
  OBVIOUS
<1>1. Init /\ former = {}
  BY DEF ProcessInit
<1>2. QED BY <1>1, PoolInit, CycleInit DEF PoolInv, AcrossInv

\* The next process starts with whole pools and no sessions.
LEMMA ForgetAcross == Forget => AcrossInv'
<1> SUFFICES ASSUME Forget PROVE AcrossInv'
  OBVIOUS
<1>1. Drawn' = {}
  BY DEF Forget, Drawn
<1>2. RegistryInv'
  BY DEF Forget, RegistryInv
<1>3. Portless(former)'
  BY DEF Forget, Portless
<1>4. PoolsDistinct'
  BY NewPools DEF Forget, PoolsDistinct
<1>5. CycleInv'
  <2>1. Used' = {}
    BY <1>1 DEF Used
  <2>2. QED BY <1>1, <2>1 DEF CycleInv, FreshFirst, SharedAfterCycle
<1>6. QED BY <1>2, <1>3, <1>4, <1>5 DEF AcrossInv

LEMMA AcrossNext ==
    TypeOK /\ ProcessInv /\ AcrossInv /\ [ProcessNext]_allVars => AcrossInv'
<1> SUFFICES ASSUME TypeOK, ProcessInv, AcrossInv, [ProcessNext]_allVars
             PROVE  AcrossInv'
  OBVIOUS
<1>1. (PortStep /\ RegistryInv' /\ former' = former) \/ Forget
  BY RegistryStep DEF AcrossInv
<1>2. CASE PortStep /\ RegistryInv' /\ former' = former
  <2>1. PICK F : F = former
    OBVIOUS
  <2>2. Portless(F)
    BY <2>1 DEF AcrossInv
  <2>3. Portless(F)'
    BY <1>2, <2>2, PortlessStep
  <2>4. Portless(former)'
    BY <1>2, <2>1, <2>3 DEF Portless
  <2>5. PoolsDistinct'
    BY <1>2, DistinctStep DEF AcrossInv
  <2>6. CycleInv'
    BY <1>2, CycleStep DEF AcrossInv
  <2>7. QED BY <1>2, <2>4, <2>5, <2>6 DEF AcrossInv
<1>3. CASE Forget
  BY <1>3, ForgetAcross
<1>4. QED BY <1>1, <1>2, <1>3

LEMMA AcrossInvariant == ProcessSpec => [](TypeOK /\ ProcessInv /\ AcrossInv)
BY ProcessInvariant, AcrossInit, AcrossNext, PTL DEF ProcessSpec

\* Neither the double give() nor a restart puts a port in a pool twice.
THEOREM RestartsKeepPoolsDistinct == ProcessSpec => []PoolsDistinct
<1>1. AcrossInv => PoolsDistinct
  BY DEF AcrossInv
<1>2. QED BY <1>1, AcrossInvariant, PTL

\* Two sessions of one process share an adb port only when that process has had
\* every port that is free, whatever earlier processes have left running.
THEOREM ProcessSharesAfterCycle == ProcessSpec => []SharedAfterCycle
<1>1. AcrossInv => SharedAfterCycle
  BY DEF AcrossInv, CycleInv
<1>2. QED BY <1>1, AcrossInvariant, PTL

\* A socket hangs on a registered, ready session of this process, also while the
\* process shuts down and after it has come back.
THEOREM ProcessViewersLive == ProcessSpec => []ViewersOnlyOnLiveSessions
<1>1. TypeOK /\ AcrossInv => ViewersOnlyOnLiveSessions
  BY DEF TypeOK, AcrossInv, RegistryInv, ViewersOnlyOnLiveSessions
<1>2. QED BY <1>1, AcrossInvariant, PTL

\* Failing boots, teardowns, shutdowns and crashes in any order lose no port, for
\* ranges of the same width.
THEOREM ProcessLosesNoPort ==
    ASSUME StreamSpan = AdbMax - AdbMin
    PROVE  ProcessSpec => []NoPortLost
<1> DEFINE Inv == TypeOK /\ ProcessInv /\ AcrossInv
           PortInv == InStep /\ NoPortLost
<1>0. StreamSpan = Width
  BY DEF Width
<1>1. ProcessInit => PortInv
  BY <1>0, InStepInit, NoPortLostInit DEF ProcessInit
<1>2. Inv /\ PortInv /\ [ProcessNext]_allVars => PortInv'
  <2> SUFFICES ASSUME Inv, PortInv, [ProcessNext]_allVars PROVE PortInv'
    OBVIOUS
  <2>1. PortStep \/ Forget
    BY RegistryStep DEF AcrossInv
  <2>2. CASE PortStep
    BY <2>2, InStepStep, NoPortLostStep
  <2>3. CASE Forget
    <3>1. Drawn' = {}
      BY <2>3 DEF Forget, Drawn
    <3>2. InStep'
      BY <1>0, <2>3, <3>1, NewPoolsInStep DEF Forget, InStep
    <3>3. NoPortLost'
      BY <2>3, NewPools DEF Forget, NoPortLost
    <3>4. QED BY <3>2, <3>3
  <2>4. QED BY <2>1, <2>2, <2>3
<1>3. ProcessSpec => []Inv
  BY AcrossInvariant
<1>4. PortInv => NoPortLost
  OBVIOUS
<1> HIDE DEF Inv, PortInv
<1>5. QED BY <1>1, <1>2, <1>3, <1>4, PTL DEF ProcessSpec

-----------------------------------------------------------------------------
(* The API across restarts *)

\* What a client sees of the end of the process: no id is known any more.
EndOfProcess ==
    /\ process' \in {"down", "crashed"}
    /\ phase' = [s \in Session |-> "absent"]
    /\ clients' = [s \in Session |-> 0]

\* SessionLifecycle, but for the ends of processes.
ProcessLifecycle ==
    Lifecycle!Init /\ [][Lifecycle!Next \/ EndOfProcess]_<<phase, clients>>

LEMMA LifecycleStep ==
    TypeOK /\ ProcessInv /\ AcrossInv /\ [ProcessNext]_allVars
        => [Lifecycle!Next \/ EndOfProcess]_<<phase, clients>>
<1> SUFFICES ASSUME TypeOK, ProcessInv, AcrossInv, [ProcessNext]_allVars
             PROVE  [Lifecycle!Next \/ EndOfProcess]_<<phase, clients>>
  OBVIOUS
<1> DEFINE Goal == [Lifecycle!Next \/ EndOfProcess]_<<phase, clients>>
<1>0. ASSUME [Next]_vars PROVE Goal
  <2>1. RegistryInv
    BY DEF AcrossInv
  <2>2. [Lifecycle!Next]_<<phase, clients>>
    BY <1>0, <2>1, LifecycleNext
  <2>3. QED BY <2>2
<1>1. ASSUME UNCHANGED <<sessions, state, clients>> PROVE Goal
  BY <1>1 DEF phase
<1>2. CASE ListOrphans \/ Start
  BY <1>0, <1>2 DEF ListOrphans, Start
<1>3. CASE RemoveOrphans
  BY <1>1, <1>3 DEF RemoveOrphans, viewerVars
<1>4. ASSUME NEW s \in Session, OrphanEnds(s) PROVE Goal
  BY <1>1, <1>4 DEF OrphanEnds, viewerVars
<1>5. ASSUME NEW s \in Session, Requests(s) PROVE Goal
  BY <1>0, <1>5 DEF Requests, Next
<1>6. ASSUME NEW s \in Session, Boots(s) \/ Falters(s) PROVE Goal
  BY <1>0, <1>6 DEF Boots, Falters, Next
<1>7. ASSUME NEW s \in Session, TeardownSettles(s) \/ DaemonActs(s) PROVE Goal
  BY <1>0, <1>7 DEF TeardownSettles, DaemonActs, Next
<1>8. CASE Reap
  BY <1>0, <1>8 DEF Reap, Next
<1>9. CASE Signal
  <2>1. Lifecycle!End(sessions)
    <3>1. RegistryInv /\ Destroy(sessions) /\ sessions \in SUBSET sessions
      BY <1>9 DEF Signal, AcrossInv
    <3>2. QED BY <3>1, DestroyEndsPhase
  <2>2. sessions \in SUBSET Lifecycle!Live
    BY LiveIsRegistered DEF AcrossInv
  <2>3. Lifecycle!Next
    BY <2>1, <2>2 DEF Lifecycle!Next
  <2>4. QED BY <2>3
<1>10. CASE Exit \/ Crash
  <2>1. phase' = [s \in Session |-> "absent"]
    BY <1>10 DEF Exit, Crash, Forget, phase
  <2>2. EndOfProcess
    BY <1>10, <2>1 DEF Exit, Crash, Forget, EndOfProcess
  <2>3. QED BY <2>2
<1>11. CASE UNCHANGED allVars
  BY <1>1, <1>11 DEF allVars, vars, viewerVars
<1>12. QED BY <1>2, <1>3, <1>4, <1>5, <1>6, <1>7, <1>8, <1>9, <1>10, <1>11
           DEF ProcessNext

\* Until the process ends, a client of the API sees a SessionLifecycle, the
\* startup, the shutdown and what late requests do during it included; the end of
\* the process is the only step that is none of its steps, and it leaves nothing.
THEOREM ProcessImplementsLifecycle == ProcessSpec => ProcessLifecycle
<1>1. ProcessInit => Lifecycle!Init
  BY LifecycleInit DEF ProcessInit
<1>2. QED BY <1>1, LifecycleStep, AcrossInvariant, PTL DEF ProcessSpec, ProcessLifecycle
=============================================================================
