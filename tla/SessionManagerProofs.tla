------------------------- MODULE SessionManagerProofs -------------------------
(***************************************************************************)
(* Theorems about SessionManager, for any number of sessions, any limit,   *)
(* any port range, both backends and every choice of faults.               *)
(***************************************************************************)
EXTENDS SessionManager, SequenceTheorems, TLAPS

-----------------------------------------------------------------------------
(* The port pool *)

\* PortPool.take() on a pool that is not empty: the pool stays a pool of the
\* same ports and gains no duplicate.
LEMMA TakeFromPool ==
    ASSUME NEW S, NEW q \in Seq(S), q # <<>>
    PROVE  /\ Head(q) \in S
           /\ Tail(q) \in Seq(S)
           /\ Range(q) = Range(Tail(q)) \cup {Head(q)}
           /\ Distinct(q) => Distinct(Tail(q))
<1>1. /\ Head(q) \in S /\ Tail(q) \in Seq(S)
      /\ Len(Tail(q)) = Len(q) - 1
      /\ \A i \in 1 .. Len(Tail(q)) : Tail(q)[i] = q[i + 1]
  BY HeadTailProperties
<1>2. /\ DOMAIN q = 1 .. Len(q) /\ DOMAIN Tail(q) = 1 .. Len(Tail(q))
      /\ Len(q) \in Nat \ {0} /\ Len(Tail(q)) \in Nat
  BY <1>1, LenProperties, EmptySeq
<1>3. Head(q) = q[1]
  OBVIOUS
<1>4. Range(q) = Range(Tail(q)) \cup {Head(q)}
  <2>1. ASSUME NEW x \in Range(q) PROVE x \in Range(Tail(q)) \cup {Head(q)}
    <3>1. PICK i \in 1 .. Len(q) : x = q[i]
      BY <1>2 DEF Range
    <3>2. CASE i = 1
      BY <3>1, <3>2, <1>3
    <3>3. CASE i # 1
      <4>1. i - 1 \in 1 .. Len(Tail(q)) /\ Tail(q)[i - 1] = q[i]
        BY <3>1, <3>3, <1>1, <1>2
      <4>2. QED BY <4>1, <3>1, <1>2 DEF Range
    <3>4. QED BY <3>2, <3>3
  <2>2. ASSUME NEW x \in Range(Tail(q)) \cup {Head(q)} PROVE x \in Range(q)
    <3>1. CASE x = Head(q)
      <4>1. 1 \in 1 .. Len(q)
        BY <1>2
      <4>2. QED BY <4>1, <3>1, <1>2, <1>3 DEF Range
    <3>2. CASE x \in Range(Tail(q))
      <4>1. PICK i \in 1 .. Len(Tail(q)) : x = Tail(q)[i]
        BY <3>2, <1>2 DEF Range
      <4>2. i + 1 \in 1 .. Len(q) /\ x = q[i + 1]
        BY <4>1, <1>1, <1>2
      <4>3. QED BY <4>2, <1>2 DEF Range
    <3>3. QED BY <2>2, <3>1, <3>2
  <2>3. QED BY <2>1, <2>2
<1>5. Distinct(q) => Distinct(Tail(q))
  <2>1. SUFFICES ASSUME Distinct(q),
                        NEW i \in 1 .. Len(Tail(q)), NEW j \in 1 .. Len(Tail(q)),
                        Tail(q)[i] = Tail(q)[j]
                 PROVE  i = j
    BY <1>2 DEF Distinct
  <2>2. /\ i + 1 \in 1 .. Len(q) /\ j + 1 \in 1 .. Len(q)
        /\ q[i + 1] = q[j + 1]
    BY <2>1, <1>1, <1>2
  <2>3. i + 1 = j + 1
    BY <2>1, <2>2, <1>2 DEF Distinct
  <2>4. QED BY <2>3
<1>6. QED BY <1>1, <1>4, <1>5

\* PortPool.give(): the port is in the pool afterwards, and in it once.
LEMMA GiveToPool ==
    ASSUME NEW S, NEW q \in Seq(S), NEW p \in S \cup {NoPort}
    PROVE  /\ Give(q, p) \in Seq(S)
           /\ Range(Give(q, p)) = IF p = NoPort THEN Range(q) ELSE Range(q) \cup {p}
           /\ Distinct(q) => Distinct(Give(q, p))
<1>1. CASE p = NoPort \/ p \in Range(q)
  BY <1>1 DEF Give
<1>2. CASE ~(p = NoPort \/ p \in Range(q))
  <2>1. Give(q, p) = Append(q, p) /\ p \in S
    BY <1>2 DEF Give
  <2>2. /\ Append(q, p) \in Seq(S) /\ Len(Append(q, p)) = Len(q) + 1
        /\ \A i \in 1 .. Len(q) : Append(q, p)[i] = q[i]
        /\ Append(q, p)[Len(q) + 1] = p
    BY <2>1
  <2>3. /\ DOMAIN q = 1 .. Len(q) /\ Len(q) \in Nat
        /\ DOMAIN Append(q, p) = 1 .. (Len(q) + 1)
    BY <2>2, LenProperties
  <2>4. Range(Append(q, p)) = Range(q) \cup {p}
    <3>1. ASSUME NEW x \in Range(Append(q, p)) PROVE x \in Range(q) \cup {p}
      <4>1. PICK i \in 1 .. (Len(q) + 1) : x = Append(q, p)[i]
        BY <2>3 DEF Range
      <4>2. i \in 1 .. Len(q) \/ i = Len(q) + 1
        BY <2>3
      <4>3. QED BY <4>1, <4>2, <2>2, <2>3 DEF Range
    <3>2. ASSUME NEW x \in Range(q) \cup {p} PROVE x \in Range(Append(q, p))
      <4>1. CASE x = p
        <5>1. Len(q) + 1 \in 1 .. (Len(q) + 1)
          BY <2>3
        <5>2. QED BY <5>1, <4>1, <2>2, <2>3 DEF Range
      <4>2. CASE x \in Range(q)
        <5>1. PICK i \in 1 .. Len(q) : x = q[i]
          BY <4>2, <2>3 DEF Range
        <5>2. i \in 1 .. (Len(q) + 1)
          BY <2>3
        <5>3. QED BY <5>1, <5>2, <2>2, <2>3 DEF Range
      <4>3. QED BY <3>2, <4>1, <4>2
    <3>3. QED BY <3>1, <3>2
  <2>5. Distinct(q) => Distinct(Append(q, p))
    <3>1. SUFFICES ASSUME Distinct(q),
                          NEW i \in 1 .. (Len(q) + 1), NEW j \in 1 .. (Len(q) + 1),
                          Append(q, p)[i] = Append(q, p)[j]
                   PROVE  i = j
      BY <2>3 DEF Distinct
    <3>2. \A k \in 1 .. Len(q) : Append(q, p)[k] # p
      BY <1>2, <2>2, <2>3 DEF Range
    <3>3. CASE i \in 1 .. Len(q) /\ j \in 1 .. Len(q)
      BY <3>1, <3>3, <2>2, <2>3 DEF Distinct
    <3>4. CASE i = Len(q) + 1 \/ j = Len(q) + 1
      <4>1. Append(q, p)[i] = p /\ Append(q, p)[j] = p
        BY <3>1, <3>4, <2>2
      <4>2. i \notin 1 .. Len(q) /\ j \notin 1 .. Len(q)
        BY <4>1, <3>2
      <4>3. QED BY <4>2, <2>3
    <3>5. QED BY <3>3, <3>4, <2>3
  <2>6. QED BY <1>2, <2>1, <2>2, <2>4, <2>5
<1>3. QED BY <1>1, <1>2

\* A new pool holds its range in order, once each.
LEMMA NewPoolIsPool ==
    ASSUME NEW min \in Nat, NEW max \in Nat, min <= max
    PROVE  /\ NewPool(min, max) \in Seq(min .. (max - 1))
           /\ Range(NewPool(min, max)) = min .. (max - 1)
           /\ Distinct(NewPool(min, max))
<1> DEFINE n == max - min
           q == NewPool(min, max)
<1>1. n \in Nat /\ q = [i \in 1 .. n |-> min + i - 1]
  BY DEF NewPool
<1>2. DOMAIN q = 1 .. n /\ \A i \in 1 .. n : q[i] = min + i - 1
  BY <1>1
<1>3. q \in Seq(min .. (max - 1))
  BY <1>1, \A i \in 1 .. n : min + i - 1 \in min .. (max - 1), SeqDef
<1>4. Range(q) = min .. (max - 1)
  <2>1. ASSUME NEW x \in min .. (max - 1) PROVE x \in Range(q)
    <3>1. x - min + 1 \in 1 .. n
      BY <2>1
    <3>2. q[x - min + 1] = x
      BY <3>1, <1>2
    <3>3. QED BY <3>1, <3>2, <1>2 DEF Range
  <2>2. ASSUME NEW x \in Range(q) PROVE x \in min .. (max - 1)
    <3>1. PICK i \in 1 .. n : x = q[i]
      BY <1>2 DEF Range
    <3>2. QED BY <3>1, <1>2
  <2>3. QED BY <2>1, <2>2
<1>5. Distinct(q)
  BY <1>2 DEF Distinct
<1>6. QED BY <1>3, <1>4, <1>5

-----------------------------------------------------------------------------
(* Type correctness *)

LEMMA PortsTyped ==
    /\ NoPort \notin AdbPorts /\ NoPort \notin StreamPorts
    /\ AdbMax \in Nat /\ AdbMin \in Nat /\ AdbMin <= AdbMax
    /\ AdbMax + StreamSpan \in Nat /\ AdbMax <= AdbMax + StreamSpan
BY ConstantsAssumption DEF NoPort, AdbPorts, StreamPorts

\* Both pools and both port fields stay typed when a session gives its ports.
LEMMA GivePortsTyped ==
    ASSUME TypeOK, NEW s \in Session, GivePorts(s)
    PROVE  adbFree' \in Seq(AdbPorts) /\ streamFree' \in Seq(StreamPorts)
<1>1. /\ adbFree \in Seq(AdbPorts) /\ streamFree \in Seq(StreamPorts)
      /\ adbPort[s] \in AdbPorts \cup {NoPort}
      /\ streamPort[s] \in StreamPorts \cup {NoPort}
  BY DEF TypeOK
<1>2. QED BY <1>1, GiveToPool DEF GivePorts

\* The two pools a manager starts with.
LEMMA NewPoolsTyped ==
    /\ NewPool(AdbMin, AdbMax) \in Seq(AdbPorts)
    /\ NewPool(AdbMax, AdbMax + StreamSpan) \in Seq(StreamPorts)
<1>1. NewPool(AdbMin, AdbMax) \in Seq(AdbMin .. (AdbMax - 1))
  BY NewPoolIsPool, PortsTyped
<1> DEFINE top == AdbMax + StreamSpan
<1>2. top \in Nat /\ AdbMax <= top /\ AdbMax \in Nat
  BY PortsTyped
<1> HIDE DEF top
<1>3. NewPool(AdbMax, top) \in Seq(AdbMax .. (top - 1))
  BY <1>2, NewPoolIsPool
<1>4. StreamPorts = AdbMax .. (top - 1)
  BY ConstantsAssumption DEF StreamPorts, top
<1>5. NewPool(AdbMax, AdbMax + StreamSpan) = NewPool(AdbMax, top)
  BY DEF top
<1>6. QED BY <1>1, <1>3, <1>4, <1>5 DEF AdbPorts

LEMMA TypeOKInit == Init => TypeOK
<1>1. 0 \in 0 .. MaxViewers
  BY ConstantsAssumption
<1> SUFFICES ASSUME Init PROVE TypeOK
  OBVIOUS
<1>2. adbFree \in Seq(AdbPorts) /\ streamFree \in Seq(StreamPorts)
  BY NewPoolsTyped DEF Init
<1>3. QED BY <1>1, <1>2 DEF Init, TypeOK

LEMMA TypeOKNext == TypeOK /\ [Next]_vars => TypeOK'
<1> SUFFICES ASSUME TypeOK, [Next]_vars PROVE TypeOK'
  OBVIOUS
<1> USE DEF TypeOK
<1>1. ASSUME NEW s \in Session, NEW b \in Backends, Create(s, b) PROVE TypeOK'
  <2>1. /\ Head(adbFree) \in AdbPorts /\ Tail(adbFree) \in Seq(AdbPorts)
        /\ Head(streamFree) \in StreamPorts /\ Tail(streamFree) \in Seq(StreamPorts)
    BY <1>1, TakeFromPool DEF Create
  <2>2. QED BY <1>1, <2>1 DEF Create, viewerVars
<1>2. ASSUME NEW s \in Session, NEW b \in Backends, CreateWithoutPorts(s, b)
      PROVE  TypeOK'
  <2>1. adbFree' \in Seq(AdbPorts)
    BY <1>2, TakeFromPool DEF CreateWithoutPorts
  <2>2. QED BY <1>2, <2>1 DEF CreateWithoutPorts, viewerVars
<1>3. ASSUME NEW s \in Session, ContainerStarted(s) PROVE TypeOK'
  BY <1>3 DEF ContainerStarted, poolVars, viewerVars
<1>4. ASSUME NEW s \in Session, DeviceStarted(s) PROVE TypeOK'
  BY <1>4 DEF DeviceStarted, poolVars, viewerVars
<1>5. ASSUME NEW s \in Session, StreamStarted(s) PROVE TypeOK'
  BY <1>5 DEF StreamStarted, poolVars
<1>6. ASSUME NEW s \in Session, BootFails(s) PROVE TypeOK'
  <2>1. adbFree' \in Seq(AdbPorts) /\ streamFree' \in Seq(StreamPorts)
    BY <1>6, GivePortsTyped DEF BootFails
  <2>2. 0 \in 0 .. MaxViewers
    BY ConstantsAssumption
  <2>3. device' \in [Session -> {"none", "pending", "running", "gone"}]
    <3>1. device' = device \/ device' = [device EXCEPT ![s] = "gone"]
      BY <1>6 DEF BootFails
    <3>2. QED BY <3>1
  <2>4. /\ state' \in [Session -> {"none", "starting", "ready", "stopping", "failed"}]
        /\ stop' \in [Session -> {"none", "stopping", "done"}]
        /\ stream' \in [Session -> {"none", "open", "closed"}]
        /\ clients' \in [Session -> 0 .. MaxViewers]
        /\ sessions' \subseteq Session
    <3>1. CASE s \in sessions
      BY <1>6, <2>2, <3>1 DEF BootFails, GivePorts, Destroy
    <3>2. CASE s \notin sessions
      <4>1. /\ state' = [state EXCEPT ![s] = "failed"]
            /\ UNCHANGED <<sessions, stop, stream, clients>>
        BY <1>6, <3>2 DEF BootFails
      <4>2. QED BY <4>1
    <3>3. QED BY <3>1, <3>2
  <2>5. /\ boot' \in [Session -> {"none", "run", "wait", "stream", "done"}]
        /\ error' \in [Session -> BOOLEAN]
        /\ UNCHANGED <<backend, adbPort, streamPort, idle>>
    BY <1>6 DEF BootFails
  <2>6. QED BY <2>1, <2>3, <2>4, <2>5
<1>7. ASSUME NEW s \in Session, Delete(s) PROVE TypeOK'
  <2>1. 0 \in 0 .. MaxViewers
    BY ConstantsAssumption
  <2>2. QED BY <1>7, <2>1 DEF Delete, Destroy, poolVars
<1>8. ASSUME NEW s \in Session, DestroyEnds(s) PROVE TypeOK'
  <2>1. adbFree' \in Seq(AdbPorts) /\ streamFree' \in Seq(StreamPorts)
    BY <1>8, GivePortsTyped DEF DestroyEnds
  <2>2. QED BY <1>8, <2>1 DEF DestroyEnds, viewerVars
<1>9. ASSUME ReapIdle PROVE TypeOK'
  <2>1. 0 \in 0 .. MaxViewers
    BY ConstantsAssumption
  <2>2. QED BY <1>9, <2>1 DEF ReapIdle, Destroy, poolVars
<1>10. ASSUME NEW s \in Session, Attach(s) PROVE TypeOK'
  <2>1. clients[s] + 1 \in 0 .. MaxViewers
    BY <1>10, ConstantsAssumption DEF Attach
  <2>2. QED BY <1>10, <2>1 DEF Attach, poolVars
<1>11. ASSUME NEW s \in Session, Detach(s) PROVE TypeOK'
  <2>1. clients[s] - 1 \in 0 .. MaxViewers
    BY <1>11, ConstantsAssumption DEF Detach
  <2>2. QED BY <1>11, <2>1 DEF Detach, poolVars
<1>12. ASSUME NEW s \in Session, StreamCloses(s) PROVE TypeOK'
  <2>1. 0 \in 0 .. MaxViewers
    BY ConstantsAssumption
  <2>2. QED BY <1>12, <2>1 DEF StreamCloses, poolVars
<1>13. ASSUME NEW s \in Session, IdleTimeout(s) PROVE TypeOK'
  BY <1>13 DEF IdleTimeout, poolVars
<1>14. ASSUME NEW s \in Session, DeviceComesUp(s) PROVE TypeOK'
  BY <1>14 DEF DeviceComesUp, poolVars, viewerVars
<1>15. ASSUME NEW s \in Session, DeviceStops(s) PROVE TypeOK'
  BY <1>15 DEF DeviceStops, poolVars, viewerVars
<1>16. CASE UNCHANGED vars
  BY <1>16 DEF vars, poolVars, viewerVars
<1>17. QED BY <1>1, <1>2, <1>3, <1>4, <1>5, <1>6, <1>7, <1>8, <1>9, <1>10,
             <1>11, <1>12, <1>13, <1>14, <1>15, <1>16 DEF Next

\* Every variable keeps the type the code gives it.
THEOREM TypeCorrect == Spec => []TypeOK
BY TypeOKInit, TypeOKNext, PTL DEF Spec

-----------------------------------------------------------------------------
(* The registry *)

\* How the fields of a session go together.  A registered session has not been
\* destroyed and is starting until its boot is done; an id not yet drawn has no
\* procedures in flight; viewers need a finished boot.
RegistryInv ==
    \A s \in Session :
        /\ state[s] = "none" => /\ s \notin sessions
                                /\ boot[s] = "none" /\ stop[s] = "none"
        /\ s \in sessions => /\ stop[s] = "none"
                             /\ \/ state[s] = "starting" /\ boot[s] # "done"
                                \/ state[s] = "ready" /\ boot[s] = "done"
                                                      /\ stream[s] # "none"
        /\ s \notin sessions => clients[s] = 0
        /\ state[s] # "ready" => clients[s] = 0

LEMMA RegistryInit == Init => RegistryInv
BY DEF Init, RegistryInv

LEMMA RegistryNext == TypeOK /\ RegistryInv /\ [Next]_vars => RegistryInv'
<1> SUFFICES ASSUME TypeOK, RegistryInv, [Next]_vars PROVE RegistryInv'
  OBVIOUS
<1>0. /\ sessions \subseteq Session
      /\ state \in [Session -> {"none", "starting", "ready", "stopping", "failed"}]
      /\ boot \in [Session -> {"none", "run", "wait", "stream", "done"}]
      /\ stop \in [Session -> {"none", "stopping", "done"}]
      /\ stream \in [Session -> {"none", "open", "closed"}]
      /\ clients \in [Session -> 0 .. MaxViewers]
  BY DEF TypeOK
<1> USE DEF RegistryInv
<1>1. ASSUME NEW s \in Session, NEW b \in Backends, Create(s, b) PROVE RegistryInv'
  BY <1>0, <1>1 DEF Create, viewerVars
<1>2. ASSUME NEW s \in Session, NEW b \in Backends, CreateWithoutPorts(s, b)
      PROVE  RegistryInv'
  BY <1>0, <1>2 DEF CreateWithoutPorts, viewerVars
<1>3. ASSUME NEW s \in Session, ContainerStarted(s) PROVE RegistryInv'
  BY <1>0, <1>3 DEF ContainerStarted, poolVars, viewerVars
<1>4. ASSUME NEW s \in Session, DeviceStarted(s) PROVE RegistryInv'
  BY <1>0, <1>4 DEF DeviceStarted, poolVars, viewerVars
<1>5. ASSUME NEW s \in Session, StreamStarted(s) PROVE RegistryInv'
  BY <1>0, <1>5 DEF StreamStarted, poolVars
<1>6. ASSUME NEW s \in Session, BootFails(s) PROVE RegistryInv'
  <2>1. boot[s] \in {"run", "wait", "stream"} /\ state[s] # "none"
    BY <1>0, <1>6 DEF BootFails, CanFail
  <2>2. boot' = [boot EXCEPT ![s] = "done"]
    BY <1>6 DEF BootFails
  <2>3. CASE s \in sessions
    <3>1. Destroy({s})
      BY <1>6, <2>3 DEF BootFails
    <3>2. QED BY <1>0, <2>1, <2>2, <2>3, <3>1 DEF Destroy
  <2>4. CASE s \notin sessions
    <3>1. /\ state' = [state EXCEPT ![s] = "failed"]
          /\ UNCHANGED <<sessions, stop, stream, clients>>
      BY <1>6, <2>4 DEF BootFails
    <3>2. QED BY <1>0, <2>1, <2>2, <2>4, <3>1
  <2>5. QED BY <2>3, <2>4
<1>7. ASSUME NEW s \in Session, Delete(s) PROVE RegistryInv'
  BY <1>0, <1>7 DEF Delete, Destroy, poolVars
<1>8. ASSUME NEW s \in Session, DestroyEnds(s) PROVE RegistryInv'
  <2>1. /\ stop[s] = "stopping"
        /\ stop' = [stop EXCEPT ![s] = "done"]
        /\ UNCHANGED <<sessions, state, boot, stream, clients>>
    BY <1>8 DEF DestroyEnds, viewerVars
  <2>2. QED BY <1>0, <2>1
<1>9. ASSUME ReapIdle PROVE RegistryInv'
  BY <1>0, <1>9 DEF ReapIdle, Destroy, poolVars
<1>10. ASSUME NEW s \in Session, Attach(s) PROVE RegistryInv'
  BY <1>0, <1>10 DEF Attach, poolVars
<1>11. ASSUME NEW s \in Session, Detach(s) PROVE RegistryInv'
  BY <1>0, <1>11 DEF Detach, poolVars
<1>12. ASSUME NEW s \in Session, StreamCloses(s) PROVE RegistryInv'
  BY <1>0, <1>12 DEF StreamCloses, poolVars
<1>13. ASSUME NEW s \in Session, IdleTimeout(s) PROVE RegistryInv'
  BY <1>0, <1>13 DEF IdleTimeout, poolVars
<1>14. ASSUME NEW s \in Session, DeviceComesUp(s) PROVE RegistryInv'
  BY <1>0, <1>14 DEF DeviceComesUp, poolVars, viewerVars
<1>15. ASSUME NEW s \in Session, DeviceStops(s) PROVE RegistryInv'
  BY <1>0, <1>15 DEF DeviceStops, poolVars, viewerVars
<1>16. CASE UNCHANGED vars
  BY <1>16 DEF vars, poolVars, viewerVars
<1>17. QED BY <1>1, <1>2, <1>3, <1>4, <1>5, <1>6, <1>7, <1>8, <1>9, <1>10,
             <1>11, <1>12, <1>13, <1>14, <1>15, <1>16 DEF Next

LEMMA RegistryInvariant == Spec => [](TypeOK /\ RegistryInv)
BY TypeOKInit, TypeOKNext, RegistryInit, RegistryNext, PTL DEF Spec

\* Sockets hang on registered, ready sessions only, however #boot() and
\* destroy() of the session interleave.
THEOREM ViewersLive == Spec => []ViewersOnlyOnLiveSessions
<1>1. TypeOK /\ RegistryInv => ViewersOnlyOnLiveSessions
  BY DEF TypeOK, RegistryInv, ViewersOnlyOnLiveSessions
<1>2. QED BY <1>1, RegistryInvariant, PTL

-----------------------------------------------------------------------------
(* The pools *)

\* The ids that create() has drawn.
Drawn == {s \in Session : state[s] # "none"}

\* An id not yet drawn has no ports, unless it is one of F: those are the ids of
\* earlier processes, of which the registry knows nothing.
Portless(F) ==
    \A s \in Session \ F : s \notin Drawn => adbPort[s] = NoPort /\ streamPort[s] = NoPort

\* What a step does to the ports, one case per kind of action.
Taken(s) ==
    /\ s \notin Drawn /\ Drawn' = Drawn \cup {s}
    /\ adbPort[s] = NoPort /\ streamPort[s] = NoPort
    /\ adbFree # <<>> /\ streamFree # <<>>
    /\ adbPort' = [adbPort EXCEPT ![s] = Head(adbFree)]
    /\ streamPort' = [streamPort EXCEPT ![s] = Head(streamFree)]
    /\ adbFree' = Tail(adbFree) /\ streamFree' = Tail(streamFree)
    /\ stop[s] = "none" /\ stop' = stop

Refused(s) ==
    /\ s \notin Drawn /\ Drawn' = Drawn \cup {s}
    /\ adbPort[s] = NoPort /\ streamPort[s] = NoPort
    /\ adbFree = <<>> \/ streamFree = <<>>
    /\ adbFree' = IF adbFree = <<>> THEN <<>> ELSE Tail(adbFree)
    /\ UNCHANGED <<adbPort, streamPort, streamFree>>
    /\ stop' = [stop EXCEPT ![s] = "done"]

Given(s) ==
    /\ s \in Drawn /\ Drawn' = Drawn
    /\ GivePorts(s)
    /\ UNCHANGED <<adbPort, streamPort>>
    /\ \A t \in Session \ {s} : stop'[t] = stop[t]
    /\ stop[s] = "done" => stop'[s] = "done"

Untouched ==
    /\ Drawn' = Drawn
    /\ UNCHANGED <<adbPort, streamPort, adbFree, streamFree>>
    /\ \A t \in Session : \/ stop'[t] = stop[t]
                          \/ stop[t] = "none" /\ stop'[t] = "stopping"

PortStep ==
    \/ \E s \in Session : Taken(s) \/ Refused(s) \/ Given(s)
    \/ Untouched

\* Every step of the registry is one of these.
LEMMA PortSteps ==
    ASSUME TypeOK, RegistryInv, [Next]_vars, NEW F, Portless(F),
           \A s \in F \cap Session : state'[s] = "none"
    PROVE  PortStep
<1>0. /\ sessions \subseteq Session
      /\ state \in [Session -> {"none", "starting", "ready", "stopping", "failed"}]
      /\ stop \in [Session -> {"none", "stopping", "done"}]
      /\ \A s \in sessions : stop[s] = "none" /\ state[s] # "none"
      /\ \A s \in Session : state[s] = "none" => boot[s] = "none" /\ stop[s] = "none"
  BY DEF TypeOK, RegistryInv
<1>1. ASSUME NEW s \in Session, NEW b \in Backends, Create(s, b) PROVE Taken(s)
  <2>1. state[s] = "none" /\ state' = [state EXCEPT ![s] = "starting"]
    BY <1>1 DEF Create
  <2>2. s \notin F /\ s \notin Drawn /\ Drawn' = Drawn \cup {s} /\ stop[s] = "none"
    BY <1>0, <2>1 DEF Drawn
  <2>3. QED BY <1>1, <2>2 DEF Create, Taken, Portless
<1>2. ASSUME NEW s \in Session, NEW b \in Backends, CreateWithoutPorts(s, b)
      PROVE  Refused(s)
  <2>1. state[s] = "none" /\ state' = [state EXCEPT ![s] = "stopping"]
    BY <1>2 DEF CreateWithoutPorts
  <2>2. s \notin F /\ s \notin Drawn /\ Drawn' = Drawn \cup {s}
    BY <1>0, <2>1 DEF Drawn
  <2>3. QED BY <1>2, <2>2 DEF CreateWithoutPorts, Refused, Portless
<1>3. ASSUME NEW s \in Session, BootFails(s) PROVE Given(s)
  <2>1. GivePorts(s) /\ UNCHANGED <<adbPort, streamPort>>
    BY <1>3 DEF BootFails
  <2>2. \/ stop' = stop /\ state' = [state EXCEPT ![s] = "failed"]
        \/ Destroy({s}) /\ s \in sessions
    BY <1>3 DEF BootFails
  <2>3. state[s] # "none"
    BY <1>0, <1>3 DEF BootFails, CanFail
  <2>4. s \in Drawn /\ Drawn' = Drawn
    BY <1>0, <2>2, <2>3 DEF Drawn, Destroy
  <2>5. QED BY <1>0, <2>1, <2>2, <2>4 DEF Given, Destroy
<1>4. ASSUME NEW s \in Session, DestroyEnds(s) PROVE Given(s)
  <2>1. /\ GivePorts(s) /\ UNCHANGED <<adbPort, streamPort, state>>
        /\ stop[s] = "stopping" /\ stop' = [stop EXCEPT ![s] = "done"]
    BY <1>4 DEF DestroyEnds
  <2>2. s \in Drawn /\ Drawn' = Drawn
    BY <1>0, <2>1 DEF Drawn
  <2>3. QED BY <1>0, <2>1, <2>2 DEF Given
<1>5. ASSUME NEW S \in SUBSET sessions, Destroy(S), UNCHANGED poolVars PROVE Untouched
  <2>1. Drawn' = Drawn
    BY <1>0, <1>5 DEF Destroy, Drawn
  <2>2. QED BY <1>0, <1>5, <2>1 DEF Destroy, poolVars, Untouched
<1>6. ASSUME NEW s \in Session, Delete(s) PROVE Untouched
  <2>1. {s} \in SUBSET sessions /\ Destroy({s}) /\ UNCHANGED poolVars
    BY <1>6 DEF Delete
  <2>2. QED BY <1>5, <2>1
<1>7. ASSUME ReapIdle PROVE Untouched
  <2>1. PICK S \in SUBSET sessions : Destroy(S) /\ UNCHANGED poolVars
    BY <1>7 DEF ReapIdle
  <2>2. QED BY <1>5, <2>1
<1>8. ASSUME NEW s \in Session, StreamStarted(s) PROVE Untouched
  <2>1. /\ boot[s] = "stream" /\ state' = [state EXCEPT ![s] = "ready"]
        /\ UNCHANGED <<poolVars, stop>>
    BY <1>8 DEF StreamStarted
  <2>2. Drawn' = Drawn
    BY <1>0, <2>1 DEF Drawn
  <2>3. QED BY <2>1, <2>2 DEF poolVars, Untouched
<1>9. ASSUME NEW s \in Session,
             \/ ContainerStarted(s) \/ DeviceStarted(s)
             \/ Attach(s) \/ Detach(s) \/ StreamCloses(s) \/ IdleTimeout(s)
             \/ DeviceComesUp(s) \/ DeviceStops(s)
      PROVE  Untouched
  BY <1>9 DEF ContainerStarted, DeviceStarted, Attach, Detach,
              StreamCloses, IdleTimeout, DeviceComesUp, DeviceStops, poolVars,
              Untouched, Drawn
<1>10. CASE UNCHANGED vars
  BY <1>10 DEF vars, poolVars, Untouched, Drawn, PortStep
<1>11. QED BY <1>1, <1>2, <1>3, <1>4, <1>6, <1>7, <1>8, <1>9, <1>10 DEF Next, PortStep

\* None of them gives an id a port that it does not draw.
LEMMA PortlessStep ==
    ASSUME TypeOK, NEW F, Portless(F), PortStep
    PROVE  Portless(F)'
<1>1. /\ adbPort \in [Session -> AdbPorts \cup {NoPort}]
      /\ streamPort \in [Session -> StreamPorts \cup {NoPort}]
  BY DEF TypeOK
<1>2. QED BY <1>1 DEF PortStep, Taken, Refused, Given, Untouched, Portless

\* The pools a manager starts with list each port of the two ranges once.
LEMMA NewPools ==
    /\ Distinct(NewPool(AdbMin, AdbMax)) /\ Range(NewPool(AdbMin, AdbMax)) = AdbPorts
    /\ Distinct(NewPool(AdbMax, AdbMax + StreamSpan))
    /\ Range(NewPool(AdbMax, AdbMax + StreamSpan)) = StreamPorts
<1>1. Distinct(NewPool(AdbMin, AdbMax)) /\ Range(NewPool(AdbMin, AdbMax)) = AdbPorts
  BY NewPoolIsPool, PortsTyped DEF AdbPorts
<1> DEFINE top == AdbMax + StreamSpan
<1>2. top \in Nat /\ AdbMax <= top /\ AdbMax \in Nat
  BY PortsTyped
<1>3. StreamPorts = AdbMax .. (top - 1)
  BY ConstantsAssumption DEF StreamPorts
<1> HIDE DEF top
<1>4. Distinct(NewPool(AdbMax, top)) /\ Range(NewPool(AdbMax, top)) = StreamPorts
  BY <1>2, <1>3, NewPoolIsPool
<1>5. QED BY <1>1, <1>4 DEF top

LEMMA DistinctStep ==
    ASSUME TypeOK, PoolsDistinct, PortStep
    PROVE  PoolsDistinct'
<1>0. /\ adbFree \in Seq(AdbPorts) /\ streamFree \in Seq(StreamPorts)
      /\ adbPort \in [Session -> AdbPorts \cup {NoPort}]
      /\ streamPort \in [Session -> StreamPorts \cup {NoPort}]
      /\ Distinct(adbFree) /\ Distinct(streamFree)
  BY DEF TypeOK, PoolsDistinct
<1>1. ASSUME NEW s \in Session, Taken(s) PROVE PoolsDistinct'
  BY <1>0, <1>1, TakeFromPool DEF Taken, PoolsDistinct
<1>2. ASSUME NEW s \in Session, Refused(s) PROVE PoolsDistinct'
  <2>1. Distinct(adbFree')
    BY <1>0, <1>2, TakeFromPool DEF Refused
  <2>2. QED BY <1>0, <1>2, <2>1 DEF Refused, PoolsDistinct
<1>3. ASSUME NEW s \in Session, Given(s) PROVE PoolsDistinct'
  <2>1. Distinct(Give(adbFree, adbPort[s])) /\ Distinct(Give(streamFree, streamPort[s]))
    BY <1>0, GiveToPool
  <2>2. QED BY <1>3, <2>1 DEF Given, GivePorts, PoolsDistinct
<1>4. CASE Untouched
  BY <1>0, <1>4 DEF Untouched, PoolsDistinct
<1>5. QED BY <1>1, <1>2, <1>3, <1>4 DEF PortStep

\* What the theorems on the pools need of every state.
PoolInv == RegistryInv /\ Portless({}) /\ PoolsDistinct

LEMMA PoolInit == Init => PoolInv
BY RegistryInit, NewPools DEF Init, PoolInv, Portless, PoolsDistinct

LEMMA PoolNext == TypeOK /\ PoolInv /\ [Next]_vars => PoolInv' /\ PortStep
<1> SUFFICES ASSUME TypeOK, PoolInv, [Next]_vars PROVE PoolInv' /\ PortStep
  OBVIOUS
<1>1. PortStep
  BY PortSteps DEF PoolInv
<1>2. RegistryInv'
  BY RegistryNext DEF PoolInv
<1>3. Portless({})'
  BY <1>1, PortlessStep DEF PoolInv
<1>4. PoolsDistinct'
  BY <1>1, DistinctStep DEF PoolInv
<1>5. QED BY <1>1, <1>2, <1>3, <1>4 DEF PoolInv

LEMMA PoolInvariant == Spec => [](TypeOK /\ PoolInv)
BY TypeOKInit, TypeOKNext, PoolInit, PoolNext, PTL DEF Spec

\* Two give() calls for one take() never put a port in a pool twice.
THEOREM PoolsStayDistinct == Spec => []PoolsDistinct
<1>1. PoolInv => PoolsDistinct
  BY DEF PoolInv
<1>2. QED BY <1>1, PoolInvariant, PTL

\* A port that some session of this process has had.
Used == {adbPort[u] : u \in Drawn} \ {NoPort}

\* The free list has its fresh ports in front: what is behind a used one is used.
FreshFirst ==
    \A i, j \in DOMAIN adbFree :
        i < j /\ adbFree[i] \in Used => adbFree[j] \in Used

\* ReuseOnlyAfterFullCycle, for the sessions of this process.
SharedAfterCycle ==
    \A s, t \in Drawn :
        s # t /\ Holds(s) /\ Holds(t) /\ adbPort[s] = adbPort[t]
            => Range(adbFree) \subseteq Used

CycleInv == FreshFirst /\ SharedAfterCycle

LEMMA CycleInit == Init => CycleInv
<1> SUFFICES ASSUME Init PROVE CycleInv
  OBVIOUS
<1>1. Drawn = {} /\ Used = {}
  BY DEF Init, Drawn, Used
<1>2. QED BY <1>1 DEF CycleInv, FreshFirst, SharedAfterCycle

LEMMA CycleStep ==
    ASSUME TypeOK, PoolsDistinct, CycleInv, PortStep
    PROVE  CycleInv'
<1> DEFINE AllUsed == Range(adbFree) \subseteq Used
<1>0. /\ adbFree \in Seq(AdbPorts)
      /\ adbPort \in [Session -> AdbPorts \cup {NoPort}]
      /\ stop \in [Session -> {"none", "stopping", "done"}]
      /\ Drawn \subseteq Session
  BY DEF TypeOK, Drawn
<1>1. /\ FreshFirst
      /\ \A s, t \in Drawn :
            s # t /\ Holds(s) /\ Holds(t) /\ adbPort[s] = adbPort[t] => AllUsed
  BY DEF CycleInv, SharedAfterCycle
<1>2. SUFFICES /\ FreshFirst'
               /\ \A s, t \in Drawn' :
                     s # t /\ Holds(s)' /\ Holds(t)' /\ adbPort'[s] = adbPort'[t]
                         => AllUsed'
  BY DEF CycleInv, SharedAfterCycle
<1>3. ASSUME NEW s \in Session, Taken(s)
      PROVE  /\ FreshFirst'
             /\ \A t, u \in Drawn' :
                   t # u /\ Holds(t)' /\ Holds(u)' /\ adbPort'[t] = adbPort'[u]
                       => AllUsed'
  <2>1. /\ adbFree # <<>> /\ Head(adbFree) \in AdbPorts
        /\ adbFree' = Tail(adbFree) /\ adbFree' \in Seq(AdbPorts)
        /\ Len(adbFree') = Len(adbFree) - 1
        /\ \A i \in 1 .. Len(adbFree') : adbFree'[i] = adbFree[i + 1]
        /\ Head(adbFree) = adbFree[1]
        /\ DOMAIN adbFree = 1 .. Len(adbFree) /\ DOMAIN adbFree' = 1 .. Len(adbFree')
        /\ Len(adbFree) \in Nat \ {0} /\ Len(adbFree') \in Nat
    <3>1. adbFree # <<>> /\ adbFree' = Tail(adbFree)
      BY <1>3 DEF Taken
    <3>2. QED BY <1>0, <3>1, HeadTailProperties, LenProperties, EmptySeq
  <2>2. /\ adbPort' = [adbPort EXCEPT ![s] = Head(adbFree)]
        /\ stop' = stop /\ s \notin Drawn /\ Drawn' = Drawn \cup {s}
    BY <1>0, <1>3 DEF Taken
  <2>3. \A p \in AdbPorts : p \in Used' <=> p \in Used \/ p = Head(adbFree)
    BY <1>0, <2>1, <2>2, PortsTyped DEF Used
  <2>4. FreshFirst'
    <3>1. SUFFICES ASSUME NEW i \in 1 .. Len(adbFree'), NEW j \in 1 .. Len(adbFree'),
                          i < j, adbFree'[i] \in Used'
                   PROVE  adbFree'[j] \in Used'
      BY <2>1 DEF FreshFirst
    <3>2. /\ i + 1 \in 1 .. Len(adbFree) /\ j + 1 \in 1 .. Len(adbFree)
          /\ 1 \in 1 .. Len(adbFree) /\ 1 < j + 1 /\ i + 1 < j + 1
          /\ adbFree'[i] = adbFree[i + 1] /\ adbFree'[j] = adbFree[j + 1]
          /\ adbFree[i + 1] \in AdbPorts /\ adbFree[j + 1] \in AdbPorts
      BY <3>1, <2>1, <1>0
    <3>3. CASE adbFree[i + 1] \in Used
      <4>1. adbFree[j + 1] \in Used
        BY <1>1, <2>1, <3>2, <3>3 DEF FreshFirst
      <4>2. QED BY <4>1, <3>2, <2>3
    <3>4. CASE adbFree[i + 1] \notin Used
      <4>1. adbFree[i + 1] = adbFree[1]
        BY <3>1, <3>2, <3>4, <2>1, <2>3
      <4>2. i + 1 = 1
        BY <4>1, <3>2, <2>1 DEF PoolsDistinct, Distinct
      <4>3. QED BY <4>2, <3>1, <2>1
    <3>5. QED BY <3>3, <3>4
  <2>5. ASSUME NEW t \in Drawn', NEW u \in Drawn', t # u,
               Holds(t)', Holds(u)', adbPort'[t] = adbPort'[u]
        PROVE  AllUsed'
    <3>1. SUFFICES ASSUME NEW i \in 1 .. Len(adbFree') PROVE adbFree'[i] \in Used'
      BY <2>1 DEF Range
    <3>2. /\ i + 1 \in 1 .. Len(adbFree) /\ 1 \in 1 .. Len(adbFree) /\ 1 < i + 1
          /\ adbFree'[i] = adbFree[i + 1] /\ adbFree[i + 1] \in AdbPorts
      BY <3>1, <2>1, <1>0
    <3>3. CASE t # s /\ u # s
      <4>1. Holds(t) /\ Holds(u) /\ adbPort[t] = adbPort[u]
        BY <1>0, <2>2, <2>5, <3>3 DEF Holds
      <4>2. t \in Drawn /\ u \in Drawn
        BY <2>2, <2>5, <3>3
      <4>3. adbFree[i + 1] \in Used
        BY <1>1, <2>1, <2>5, <3>2, <4>1, <4>2 DEF Range
      <4>4. QED BY <4>3, <3>2, <2>3
    <3>4. CASE t = s \/ u = s
      <4>1. adbFree[1] \in Used
        <5>1. PICK v \in Drawn : adbPort'[v] = adbPort'[s]
          BY <2>2, <2>5, <3>4
        <5>2. adbPort[v] = adbFree[1] /\ adbFree[1] # NoPort
          BY <1>0, <2>1, <2>2, <5>1, PortsTyped
        <5>3. QED BY <5>1, <5>2 DEF Used
      <4>2. adbFree[i + 1] \in Used
        BY <1>1, <2>1, <3>2, <4>1 DEF FreshFirst
      <4>3. QED BY <4>2, <3>2, <2>3
    <3>5. QED BY <3>3, <3>4
  <2>6. QED BY <2>4, <2>5
<1>4. ASSUME NEW s \in Session, Refused(s)
      PROVE  /\ FreshFirst'
             /\ \A t, u \in Drawn' :
                   t # u /\ Holds(t)' /\ Holds(u)' /\ adbPort'[t] = adbPort'[u]
                       => AllUsed'
  <2>1. /\ adbPort' = adbPort /\ Drawn' = Drawn \cup {s} /\ adbPort[s] = NoPort
        /\ Used' = Used
    BY <1>4 DEF Refused, Used
  <2>2. \A t \in Drawn' : Holds(t)' => t \in Drawn /\ Holds(t)
    BY <1>0, <1>4, <2>1 DEF Refused, Holds
  <2>3. CASE adbFree = <<>>
    <3>1. adbFree' = adbFree
      BY <1>4, <2>3 DEF Refused
    <3>2. QED BY <1>1, <2>1, <2>2, <3>1 DEF FreshFirst
  <2>4. CASE adbFree # <<>>
    <3>1. adbFree' = Tail(adbFree)
      BY <1>4, <2>4 DEF Refused
    <3>2. /\ Len(adbFree') = Len(adbFree) - 1 /\ Len(adbFree) \in Nat \ {0}
          /\ \A i \in 1 .. Len(adbFree') : adbFree'[i] = adbFree[i + 1]
          /\ DOMAIN adbFree = 1 .. Len(adbFree) /\ DOMAIN adbFree' = 1 .. Len(adbFree')
      BY <1>0, <2>4, <3>1, HeadTailProperties, LenProperties, EmptySeq
    <3>3. Range(adbFree') \subseteq Range(adbFree)
      BY <1>0, <2>4, <3>1, TakeFromPool
    <3>4. FreshFirst'
      <4>1. SUFFICES ASSUME NEW i \in 1 .. Len(adbFree'), NEW j \in 1 .. Len(adbFree'),
                            i < j, adbFree'[i] \in Used
                     PROVE  adbFree'[j] \in Used
        BY <2>1, <3>2 DEF FreshFirst
      <4>2. i + 1 \in DOMAIN adbFree /\ j + 1 \in DOMAIN adbFree /\ i + 1 < j + 1
        BY <3>2, <4>1
      <4>3. QED BY <1>1, <3>2, <4>1, <4>2 DEF FreshFirst
    <3>5. QED BY <1>1, <2>1, <2>2, <3>3, <3>4
  <2>5. QED BY <2>3, <2>4
<1>5. ASSUME NEW s \in Session, Given(s)
      PROVE  /\ FreshFirst'
             /\ \A t, u \in Drawn' :
                   t # u /\ Holds(t)' /\ Holds(u)' /\ adbPort'[t] = adbPort'[u]
                       => AllUsed'
  <2>1. /\ Used' = Used /\ Drawn' = Drawn
        /\ \A t \in Session : Holds(t)' => Holds(t)
        /\ adbPort' = adbPort
        /\ adbFree' = Give(adbFree, adbPort[s])
        /\ adbPort[s] # NoPort => adbPort[s] \in Used
    BY <1>0, <1>5 DEF Given, GivePorts, Used, Holds
  <2>2. Range(adbFree') \subseteq Range(adbFree) \cup ({adbPort[s]} \ {NoPort})
    <3>1. adbPort[s] \in AdbPorts \cup {NoPort}
      BY <1>0
    <3>2. Range(Give(adbFree, adbPort[s])) =
            IF adbPort[s] = NoPort THEN Range(adbFree)
                                   ELSE Range(adbFree) \cup {adbPort[s]}
      BY <1>0, <3>1, GiveToPool
    <3>3. QED BY <2>1, <3>2
  <2>3. FreshFirst'
    <3>1. CASE adbFree' = adbFree
      BY <1>1, <2>1, <3>1 DEF FreshFirst
    <3>2. CASE adbFree' # adbFree
      <4>1. /\ adbFree' = Append(adbFree, adbPort[s]) /\ adbPort[s] # NoPort
            /\ Len(adbFree) \in Nat /\ DOMAIN adbFree = 1 .. Len(adbFree)
        BY <1>0, <2>1, <3>2, LenProperties DEF Give
      <4>2. /\ DOMAIN adbFree' = 1 .. (Len(adbFree) + 1)
            /\ \A i \in 1 .. Len(adbFree) : adbFree'[i] = adbFree[i]
            /\ adbFree'[Len(adbFree) + 1] = adbPort[s]
        BY <1>0, <4>1
      <4>3. SUFFICES ASSUME NEW i \in 1 .. (Len(adbFree) + 1),
                            NEW j \in 1 .. (Len(adbFree) + 1),
                            i < j, adbFree'[i] \in Used
                     PROVE  adbFree'[j] \in Used
        BY <2>1, <4>2 DEF FreshFirst
      <4>4. CASE j = Len(adbFree) + 1
        BY <2>1, <4>1, <4>2, <4>4
      <4>5. CASE j # Len(adbFree) + 1
        <5>1. i \in 1 .. Len(adbFree) /\ j \in 1 .. Len(adbFree)
          BY <4>1, <4>3, <4>5
        <5>2. QED BY <1>1, <4>1, <4>2, <4>3, <5>1 DEF FreshFirst
      <4>6. QED BY <4>4, <4>5
    <3>3. QED BY <3>1, <3>2
  <2>4. QED BY <1>0, <1>1, <2>1, <2>2, <2>3
<1>6. CASE Untouched
  <2>1. /\ Used' = Used /\ Drawn' = Drawn /\ adbFree' = adbFree /\ adbPort' = adbPort
        /\ \A t \in Session : Holds(t)' => Holds(t)
    BY <1>0, <1>6 DEF Untouched, Used, Holds
  <2>2. QED BY <1>0, <1>1, <2>1 DEF FreshFirst
<1>7. QED BY <1>3, <1>4, <1>5, <1>6 DEF PortStep

\* Two sessions come to share a port only after the whole range has been in
\* use: the double give() of a failed boot is harmless until then, because
\* PortPool is first-in first-out.
THEOREM SharingNeedsFullCycle == Spec => []ReuseOnlyAfterFullCycle
<1>1. TypeOK /\ PoolInv /\ CycleInv /\ [Next]_vars => CycleInv'
  BY PoolNext, CycleStep DEF PoolInv
<1>2. Spec => [](TypeOK /\ PoolInv /\ CycleInv)
  BY <1>1, PoolInvariant, CycleInit, PTL DEF Spec
<1>3. TypeOK /\ PoolInv /\ CycleInv => ReuseOnlyAfterFullCycle
  <2>1. SUFFICES ASSUME TypeOK, PoolInv, CycleInv,
                        NEW s \in Session, NEW t \in Session, s # t,
                        Holds(s), Holds(t), adbPort[s] = adbPort[t]
                 PROVE  \A p \in Range(adbFree) : \E u \in Session : adbPort[u] = p
    BY DEF ReuseOnlyAfterFullCycle
  <2>2. s \in Drawn /\ t \in Drawn
    BY <2>1 DEF PoolInv, Portless, Holds
  <2>3. Range(adbFree) \subseteq Used
    BY <2>1, <2>2 DEF CycleInv, SharedAfterCycle
  <2>4. QED BY <2>3 DEF Used, Drawn
<1>4. QED BY <1>2, <1>3, PTL

-----------------------------------------------------------------------------
(* No port is lost, when both ranges have the same width (100 by default). *)

Width == AdbMax - AdbMin

\* The two pools move in step: the k-th free stream port is the k-th free adb
\* port plus Width, and so are the two ports of a session.
InStep ==
    /\ Len(streamFree) = Len(adbFree)
    /\ \A i \in 1 .. Len(adbFree) : streamFree[i] = adbFree[i] + Width
    /\ \A s \in Drawn :
          IF adbPort[s] = NoPort THEN streamPort[s] = NoPort
                                 ELSE streamPort[s] = adbPort[s] + Width

LEMMA NewPoolsInStep ==
    ASSUME StreamSpan = Width
    PROVE  LET adb == NewPool(AdbMin, AdbMax)
               str == NewPool(AdbMax, AdbMax + StreamSpan)
           IN  Len(str) = Len(adb) /\ \A i \in 1 .. Len(adb) : str[i] = adb[i] + Width
<1> DEFINE adb == NewPool(AdbMin, AdbMax)
           str == NewPool(AdbMax, AdbMax + StreamSpan)
<1>1. Width \in Nat /\ AdbMax + StreamSpan = AdbMax + Width /\ AdbMax = AdbMin + Width
  BY ConstantsAssumption DEF Width
<1>2. /\ adb = [i \in 1 .. Width |-> AdbMin + i - 1]
      /\ str = [i \in 1 .. Width |-> AdbMax + i - 1]
  BY <1>1, ConstantsAssumption DEF NewPool, Width
<1>3. Len(adb) = Width /\ Len(str) = Width
  BY <1>1, <1>2
<1>4. \A i \in 1 .. Width : str[i] = adb[i] + Width
  BY <1>1, <1>2, ConstantsAssumption
<1>5. QED BY <1>3, <1>4

LEMMA InStepInit == ASSUME StreamSpan = Width PROVE Init => InStep
BY NewPoolsInStep DEF Init, InStep, Drawn

LEMMA InStepStep ==
    ASSUME TypeOK, InStep, PortStep
    PROVE  InStep'
<1>0. /\ adbFree \in Seq(AdbPorts) /\ streamFree \in Seq(StreamPorts)
      /\ adbPort \in [Session -> AdbPorts \cup {NoPort}]
      /\ streamPort \in [Session -> StreamPorts \cup {NoPort}]
      /\ Len(adbFree) \in Nat /\ DOMAIN adbFree = 1 .. Len(adbFree)
      /\ DOMAIN streamFree = 1 .. Len(streamFree)
      /\ Width \in Nat /\ AdbPorts \subseteq Nat \ {0}
  <2>1. Width \in Nat /\ AdbPorts \subseteq Nat \ {0}
    BY ConstantsAssumption DEF Width, AdbPorts
  <2>2. QED BY <2>1, LenProperties DEF TypeOK
<1>1. /\ Len(streamFree) = Len(adbFree)
      /\ \A i \in 1 .. Len(adbFree) : streamFree[i] = adbFree[i] + Width
      /\ Drawn \subseteq Session
      /\ \A s \in Drawn :
            IF adbPort[s] = NoPort THEN streamPort[s] = NoPort
                                   ELSE streamPort[s] = adbPort[s] + Width
  BY DEF InStep, Drawn
<1>2. ASSUME NEW s \in Session, Taken(s) PROVE InStep'
  <2>1. /\ adbFree # <<>> /\ streamFree # <<>>
        /\ adbPort' = [adbPort EXCEPT ![s] = Head(adbFree)]
        /\ streamPort' = [streamPort EXCEPT ![s] = Head(streamFree)]
        /\ adbFree' = Tail(adbFree) /\ streamFree' = Tail(streamFree)
        /\ s \notin Drawn /\ Drawn' = Drawn \cup {s}
    BY <1>2 DEF Taken
  <2>2. /\ Len(adbFree) \in Nat \ {0}
        /\ Head(adbFree) = adbFree[1] /\ Head(streamFree) = streamFree[1]
        /\ Len(adbFree') = Len(adbFree) - 1 /\ Len(streamFree') = Len(streamFree) - 1
        /\ \A i \in 1 .. Len(adbFree') : adbFree'[i] = adbFree[i + 1]
        /\ \A i \in 1 .. Len(streamFree') : streamFree'[i] = streamFree[i + 1]
    BY <1>0, <2>1, HeadTailProperties, EmptySeq
  <2>3. \A i \in 1 .. Len(adbFree') : i + 1 \in 1 .. Len(adbFree)
    BY <1>0, <2>2
  <2>4. 1 \in 1 .. Len(adbFree) /\ adbFree[1] # NoPort
    BY <1>0, <2>2, PortsTyped
  <2>5. \A t \in Drawn' :
            IF adbPort'[t] = NoPort THEN streamPort'[t] = NoPort
                                    ELSE streamPort'[t] = adbPort'[t] + Width
    BY <1>0, <1>1, <2>1, <2>2, <2>4
  <2>6. QED BY <1>1, <2>2, <2>3, <2>5 DEF InStep
<1>3. ASSUME NEW s \in Session, Refused(s) PROVE InStep'
  <2>1. adbFree = <<>> <=> streamFree = <<>>
    BY <1>0, <1>1, EmptySeq
  <2>2. /\ UNCHANGED <<adbFree, streamFree, adbPort, streamPort>>
        /\ Drawn' = Drawn \cup {s} /\ adbPort[s] = NoPort /\ streamPort[s] = NoPort
    BY <1>3, <2>1 DEF Refused
  <2>3. QED BY <1>1, <2>2 DEF InStep
<1>4. ASSUME NEW s \in Session, Given(s) PROVE InStep'
  <2>1. /\ adbFree' = Give(adbFree, adbPort[s])
        /\ streamFree' = Give(streamFree, streamPort[s])
        /\ UNCHANGED <<adbPort, streamPort>>
        /\ s \in Drawn /\ Drawn' = Drawn
    BY <1>4 DEF Given, GivePorts
  <2>2. CASE adbPort[s] = NoPort
    <3>1. streamPort[s] = NoPort
      BY <1>1, <2>1, <2>2
    <3>2. QED BY <1>1, <2>1, <2>2, <3>1 DEF Give, InStep
  <2>3. CASE adbPort[s] # NoPort
    <3>1. /\ adbPort[s] \in AdbPorts /\ streamPort[s] = adbPort[s] + Width
          /\ streamPort[s] # NoPort /\ streamPort[s] \in StreamPorts
      <4>1. adbPort[s] \in AdbPorts /\ adbPort[s] \in Nat \ {0}
        BY <1>0, <2>3
      <4>2. streamPort[s] = adbPort[s] + Width
        BY <1>1, <2>1, <2>3
      <4>3. streamPort[s] # NoPort
        BY <1>0, <4>1, <4>2 DEF NoPort
      <4>4. streamPort[s] \in StreamPorts
        BY <1>0, <4>3
      <4>5. QED BY <4>1, <4>2, <4>3, <4>4
    <3>2. \A i \in 1 .. Len(adbFree) : adbFree[i] \in Nat
      BY <1>0, ElementOfSeq
    <3>3. adbPort[s] \in Range(adbFree) <=> streamPort[s] \in Range(streamFree)
      <4>1. \A i \in 1 .. Len(adbFree) :
                adbFree[i] = adbPort[s] <=> streamFree[i] = streamPort[s]
        <5>1. adbPort[s] \in Nat
          BY <1>0, <3>1
        <5>2. QED BY <1>0, <1>1, <3>1, <3>2, <5>1
      <4>2. QED BY <1>0, <1>1, <4>1 DEF Range
    <3>4. CASE adbPort[s] \in Range(adbFree)
      BY <1>1, <2>1, <3>3, <3>4 DEF Give, InStep
    <3>5. CASE adbPort[s] \notin Range(adbFree)
      <4>1. /\ adbFree' = Append(adbFree, adbPort[s])
            /\ streamFree' = Append(streamFree, streamPort[s])
        BY <2>1, <2>3, <3>1, <3>3, <3>5 DEF Give
      <4>2. /\ Len(adbFree') = Len(adbFree) + 1 /\ Len(streamFree') = Len(adbFree) + 1
            /\ \A i \in 1 .. Len(adbFree) : /\ adbFree'[i] = adbFree[i]
                                            /\ streamFree'[i] = streamFree[i]
            /\ adbFree'[Len(adbFree) + 1] = adbPort[s]
            /\ streamFree'[Len(adbFree) + 1] = streamPort[s]
        BY <1>0, <1>1, <3>1, <4>1
      <4>3. \A i \in 1 .. (Len(adbFree) + 1) :
                i \in 1 .. Len(adbFree) \/ i = Len(adbFree) + 1
        BY <1>0
      <4>4. QED BY <1>1, <2>1, <3>1, <4>2, <4>3 DEF InStep
    <3>6. QED BY <3>4, <3>5
  <2>4. QED BY <2>2, <2>3
<1>5. CASE Untouched
  BY <1>1, <1>5 DEF Untouched, InStep
<1>6. QED BY <1>2, <1>3, <1>4, <1>5 DEF PortStep

LEMMA NoPortLostInit == Init => NoPortLost
BY NewPools DEF Init, NoPortLost

LEMMA NoPortLostStep ==
    ASSUME TypeOK, InStep, NoPortLost, PortStep
    PROVE  NoPortLost'
<1>0. /\ adbFree \in Seq(AdbPorts) /\ streamFree \in Seq(StreamPorts)
      /\ adbPort \in [Session -> AdbPorts \cup {NoPort}]
      /\ streamPort \in [Session -> StreamPorts \cup {NoPort}]
      /\ stop \in [Session -> {"none", "stopping", "done"}]
      /\ \A s \in Drawn : adbPort[s] = NoPort <=> streamPort[s] = NoPort
      /\ Len(streamFree) = Len(adbFree)
  <2>1. \A s \in Drawn : adbPort[s] = NoPort <=> streamPort[s] = NoPort
    <3>1. TAKE s \in Drawn
    <3>2. CASE adbPort[s] = NoPort
      BY <3>2 DEF InStep
    <3>3. CASE adbPort[s] # NoPort
      <4>1. adbPort[s] \in Nat \ {0} /\ Width \in Nat
        BY <3>3, ConstantsAssumption DEF TypeOK, AdbPorts, Width, Drawn
      <4>2. streamPort[s] = adbPort[s] + Width
        BY <3>3 DEF InStep
      <4>3. QED BY <3>3, <4>1, <4>2 DEF NoPort
    <3>4. QED BY <3>2, <3>3
  <2>2. QED BY <2>1 DEF TypeOK, InStep
<1>1. /\ \A p \in AdbPorts :
            p \in Range(adbFree) \/ \E s \in Session : Holds(s) /\ adbPort[s] = p
      /\ \A p \in StreamPorts :
            p \in Range(streamFree) \/ \E s \in Session : Holds(s) /\ streamPort[s] = p
  BY DEF NoPortLost
<1>2. ASSUME NEW s \in Session, Taken(s) PROVE NoPortLost'
  <2>1. /\ Head(adbFree) \in AdbPorts /\ Head(streamFree) \in StreamPorts
        /\ Range(adbFree) = Range(adbFree') \cup {Head(adbFree)}
        /\ Range(streamFree) = Range(streamFree') \cup {Head(streamFree)}
    BY <1>0, <1>2, TakeFromPool DEF Taken
  <2>2. /\ adbPort' = [adbPort EXCEPT ![s] = Head(adbFree)]
        /\ streamPort' = [streamPort EXCEPT ![s] = Head(streamFree)]
        /\ stop' = stop /\ stop[s] = "none"
        /\ adbPort[s] = NoPort /\ streamPort[s] = NoPort
    BY <1>0, <1>2 DEF Taken
  <2>3. Holds(s)' /\ adbPort'[s] = Head(adbFree) /\ streamPort'[s] = Head(streamFree)
    BY <1>0, <2>1, <2>2, PortsTyped DEF Holds
  <2>4. \A t \in Session : Holds(t) => /\ Holds(t)'
                                       /\ adbPort'[t] = adbPort[t]
                                       /\ streamPort'[t] = streamPort[t]
    BY <1>0, <2>2 DEF Holds
  <2>5. QED BY <1>1, <2>1, <2>3, <2>4 DEF NoPortLost
<1>3. ASSUME NEW s \in Session, Refused(s) PROVE NoPortLost'
  <2>1. adbFree = <<>> <=> streamFree = <<>>
    BY <1>0, EmptySeq
  <2>2. UNCHANGED <<adbFree, streamFree, adbPort, streamPort>>
    BY <1>3, <2>1 DEF Refused
  <2>3. \A t \in Session : Holds(t) => Holds(t)'
    BY <1>0, <1>3, <2>2 DEF Refused, Holds
  <2>4. QED BY <1>1, <2>2, <2>3 DEF NoPortLost
<1>4. ASSUME NEW s \in Session, Given(s) PROVE NoPortLost'
  <2>1. /\ adbFree' = Give(adbFree, adbPort[s])
        /\ streamFree' = Give(streamFree, streamPort[s])
        /\ adbPort' = adbPort /\ streamPort' = streamPort
        /\ \A t \in Session \ {s} : Holds(t) => Holds(t)'
    BY <1>4 DEF Given, GivePorts, Holds
  <2>2. /\ Range(Give(adbFree, adbPort[s])) =
              IF adbPort[s] = NoPort THEN Range(adbFree)
                                     ELSE Range(adbFree) \cup {adbPort[s]}
        /\ Range(Give(streamFree, streamPort[s])) =
              IF streamPort[s] = NoPort THEN Range(streamFree)
                                        ELSE Range(streamFree) \cup {streamPort[s]}
    <3>1. /\ adbPort[s] \in AdbPorts \cup {NoPort}
          /\ streamPort[s] \in StreamPorts \cup {NoPort}
      BY <1>0
    <3>2. QED BY <1>0, <3>1, GiveToPool
  <2>3. Holds(s) => adbPort[s] \in Range(adbFree') /\ streamPort[s] \in Range(streamFree')
    BY <1>0, <1>4, <2>1, <2>2 DEF Holds, Given
  <2>4. /\ Range(adbFree) \subseteq Range(adbFree')
        /\ Range(streamFree) \subseteq Range(streamFree')
    BY <2>1, <2>2
  <2>5. QED BY <1>1, <2>1, <2>3, <2>4 DEF NoPortLost
<1>5. CASE Untouched
  <2>1. \A t \in Session : Holds(t) => Holds(t)'
    BY <1>0, <1>5 DEF Untouched, Holds
  <2>2. QED BY <1>1, <1>5, <2>1 DEF Untouched, NoPortLost
<1>6. QED BY <1>2, <1>3, <1>4, <1>5 DEF PortStep

\* Failing boots and teardowns in any order lose no port, as long as the stream
\* range is as wide as the adb range (the code fixes the former at 100 and lets
\* the environment set the latter).
THEOREM PortsAreNotLost ==
    ASSUME StreamSpan = AdbMax - AdbMin
    PROVE  Spec => []NoPortLost
<1>0. StreamSpan = Width
  BY DEF Width
<1>1. Init => InStep
  BY <1>0, InStepInit
<1>2. TypeOK /\ PoolInv /\ InStep /\ NoPortLost /\ [Next]_vars => InStep' /\ NoPortLost'
  BY PoolNext, InStepStep, NoPortLostStep
<1>3. QED BY <1>1, <1>2, PoolInvariant, NoPortLostInit, PTL DEF Spec

-----------------------------------------------------------------------------
(* SessionManager implements SessionLifecycle. *)

LEMMA LiveIsRegistered == TypeOK /\ RegistryInv => Lifecycle!Live = sessions
BY DEF TypeOK, RegistryInv, Lifecycle!Live, phase

\* SessionLifecycle has the library's Cardinality under a name of its own.
LEMMA SameCardinality ==
    ASSUME NEW S PROVE Lifecycle!Cardinality(S) = Cardinality(S)
BY DEF Cardinality, Lifecycle!Cardinality

LEMMA LifecycleInit == Init => Lifecycle!Init
BY DEF Init, Lifecycle!Init, phase

\* A step that ends the sessions of S.
LEMMA DestroyEndsPhase ==
    ASSUME TypeOK, RegistryInv, NEW S \in SUBSET sessions, Destroy(S)
    PROVE  Lifecycle!End(S)
<1>1. phase' = [s \in Session |-> IF s \in S THEN "gone" ELSE phase[s]]
  BY DEF TypeOK, RegistryInv, Destroy, phase
<1>2. QED BY <1>1 DEF Destroy, Lifecycle!End

LEMMA LifecycleNext ==
    TypeOK /\ RegistryInv /\ [Next]_vars => [Lifecycle!Next]_<<phase, clients>>
<1> SUFFICES ASSUME TypeOK, RegistryInv, [Next]_vars
             PROVE  [Lifecycle!Next]_<<phase, clients>>
  OBVIOUS
<1> DEFINE Goal == [Lifecycle!Next]_<<phase, clients>>
<1>0. /\ sessions \subseteq Session
      /\ state \in [Session -> {"none", "starting", "ready", "stopping", "failed"}]
      /\ clients \in [Session -> 0 .. MaxViewers]
      /\ phase \in [Session -> {"absent", "starting", "ready", "gone"}]
      /\ Lifecycle!Live = sessions
  <2>1. phase \in [Session -> {"absent", "starting", "ready", "gone"}]
    BY DEF TypeOK, RegistryInv, phase
  <2>2. QED BY <2>1, LiveIsRegistered DEF TypeOK
<1>1. ASSUME NEW s \in Session, NEW b \in Backends, Create(s, b) PROVE Goal
  <2>1. /\ phase[s] = "absent" /\ clients' = clients
        /\ phase' = [phase EXCEPT ![s] = "starting"]
    BY <1>0, <1>1 DEF Create, viewerVars, RegistryInv, phase
  <2>2. Lifecycle!Admit(s)
    <3>1. Cardinality(Lifecycle!Live) < MaxSessions
      BY <1>0, <1>1 DEF Create
    <3>2. \E p \in {"starting", "gone"} : phase' = [phase EXCEPT ![s] = p]
      BY <2>1
    <3>3. QED BY <2>1, <3>1, <3>2, SameCardinality DEF Lifecycle!Admit
  <2>3. QED BY <2>2 DEF Lifecycle!Next
<1>2. ASSUME NEW s \in Session, NEW b \in Backends, CreateWithoutPorts(s, b)
      PROVE  Goal
  <2>1. /\ phase[s] = "absent" /\ clients' = clients
        /\ phase' = [phase EXCEPT ![s] = "gone"]
    BY <1>0, <1>2 DEF CreateWithoutPorts, viewerVars, RegistryInv, phase
  <2>2. Lifecycle!Admit(s)
    <3>1. Cardinality(Lifecycle!Live) < MaxSessions
      BY <1>0, <1>2 DEF CreateWithoutPorts
    <3>2. \E p \in {"starting", "gone"} : phase' = [phase EXCEPT ![s] = p]
      BY <2>1
    <3>3. QED BY <2>1, <3>1, <3>2, SameCardinality DEF Lifecycle!Admit
  <2>3. QED BY <2>2 DEF Lifecycle!Next
<1>3. ASSUME NEW s \in Session, StreamStarted(s) PROVE Goal
  <2>0. boot[s] = "stream" /\ clients' = clients /\ sessions' = sessions
        /\ state' = [state EXCEPT ![s] = "ready"] /\ state[s] # "none"
    BY <1>3 DEF StreamStarted, RegistryInv
  <2>1. CASE s \in sessions
    <3>1. phase[s] = "starting" /\ phase' = [phase EXCEPT ![s] = "ready"]
      BY <1>0, <2>0, <2>1 DEF RegistryInv, phase
    <3>2. Lifecycle!BecomeReady(s)
      BY <2>0, <3>1 DEF Lifecycle!BecomeReady
    <3>3. QED BY <3>2 DEF Lifecycle!Next
  <2>2. CASE s \notin sessions
    <3>1. phase' = phase
      BY <1>0, <2>0, <2>2 DEF phase
    <3>2. QED BY <2>0, <3>1
  <2>3. QED BY <2>1, <2>2
<1>4. ASSUME NEW s \in Session, BootFails(s) PROVE Goal
  <2>1. CASE s \in sessions
    <3>1. Destroy({s})
      BY <1>4, <2>1 DEF BootFails
    <3>2. Lifecycle!End({s})
      BY <2>1, <3>1, DestroyEndsPhase
    <3>3. {s} \in SUBSET Lifecycle!Live
      BY <1>0, <2>1
    <3>4. QED BY <3>2, <3>3 DEF Lifecycle!Next
  <2>2. CASE s \notin sessions
    <3>1. /\ state' = [state EXCEPT ![s] = "failed"]
          /\ sessions' = sessions /\ clients' = clients
      BY <1>4, <2>2 DEF BootFails
    <3>2. state[s] # "none"
      BY <1>4 DEF BootFails, CanFail, RegistryInv
    <3>3. phase' = phase
      BY <1>0, <2>2, <3>1, <3>2 DEF phase
    <3>4. QED BY <3>1, <3>3
  <2>3. QED BY <2>1, <2>2
<1>5. ASSUME NEW s \in Session, Delete(s) PROVE Goal
  <2>1. Lifecycle!End({s})
    BY <1>5, DestroyEndsPhase DEF Delete
  <2>2. {s} \in SUBSET Lifecycle!Live
    BY <1>0, <1>5 DEF Delete
  <2>3. QED BY <2>1, <2>2 DEF Lifecycle!Next
<1>6. ASSUME ReapIdle PROVE Goal
  <2>1. PICK S \in SUBSET sessions : Destroy(S)
    BY <1>6 DEF ReapIdle
  <2>2. Lifecycle!End(S)
    BY <2>1, DestroyEndsPhase
  <2>3. QED BY <1>0, <2>2 DEF Lifecycle!Next
<1>7. ASSUME NEW s \in Session, Attach(s) PROVE Goal
  <2>1. /\ phase' = phase /\ phase[s] = "ready"
        /\ clients' = [clients EXCEPT ![s] = clients[s] + 1]
    BY <1>0, <1>7 DEF Attach, RegistryInv, phase
  <2>2. Lifecycle!Watch(s)
    BY <2>1 DEF Lifecycle!Watch
  <2>3. QED BY <2>2 DEF Lifecycle!Next
<1>8. ASSUME NEW s \in Session, Detach(s) PROVE Goal
  <2>1. /\ phase' = phase /\ clients[s] > 0
        /\ clients' = [clients EXCEPT ![s] = clients[s] - 1]
    BY <1>0, <1>8 DEF Detach, phase
  <2>2. Lifecycle!Unwatch(s)
    BY <2>1 DEF Lifecycle!Unwatch
  <2>3. QED BY <2>2 DEF Lifecycle!Next
<1>9. ASSUME NEW s \in Session, StreamCloses(s) PROVE Goal
  <2>1. phase' = phase /\ clients' = [clients EXCEPT ![s] = 0]
    BY <1>0, <1>9 DEF StreamCloses, phase
  <2>2. CASE clients[s] = 0
    BY <1>0, <2>1, <2>2
  <2>3. CASE clients[s] > 0
    <3>1. Lifecycle!Unwatch(s)
      BY <2>1, <2>3 DEF Lifecycle!Unwatch
    <3>2. QED BY <3>1 DEF Lifecycle!Next
  <2>4. clients[s] = 0 \/ clients[s] > 0
    BY <1>0
  <2>5. QED BY <2>2, <2>3, <2>4
<1>10. ASSUME NEW s \in Session,
              \/ ContainerStarted(s) \/ DeviceStarted(s) \/ DestroyEnds(s)
              \/ IdleTimeout(s) \/ DeviceComesUp(s) \/ DeviceStops(s)
       PROVE  Goal
  <2>1. UNCHANGED <<sessions, state, clients>>
    BY <1>10 DEF ContainerStarted, DeviceStarted, DestroyEnds, IdleTimeout,
                 DeviceComesUp, DeviceStops, viewerVars
  <2>2. QED BY <2>1 DEF phase
<1>11. CASE UNCHANGED vars
  BY <1>11 DEF vars, viewerVars, phase
<1>12. QED BY <1>1, <1>2, <1>3, <1>4, <1>5, <1>6, <1>7, <1>8, <1>9, <1>10, <1>11
           DEF Next

\* Whatever #boot() and destroy() do to each other, a client of the HTTP API
\* sees sessions that start below the limit, become ready at most once and end
\* for good.
THEOREM ImplementsSessionLifecycle == Spec => ImplementsLifecycle
<1>1. Spec => [](TypeOK /\ RegistryInv)
  BY RegistryInvariant
<1>2. Spec => Lifecycle!Init /\ [][Lifecycle!Next]_<<phase, clients>>
  BY <1>1, LifecycleInit, LifecycleNext, PTL DEF Spec
<1>3. QED BY <1>2 DEF ImplementsLifecycle, Lifecycle!Spec, Lifecycle!lifecycleVars
=============================================================================
