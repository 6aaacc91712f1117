-------------------------- MODULE ScrcpyStreamProofs --------------------------
(***************************************************************************)
(* Whatever the number of attempts, a stream that opens has the server's   *)
(* first connection for video and its second for control; and one that is  *)
(* closed holds no open socket, though it was closed before it had them,   *)
(* nor a forward whose removal has not been asked for.  start() ends after *)
(* a number of steps that the number of attempts bounds.                   *)
(***************************************************************************)
EXTENDS ScrcpyStream, TLAPS

SocketType == [conn : 0 .. 2, state : {"none", "open", "lost", "shut"}]

\* Which connection start() has in hand, at each of its awaits: one it has let
\* go of was the server's last.
RolesInv ==
    /\ pc \in {"push", "forward"} => accepted = 0 /\ trial = NoSocket
    /\ pc = "push" => server = "none"
    /\ server = "none" => trial.conn = 0
    /\ trial.state = "lost" => trial.conn = 0 \/ server = "gone"
    /\ pc = "video" =>
        /\ trial.conn \in {0, 1}
        /\ trial.conn = 1 => accepted = 1
        /\ trial.conn = 0 => accepted = 0 \/ server = "gone"
    /\ pc = "control" =>
        /\ video.conn = 1
        /\ trial.conn \in {0, 2}
        /\ trial.conn = 0 => accepted = 1 \/ server = "gone"
    /\ RolesAgree

NoneOpen == trial.state # "open" /\ video.state # "open" /\ control.state # "open"

\* A stream closed under start() has lost its server, and with it every socket
\* that #shutdown() could not see.
ClosedInv ==
    /\ server \in {"none", "gone"} => NoneOpen
    /\ pc = "push" => server = "none"
    /\ closed => /\ video.state # "open" /\ control.state # "open"
                 /\ pc # "open" => server = "gone"

StreamInv == TypeOK /\ RolesInv /\ ClosedInv

-----------------------------------------------------------------------------
\* Losing and shutting a socket keep its number and never open it.
LEMMA SocketOps ==
    ASSUME NEW s \in SocketType
    PROVE  /\ Lose(s) \in SocketType /\ Lose(s).conn = s.conn /\ Lose(s).state # "open"
           /\ Shut(s) \in SocketType /\ Shut(s).conn = s.conn /\ Shut(s).state # "open"
           /\ s = NoSocket => Lose(s) = NoSocket
  BY DEF SocketType, Lose, Shut, NoSocket, Socket

\* The sockets that #connectWithRetry() makes.
LEMMA SocketTypes ==
    /\ NoSocket \in SocketType /\ NoSocket.conn = 0 /\ NoSocket.state = "none"
    /\ \A n \in 0 .. 2 :
        /\ Socket(n, "open") \in SocketType /\ Socket(n, "open").conn = n
        /\ Socket(n, "lost") \in SocketType /\ Socket(n, "lost").conn = n
        /\ Socket(n, "lost").state = "lost"
  BY DEF SocketType, NoSocket, Socket

\* The invariant holds when the stream is made.
LEMMA InitStream == Init => StreamInv
<1> SUFFICES ASSUME Init PROVE StreamInv
  OBVIOUS
<1>1. TypeOK
  <2>1. {trial, video, control} \subseteq SocketType
    BY SocketTypes DEF Init
  <2>2. {closed, heard, stale, forward, device} \subseteq BOOLEAN
    BY Zenon DEF Init
  <2> QED BY <2>1, <2>2, AttemptsAssumption DEF Init, TypeOK, SocketType
<1>2. RolesInv
  BY SocketTypes DEF Init, RolesInv, RolesAgree
<1>3. ClosedInv
  BY SocketTypes DEF Init, ClosedInv, NoneOpen
<1> QED BY <1>1, <1>2, <1>3 DEF StreamInv

\* What TypeOK says, conjunct by conjunct.
LEMMA TypeParts ==
    ASSUME TypeOK
    PROVE  /\ trial \in SocketType /\ video \in SocketType /\ control \in SocketType
           /\ closed \in BOOLEAN /\ heard \in BOOLEAN /\ stale \in BOOLEAN
           /\ forward \in BOOLEAN /\ device \in BOOLEAN
           /\ tries \in 0 .. Attempts /\ Attempts \in Nat
           /\ accepted \in 0 .. 2
  BY AttemptsAssumption DEF TypeOK, SocketType

\* The pushes, the forward and the last failed attempt keep the invariant.
LEMMA StartsKeep ==
    ASSUME StreamInv, Push \/ Forward \/ GiveUp
    PROVE  StreamInv'
<1> USE DEF socketVars, hostVars, deviceVars
<1>1. CASE Push
  BY <1>1, TypeParts DEF Push, StreamInv, TypeOK, RolesInv, ClosedInv, RolesAgree, NoneOpen
<1>2. CASE Forward
  <2>1. forward' \in BOOLEAN
    BY <1>2, TypeParts, Zenon DEF Forward, StreamInv
  <2>2. TypeOK'
    BY <1>2, <2>1 DEF Forward, StreamInv, TypeOK
  <2>3. RolesInv' /\ ClosedInv'
    BY <1>2, SocketTypes DEF Forward, StreamInv, RolesInv, ClosedInv, RolesAgree, NoneOpen
  <2> QED BY <2>2, <2>3 DEF StreamInv
<1>3. CASE GiveUp
  BY <1>3, TypeParts DEF GiveUp, Connecting, StreamInv, TypeOK, RolesInv, ClosedInv, RolesAgree, NoneOpen
<1> QED BY <1>1, <1>2, <1>3

\* An attempt keeps it: the server numbers what it accepts.
LEMMA ConnectKeeps ==
    ASSUME StreamInv, Connect
    PROVE  StreamInv'
<1> USE DEF socketVars, hostVars, deviceVars
<1>1. TypeOK'
  BY TypeParts, SocketTypes DEF Connect, Opened, StreamInv, TypeOK, SocketType
<1>2. RolesInv'
  <2>1. /\ pc \in {"video", "control"} /\ pc' = pc /\ server' = server /\ video' = video
        /\ trial = NoSocket /\ trial.conn = 0 /\ accepted \in 0 .. 2
    BY TypeParts, SocketTypes DEF Connect, Connecting, StreamInv
  <2>2. CASE forward /\ server = "up" /\ accepted < 2
    <3>1. /\ trial'.conn = accepted + 1 /\ trial'.state = "open"
          /\ accepted' = accepted + 1
      BY <2>1, <2>2 DEF Connect, Opened, Socket
    <3> QED BY <2>1, <2>2, <3>1 DEF StreamInv, RolesInv, RolesAgree
  <2>3. CASE ~(forward /\ server = "up" /\ accepted < 2)
    <3>1. trial'.conn = 0 /\ accepted' = accepted
      BY <2>1, <2>3, SocketTypes DEF Connect, Opened
    <3> QED BY <2>1, <3>1 DEF StreamInv, RolesInv, RolesAgree
  <2> QED BY <2>2, <2>3
<1>3. ClosedInv'
  BY TypeParts, SocketTypes DEF Connect, Connecting, Opened, StreamInv, ClosedInv, NoneOpen
<1> QED BY <1>1, <1>2, <1>3 DEF StreamInv

\* A connection is let go of when it is lost, or kept when it is the server's.
LEMMA TrialsKeep ==
    ASSUME StreamInv, TrialCloses \/ TrialSettles
    PROVE  StreamInv'
<1> USE DEF socketVars, hostVars, deviceVars
<1>1. CASE TrialCloses
  <2>1. TypeOK'
    BY <1>1, TypeParts, SocketTypes DEF TrialCloses, StreamInv, TypeOK, SocketType
  <2>2. RolesInv'
    BY <1>1, TypeParts, SocketTypes DEF TrialCloses, StreamInv, RolesInv, RolesAgree
  <2>3. ClosedInv'
    BY <1>1, TypeParts, SocketTypes DEF TrialCloses, StreamInv, ClosedInv, NoneOpen
  <2> QED BY <2>1, <2>2, <2>3 DEF StreamInv
<1>2. CASE TrialSettles
  <2>1. TypeOK'
    BY <1>2, TypeParts, SocketTypes DEF TrialSettles, Keep, StreamInv, TypeOK, SocketType
  <2>2. RolesInv'
    BY <1>2, TypeParts, SocketTypes DEF TrialSettles, Keep, StreamInv, RolesInv, RolesAgree
  <2>3. ClosedInv'
    BY <1>2, TypeParts, SocketTypes DEF TrialSettles, Keep, StreamInv, ClosedInv, NoneOpen
  <2> QED BY <2>1, <2>2, <2>3 DEF StreamInv
<1> QED BY <1>1, <1>2

\* Whatever closes the stream, its server has gone if start() is still at work.
LEMMA EndsKeep ==
    ASSUME StreamInv, ReadVideoFails \/ ControlError \/ Stop \/ ProcExits
    PROVE  StreamInv'
<1> USE DEF startVars, socketVars, hostVars, deviceVars
<1>1. /\ pc' = pc /\ trial' = trial /\ tries' = tries /\ server' = server
      /\ accepted' = accepted /\ stale' = stale /\ forward' = forward /\ device' = device
      /\ proc' \in {proc, "exited"}
  BY DEF ReadVideoFails, ControlError, Stop, ProcExits
<1>2. CASE UNCHANGED <<socketVars, closed, removal, heard>>
  BY <1>1, <1>2 DEF StreamInv, TypeOK, RolesInv, ClosedInv, RolesAgree, NoneOpen
<1>3. CASE Shutdown
  <2>1. /\ video' \in SocketType /\ video'.conn = video.conn /\ video'.state # "open"
        /\ control' \in SocketType /\ control'.conn = control.conn
        /\ control'.state # "open"
    BY <1>3, SocketOps, TypeParts DEF Shutdown, StreamInv
  <2>2. closed' = TRUE /\ removal' = "asked"
    BY <1>3 DEF Shutdown
  <2>3. heard' \in BOOLEAN
    BY <1>3, TypeParts, Zenon DEF Shutdown, StreamInv
  <2>4. TypeOK'
    BY <1>1, <2>1, <2>2, <2>3 DEF StreamInv, TypeOK, SocketType
  <2>5. RolesInv'
    BY <1>1, <2>1 DEF StreamInv, RolesInv, RolesAgree
  <2>6. pc # "open" => server = "gone" /\ pc # "push"
    <3>1. pc # "open" => ProcExits /\ (server = "gone" \/ closed)
      BY Zenon DEF ReadVideoFails, ControlError, Stop, ProcExits
    <3>2. closed /\ pc # "open" => server = "gone"
      BY DEF StreamInv, ClosedInv
    <3>3. server = "gone" => pc # "push"
      BY DEF StreamInv, ClosedInv
    <3> QED BY <3>1, <3>2, <3>3
  <2>7. ClosedInv'
    BY <1>1, <2>1, <2>6 DEF StreamInv, ClosedInv, NoneOpen
  <2> QED BY <2>4, <2>5, <2>7 DEF StreamInv
<1>4. Shutdown \/ UNCHANGED <<socketVars, closed, removal, heard>>
  BY Zenon DEF ReadVideoFails, ControlError, Stop, ProcExits
<1> QED BY <1>2, <1>3, <1>4

\* A server that goes takes every connection with it.
LEMMA DeviceKeeps ==
    ASSUME StreamInv, RemoveForward \/ ServerListens \/ ServerExits \/ DeviceStops
    PROVE  StreamInv'
<1> USE DEF startVars, socketVars, hostVars, deviceVars
<1>1. CASE RemoveForward
  BY <1>1 DEF RemoveForward, StreamInv, TypeOK, RolesInv, ClosedInv, RolesAgree, NoneOpen
<1>2. CASE ServerListens
  BY <1>2 DEF ServerListens, StreamInv, TypeOK, RolesInv, ClosedInv, RolesAgree, NoneOpen
<1>3. CASE ServerExits \/ DeviceStops
  <2>1. /\ pc' = pc /\ tries' = tries /\ UNCHANGED hostVars /\ stale' = stale
        /\ accepted' = accepted
        /\ trial' = Lose(trial) /\ video' = Lose(video) /\ control' = Lose(control)
        /\ server' = IF server = "none" THEN "none" ELSE "gone"
    BY <1>3 DEF ServerExits, DeviceStops
  <2>2. forward' \in BOOLEAN /\ device' \in BOOLEAN
    BY <1>3, TypeParts, Zenon DEF ServerExits, DeviceStops, StreamInv
  <2>3. /\ trial' \in SocketType /\ trial'.conn = trial.conn /\ trial'.state # "open"
        /\ video' \in SocketType /\ video'.conn = video.conn /\ video'.state # "open"
        /\ control' \in SocketType /\ control'.conn = control.conn
        /\ control'.state # "open"
        /\ trial = NoSocket => trial' = NoSocket
    BY <2>1, SocketOps, TypeParts DEF StreamInv
  <2>4. TypeOK'
    BY <2>1, <2>2, <2>3 DEF StreamInv, TypeOK, SocketType
  <2>5. RolesInv'
    BY <2>1, <2>3, SocketTypes DEF StreamInv, RolesInv, RolesAgree
  <2>6. ClosedInv'
    BY <2>1, <2>3 DEF StreamInv, ClosedInv, NoneOpen
  <2> QED BY <2>4, <2>5, <2>6 DEF StreamInv
<1> QED BY <1>1, <1>2, <1>3

\* Every step keeps the invariant.
LEMMA NextStream == StreamInv /\ [Next]_vars => StreamInv'
<1> SUFFICES ASSUME StreamInv, [Next]_vars PROVE StreamInv'
  OBVIOUS
<1>1. CASE Next
  BY <1>1, StartsKeep, ConnectKeeps, TrialsKeep, EndsKeep, DeviceKeeps DEF Next
<1>2. CASE UNCHANGED vars
  BY <1>2 DEF vars, startVars, socketVars, hostVars, deviceVars, StreamInv, TypeOK,
      RolesInv, ClosedInv, RolesAgree, NoneOpen
<1> QED BY <1>1, <1>2

\* The invariant holds always.
THEOREM StreamInvariant == Spec => []StreamInv
  BY InitStream, NextStream, PTL DEF Spec

-----------------------------------------------------------------------------
\* Every variable keeps its type; in particular no more attempts are made than
\* #connectWithRetry() allows.
THEOREM StreamTypeCorrect == Spec => []TypeOK
<1>1. StreamInv => TypeOK
  BY DEF StreamInv
<1> QED BY <1>1, StreamInvariant, PTL

\* An open stream reads video from the server's first connection and writes
\* control messages to its second, after however many retries.
THEOREM RolesAlwaysAgree == Spec => []RolesAgree
<1>1. StreamInv => RolesAgree
  BY DEF StreamInv, RolesInv
<1> QED BY <1>1, StreamInvariant, PTL

\* A stream that was closed holds no open socket once start() has resolved,
\* whichever came first.
THEOREM ClosedHoldsNoSocket == Spec => []ClosedStreamsHoldNoSocket
<1>1. StreamInv => ClosedStreamsHoldNoSocket
  BY DEF StreamInv, ClosedInv, ClosedStreamsHoldNoSocket
<1> QED BY <1>1, StreamInvariant, PTL

-----------------------------------------------------------------------------
(* The forward *)

\* #shutdown() may ask for the removal of a forward that `adb forward` has yet to
\* make, which then stays; but a stream that opens was not closed so early, and
\* its forward outlasts only a removal that adb fails at.
ClosedForwardGoes ==
    pc = "open" /\ closed => (forward => removal \in {"asked", "failed"})

\* No socket has a number the server has not given; and a stream that was closed
\* too early for its forward to be removed will never have a connection.
ForwardInv ==
    /\ trial.conn <= accepted /\ video.conn <= accepted /\ control.conn <= accepted
    /\ closed => (forward => removal \in {"asked", "failed"}) \/ (accepted = 0 /\ server = "gone")

LEMMA NextForward ==
    StreamInv /\ ForwardInv /\ [Next]_vars => ForwardInv'
<1> SUFFICES ASSUME StreamInv, ForwardInv, [Next]_vars PROVE ForwardInv'
  OBVIOUS
<1> USE DEF startVars, socketVars, hostVars, deviceVars
<1>0. /\ trial \in SocketType /\ video \in SocketType /\ control \in SocketType
      /\ accepted \in 0 .. 2
  BY TypeParts DEF StreamInv
<1>1. CASE Push \/ GiveUp
  BY <1>1 DEF Push, GiveUp, StreamInv, ClosedInv, ForwardInv
<1>2. CASE Forward
  <2>1. closed => accepted = 0 /\ server = "gone"
    BY <1>2 DEF Forward, StreamInv, RolesInv, ClosedInv
  <2>2. QED BY <1>2, <2>1 DEF Forward, ForwardInv
<1>3. CASE Connect
  <2>1. /\ UNCHANGED <<video, control, closed, forward, removal, server>>
        /\ trial'.conn <= accepted' /\ accepted <= accepted' /\ accepted' \in Nat
        /\ server = "gone" => accepted' = accepted
    BY <1>0, <1>3, SocketTypes DEF Connect, Opened
  <2>2. QED BY <1>0, <2>1 DEF ForwardInv, SocketType
<1>4. CASE TrialCloses \/ TrialSettles
  BY <1>0, <1>4, SocketTypes DEF TrialCloses, TrialSettles, Keep, ForwardInv
<1>5. CASE ReadVideoFails \/ ControlError \/ Stop \/ ProcExits
  <2>1. trial' = trial /\ UNCHANGED <<accepted, forward, server>>
    BY <1>5 DEF ReadVideoFails, ControlError, Stop, ProcExits
  <2>2. Shutdown \/ UNCHANGED <<video, control, closed, removal>>
    BY <1>5, Zenon DEF ReadVideoFails, ControlError, Stop, ProcExits
  <2>3. CASE Shutdown
    <3>1. video'.conn = video.conn /\ control'.conn = control.conn /\ removal' = "asked"
      BY <1>0, <2>3, SocketOps DEF Shutdown
    <3>2. QED BY <2>1, <3>1 DEF ForwardInv
  <2>4. CASE UNCHANGED <<video, control, closed, removal>>
    BY <2>1, <2>4 DEF ForwardInv
  <2>5. QED BY <2>2, <2>3, <2>4
<1>6. CASE RemoveForward \/ ServerListens
  <2>1. CASE RemoveForward
    <3>1. UNCHANGED <<trial, video, control, accepted, closed, server>>
      BY <2>1 DEF RemoveForward
    <3>2. forward' = FALSE \/ removal' = "failed"
      BY <2>1, Zenon DEF RemoveForward
    <3>3. forward' => removal' \in {"asked", "failed"}
      BY <3>2
    <3>4. QED BY <3>1, <3>3 DEF ForwardInv
  <2>2. CASE ServerListens
    BY <2>2 DEF ServerListens, ForwardInv
  <2>3. QED BY <1>6, <2>1, <2>2
<1>7. CASE ServerExits \/ DeviceStops
  <2>1. /\ trial'.conn = trial.conn /\ video'.conn = video.conn
        /\ control'.conn = control.conn
    BY <1>0, <1>7, SocketOps DEF ServerExits, DeviceStops
  <2>2. /\ UNCHANGED <<accepted, closed, removal>> /\ (forward' => forward)
        /\ server = "gone" => server' = "gone"
    BY <1>7 DEF ServerExits, DeviceStops
  <2>3. QED BY <2>1, <2>2 DEF ForwardInv
<1>8. CASE UNCHANGED vars
  BY <1>8 DEF vars, ForwardInv
<1>9. QED BY <1>1, <1>2, <1>3, <1>4, <1>5, <1>6, <1>7, <1>8 DEF Next

\* A stream that was closed, be it under start(), and has opened holds no forward
\* of adb's but one whose removal #shutdown() has asked for and adb has not yet
\* tried, or has failed at: a removal that succeeds is never undone by start().
THEOREM ClosedForwardsGo == Spec => []ClosedForwardGoes
<1>1. Init => ForwardInv
  BY SocketTypes DEF Init, ForwardInv
<1>2. StreamInv /\ ForwardInv => ClosedForwardGoes
  BY TypeParts DEF StreamInv, RolesInv, RolesAgree, ForwardInv, ClosedForwardGoes
<1>3. QED BY <1>1, <1>2, NextForward, StreamInvariant, PTL DEF Spec

-----------------------------------------------------------------------------
(* The length of start() *)

StartStep == Push \/ Forward \/ Connect \/ GiveUp \/ TrialCloses \/ TrialSettles

\* The steps that start() can still take, at most: in each #connectWithRetry() an
\* attempt is a step, and the fate of its connection another.
StepsLeft ==
    LET retries == 2 * (Attempts - tries) + (IF trial = NoSocket THEN 0 ELSE 1)
    IN  CASE pc = "push"    -> 4 * Attempts + 3
          [] pc = "forward" -> 4 * Attempts + 2
          [] pc = "video"   -> 2 * Attempts + 1 + retries
          [] pc = "control" -> 1 + retries
          [] OTHER          -> 0

\* Each step of start() brings it nearer its end, and nothing that happens
\* meanwhile takes it further away.
StartAdvances ==
    [][/\ StartStep => StepsLeft' < StepsLeft
       /\ ~StartStep => StepsLeft' = StepsLeft]_vars

\* A socket is on trial only inside #connectWithRetry(), and then it either
\* survives the grace window or has been closed: start() always has a step to take.
TrialDecided ==
    trial # NoSocket =>
        pc \in {"video", "control"} /\ (trial.state = "lost" \/ trial.conn # 0)

LEMMA StepsLeftType == ASSUME TypeOK PROVE StepsLeft \in Nat
BY TypeParts DEF StepsLeft

LEMMA StartStepsAdvance == ASSUME StreamInv, TrialDecided, StartStep PROVE StepsLeft' < StepsLeft
<1> USE DEF socketVars, hostVars, deviceVars
<1>0. Attempts \in Nat \ {0} /\ tries \in 0 .. Attempts /\ (trial = NoSocket \/ trial # NoSocket)
  BY TypeParts, AttemptsAssumption DEF StreamInv
<1>1. CASE Push
  BY <1>0, <1>1 DEF Push, StepsLeft
<1>2. CASE Forward
  <2>1. accepted = 0 /\ trial = NoSocket /\ trial' = trial /\ tries' = tries
        /\ pc' \in {"video", "failed"} /\ pc = "forward"
    BY <1>2 DEF Forward, StreamInv, RolesInv
  <2>2. QED BY <1>0, <2>1 DEF StepsLeft
<1>3. CASE Connect
  <2>1. pc \in {"video", "control"} /\ pc' = pc /\ trial = NoSocket /\ tries' = tries + 1
        /\ tries < Attempts
    BY <1>3 DEF Connect, Connecting
  <2>2. QED BY <1>0, <2>1 DEF StepsLeft
<1>4. CASE GiveUp
  <2>1. pc \in {"video", "control"} /\ pc' = "failed"
    BY <1>4 DEF GiveUp, Connecting
  <2>2. QED BY <1>0, <2>1 DEF StepsLeft
<1>5. CASE TrialCloses
  <2>1. trial # NoSocket /\ trial' = NoSocket /\ UNCHANGED <<pc, tries>>
    BY <1>5, SocketTypes DEF TrialCloses
  <2>2. pc \in {"video", "control"}
    BY <2>1 DEF TrialDecided
  <2>3. QED BY <1>0, <2>1, <2>2 DEF StepsLeft
<1>6. CASE TrialSettles
  <2>1. trial # NoSocket /\ trial' = NoSocket
        /\ \/ pc = "video" /\ pc' = "control" /\ tries' = 0
           \/ pc = "control" /\ pc' = "open" /\ tries' = tries
    BY <1>6 DEF TrialSettles, Keep
  <2>2. QED BY <1>0, <2>1 DEF StepsLeft
<1>7. QED BY <1>1, <1>2, <1>3, <1>4, <1>5, <1>6 DEF StartStep

LEMMA OtherStepsWait ==
    ASSUME StreamInv, [Next]_vars, ~StartStep PROVE StepsLeft' = StepsLeft
<1> USE DEF startVars, socketVars, hostVars, deviceVars
<1>1. UNCHANGED <<pc, tries>>
  BY DEF StartStep, Next, ReadVideoFails, ControlError, Stop, ProcExits, RemoveForward,
     ServerListens, ServerExits, DeviceStops, vars
<1>2. trial' = trial \/ trial' = Lose(trial)
  BY DEF StartStep, Next, ReadVideoFails, ControlError, Stop, ProcExits, RemoveForward,
     ServerListens, ServerExits, DeviceStops, vars
<1>3. Lose(trial) = NoSocket <=> trial = NoSocket
  <2>1. trial \in SocketType
    BY TypeParts DEF StreamInv
  <2>2. QED BY <2>1 DEF Lose, NoSocket, Socket, SocketType
<1>4. trial' = NoSocket <=> trial = NoSocket
  BY <1>2, <1>3
<1>5. QED BY <1>1, <1>4 DEF StepsLeft

\* At each of its awaits start() has a step to take: it is never left with a
\* socket that neither survives nor closes.
THEOREM StartGoesOn == Spec => []TrialDecided
<1>1. Init => TrialDecided
  BY DEF Init, TrialDecided
<1>2. StreamInv /\ TrialDecided /\ [Next]_vars => TrialDecided'
  <2> SUFFICES ASSUME StreamInv, TrialDecided, [Next]_vars PROVE TrialDecided'
    OBVIOUS
  <2> USE DEF TrialDecided, startVars
  <2>0. trial \in SocketType /\ accepted \in 0 .. 2
    BY TypeParts DEF StreamInv
  <2>1. CASE Connect
    <3>1. /\ pc \in {"video", "control"} /\ pc' = pc
          /\ \/ trial' \in {NoSocket, Socket(0, "lost")}
             \/ trial' = Socket(accepted + 1, "open")
      BY <2>1 DEF Connect, Connecting, Opened
    <3>2. QED BY <2>0, <3>1 DEF Socket
  <2>2. CASE trial' = NoSocket
    BY <2>2
  <2>3. CASE UNCHANGED <<pc, trial>>
    BY <2>3
  <2>4. CASE ServerExits \/ DeviceStops
    BY <2>0, <2>4, SocketOps DEF ServerExits, DeviceStops, Lose, SocketType
  <2>5. CASE Push \/ Forward
    BY <2>5, <2>2 DEF Push, Forward, StreamInv, RolesInv
  <2>6. CASE GiveUp
    BY <2>6, <2>2 DEF GiveUp, Connecting
  <2>7. QED
    BY <2>1, <2>2, <2>3, <2>4, <2>5, <2>6
    DEF Next, TrialCloses, TrialSettles, Keep, ReadVideoFails, ControlError, Stop,
        ProcExits, RemoveForward, ServerListens, vars
<1>3. QED BY <1>1, <1>2, StreamInvariant, PTL DEF Spec

\* Whatever is refused, lost or shut down meanwhile, start() ends after at most
\* 4 * Attempts + 3 steps of its own, for every number of attempts.
THEOREM StartAlwaysAdvances == Spec => StartAdvances
<1>1. StreamInv /\ TrialDecided /\ [Next]_vars =>
          (StartStep => StepsLeft' < StepsLeft) /\ (~StartStep => StepsLeft' = StepsLeft)
  BY StartStepsAdvance, OtherStepsWait
<1>2. QED BY <1>1, StreamInvariant, StartGoesOn, PTL DEF Spec, StartAdvances
=============================================================================
