----------------------------- MODULE ScrcpyStream -----------------------------
(***************************************************************************)
(* One ScrcpyStream (scrcpy.js) from start() to #shutdown(): the process   *)
(* `adb shell` that hosts the scrcpy server, the adb forward, and the two  *)
(* connections through it, of which the server takes the first it accepts  *)
(* for video and the second for control.                                   *)
(*                                                                         *)
(* `pc` says where start() is suspended.  Between any two of its awaits    *)
(* the server may exit, and #shutdown() runs under start()'s feet.         *)
(***************************************************************************)
EXTENDS Integers

CONSTANT Attempts     \* of #connectWithRetry(); 60 in the code

ASSUME AttemptsAssumption == Attempts \in Nat \ {0}

VARIABLES
    pc,        \* "push", "forward", "video", "control": what start() awaits;
               \* then "open" or "failed"
    tries,     \* i of the present #connectWithRetry()
    trial,     \* its socket, while it waits whether the connection survives
    video,     \* ScrcpyStream.videoSocket
    control,   \* ScrcpyStream.controlSocket
    proc,      \* ScrcpyStream.proc
    closed,    \* ScrcpyStream.closed
    removal,   \* `adb forward --remove`: "none", "asked", "done" or "failed"
    heard,     \* the bridge has handled 'close'
    stale,     \* history: closed already when start() resolved
    server,    \* the scrcpy server on the device
    accepted,  \* connections it has accepted
    forward,   \* adb forwards hostPort to the server's socket
    device     \* adb has the device

startVars  == <<pc, tries, trial>>
socketVars == <<video, control>>
hostVars   == <<proc, closed, removal, heard>>
deviceVars == <<server, accepted, forward, device>>
vars == <<startVars, socketVars, hostVars, stale, deviceVars>>

-----------------------------------------------------------------------------
(* A socket is connected to adb; `conn` is the server's number for it, or 0  *)
(* if adb could not open it on the device.  A lost one has been closed by    *)
(* adb, a shut one by #shutdown().                                           *)

Socket(conn, state) == [conn |-> conn, state |-> state]
NoSocket == Socket(0, "none")

Lose(s) == IF s.state = "open" THEN [s EXCEPT !.state = "lost"] ELSE s
Shut(s) == IF s.state = "none" THEN s ELSE [s EXCEPT !.state = "shut"]

\* Fault: the forward stays.
ShutdownKeepingForward ==
    /\ closed' = TRUE
    /\ video' = Shut(video) /\ control' = Shut(control)
    /\ heard' = (heard \/ pc = "open")
    /\ UNCHANGED removal

\* Fault: the video socket alone is destroyed.
ShutdownVideo ==
    /\ closed' = TRUE
    /\ video' = Shut(video) /\ UNCHANGED control
    /\ removal' = "asked"
    /\ heard' = (heard \/ pc = "open")

\* #shutdown(): whoever listens for 'close' at that moment hears of it, and
\* that is nobody before start() has resolved and the bridge exists.
Shutdown ==
    /\ closed' = TRUE
    /\ video' = Shut(video) /\ control' = Shut(control)
    /\ removal' = "asked"
    /\ heard' = (heard \/ pc = "open")

-----------------------------------------------------------------------------
(* start() *)

Push ==
    /\ pc = "push"
    /\ \/ /\ device
          /\ pc' = "forward"
          /\ proc' = "running" /\ server' = "starting"
       \/ /\ pc' = "failed"
          /\ UNCHANGED <<proc, server>>
    /\ UNCHANGED <<tries, trial, socketVars, closed, removal, heard, stale,
                   accepted, forward, device>>

\* A command that times out may have had its effect.
Forward ==
    /\ pc = "forward"
    /\ \/ device /\ pc' = "video" /\ forward' = TRUE
       \/ pc' = "failed" /\ forward' \in {forward, device}
    /\ UNCHANGED <<tries, trial, socketVars, hostVars, stale, server, accepted,
                   device>>

Connecting == pc \in {"video", "control"} /\ trial = NoSocket

\* What net.connect() gets: nothing without a forward; a connection the server
\* accepts; or one that adb closes when it finds no socket on the device.
Opened ==
    /\ trial' = IF ~forward THEN NoSocket
                ELSE IF server = "up" /\ accepted < 2 THEN Socket(accepted + 1, "open")
                ELSE Socket(0, "lost")
    /\ accepted' = IF forward /\ server = "up" /\ accepted < 2
                   THEN accepted + 1 ELSE accepted

\* Fault: a refused connection is not an attempt.
ConnectUncounted ==
    /\ Connecting /\ tries < Attempts
    /\ tries' = IF forward THEN tries + 1 ELSE tries
    /\ Opened
    /\ UNCHANGED <<pc, socketVars, hostVars, stale, server, forward, device>>

Connect ==
    /\ Connecting /\ tries < Attempts
    /\ tries' = tries + 1
    /\ Opened
    /\ UNCHANGED <<pc, socketVars, hostVars, stale, server, forward, device>>

GiveUp ==
    /\ Connecting /\ tries = Attempts
    /\ pc' = "failed"
    /\ UNCHANGED <<tries, trial, socketVars, hostVars, stale, deviceVars>>

\* The socket closes within the grace window.
TrialCloses ==
    /\ trial.state = "lost"
    /\ trial' = NoSocket
    /\ UNCHANGED <<pc, tries, socketVars, hostVars, stale, deviceVars>>

\* The socket is the stream's; after the second one start() resolves, and the
\* bridge subscribes in the same turn.
Keep ==
    /\ trial' = NoSocket
    /\ \/ /\ pc = "video"
          /\ video' = trial /\ pc' = "control" /\ tries' = 0
          /\ UNCHANGED <<control, stale>>
       \/ /\ pc = "control"
          /\ control' = trial /\ pc' = "open" /\ stale' = closed
          /\ UNCHANGED <<tries, video>>
    /\ UNCHANGED <<hostVars, deviceVars>>

\* Fault: any connection is trusted at once.
TrialTrusted == trial # NoSocket /\ Keep

\* The window passes.  It is long enough for adb to close what it could not
\* open, but a connection lost at its end is taken for a live one.
TrialSettles == trial # NoSocket /\ trial.conn # 0 /\ Keep

-----------------------------------------------------------------------------
(* The end of a stream *)

\* #readVideo() rejects: its socket is lost, or a frame is implausible.
ReadVideoFails ==
    /\ pc = "open" /\ ~closed
    /\ Shutdown
    /\ UNCHANGED <<startVars, proc, stale, deviceVars>>

ControlError ==
    /\ pc = "open" /\ ~closed /\ control.state = "lost"
    /\ Shutdown
    /\ UNCHANGED <<startVars, proc, stale, deviceVars>>

\* SessionBridge.close().  Before there is a bridge nobody calls stop().
Stop ==
    /\ pc = "open" /\ ~closed
    /\ Shutdown
    /\ UNCHANGED <<startVars, proc, stale, deviceVars>>

\* Fault: nobody looks at the exit of the process.
ProcExitsUnnoticed ==
    /\ proc = "running" /\ (server = "gone" \/ closed)
    /\ proc' = "exited"
    /\ UNCHANGED <<startVars, socketVars, closed, removal, heard, stale, deviceVars>>

\* `adb shell` ends with the server, or with the SIGTERM of #shutdown().
ProcExits ==
    /\ proc = "running" /\ (server = "gone" \/ closed)
    /\ proc' = "exited"
    /\ IF closed THEN UNCHANGED <<socketVars, closed, removal, heard>> ELSE Shutdown
    /\ UNCHANGED <<startVars, stale, deviceVars>>

\* removeForward() keeps a failure to itself, and nobody tries again.  A removal
\* that times out may have had its effect.
RemoveForward ==
    /\ removal = "asked"
    /\ \/ removal' = "done" /\ forward' = FALSE
       \/ removal' = "failed" /\ forward' \in {forward, FALSE}
    /\ UNCHANGED <<startVars, socketVars, proc, closed, heard, stale, server,
                   accepted, device>>

-----------------------------------------------------------------------------
(* The device *)

ServerListens ==
    /\ server = "starting"
    /\ server' = "up"
    /\ UNCHANGED <<startVars, socketVars, hostVars, stale, accepted, forward, device>>

\* The server crashes, or ends because its shell or its sockets are gone.
ServerExits ==
    /\ server \in {"starting", "up"}
    /\ server' = "gone"
    /\ trial' = Lose(trial) /\ video' = Lose(video) /\ control' = Lose(control)
    /\ UNCHANGED <<pc, tries, hostVars, stale, accepted, forward, device>>

\* Fault: stop() without adb.disconnect(), which ends what adb keeps for it.
DeviceStopsConnected ==
    /\ device /\ device' = FALSE
    /\ server' = IF server = "none" THEN "none" ELSE "gone"
    /\ trial' = Lose(trial) /\ video' = Lose(video) /\ control' = Lose(control)
    /\ UNCHANGED <<pc, tries, hostVars, stale, accepted, forward>>

\* The device is stopped, at any time, or dies: adb drops it with its forwards.
DeviceStops ==
    /\ device /\ device' = FALSE
    /\ forward' = FALSE
    /\ server' = IF server = "none" THEN "none" ELSE "gone"
    /\ trial' = Lose(trial) /\ video' = Lose(video) /\ control' = Lose(control)
    /\ UNCHANGED <<pc, tries, hostVars, stale, accepted>>

-----------------------------------------------------------------------------
Init ==
    /\ pc = "push" /\ tries = 0 /\ trial = NoSocket
    /\ video = NoSocket /\ control = NoSocket
    /\ proc = "none" /\ closed = FALSE /\ removal = "none" /\ heard = FALSE
    /\ stale = FALSE
    /\ server = "none" /\ accepted = 0 /\ forward = FALSE /\ device = TRUE

Next ==
    \/ Push \/ Forward
    \/ Connect \/ GiveUp \/ TrialCloses \/ TrialSettles
    \/ ReadVideoFails \/ ControlError \/ Stop \/ ProcExits \/ RemoveForward
    \/ ServerListens \/ ServerExits \/ DeviceStops

Spec == Init /\ [][Next]_vars

\* Every adb command has a timeout, a connection settles or closes within the
\* grace window, exits are reported, and a server whose shell has ended ends.
\* Neither the server nor the device need ever fail, and nobody need call stop().
Fairness ==
    /\ WF_vars(Push) /\ WF_vars(Forward)
    /\ WF_vars(Connect \/ GiveUp) /\ WF_vars(TrialCloses \/ TrialSettles)
    /\ WF_vars(ProcExits) /\ WF_vars(RemoveForward)
    /\ WF_vars(proc = "exited" /\ ServerExits)

FairSpec == Spec /\ Fairness

-----------------------------------------------------------------------------
(* Properties *)

TypeOK ==
    /\ pc \in {"push", "forward", "video", "control", "open", "failed"}
    /\ tries \in 0 .. Attempts
    /\ {trial, video, control} \subseteq
           [conn : 0 .. 2, state : {"none", "open", "lost", "shut"}]
    /\ proc \in {"none", "running", "exited"}
    /\ removal \in {"none", "asked", "done", "failed"}
    /\ {closed, heard, stale, forward, device} \subseteq BOOLEAN
    /\ server \in {"none", "starting", "up", "gone"}
    /\ accepted \in 0 .. 2

\* start() never hands out a connection the server did not accept, and the
\* server's idea of which one carries video is the stream's: retries while the
\* server starts do not shift them.
RolesAgree == pc = "open" => video.conn = 1 /\ control.conn = 2

\* A stream that was closed under start() opens all the same; but then the
\* server is gone, and no socket that #shutdown() could not see is still open.
ClosedStreamsHoldNoSocket ==
    pc = "open" /\ closed => video.state # "open" /\ control.state # "open"

HoldsNoConnection ==
    /\ proc # "running"
    /\ \A s \in {trial, video, control} : s.state # "open"

\* start() settles: no sequence of refused, lost or dying connections keeps
\* #boot() waiting.
StartSettles == <>(pc \in {"open", "failed"})

\* A stream that opened and was closed, by whatever it was, leaves neither a
\* process nor a socket; nor a forward, unless adb has failed to remove it: not
\* because nobody asked, nor because it was asked before the forward was made.
ClosedStreamIsGone ==
    pc = "open" /\ closed ~> HoldsNoConnection /\ (forward => removal = "failed")

\* What a failed start() leaves behind, which nobody stops, and a forward that
\* could not be removed, go with the device.
NothingOutlivesDevice == ~device ~> HoldsNoConnection /\ ~forward

\* The bridge learns of the server's end, unless the stream opened closed.
EndIsHeard == pc = "open" /\ server = "gone" ~> heard \/ stale
=============================================================================
