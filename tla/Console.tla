-------------------------------- MODULE Console --------------------------------
(***************************************************************************)
(* One page of the web console (app.js): the session list and its          *)
(* refreshes, startSession(), stopActive(), attachTo(), teardown() and the *)
(* events of their WebSockets.  The control plane is SessionLifecycle:     *)
(* other pages, the reaper and failures act on the same sessions.          *)
(***************************************************************************)
EXTENDS Integers, FiniteSets

CONSTANTS
    Session,      \* ids of sessions
    MaxSessions,  \* config.maxSessions
    NoSession     \* active = null

ASSUME ConsoleAssumption ==
    NoSession \notin Session /\ MaxSessions \in Nat

VARIABLES
    phase,      \* the sessions, as GET /api/sessions tells of them
    start,      \* where startSession() is suspended; "stuck" if it threw
    mine,       \* created.id of startSession()
    tokens,     \* sessions with a token in sessionStorage
    shown,      \* sessions whose button in the list attaches
    answers,    \* the answer to refreshSessions() on its way, if any
    deleting,   \* sessions stopActive() has sent a DELETE for
    active,     \* the session attached to
    socket,     \* its WebSocket; "severed" if closed but not yet noticed
    closing,    \* the close event of an earlier WebSocket is still to come
    viewport    \* the canvas is visible

startVars == <<start, mine>>
listVars  == <<tokens, shown, answers, deleting>>
viewVars  == <<active, socket, closing, viewport>>
vars == <<phase, startVars, listVars, viewVars>>

CP == INSTANCE SessionLifecycle WITH viewers <- [s \in Session |-> 0]

In(p) == {s \in Session : phase[s] = p}

\* GET /api/sessions, of which the page looks at the ids and who is ready.
Answer == [live : SUBSET Session, ready : SUBSET Session]
Snapshot == [live |-> CP!Live, ready |-> In("ready")]

-----------------------------------------------------------------------------
(* teardown() and attachTo() *)

Leaves == closing' = (closing \/ socket \in {"connecting", "open", "severed"})

\* Faults: the WebSocket is not closed; the canvas is left visible.
TeardownKeepingSocket ==
    /\ active' = NoSession /\ viewport' = FALSE
    /\ UNCHANGED <<socket, closing>>

TeardownOpen ==
    /\ active' = NoSession /\ socket' = "none"
    /\ Leaves
    /\ UNCHANGED viewport

\* The close event of its socket comes later.
Teardown ==
    /\ active' = NoSession /\ socket' = "none" /\ viewport' = FALSE
    /\ Leaves

\* Without a token, a fault is shown in place of whatever is attached.
AttachTo(s) ==
    IF s \in tokens
    THEN /\ active' = s /\ socket' = "connecting" /\ viewport' = TRUE
         /\ Leaves
    ELSE /\ viewport' = FALSE
         /\ UNCHANGED <<active, socket, closing>>

Click(s) ==
    /\ s \in shown
    /\ AttachTo(s)
    /\ UNCHANGED <<phase, startVars, listVars>>

\* stopActive(): teardown, then a DELETE.
Stop ==
    /\ active # NoSession
    /\ Teardown
    /\ deleting' = deleting \cup {active}
    /\ UNCHANGED <<phase, startVars, tokens, shown, answers>>

\* The server closes what is attached to a session that ends.
EndSession(s) ==
    /\ CP!End({s})
    /\ socket' = IF active = s /\ socket = "open" THEN "severed" ELSE socket

\* The DELETE ends the session, or is answered 404; or it is lost, and the token
\* is kept.
Deleted(s) ==
    /\ s \in deleting
    /\ deleting' = deleting \ {s}
    /\ \/ tokens' = tokens \ {s} /\ EndSession(s)
       \/ UNCHANGED <<tokens, phase, socket>>
    /\ UNCHANGED <<startVars, shown, answers, active, closing, viewport>>

-----------------------------------------------------------------------------
(* refreshSessions(), every four seconds *)

ListAnswered ==
    /\ answers = {}
    /\ answers' = {Snapshot}
    /\ UNCHANGED <<phase, startVars, tokens, shown, deleting, viewVars>>

AnswerLost ==
    /\ answers # {}
    /\ answers' = {}
    /\ UNCHANGED <<phase, startVars, tokens, shown, deleting, viewVars>>

\* Fault: the list is redrawn, and that is all.
ApplyListOnly(a) ==
    /\ tokens' \in {tokens, tokens \cup a.live}
    /\ shown' = a.ready
    /\ UNCHANGED viewVars

\* The list is redrawn from an answer, which brings the tokens too if the page
\* presents the server's ADMIN_TOKEN, and a session it lacks is given up.
Apply(a) ==
    /\ tokens' \in {tokens, tokens \cup a.live}
    /\ shown' = a.ready
    /\ IF active # NoSession /\ active \notin a.live
       THEN Teardown
       ELSE UNCHANGED viewVars

Refresh ==
    /\ \E a \in answers : Apply(a)
    /\ answers' = {}
    /\ UNCHANGED <<phase, startVars, deleting>>

-----------------------------------------------------------------------------
(* startSession() *)

\* POST, when it is answered with a session.
Post ==
    /\ start = "idle"
    /\ \E s \in In("absent") :
        /\ CP!Admit(s)
        /\ start' = "listing" /\ mine' = s
        /\ tokens' = tokens \cup {s}
    /\ UNCHANGED <<shown, answers, deleting, viewVars>>

\* `await refreshSessions()`, which swallows a failure.
Listed ==
    /\ start = "listing"
    /\ start' = "polling"
    /\ \/ Apply(Snapshot)
       \/ UNCHANGED <<tokens, shown, viewVars>>
    /\ UNCHANGED <<phase, mine, answers, deleting>>

Ready ==
    /\ start = "polling" /\ phase[mine] = "ready"
    /\ start' = "idle" /\ mine' = NoSession
    /\ AttachTo(mine)
    /\ UNCHANGED <<phase, listVars>>

\* A 404, or twenty-five minutes.
GiveUp ==
    /\ start = "polling"
    /\ start' = "idle" /\ mine' = NoSession
    /\ UNCHANGED <<phase, listVars, viewVars>>

\* fetch() or json() rejects: nobody catches it, and the button stays disabled.
PollThrows ==
    /\ start = "polling"
    /\ start' = "stuck" /\ mine' = NoSession
    /\ UNCHANGED <<phase, listVars, viewVars>>

-----------------------------------------------------------------------------
(* The events of WebSockets *)

\* The 'upgrade' handler looks the token up: 401 or 409 unless ready.
Upgrade ==
    /\ socket = "connecting"
    /\ socket' = IF phase[active] = "ready" THEN "open" ELSE "severed"
    /\ UNCHANGED <<phase, startVars, listVars, active, closing, viewport>>

\* The stream ends, the session does, or the network fails.
Sever ==
    /\ socket \in {"connecting", "open"}
    /\ socket' = "severed"
    /\ UNCHANGED <<phase, startVars, listVars, active, closing, viewport>>

\* The message 'ended', onclose or onerror of the active WebSocket.
Notice ==
    /\ socket = "severed"
    /\ socket' = "closed"
    /\ viewport' = FALSE
    /\ UNCHANGED <<phase, startVars, listVars, active, closing>>

\* Fault: any close event is taken for the active socket's.
OldSocketHides ==
    /\ closing /\ closing' = FALSE
    /\ viewport' = FALSE
    /\ UNCHANGED <<phase, startVars, listVars, active, socket>>

\* The close event of an earlier WebSocket, whose state is not the active one.
OldSocketCloses ==
    /\ closing /\ closing' = FALSE
    /\ UNCHANGED <<phase, startVars, listVars, active, socket, viewport>>

-----------------------------------------------------------------------------
(* The control plane *)

\* Another page creates a session, or this one whose answer is lost.
OthersCreate(s) ==
    /\ CP!Admit(s)
    /\ UNCHANGED <<startVars, listVars, viewVars>>

BecomeReady(s) ==
    /\ CP!BecomeReady(s)
    /\ UNCHANGED <<startVars, listVars, viewVars>>

\* A failed boot, the reaper, or another page's DELETE.
OthersEnd(s) ==
    /\ s \in CP!Live
    /\ EndSession(s)
    /\ UNCHANGED <<startVars, listVars, active, closing, viewport>>

-----------------------------------------------------------------------------
Init ==
    /\ phase = [s \in Session |-> "absent"]
    /\ start = "idle" /\ mine = NoSession
    /\ tokens = {} /\ shown = {} /\ answers = {} /\ deleting = {}
    /\ active = NoSession /\ socket = "none" /\ closing = FALSE /\ viewport = FALSE

Next ==
    \/ \E s \in Session : Click(s)
    \/ Stop
    \/ \E s \in Session : Deleted(s)
    \/ ListAnswered \/ AnswerLost \/ Refresh
    \/ Post \/ Listed \/ Ready \/ GiveUp \/ PollThrows
    \/ Upgrade \/ Sever \/ Notice \/ OldSocketCloses
    \/ \E s \in Session : OthersCreate(s)
    \/ \E s \in Session : BecomeReady(s)
    \/ \E s \in Session : OthersEnd(s)

Spec == Init /\ [][Next]_vars

\* An interval timer refreshes the list, and not every refresh fails.  Sessions,
\* users and networks owe nothing.
Fairness == WF_vars(ListAnswered) /\ SF_vars(Refresh)

FairSpec == Spec /\ Fairness

-----------------------------------------------------------------------------
(* Properties *)

TypeOK ==
    /\ phase \in [Session -> {"absent", "starting", "ready", "gone"}]
    /\ start \in {"idle", "listing", "polling", "stuck"}
    /\ mine \in Session \cup {NoSession} /\ active \in Session \cup {NoSession}
    /\ mine # NoSession <=> start \in {"listing", "polling"}
    /\ answers \subseteq Answer
    /\ tokens \subseteq Session /\ shown \subseteq Session /\ deleting \subseteq Session
    /\ socket \in {"none", "connecting", "open", "severed", "closed"}
    /\ socket = "none" <=> active = NoSession
    /\ closing \in BOOLEAN /\ viewport \in BOOLEAN

\* A visible canvas belongs to an attachment whose WebSocket has not been seen to
\* close, whatever closes it and in whatever order the events of old and new
\* sockets arrive.
ViewportIsLive ==
    viewport => active # NoSession /\ socket \in {"connecting", "open", "severed"}

\* The picture of a session that is up is not taken away by the end of an
\* earlier attachment: only by a click on, or the readiness of, a session that
\* this page has no token for.
LivePictureStays ==
    [][viewport /\ ~viewport' /\ active' = active /\ socket' = "open"
        => \/ \E s \in shown : s \notin tokens
           \/ start = "polling" /\ mine \notin tokens]_vars

\* "A session we are watching that has gone away should not leave a dead canvas":
\* neither lost nor late answers keep the page on a session that is gone.
DeadCanvasGoes ==
    \A s \in Session : active = s /\ phase[s] = "gone" ~> active # s
=============================================================================
