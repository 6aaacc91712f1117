------------------------------ MODULE JsonBridge ------------------------------
(***************************************************************************)
(* The json-bridge sidecar (bridge.py): each POST of a JSON body runs in a *)
(* thread of its own that finds or creates a session, shows the body on    *)
(* its device and answers with a picture of the screen.                    *)
(*                                                                         *)
(* The control plane is its abstract specification, SessionLifecycle.  One *)
(* action is one HTTP call or one subprocess, but for scroll_to_top(),     *)
(* whose swipes are one action with the `wm size` before them; threads     *)
(* interleave between actions.  `pc` names the call a request makes next,  *)
(* or its answer.                                                          *)
(***************************************************************************)
EXTENDS Integers, Sequences, FiniteSets

CONSTANTS
    Request,      \* POSTs to /api/json; also the pages they show
    Ids,          \* bound on the sessions of a run
    MaxSessions,  \* the control plane's limit
    LastScroll,   \* the scroll position of the bottom of each page
    MaxScrolls,   \* MAX_SCROLLS
    TopSwipes,    \* swipes of scroll_to_top(); 4
    NoPage        \* what the screen shows without the viewer app

ASSUME JsonBridgeAssumption ==
    /\ IsFiniteSet(Request)
    /\ Ids \in Nat
    /\ LastScroll \in [Request -> Nat]
    /\ {MaxScrolls, TopSwipes} \subseteq Nat \ {0}
    /\ NoPage \notin Request

VARIABLES
    phase,      \* the sessions, as GET /api/sessions tells of them
    running,    \* devices that answer adb and `docker port`
    hasApp,     \* devices with the viewer app
    page,       \* the page on each device's screen
    scroll,     \* and how far it is scrolled
    installed,  \* _installed
    pc,         \* each request's next call
    film,       \* requests with ?full=1
    session,    \* session_id of each request
    frames,     \* the pictures it has taken
    spoilt      \* history: something came between it and its page

cpVars     == <<phase, running>>
deviceVars == <<hasApp, page, scroll>>
threadVars == <<film, session, frames, spoilt>>
vars == <<cpVars, deviceVars, installed, pc, threadVars>>

\* The control plane's ids, numbered in the order of creation.
Session == 1 .. Ids
NoSession == 0

CP == INSTANCE SessionLifecycle WITH viewers <- [s \in Session |-> 0]

In(p) == {s \in Session : phase[s] = p}
Oldest(S) == CHOOSE s \in S : \A t \in S : s <= t

Goto(r, step) == pc' = [pc EXCEPT ![r] = step]
Answer(r, code) == Goto(r, code)
Answered == {"200", "500", "502"}

Screen(s) == [page |-> page[s], scroll |-> scroll[s]]

\* Requests whose page should be on the screen.
InView == {"render", "first", "swipe", "next"}

\* Request r acts on the screen of its device, under whoever else uses it.
Disturb(r) ==
    spoilt' = [q \in Request |-> \/ spoilt[q]
                                 \/ q # r /\ session[q] = session[r] /\ pc[q] \in InView]

-----------------------------------------------------------------------------
(* find_or_create_session() *)

Arrive(r) ==
    /\ pc[r] = "idle"
    /\ Goto(r, "list")
    /\ film' \in {film, film \cup {r}}
    /\ UNCHANGED <<cpVars, deviceVars, installed, session, frames, spoilt>>

List(r) ==
    /\ pc[r] = "list"
    /\ \/ /\ In("ready") # {}
          /\ session' = [session EXCEPT ![r] = Oldest(In("ready"))]
          /\ Goto(r, "port")
       \/ /\ In("ready") = {} /\ In("starting") # {}
          /\ session' = [session EXCEPT ![r] = Oldest(In("starting"))]
          /\ Goto(r, "poll")
       \/ /\ CP!Live = {}
          /\ Goto(r, "create")
          /\ UNCHANGED session
    /\ UNCHANGED <<cpVars, deviceVars, installed, film, frames, spoilt>>

\* The control plane refuses beyond its limit, which urllib raises as the
\* subclass HTTPError of URLError.
CreateSession(r) ==
    /\ pc[r] = "create"
    /\ \/ /\ In("absent") # {}
          /\ CP!Admit(Oldest(In("absent")))
          /\ session' = [session EXCEPT ![r] = Oldest(In("absent"))]
          /\ Goto(r, "poll")
       \/ /\ Cardinality(CP!Live) >= MaxSessions
          /\ Answer(r, "502")
          /\ UNCHANGED <<phase, session>>
    /\ UNCHANGED <<running, deviceVars, installed, film, frames, spoilt>>

\* A session that is gone answers 404, an HTTPError again.
Poll(r) ==
    /\ pc[r] = "poll"
    /\ \/ phase[session[r]] = "ready" /\ Goto(r, "port")
       \/ phase[session[r]] = "gone" /\ Answer(r, "502")
    /\ UNCHANGED <<cpVars, deviceVars, installed, threadVars>>

\* Fault: the deadline is looked at only when the session has moved on.
DeadlineOverlooked(r) ==
    /\ pc[r] = "poll" /\ phase[session[r]] # "starting"
    /\ Answer(r, "500")
    /\ UNCHANGED <<cpVars, deviceVars, installed, threadVars>>

DeadlinePasses(r) ==
    /\ pc[r] = "poll"
    /\ Answer(r, "500")
    /\ UNCHANGED <<cpVars, deviceVars, installed, threadVars>>

-----------------------------------------------------------------------------
(* adb_serial_for(), ensure_device_ready(), show_json_on_device() *)

ResolvePort(r) ==
    /\ pc[r] = "port" /\ session[r] \in running
    /\ Goto(r, "connect")
    /\ UNCHANGED <<cpVars, deviceVars, installed, threadVars>>

\* Fault: the app is recorded before its installation has succeeded.
ConnectAndRecord(r) ==
    /\ pc[r] = "connect"
    /\ Goto(r, IF session[r] \in installed THEN "show" ELSE "install")
    /\ installed' = installed \cup {session[r]}
    /\ UNCHANGED <<cpVars, deviceVars, threadVars>>

Connect(r) ==
    /\ pc[r] = "connect"
    /\ Goto(r, IF session[r] \in installed THEN "show" ELSE "install")
    /\ UNCHANGED <<cpVars, deviceVars, installed, threadVars>>

\* `adb install -r` ends the app if it runs.  The call may time out after it
\* has taken effect.
Install(r) ==
    /\ pc[r] = "install" /\ session[r] \in running
    /\ hasApp' = hasApp \cup {session[r]}
    /\ page' = [page EXCEPT ![session[r]] = NoPage]
    /\ Disturb(r)
    /\ \/ installed' = installed \cup {session[r]} /\ Goto(r, "show")
       \/ UNCHANGED installed /\ Answer(r, "500")
    /\ UNCHANGED <<cpVars, scroll, film, session, frames>>

\* `am start` brings the page up, scrolled to its top.
Show(r) ==
    /\ pc[r] = "show" /\ session[r] \in running /\ session[r] \in hasApp
    /\ page' = [page EXCEPT ![session[r]] = r]
    /\ scroll' = [scroll EXCEPT ![session[r]] = 0]
    /\ Disturb(r)
    /\ Goto(r, "render") \/ Answer(r, "500")
    /\ UNCHANGED <<cpVars, hasApp, installed, film, session, frames>>

-----------------------------------------------------------------------------
(* screenshot_png(), capture_filmstrip_png() *)

Shoot(r) ==
    /\ pc[r] = "render" /\ r \notin film /\ session[r] \in running
    /\ frames' = [frames EXCEPT ![r] = <<Screen(session[r])>>]
    /\ Answer(r, "200")
    /\ UNCHANGED <<cpVars, deviceVars, installed, film, session, spoilt>>

\* Fault: scrolling up does not stop at the top.
ScrollPastTop(r) ==
    /\ pc[r] = "render" /\ r \in film /\ session[r] \in running
    /\ \E n \in 0 .. TopSwipes : scroll' = [scroll EXCEPT ![session[r]] = @ - n]
    /\ Disturb(r)
    /\ Goto(r, "first")
    /\ UNCHANGED <<cpVars, hasApp, page, installed, film, session, frames>>

\* Of its swipes n succeed; the others fail unnoticed.
ScrollToTop(r) ==
    /\ pc[r] = "render" /\ r \in film /\ session[r] \in running
    /\ \E n \in 0 .. TopSwipes :
           scroll' = [scroll EXCEPT ![session[r]] = IF @ > n THEN @ - n ELSE 0]
    /\ Disturb(r)
    /\ Goto(r, "first")
    /\ UNCHANGED <<cpVars, hasApp, page, installed, film, session, frames>>

FirstShot(r) ==
    /\ pc[r] = "first" /\ session[r] \in running
    /\ frames' = [frames EXCEPT ![r] = <<Screen(session[r])>>]
    /\ Goto(r, "swipe")
    /\ UNCHANGED <<cpVars, deviceVars, installed, film, session, spoilt>>

\* A swipe that fails goes unnoticed.
Swipe(r) ==
    /\ pc[r] = "swipe"
    /\ Goto(r, "next")
    /\ \/ /\ session[r] \in running /\ page[session[r]] \in Request
          /\ scroll' = [scroll EXCEPT ![session[r]] =
                           IF @ < LastScroll[page[session[r]]] THEN @ + 1 ELSE @]
          /\ Disturb(r)
       \/ spoilt' = [spoilt EXCEPT ![r] = TRUE] /\ UNCHANGED scroll
    /\ UNCHANGED <<cpVars, hasApp, page, installed, film, session, frames>>

\* Fault: the bottom is recognised by comparing with the first picture.
AtBottomByFirst(r) == Screen(session[r]) = frames[r][1]

\* The swipe changed nothing.
AtBottom(r) == Screen(session[r]) = frames[r][Len(frames[r])]

NextShot(r) ==
    /\ pc[r] = "next" /\ session[r] \in running
    /\ \/ AtBottom(r) /\ Answer(r, "200") /\ UNCHANGED frames
       \/ /\ ~AtBottom(r)
          /\ frames' = [frames EXCEPT ![r] = Append(@, Screen(session[r]))]
          /\ IF Len(frames[r]) = MaxScrolls THEN Answer(r, "200") ELSE Goto(r, "swipe")
    /\ UNCHANGED <<cpVars, deviceVars, installed, film, session, spoilt>>

-----------------------------------------------------------------------------
(* What can go wrong, and the world outside *)

\* The control plane does not answer: a URLError, but if it is the answer that
\* takes too long to read, a TimeoutError, which is none.
Unreachable(r) ==
    /\ pc[r] \in {"list", "create", "poll"}
    /\ Answer(r, "502") \/ Answer(r, "500")
    /\ UNCHANGED <<cpVars, deviceVars, installed, threadVars>>

\* A subprocess whose result matters fails or exceeds its timeout.
CallFails(r) ==
    /\ pc[r] \in {"port", "connect", "install", "show"} \cup InView
    /\ Answer(r, "500")
    /\ UNCHANGED <<cpVars, deviceVars, installed, threadVars>>

\* Other clients; the bound leaves an id to each request.
OtherClientCreates ==
    /\ Cardinality(In("absent")) > Cardinality(Request)
    /\ CP!Admit(Oldest(In("absent")))
    /\ UNCHANGED <<running, deviceVars, installed, pc, threadVars>>

SessionReady(s) ==
    /\ CP!BecomeReady(s)
    /\ running' = running \cup {s}
    /\ UNCHANGED <<deviceVars, installed, pc, threadVars>>

\* Deleted or reaped, a failed boot; adb traffic does not count as use.
SessionEnds(s) ==
    /\ s \in CP!Live
    /\ CP!End({s})
    /\ UNCHANGED <<running, deviceVars, installed, pc, threadVars>>

\* The device dies, or is stopped some time after its session has ended.
DeviceStops(s) ==
    /\ s \in running
    /\ running' = running \ {s}
    /\ UNCHANGED <<phase, deviceVars, installed, pc, threadVars>>

-----------------------------------------------------------------------------
Init ==
    /\ phase = [s \in Session |-> "absent"] /\ running = {}
    /\ hasApp = {}
    /\ page = [s \in Session |-> NoPage]
    /\ scroll = [s \in Session |-> 0]
    /\ installed = {}
    /\ pc = [r \in Request |-> "idle"]
    /\ film = {}
    /\ session = [r \in Request |-> NoSession]
    /\ frames = [r \in Request |-> <<>>]
    /\ spoilt = [r \in Request |-> FALSE]

Steps(r) ==
    \/ List(r) \/ CreateSession(r) \/ Poll(r)
    \/ ResolvePort(r) \/ Connect(r) \/ Install(r) \/ Show(r)
    \/ Shoot(r) \/ ScrollToTop(r) \/ FirstShot(r) \/ Swipe(r) \/ NextShot(r)

Next ==
    \/ \E r \in Request : Arrive(r)
    \/ \E r \in Request : Steps(r)
    \/ \E r \in Request : DeadlinePasses(r)
    \/ \E r \in Request : Unreachable(r)
    \/ \E r \in Request : CallFails(r)
    \/ OtherClientCreates
    \/ \E s \in Session : SessionReady(s)
    \/ \E s \in Session : SessionEnds(s)
    \/ \E s \in Session : DeviceStops(s)

Spec == Init /\ [][Next]_vars

\* Threads run, time passes, and every subprocess has a timeout.
Fairness ==
    \A r \in Request : /\ WF_vars(Steps(r)) /\ WF_vars(DeadlinePasses(r))
                       /\ WF_vars(session[r] \notin running /\ CallFails(r))

FairSpec == Spec /\ Fairness

-----------------------------------------------------------------------------
(* Properties *)

TypeOK ==
    /\ phase \in [Session -> {"absent", "starting", "ready", "gone"}]
    /\ running \subseteq Session /\ hasApp \subseteq Session
    /\ page \in [Session -> Request \cup {NoPage}]
    /\ scroll \in [Session -> Nat]
    /\ installed \subseteq Session
    /\ pc \in [Request -> {"idle", "list", "create", "poll", "port", "connect",
                           "install", "show"} \cup InView \cup Answered]
    /\ film \subseteq Request
    /\ session \in [Request -> Session \cup {NoSession}]
    /\ frames \in [Request -> Seq([page : Request \cup {NoPage}, scroll : Nat])]
    /\ spoilt \in [Request -> BOOLEAN]

\* No request opens its page on a device without the viewer app, whoever
\* installed it there and whichever installation failed before.
AppIsThere == \A r \in Request : pc[r] = "show" => session[r] \in hasApp

\* The positions a filmstrip of page r consists of, from its top, without gaps
\* or duplicates, down to its bottom or to the limit of scrolls.
OwnPictures(r) ==
    LET last == IF r \notin film THEN 0
                ELSE IF LastScroll[r] < MaxScrolls THEN LastScroll[r] ELSE MaxScrolls
    IN  [i \in 1 .. last + 1 |-> [page |-> r, scroll |-> i - 1]]

\* A request that nothing came between is answered with all of its own page.
UndisturbedPicture ==
    \A r \in Request : pc[r] = "200" /\ ~spoilt[r] => frames[r] = OwnPictures(r)

\* Every request is answered, whatever becomes of its session and device.
RequestsAreAnswered ==
    \A r \in Request : pc[r] = "list" ~> pc[r] \in Answered

-----------------------------------------------------------------------------
(* What the head of bridge.py says and the code does not: a request "responds *)
(* with a PNG screenshot of the result" of displaying its own body.           *)

PictureIsOwn ==
    \A r \in Request : pc[r] = "200" => \A i \in DOMAIN frames[r] : frames[r][i].page = r
=============================================================================
