--------------------------- MODULE JsonBridgeProofs ---------------------------
(***************************************************************************)
(* Whatever the number of requests, sessions and pictures: no request is   *)
(* sent to a device without the viewer app, and one that nothing came      *)
(* between is answered with the whole of its own page; and sessions are    *)
(* used as SessionLifecycle allows.  A request takes a bounded number of   *)
(* steps to its answer.                                                    *)
(***************************************************************************)
EXTENDS JsonBridge, FiniteSetTheorems, SequenceTheorems, WellFoundedInduction, TLAPS

\* Steps at which a request has a session.
Bound == {"poll", "port", "connect", "install", "show"} \cup InView

\* Every request past the list has a session, and the apps _installed tells of
\* are there.
AppInv ==
    /\ \A r \in Request : pc[r] \in Bound => session[r] \in Session
    /\ installed \subseteq hasApp
    /\ AppIsThere

Shot(r, k) == [page |-> r, scroll |-> k]

\* The pictures of the first n positions of page r.
Film(r, n) == [i \in 1 .. n |-> Shot(r, i - 1)]

\* What an undisturbed request has on the screen and in its pictures.
Picture(r) ==
    /\ pc[r] \in {"render", "first"} => page[session[r]] = r /\ scroll[session[r]] = 0
    /\ pc[r] \in {"first", "swipe", "next"} => r \in film
    /\ pc[r] \in {"swipe", "next"} =>
        \E n \in 1 .. MaxScrolls :
            /\ frames[r] = Film(r, n) /\ page[session[r]] = r
            /\ n - 1 <= LastScroll[r]
            /\ scroll[session[r]] =
                   IF pc[r] = "next" /\ n - 1 < LastScroll[r] THEN n ELSE n - 1
    /\ pc[r] = "200" => frames[r] = OwnPictures(r)

PictureInv == \A r \in Request : ~spoilt[r] => Picture(r)

JsonInv == TypeOK /\ AppInv /\ PictureInv
-----------------------------------------------------------------------------
(* Sessions *)

\* A nonempty set of natural numbers has a least element.
LEMMA LeastExists ==
    ASSUME NEW T, T \subseteq Nat, T # {}
    PROVE  \E x \in T : \A y \in T : x <= y
<1> DEFINE R == OpToRel(<, Nat)
<1>1. IsWellFoundedOn(R, Nat)
  BY NatLessThanWellFounded
<1>2. \A x, y \in Nat : <<y, x>> \in R <=> y < x
  BY DEF OpToRel
<1> HIDE DEF R
<1>3. PICK x \in T : \A y \in T : ~ (<<y, x>> \in R)
  BY <1>1, WFMin
<1>4. ASSUME NEW y \in T PROVE x <= y
  <2>1. x \in Nat /\ y \in Nat /\ ~ (<<y, x>> \in R)
    BY <1>3
  <2>2. ~ (y < x)
    BY <1>2, <2>1, Zenon
  <2> QED BY <2>1, <2>2
<1> QED BY <1>4

\* The oldest of some sessions is one of them.
LEMMA OldestIn ==
    ASSUME NEW S, S \subseteq Session, S # {}
    PROVE  Oldest(S) \in S
<1>1. S \subseteq Nat
  BY JsonBridgeAssumption DEF Session
<1> QED BY <1>1, LeastExists DEF Oldest

Phases == {"absent", "starting", "ready", "gone"}
PC == {"idle", "list", "create", "poll", "port", "connect", "install", "show"}
          \cup InView \cup Answered

\* The control plane keeps the type of its sessions.
LEMMA PhaseType ==
    ASSUME TypeOK
    PROVE  /\ \A s \in Session : CP!Admit(s) => phase' \in [Session -> Phases]
           /\ \A s \in Session : CP!BecomeReady(s) => phase' \in [Session -> Phases]
           /\ \A s \in Session : CP!End({s}) => phase' \in [Session -> Phases]
<1>1. phase \in [Session -> Phases]
  BY DEF TypeOK, Phases
<1> QED BY <1>1 DEF CP!Admit, CP!BecomeReady, CP!End, Phases

\* The invariant holds at the start.
LEMMA InitJson == Init => JsonInv
<1> SUFFICES ASSUME Init PROVE JsonInv
  OBVIOUS
<1>1. /\ pc \in [Request -> {"idle"}] /\ spoilt \in [Request -> BOOLEAN]
      /\ frames \in [Request -> Seq([page : Request \cup {NoPage}, scroll : Nat])]
  BY DEF Init
<1>2. TypeOK
  BY <1>1 DEF Init, TypeOK, NoSession
<1>3. AppInv
  BY <1>1 DEF Init, AppInv, Bound, InView, AppIsThere
<1>4. PictureInv
  BY <1>1 DEF PictureInv, Picture
<1> QED BY <1>2, <1>3, <1>4 DEF JsonInv

-----------------------------------------------------------------------------
(* Steps that touch no screen *)

\* A step of request r that changes neither screens nor pictures keeps the
\* invariant, if r has what its next call needs.
LEMMA QuietKeeps ==
    ASSUME JsonInv, NEW r \in Request,
           NEW step \in {"list", "create", "poll", "port", "connect", "install",
                         "show", "500", "502"},
           pc' = [pc EXCEPT ![r] = step],
           UNCHANGED <<running, deviceVars, installed, frames, spoilt>>,
           phase' \in [Session -> Phases],
           film' \in {film, film \cup {r}},
           session' = session \/ \E s \in Session : session' = [session EXCEPT ![r] = s],
           step \in Bound => session'[r] \in Session,
           step = "show" => session'[r] \in hasApp
    PROVE  JsonInv'
<1> USE DEF deviceVars
<1>1. /\ pc \in [Request -> PC] /\ session \in [Request -> Session \cup {NoSession}]
      /\ film \subseteq Request
  BY DEF JsonInv, TypeOK, PC
<1>2. /\ pc' \in [Request -> PC] /\ session' \in [Request -> Session \cup {NoSession}]
      /\ film' \subseteq Request
  BY <1>1 DEF PC, Answered
<1>3. TypeOK'
  BY <1>2 DEF JsonInv, TypeOK, PC, Phases
<1>4. \A q \in Request : q # r => /\ pc'[q] = pc[q] /\ session'[q] = session[q]
                                  /\ q \in film' <=> q \in film
  BY <1>1
<1>5. pc'[r] = step
  BY <1>1
<1>6. AppInv'
  BY <1>4, <1>5 DEF JsonInv, AppInv, AppIsThere
<1>7. PictureInv'
  <2> SUFFICES ASSUME NEW q \in Request, ~spoilt'[q] PROVE Picture(q)'
    BY DEF PictureInv
  <2>1. CASE q = r
    BY <1>5, <2>1 DEF Picture
  <2>2. CASE q # r
    <3>1. Picture(q)
      BY DEF JsonInv, PictureInv
    <3> QED BY <1>4, <2>2, <3>1 DEF Picture, OwnPictures
  <2> QED BY <2>1, <2>2
<1> QED BY <1>3, <1>6, <1>7 DEF JsonInv

\* Requests up to the calls that act on the screen.
LEMMA QuietSteps ==
    ASSUME JsonInv, NEW r \in Request,
           \/ Arrive(r) \/ List(r) \/ CreateSession(r) \/ Poll(r) \/ DeadlinePasses(r)
           \/ ResolvePort(r) \/ Connect(r) \/ Unreachable(r) \/ CallFails(r)
    PROVE  JsonInv'
<1> USE DEF cpVars, threadVars, Goto, Answer
<1>1. TypeOK /\ phase \in [Session -> Phases] /\ session \in [Request -> Session \cup {NoSession}]
  BY DEF JsonInv, TypeOK, Phases
<1>2. CASE Arrive(r)
  BY <1>1, <1>2, QuietKeeps DEF Arrive, Bound, InView
<1>3. CASE List(r)
  <2>1. \A p \in Phases : In(p) \subseteq Session
    BY DEF In
  <2>2. CASE In("ready") # {} /\ session' = [session EXCEPT ![r] = Oldest(In("ready"))]
             /\ pc' = [pc EXCEPT ![r] = "port"]
    <3>1. Oldest(In("ready")) \in Session
      BY <2>1, <2>2, OldestIn DEF Phases
    <3>2. session'[r] \in Session
      BY <1>1, <2>2, <3>1
    <3> QED BY <1>1, <1>3, <2>2, <3>1, <3>2, QuietKeeps DEF List
  <2>3. CASE In("starting") # {} /\ session' = [session EXCEPT ![r] = Oldest(In("starting"))]
             /\ pc' = [pc EXCEPT ![r] = "poll"]
    <3>1. Oldest(In("starting")) \in Session
      BY <2>1, <2>3, OldestIn DEF Phases
    <3>2. session'[r] \in Session
      BY <1>1, <2>3, <3>1
    <3> QED BY <1>1, <1>3, <2>3, <3>1, <3>2, QuietKeeps DEF List
  <2>4. CASE session' = session /\ pc' = [pc EXCEPT ![r] = "create"]
    BY <1>1, <1>3, <2>4, QuietKeeps DEF List, Bound, InView
  <2> QED BY <1>3, <2>2, <2>3, <2>4 DEF List
<1>4. CASE CreateSession(r)
  <2>1. CASE In("absent") # {} /\ CP!Admit(Oldest(In("absent")))
             /\ session' = [session EXCEPT ![r] = Oldest(In("absent"))]
             /\ pc' = [pc EXCEPT ![r] = "poll"]
    <3>1. Oldest(In("absent")) \in Session
      BY <2>1, OldestIn DEF In
    <3>2. session'[r] \in Session /\ phase' \in [Session -> Phases]
      BY <1>1, <2>1, <3>1, PhaseType
    <3> QED BY <1>4, <2>1, <3>1, <3>2, QuietKeeps DEF CreateSession
  <2>2. CASE UNCHANGED <<phase, session>> /\ pc' = [pc EXCEPT ![r] = "502"]
    BY <1>1, <1>4, <2>2, QuietKeeps DEF CreateSession, Bound, InView
  <2> QED BY <1>4, <2>1, <2>2 DEF CreateSession
<1>5. CASE Poll(r) \/ DeadlinePasses(r) \/ ResolvePort(r) \/ Unreachable(r) \/ CallFails(r)
  <2>1. PICK step \in {"port", "connect", "500", "502"} :
            /\ pc' = [pc EXCEPT ![r] = step]
            /\ step \in {"port", "connect"} => pc[r] \in Bound
    BY <1>5 DEF Poll, DeadlinePasses, ResolvePort, Unreachable, CallFails, Bound
  <2>2. UNCHANGED <<cpVars, deviceVars, installed, threadVars>>
    BY <1>5 DEF Poll, DeadlinePasses, ResolvePort, Unreachable, CallFails
  <2>3. step \in Bound => session'[r] \in Session
    BY <2>1, <2>2 DEF JsonInv, AppInv, Bound, InView
  <2> QED BY <1>1, <2>1, <2>2, <2>3, QuietKeeps
<1>6. CASE Connect(r)
  <2>1. UNCHANGED <<cpVars, deviceVars, installed, threadVars>> /\ session[r] \in Session
    BY <1>6 DEF Connect, JsonInv, AppInv, Bound
  <2>2. CASE session[r] \in installed
    BY <1>1, <1>6, <2>1, <2>2, QuietKeeps DEF Connect, JsonInv, AppInv
  <2>3. CASE session[r] \notin installed
    BY <1>1, <1>6, <2>1, <2>3, QuietKeeps DEF Connect
  <2> QED BY <2>2, <2>3
<1> QED BY <1>2, <1>3, <1>4, <1>5, <1>6

\* The world outside.
LEMMA WorldKeeps ==
    ASSUME JsonInv,
           \/ OtherClientCreates
           \/ \E s \in Session : SessionReady(s) \/ SessionEnds(s) \/ DeviceStops(s)
    PROVE  JsonInv'
<1>1. UNCHANGED <<deviceVars, installed, pc, threadVars>>
  BY DEF OtherClientCreates, SessionReady, SessionEnds, DeviceStops
<1>2. TypeOK /\ phase \in [Session -> Phases]
  BY DEF JsonInv, TypeOK, Phases
<1>3. running' \subseteq Session
  BY DEF OtherClientCreates, SessionReady, SessionEnds, DeviceStops, JsonInv, TypeOK
<1>4. phase' \in [Session -> Phases]
  <2>1. CASE OtherClientCreates
    <3>1. In("absent") # {}
      <4>1. Cardinality(Request) \in Nat /\ Cardinality({}) = 0
        BY JsonBridgeAssumption, FS_CardinalityType, FS_EmptySet
      <4>2. Cardinality(In("absent")) > Cardinality(Request)
        BY <2>1 DEF OtherClientCreates
      <4> QED BY <4>1, <4>2
    <3>2. Oldest(In("absent")) \in Session
      BY <3>1, OldestIn DEF In
    <3> QED BY <1>2, <2>1, <3>2, PhaseType DEF OtherClientCreates
  <2>2. CASE \E s \in Session : SessionReady(s) \/ SessionEnds(s) \/ DeviceStops(s)
    BY <1>2, <2>2, PhaseType DEF SessionReady, SessionEnds, DeviceStops
  <2> QED BY <2>1, <2>2
<1>5. TypeOK'
  BY <1>1, <1>3, <1>4 DEF JsonInv, TypeOK, deviceVars, threadVars, Phases
<1>6. AppInv' /\ PictureInv'
  BY <1>1 DEF JsonInv, AppInv, AppIsThere, PictureInv, Picture, OwnPictures,
      deviceVars, threadVars
<1> QED BY <1>5, <1>6 DEF JsonInv
-----------------------------------------------------------------------------
(* Steps on a screen *)

\* A request sees nothing of what happens on another device, and is spoilt by
\* what happens on its own.
LEMMA OthersPicture ==
    ASSUME JsonInv, NEW r \in Request, NEW q \in Request, q # r,
           pc'[q] = pc[q], frames'[q] = frames[q], UNCHANGED <<film, session>>,
           \A s \in Session \ {session[r]} : page'[s] = page[s] /\ scroll'[s] = scroll[s],
           Disturb(r), ~spoilt'[q]
    PROVE  Picture(q)'
<1>1. ~spoilt[q] /\ ~(session[q] = session[r] /\ pc[q] \in InView)
  BY Zenon DEF Disturb
<1>2. Picture(q)
  BY <1>1 DEF JsonInv, PictureInv
<1>3. CASE pc[q] \in InView
  <2>1. session[q] \in Session \ {session[r]}
    BY <1>1, <1>3 DEF JsonInv, AppInv, Bound
  <2>2. page'[session[q]] = page[session[q]] /\ scroll'[session[q]] = scroll[session[q]]
    BY <2>1
  <2> QED BY <1>2, <1>3, <2>2 DEF Picture, OwnPictures, InView
<1>4. CASE pc[q] \notin InView
  BY <1>2, <1>4 DEF Picture, OwnPictures, InView
<1> QED BY <1>3, <1>4

\* A step that takes pictures, or does nothing, leaves the others as they are.
LEMMA OthersUntouched ==
    ASSUME JsonInv, NEW q \in Request,
           pc'[q] = pc[q], frames'[q] = frames[q], UNCHANGED <<film, session, page, scroll>>,
           ~spoilt'[q], spoilt'[q] = spoilt[q]
    PROVE  Picture(q)'
<1>1. ~spoilt[q]
  BY Zenon
<1>2. Picture(q)
  BY <1>1 DEF JsonInv, PictureInv
<1> QED BY <1>2 DEF Picture, OwnPictures

\* Disturb() types `spoilt`.
LEMMA DisturbType ==
    ASSUME NEW r \in Request, Disturb(r) PROVE spoilt' \in [Request -> BOOLEAN]
  BY Zenon DEF Disturb

\* A step on the screen of r's device: it keeps the types and the apps, and the
\* pictures of others; what it makes of r's own picture is left to show.
LEMMA ScreenStep ==
    ASSUME JsonInv, NEW r \in Request, session[r] \in Session,
           NEW step \in {"show", "render", "first", "next", "500"},
           pc' = [pc EXCEPT ![r] = step],
           UNCHANGED <<cpVars, film, session, frames>>,
           NEW p \in Request \cup {NoPage}, NEW n \in Nat,
           page' = [page EXCEPT ![session[r]] = p],
           scroll' = [scroll EXCEPT ![session[r]] = n],
           hasApp \subseteq hasApp' /\ hasApp' \subseteq Session,
           installed' \subseteq hasApp',
           step = "show" => session[r] \in hasApp',
           Disturb(r),
           ~spoilt'[r] => Picture(r)'
    PROVE  JsonInv'
<1> USE DEF cpVars
<1>1. /\ pc \in [Request -> PC] /\ session \in [Request -> Session \cup {NoSession}]
      /\ page \in [Session -> Request \cup {NoPage}] /\ scroll \in [Session -> Nat]
  BY DEF JsonInv, TypeOK, PC
<1>2. /\ pc' \in [Request -> PC] /\ spoilt' \in [Request -> BOOLEAN]
      /\ page' \in [Session -> Request \cup {NoPage}] /\ scroll' \in [Session -> Nat]
  BY <1>1, DisturbType DEF PC, InView, Answered
<1>3. TypeOK'
  BY <1>2 DEF JsonInv, TypeOK, PC
<1>4. /\ \A q \in Request : q # r => pc'[q] = pc[q]
      /\ pc'[r] = step
      /\ \A s \in Session \ {session[r]} : page'[s] = page[s] /\ scroll'[s] = scroll[s]
  BY <1>1
<1>5. AppInv'
  BY <1>4 DEF JsonInv, AppInv, AppIsThere
<1>6. PictureInv'
  <2> SUFFICES ASSUME NEW q \in Request, ~spoilt'[q] PROVE Picture(q)'
    BY DEF PictureInv
  <2>1. CASE q # r
    BY <1>4, <2>1, OthersPicture
  <2> QED BY <2>1
<1> QED BY <1>3, <1>5, <1>6 DEF JsonInv

\* A picture step of r: it keeps types, apps and the pictures of others.
LEMMA ShotStep ==
    ASSUME JsonInv, NEW r \in Request,
           NEW step \in {"swipe", "next", "200"},
           pc' = [pc EXCEPT ![r] = step],
           UNCHANGED <<cpVars, deviceVars, installed, film, session>>,
           step \in Bound => session[r] \in Session,
           NEW g \in Seq([page : Request \cup {NoPage}, scroll : Nat]),
           frames' = [frames EXCEPT ![r] = g],
           spoilt' = spoilt \/ spoilt' = [spoilt EXCEPT ![r] = TRUE],
           ~spoilt'[r] => Picture(r)'
    PROVE  JsonInv'
<1> USE DEF cpVars, deviceVars
<1>1. /\ pc \in [Request -> PC] /\ spoilt \in [Request -> BOOLEAN]
      /\ frames \in [Request -> Seq([page : Request \cup {NoPage}, scroll : Nat])]
  BY DEF JsonInv, TypeOK, PC
<1>2. spoilt' \in [Request -> BOOLEAN]
  BY <1>1
<1>3. /\ pc' \in [Request -> PC]
      /\ frames' \in [Request -> Seq([page : Request \cup {NoPage}, scroll : Nat])]
  BY <1>1 DEF PC, InView, Answered
<1>4. TypeOK'
  BY <1>2, <1>3 DEF JsonInv, TypeOK, PC
<1>5. /\ \A q \in Request : q # r => pc'[q] = pc[q] /\ frames'[q] = frames[q]
                                      /\ spoilt'[q] = spoilt[q]
      /\ pc'[r] = step
  BY <1>1
<1>6. AppInv'
  BY <1>5 DEF JsonInv, AppInv, AppIsThere, Bound
<1>7. PictureInv'
  <2> SUFFICES ASSUME NEW q \in Request, ~spoilt'[q] PROVE Picture(q)'
    BY DEF PictureInv
  <2>1. CASE q # r
    BY <1>5, <2>1, OthersUntouched
  <2> QED BY <2>1
<1> QED BY <1>4, <1>6, <1>7 DEF JsonInv

\* A function on 1 .. n is a sequence of length n.
LEMMA FunctionIsSeq ==
    ASSUME NEW S, NEW n \in Nat, NEW g \in [1 .. n -> S]
    PROVE  g \in Seq(S) /\ Len(g) = n
<1>1. g \in Seq(S)
  BY SeqDef
<1>2. Len(g) \in Nat /\ 1 .. Len(g) = 1 .. n
  BY <1>1, LenProperties
<1>3. Len(g) = n
  BY <1>2
<1> QED BY <1>1, <1>3

\* Film(r, n) grows by one picture.
LEMMA FilmGrows ==
    ASSUME NEW r \in Request, NEW n \in Nat
    PROVE  /\ Film(r, n) \in Seq([page : Request \cup {NoPage}, scroll : Nat])
           /\ Len(Film(r, n)) = n
           /\ n > 0 => Film(r, n)[n] = Shot(r, n - 1)
           /\ Append(Film(r, n), Shot(r, n)) = Film(r, n + 1)
<1> DEFINE T == [page : Request \cup {NoPage}, scroll : Nat]
<1>1. \A k \in Nat : Shot(r, k) \in T
  BY DEF Shot
<1>2. Film(r, n) \in Seq(T) /\ Len(Film(r, n)) = n
  <2>1. Film(r, n) \in [1 .. n -> T]
    BY <1>1 DEF Film
  <2> HIDE DEF T
  <2> QED BY <2>1, FunctionIsSeq
<1>3. n > 0 => Film(r, n)[n] = Shot(r, n - 1)
  BY DEF Film
<1>4. Append(Film(r, n), Shot(r, n)) = Film(r, n + 1)
  <2>1. /\ Append(Film(r, n), Shot(r, n)) \in Seq(T)
        /\ Len(Append(Film(r, n), Shot(r, n))) = n + 1
        /\ \A i \in 1 .. n : Append(Film(r, n), Shot(r, n))[i] = Film(r, n)[i]
        /\ Append(Film(r, n), Shot(r, n))[n + 1] = Shot(r, n)
    <3> HIDE DEF T
    <3> QED BY <1>1, <1>2, AppendProperties
  <2>2. Film(r, n + 1) \in Seq(T) /\ Len(Film(r, n + 1)) = n + 1
    <3>1. Film(r, n + 1) \in [1 .. n + 1 -> T]
      BY <1>1 DEF Film
    <3> HIDE DEF T
    <3> QED BY <3>1, FunctionIsSeq
  <2>3. \A i \in 1 .. n + 1 : Append(Film(r, n), Shot(r, n))[i] = Film(r, n + 1)[i]
    BY <2>1 DEF Film
  <2> QED BY <2>1, <2>2, <2>3, SeqEqual
<1> QED BY <1>2, <1>3, <1>4
\* The app is installed; whatever was on the screen is not there any more.
LEMMA InstallKeeps ==
    ASSUME JsonInv, NEW r \in Request, Install(r)
    PROVE  JsonInv'
<1> USE DEF Goto, Answer
<1>1. session[r] \in Session /\ scroll[session[r]] \in Nat
  BY DEF Install, JsonInv, TypeOK, AppInv, Bound
<1>2. /\ UNCHANGED <<cpVars, scroll, film, session, frames>> /\ Disturb(r)
      /\ hasApp' = hasApp \cup {session[r]}
      /\ page' = [page EXCEPT ![session[r]] = NoPage]
  BY DEF Install
<1>3. scroll' = [scroll EXCEPT ![session[r]] = scroll[session[r]]]
  BY <1>2 DEF JsonInv, TypeOK
<1>4. PICK step \in {"show", "500"} : pc' = [pc EXCEPT ![r] = step]
  BY DEF Install
<1>5. installed' \subseteq hasApp' /\ hasApp' \subseteq Session /\ session[r] \in hasApp'
  BY <1>1, <1>2 DEF Install, JsonInv, TypeOK, AppInv
<1>6. pc'[r] = step
  BY <1>4 DEF JsonInv, TypeOK
<1>7. Picture(r)'
  BY <1>6 DEF Picture
<1> QED BY <1>1, <1>2, <1>3, <1>4, <1>5, <1>7, ScreenStep

\* The page is brought up, at its top.
LEMMA ShowKeeps ==
    ASSUME JsonInv, NEW r \in Request, Show(r)
    PROVE  JsonInv'
<1> USE DEF Goto, Answer
<1>1. session[r] \in Session
  BY DEF Show, JsonInv, AppInv, Bound
<1>2. /\ UNCHANGED <<cpVars, hasApp, installed, film, session, frames>> /\ Disturb(r)
      /\ page' = [page EXCEPT ![session[r]] = r]
      /\ scroll' = [scroll EXCEPT ![session[r]] = 0]
  BY DEF Show
<1>3. PICK step \in {"render", "500"} : pc' = [pc EXCEPT ![r] = step]
  BY DEF Show
<1>4. installed' \subseteq hasApp' /\ hasApp' \subseteq Session
  BY <1>2 DEF JsonInv, TypeOK, AppInv
<1>5. pc'[r] = step /\ page'[session'[r]] = r /\ scroll'[session'[r]] = 0
  BY <1>1, <1>2, <1>3 DEF JsonInv, TypeOK
<1>6. Picture(r)'
  BY <1>5 DEF Picture
<1> QED BY <1>1, <1>2, <1>3, <1>4, <1>6, ScreenStep

\* A fresh page is at its top already.
LEMMA ScrollKeeps ==
    ASSUME JsonInv, NEW r \in Request, ScrollToTop(r)
    PROVE  JsonInv'
<1> USE DEF Goto
<1> DEFINE s == session[r]
<1>1. s \in Session /\ scroll[s] \in Nat /\ page[s] \in Request \cup {NoPage}
  BY DEF ScrollToTop, JsonInv, TypeOK, AppInv, Bound, InView
<1>0. PICK k \in 0 .. TopSwipes :
          scroll' = [scroll EXCEPT ![s] = IF scroll[s] > k THEN scroll[s] - k ELSE 0]
  BY DEF ScrollToTop
<1> DEFINE n == IF scroll[s] > k THEN scroll[s] - k ELSE 0
<1>2. /\ UNCHANGED <<cpVars, hasApp, page, installed, film, session, frames>> /\ Disturb(r)
      /\ scroll' = [scroll EXCEPT ![s] = n] /\ pc' = [pc EXCEPT ![r] = "first"]
      /\ pc[r] = "render" /\ r \in film
  BY <1>0 DEF ScrollToTop
<1>3. page' = [page EXCEPT ![s] = page[s]]
  BY <1>2 DEF JsonInv, TypeOK
<1>4. n \in Nat /\ (scroll[s] = 0 => n = 0)
  <2>1. k \in Nat
    BY <1>0, JsonBridgeAssumption
  <2> QED BY <1>1, <2>1
<1>5. installed' \subseteq hasApp' /\ hasApp' \subseteq Session
  BY <1>2 DEF JsonInv, TypeOK, AppInv
<1>6. pc'[r] = "first" /\ scroll'[s] = n
  BY <1>1, <1>2 DEF JsonInv, TypeOK
<1>7. ASSUME ~spoilt'[r] PROVE Picture(r)'
  <2>1. ~spoilt[r]
    BY <1>2, <1>7, Zenon DEF Disturb
  <2>2. page[s] = r /\ scroll[s] = 0
    BY <1>2, <2>1 DEF JsonInv, PictureInv, Picture
  <2> HIDE DEF n
  <2> QED BY <1>2, <1>4, <1>6, <2>2 DEF Picture
<1> HIDE DEF n
<1> QED BY <1>1, <1>2, <1>3, <1>4, <1>5, <1>7, ScreenStep

\* A swipe goes down by one position, to the bottom of the page.
LEMMA SwipeKeeps ==
    ASSUME JsonInv, NEW r \in Request, Swipe(r)
    PROVE  JsonInv'
<1> USE DEF Goto
<1> DEFINE s == session[r]
           n == IF scroll[s] < LastScroll[page[s]] THEN scroll[s] + 1 ELSE scroll[s]
<1>1. s \in Session /\ scroll[s] \in Nat /\ page[s] \in Request \cup {NoPage}
  BY DEF Swipe, JsonInv, TypeOK, AppInv, Bound, InView
<1>2. /\ UNCHANGED <<cpVars, hasApp, page, installed, film, session, frames>>
      /\ pc' = [pc EXCEPT ![r] = "next"] /\ pc[r] = "swipe"
  BY DEF Swipe
<1>3. pc'[r] = "next"
  BY <1>2 DEF JsonInv, TypeOK
<1>4. CASE scroll' = [scroll EXCEPT ![s] = n] /\ Disturb(r)
  <2>1. page' = [page EXCEPT ![s] = page[s]]
    BY <1>2 DEF JsonInv, TypeOK
  <2>2. n \in Nat /\ scroll'[s] = n
    BY <1>1, <1>4 DEF JsonInv, TypeOK
  <2>3. installed' \subseteq hasApp' /\ hasApp' \subseteq Session
    BY <1>2 DEF JsonInv, TypeOK, AppInv
  <2>4. ASSUME ~spoilt'[r] PROVE Picture(r)'
    <3>1. ~spoilt[r]
      BY <1>4, <2>4, Zenon DEF Disturb
    <3>2. r \in film
      BY <1>2, <3>1 DEF JsonInv, PictureInv, Picture
    <3>3. PICK k \in 1 .. MaxScrolls :
              /\ frames[r] = Film(r, k) /\ page[s] = r
              /\ k - 1 <= LastScroll[r] /\ scroll[s] = k - 1
      BY <1>2, <3>1 DEF JsonInv, PictureInv, Picture
    <3>4. LastScroll[r] \in Nat /\ k \in Nat /\ MaxScrolls \in Nat
      BY JsonBridgeAssumption
    <3>5. n = IF k - 1 < LastScroll[r] THEN k ELSE k - 1
      BY <3>3, <3>4
    <3> HIDE DEF n
    <3>6. /\ frames'[r] = Film(r, k) /\ page'[session'[r]] = r
          /\ scroll'[session'[r]] =
                 IF pc'[r] = "next" /\ k - 1 < LastScroll[r] THEN k ELSE k - 1
      BY <1>2, <1>3, <2>2, <3>3, <3>5
    <3> QED BY <1>2, <1>3, <3>2, <3>3, <3>6 DEF Picture
  <2> HIDE DEF n
  <2> QED BY <1>1, <1>2, <1>4, <2>1, <2>2, <2>3, <2>4, ScreenStep
<1>5. CASE spoilt' = [spoilt EXCEPT ![r] = TRUE] /\ UNCHANGED scroll
  <2>1. frames[r] \in Seq([page : Request \cup {NoPage}, scroll : Nat])
        /\ frames' = [frames EXCEPT ![r] = frames[r]]
    BY <1>2 DEF JsonInv, TypeOK
  <2>2. spoilt'[r]
    <3>1. spoilt \in [Request -> BOOLEAN]
      BY DEF JsonInv, TypeOK
    <3> QED BY <1>5, <3>1
  <2> QED BY <1>1, <1>2, <1>5, <2>1, <2>2, ShotStep DEF deviceVars
<1> QED BY <1>4, <1>5 DEF Swipe

\* The pictures: of the page at its top, then of each position that is new.
LEMMA ShotsKeep ==
    ASSUME JsonInv, NEW r \in Request, Shoot(r) \/ FirstShot(r)
    PROVE  JsonInv'
<1> USE DEF Goto, Answer
<1> DEFINE s == session[r]
           step == IF pc[r] = "render" THEN "200" ELSE "swipe"
           T == [page : Request \cup {NoPage}, scroll : Nat]
<1>1. /\ s \in Session /\ pc[r] \in {"render", "first"}
      /\ pc[r] = "render" => r \notin film
      /\ Screen(s) \in T
  BY DEF Shoot, FirstShot, JsonInv, TypeOK, AppInv, Bound, InView, Screen
<1>2. /\ UNCHANGED <<cpVars, deviceVars, installed, film, session, spoilt>>
      /\ pc' = [pc EXCEPT ![r] = step]
      /\ frames' = [frames EXCEPT ![r] = <<Screen(s)>>]
  BY DEF Shoot, FirstShot
<1>3. pc'[r] = step /\ frames'[r] = <<Screen(s)>>
  BY <1>2 DEF JsonInv, TypeOK
<1>4. ASSUME ~spoilt'[r] PROVE Picture(r)'
  <2>1. page[s] = r /\ scroll[s] = 0 /\ (pc[r] = "first" => r \in film)
    BY <1>1, <1>2, <1>4 DEF JsonInv, PictureInv, Picture
  <2>2. <<Screen(s)>> = Film(r, 1)
    BY <2>1 DEF Screen, Film, Shot
  <2>3. CASE pc[r] = "render"
    <3>1. OwnPictures(r) = Film(r, 1)
      BY <1>1, <2>3 DEF OwnPictures, Film, Shot
    <3>2. film' = film /\ OwnPictures(r)' = OwnPictures(r)
      BY <1>2 DEF OwnPictures
    <3> QED BY <1>3, <2>2, <2>3, <3>1, <3>2 DEF Picture
  <2>4. CASE pc[r] = "first"
    <3>1. /\ 1 \in 1 .. MaxScrolls /\ LastScroll[r] \in Nat
          /\ 1 - 1 <= LastScroll[r]
      BY JsonBridgeAssumption
    <3>2. /\ pc'[r] = "swipe" /\ frames'[r] = Film(r, 1)
          /\ page'[session'[r]] = r /\ scroll'[session'[r]] = 1 - 1 /\ r \in film'
      BY <1>2, <1>3, <2>1, <2>2, <2>4 DEF deviceVars
    <3> QED BY <3>1, <3>2 DEF Picture
  <2> QED BY <1>1, <2>3, <2>4
<1>5. <<Screen(s)>> \in Seq(T) /\ step \in {"swipe", "200"}
  BY <1>1
<1> HIDE DEF step, T
<1> QED BY <1>1, <1>2, <1>4, <1>5, ShotStep DEF T
\* A further picture is kept if it is new, up to the limit; otherwise it is the
\* bottom of the page.
LEMMA NextShotKeeps ==
    ASSUME JsonInv, NEW r \in Request, NextShot(r)
    PROVE  JsonInv'
<1> USE DEF Goto, Answer
<1> DEFINE s == session[r]
           T == [page : Request \cup {NoPage}, scroll : Nat]
<1>1. /\ s \in Session /\ pc[r] = "next" /\ Screen(s) \in T
      /\ frames[r] \in Seq(T) /\ LastScroll[r] \in Nat /\ MaxScrolls \in Nat
  BY JsonBridgeAssumption DEF NextShot, JsonInv, TypeOK, AppInv, Bound, InView, Screen
<1>2. UNCHANGED <<cpVars, deviceVars, installed, film, session, spoilt>>
  BY DEF NextShot
<1>3. ASSUME ~spoilt[r]
      PROVE  \E k \in 1 .. MaxScrolls :
                /\ frames[r] = Film(r, k) /\ page[s] = r /\ r \in film
                /\ k - 1 <= LastScroll[r]
                /\ scroll[s] = IF k - 1 < LastScroll[r] THEN k ELSE k - 1
  BY <1>1, <1>3 DEF JsonInv, PictureInv, Picture
<1>4. ASSUME NEW k \in 1 .. MaxScrolls, frames[r] = Film(r, k), page[s] = r
      PROVE  /\ AtBottom(r) <=> scroll[s] = k - 1
             /\ Len(frames[r]) = k
             /\ Screen(s) = Shot(r, scroll[s])
  <2>1. Len(frames[r]) = k /\ frames[r][k] = Shot(r, k - 1)
    BY <1>4, FilmGrows
  <2>2. Screen(s) = Shot(r, scroll[s])
    BY <1>4 DEF Screen, Shot
  <2> QED BY <2>1, <2>2 DEF AtBottom, Shot
<1>5. film' = film /\ OwnPictures(r)' = OwnPictures(r)
  BY <1>2 DEF OwnPictures
<1>6. ASSUME r \in film
      PROVE  OwnPictures(r) =
                Film(r, (IF LastScroll[r] < MaxScrolls THEN LastScroll[r] ELSE MaxScrolls) + 1)
  BY <1>6 DEF OwnPictures, Film, Shot
<1>7. CASE AtBottom(r) /\ UNCHANGED frames /\ pc' = [pc EXCEPT ![r] = "200"]
  <2>1. pc'[r] = "200" /\ frames' = [frames EXCEPT ![r] = frames[r]]
    BY <1>7 DEF JsonInv, TypeOK
  <2>2. ASSUME ~spoilt'[r] PROVE Picture(r)'
    <3>1. PICK k \in 1 .. MaxScrolls :
              /\ frames[r] = Film(r, k) /\ page[s] = r /\ r \in film
              /\ k - 1 <= LastScroll[r]
              /\ scroll[s] = IF k - 1 < LastScroll[r] THEN k ELSE k - 1
      BY <1>2, <1>3, <2>2
    <3>2. scroll[s] = k - 1
      BY <1>4, <1>7, <3>1
    <3>3. k = LastScroll[r] + 1 /\ LastScroll[r] < MaxScrolls
      BY <1>1, <3>1, <3>2
    <3>4. OwnPictures(r) = Film(r, k)
      BY <1>6, <3>1, <3>3
    <3> QED BY <1>5, <1>7, <2>1, <3>1, <3>4 DEF Picture
  <2> HIDE DEF T
  <2> QED BY <1>1, <1>2, <1>7, <2>1, <2>2, ShotStep DEF T
<1>8. CASE /\ ~AtBottom(r) /\ frames' = [frames EXCEPT ![r] = Append(@, Screen(s))]
           /\ pc' = [pc EXCEPT ![r] = IF Len(frames[r]) = MaxScrolls THEN "200" ELSE "swipe"]
  <2> DEFINE step == IF Len(frames[r]) = MaxScrolls THEN "200" ELSE "swipe"
  <2>1. /\ pc'[r] = step /\ frames'[r] = Append(frames[r], Screen(s))
        /\ frames' = [frames EXCEPT ![r] = Append(frames[r], Screen(s))]
    BY <1>8 DEF JsonInv, TypeOK
  <2>2. Append(frames[r], Screen(s)) \in Seq(T)
    <3> HIDE DEF T
    <3> QED BY <1>1, AppendProperties
  <2>3. ASSUME ~spoilt'[r] PROVE Picture(r)'
    <3>1. PICK k \in 1 .. MaxScrolls :
              /\ frames[r] = Film(r, k) /\ page[s] = r /\ r \in film
              /\ k - 1 <= LastScroll[r]
              /\ scroll[s] = IF k - 1 < LastScroll[r] THEN k ELSE k - 1
      BY <1>2, <1>3, <2>3
    <3>2. scroll[s] = k /\ k - 1 < LastScroll[r] /\ Len(frames[r]) = k
      BY <1>4, <1>8, <3>1
    <3>3. frames'[r] = Film(r, k + 1)
      <4>1. frames'[r] = Append(Film(r, k), Shot(r, k))
        BY <1>4, <2>1, <3>1, <3>2
      <4> QED BY <4>1, FilmGrows
    <3>4. CASE k = MaxScrolls
      <4>1. OwnPictures(r) = Film(r, k + 1)
        BY <1>1, <1>6, <3>1, <3>2, <3>4
      <4>2. pc'[r] = "200"
        BY <2>1, <3>2, <3>4
      <4> QED BY <1>5, <3>3, <4>1, <4>2 DEF Picture
    <3>5. CASE k # MaxScrolls
      <4>1. /\ k + 1 \in 1 .. MaxScrolls /\ (k + 1) - 1 = k /\ k <= LastScroll[r]
        BY <1>1, <3>2, <3>5
      <4>2. pc'[r] = "swipe"
        BY <2>1, <3>2, <3>5
      <4>3. /\ page'[session'[r]] = r /\ r \in film'
            /\ scroll'[session'[r]] = (k + 1) - 1
        BY <1>2, <3>1, <3>2, <4>1 DEF deviceVars
      <4> QED BY <3>3, <4>1, <4>2, <4>3 DEF Picture
    <3> QED BY <3>4, <3>5
  <2>4. step \in {"swipe", "200"}
    OBVIOUS
  <2> HIDE DEF T, step
  <2>5. pc' = [pc EXCEPT ![r] = step]
    BY <1>8 DEF step
  <2> QED BY <1>1, <1>2, <2>1, <2>2, <2>3, <2>4, <2>5, ShotStep DEF T
<1> QED BY <1>7, <1>8 DEF NextShot

-----------------------------------------------------------------------------
\* Every step keeps the invariant.
LEMMA NextJson == JsonInv /\ [Next]_vars => JsonInv'
<1> SUFFICES ASSUME JsonInv, [Next]_vars PROVE JsonInv'
  OBVIOUS
<1>1. CASE Next
  BY <1>1, QuietSteps, WorldKeeps, InstallKeeps, ShowKeeps, ScrollKeeps, SwipeKeeps,
     ShotsKeep, NextShotKeeps DEF Next, Steps
<1>2. CASE UNCHANGED vars
  BY <1>2 DEF vars, cpVars, deviceVars, threadVars, JsonInv, TypeOK, AppInv, AppIsThere,
      PictureInv, Picture, OwnPictures
<1> QED BY <1>1, <1>2

\* The invariant holds always.
THEOREM JsonInvariant == Spec => []JsonInv
  BY InitJson, NextJson, PTL DEF Spec

\* Every variable keeps its type: pages are never scrolled past their top, and
\* the session found is one of the control plane's.
THEOREM JsonTypeCorrect == Spec => []TypeOK
<1>1. JsonInv => TypeOK
  BY DEF JsonInv
<1> QED BY <1>1, JsonInvariant, PTL

\* `am start` is sent only to devices that have the viewer app.
THEOREM AppAlwaysThere == Spec => []AppIsThere
<1>1. JsonInv => AppIsThere
  BY DEF JsonInv, AppInv
<1> QED BY <1>1, JsonInvariant, PTL

\* A request that nothing came between is answered with its own page from top to
\* bottom, or to the limit, each position once.
THEOREM UndisturbedIsWhole == Spec => []UndisturbedPicture
<1>1. JsonInv => UndisturbedPicture
  BY DEF JsonInv, PictureInv, Picture, UndisturbedPicture
<1> QED BY <1>1, JsonInvariant, PTL

-----------------------------------------------------------------------------
(* json-bridge as a client of SessionLifecycle *)

\* Every step is one of the control plane, or leaves its sessions alone.
LEMMA LifecycleStep == [Next]_vars => CP!Next \/ phase' = phase
<1> SUFFICES ASSUME [Next]_vars PROVE CP!Next \/ phase' = phase
  OBVIOUS
<1> USE DEF cpVars, deviceVars, threadVars
<1>1. ASSUME In("absent") # {}, CP!Admit(Oldest(In("absent"))) PROVE CP!Next
  <2>1. Oldest(In("absent")) \in Session
    BY <1>1, OldestIn DEF In
  <2>2. QED BY <1>1, <2>1 DEF CP!Next
<1>2. ASSUME NEW r \in Request, CreateSession(r) PROVE CP!Next \/ phase' = phase
  BY <1>1, <1>2 DEF CreateSession
<1>3. CASE OtherClientCreates
  <2>1. IsFiniteSet(Request)
    BY JsonBridgeAssumption
  <2>2. Cardinality(Request) \in Nat
    BY <2>1, FS_CardinalityType
  <2>3. In("absent") # {}
    <3>1. Cardinality({}) = 0
      BY FS_EmptySet
    <3>2. QED BY <1>3, <2>2, <3>1 DEF OtherClientCreates
  <2>4. QED BY <1>1, <1>3, <2>3 DEF OtherClientCreates
<1>4. ASSUME NEW s \in Session, SessionReady(s) PROVE CP!Next
  BY <1>4 DEF SessionReady, CP!Next
<1>5. ASSUME NEW s \in Session, SessionEnds(s) PROVE CP!Next
  <2>1. {s} \in SUBSET CP!Live /\ CP!End({s})
    BY <1>5 DEF SessionEnds
  <2>2. QED BY <2>1 DEF CP!Next
<1>6. ASSUME NEW s \in Session, DeviceStops(s) PROVE phase' = phase
  BY <1>6 DEF DeviceStops
<1>7. ASSUME NEW r \in Request,
             \/ Arrive(r) \/ List(r) \/ Poll(r) \/ ResolvePort(r) \/ Connect(r)
             \/ Install(r) \/ Show(r) \/ Shoot(r) \/ ScrollToTop(r) \/ FirstShot(r)
             \/ Swipe(r) \/ NextShot(r) \/ DeadlinePasses(r) \/ Unreachable(r)
             \/ CallFails(r)
      PROVE  phase' = phase
  BY <1>7 DEF Arrive, List, Poll, ResolvePort, Connect, Install, Show, Shoot, ScrollToTop,
      FirstShot, Swipe, NextShot, DeadlinePasses, Unreachable, CallFails
<1>8. CASE UNCHANGED vars
  BY <1>8 DEF vars
<1>9. QED BY <1>2, <1>3, <1>4, <1>5, <1>6, <1>7, <1>8 DEF Next, Steps

\* Requests, other clients and the control plane together do to sessions only what
\* SessionLifecycle allows: an id is drawn once, and within the limit.
THEOREM JsonUsesLifecycle == Spec => CP!Spec
<1>1. Init => CP!Init
  BY DEF Init, CP!Init
<1>2. [Next]_vars => [CP!Next]_(CP!lifecycleVars)
  <2>1. phase' = phase => UNCHANGED CP!lifecycleVars
    BY DEF CP!lifecycleVars
  <2>2. QED BY <2>1, LifecycleStep
<1>3. QED BY <1>1, <1>2, PTL DEF Spec, CP!Spec

-----------------------------------------------------------------------------
(* The length of a request *)

\* The calls that request r can still make, at most: each picture of a filmstrip
\* but the first costs a swipe and a screenshot.
CallsLeft(r) ==
    LET pictures == MaxScrolls - Len(frames[r])
    IN  CASE pc[r] = "idle"    -> 2 * MaxScrolls + 10
          [] pc[r] = "list"    -> 2 * MaxScrolls + 9
          [] pc[r] = "create"  -> 2 * MaxScrolls + 8
          [] pc[r] = "poll"    -> 2 * MaxScrolls + 7
          [] pc[r] = "port"    -> 2 * MaxScrolls + 6
          [] pc[r] = "connect" -> 2 * MaxScrolls + 5
          [] pc[r] = "install" -> 2 * MaxScrolls + 4
          [] pc[r] = "show"    -> 2 * MaxScrolls + 3
          [] pc[r] = "render"  -> 2 * MaxScrolls + 2
          [] pc[r] = "first"   -> 2 * MaxScrolls + 1
          [] pc[r] = "swipe"   -> 2 * pictures + 2
          [] pc[r] = "next"    -> 2 * pictures + 1
          [] OTHER             -> 0

\* A step is a call of at most one request, which comes nearer to its answer;
\* all others are as far from theirs as before.
Nearer == \A r \in Request : CallsLeft(r)' < CallsLeft(r) \/ UNCHANGED <<pc[r], frames[r]>>

RequestsAdvance == [][Nearer]_vars

\* While it scrolls, a request has a picture, and no more than its limit.
StripInv ==
    \A r \in Request : pc[r] \in {"swipe", "next"} => Len(frames[r]) \in 1 .. MaxScrolls

Calls(r) == Arrive(r) \/ Steps(r) \/ DeadlinePasses(r) \/ Unreachable(r) \/ CallFails(r)

LEMMA LastScrollsType == MaxScrolls \in Nat /\ MaxScrolls >= 1
  BY JsonBridgeAssumption

\* What a request does next is its own, and its pictures too.
LEMMA CallsAreOwn ==
    ASSUME TypeOK, NEW r \in Request, Calls(r)
    PROVE  /\ \A q \in Request : q # r => UNCHANGED <<pc[q], frames[q]>>
           /\ pc' = [pc EXCEPT ![r] = pc'[r]]
<1> USE DEF threadVars, Goto, Answer
<1>0. pc \in [Request -> PC] /\ DOMAIN frames = Request
  BY DEF TypeOK, PC
<1>1. \E step : pc' = [pc EXCEPT ![r] = step]
  BY DEF Calls, Steps, Arrive, List, CreateSession, Poll, ResolvePort, Connect, Install,
     Show, Shoot, ScrollToTop, FirstShot, Swipe, NextShot, DeadlinePasses, Unreachable,
     CallFails
<1>2. frames' = frames \/ \E strip : frames' = [frames EXCEPT ![r] = strip]
  BY DEF Calls, Steps, Arrive, List, CreateSession, Poll, ResolvePort, Connect, Install,
     Show, Shoot, ScrollToTop, FirstShot, Swipe, NextShot, DeadlinePasses, Unreachable,
     CallFails
<1>3. QED BY <1>0, <1>1, <1>2

\* A call brings its request nearer to the answer, and keeps to the limit.
LEMMA CallsAdvance ==
    ASSUME TypeOK, StripInv, NEW r \in Request, Calls(r)
    PROVE  /\ CallsLeft(r)' < CallsLeft(r)
           /\ pc'[r] \in {"swipe", "next"} => Len(frames'[r]) \in 1 .. MaxScrolls
<1> USE DEF threadVars, Goto, Answer
<1>0. pc \in [Request -> PC] /\ DOMAIN frames = Request /\ MaxScrolls \in Nat
      /\ MaxScrolls >= 1 /\ frames[r] \in Seq([page : Request \cup {NoPage}, scroll : Nat])
  BY LastScrollsType DEF TypeOK, PC
<1>1. CASE Arrive(r) \/ List(r) \/ CreateSession(r) \/ Poll(r) \/ ResolvePort(r)
           \/ Connect(r) \/ Install(r) \/ Show(r) \/ ScrollToTop(r)
  <2>1. /\ pc[r] \in {"idle", "list", "create", "poll", "port", "connect", "install",
                      "show", "render"}
        /\ \/ pc[r] = "idle" /\ pc'[r] = "list"
           \/ pc[r] = "list" /\ pc'[r] \in {"port", "poll", "create"}
           \/ pc[r] = "create" /\ pc'[r] \in {"poll", "502"}
           \/ pc[r] = "poll" /\ pc'[r] \in {"port", "502"}
           \/ pc[r] = "port" /\ pc'[r] = "connect"
           \/ pc[r] = "connect" /\ pc'[r] \in {"show", "install"}
           \/ pc[r] = "install" /\ pc'[r] \in {"show", "500"}
           \/ pc[r] = "show" /\ pc'[r] \in {"render", "500"}
           \/ pc[r] = "render" /\ pc'[r] = "first"
    BY <1>0, <1>1 DEF Arrive, List, CreateSession, Poll, ResolvePort, Connect, Install,
       Show, ScrollToTop
  <2>2. CASE pc[r] = "idle"
    BY <1>0, <2>1, <2>2 DEF CallsLeft
  <2>3. CASE pc[r] = "list"
    BY <1>0, <2>1, <2>3 DEF CallsLeft
  <2>4. CASE pc[r] = "create"
    BY <1>0, <2>1, <2>4 DEF CallsLeft
  <2>5. CASE pc[r] = "poll"
    BY <1>0, <2>1, <2>5 DEF CallsLeft
  <2>6. CASE pc[r] = "port"
    BY <1>0, <2>1, <2>6 DEF CallsLeft
  <2>7. CASE pc[r] = "connect"
    BY <1>0, <2>1, <2>7 DEF CallsLeft
  <2>8. CASE pc[r] = "install"
    BY <1>0, <2>1, <2>8 DEF CallsLeft
  <2>9. CASE pc[r] = "show"
    BY <1>0, <2>1, <2>9 DEF CallsLeft
  <2>10. CASE pc[r] = "render"
    BY <1>0, <2>1, <2>10 DEF CallsLeft
  <2>11. QED BY <2>1, <2>2, <2>3, <2>4, <2>5, <2>6, <2>7, <2>8, <2>9, <2>10
<1>2. CASE Shoot(r) \/ DeadlinePasses(r) \/ Unreachable(r) \/ CallFails(r)
  <2>1. /\ pc[r] \in {"list", "create", "poll", "port", "connect", "install", "show",
                      "render", "first", "swipe", "next"}
        /\ pc'[r] \in Answered
    BY <1>0, <1>2 DEF Shoot, DeadlinePasses, Unreachable, CallFails, InView, Answered
  <2>2. CallsLeft(r)' = 0 /\ pc'[r] \notin {"swipe", "next"}
    BY <2>1 DEF CallsLeft, Answered
  <2>3. pc[r] \in {"swipe", "next"} => Len(frames[r]) \in 1 .. MaxScrolls
    BY DEF StripInv
  <2>4. CallsLeft(r) > 0
    <3>1. CASE pc[r] \in {"swipe", "next"}
      BY <1>0, <2>3, <3>1 DEF CallsLeft
    <3>2. CASE pc[r] \notin {"swipe", "next"}
      <4>1. CASE pc[r] = "list"
        BY <1>0, <4>1 DEF CallsLeft
      <4>2. CASE pc[r] = "create"
        BY <1>0, <4>2 DEF CallsLeft
      <4>3. CASE pc[r] = "poll"
        BY <1>0, <4>3 DEF CallsLeft
      <4>4. CASE pc[r] = "port"
        BY <1>0, <4>4 DEF CallsLeft
      <4>5. CASE pc[r] = "connect"
        BY <1>0, <4>5 DEF CallsLeft
      <4>6. CASE pc[r] = "install"
        BY <1>0, <4>6 DEF CallsLeft
      <4>7. CASE pc[r] = "show"
        BY <1>0, <4>7 DEF CallsLeft
      <4>8. CASE pc[r] = "render"
        BY <1>0, <4>8 DEF CallsLeft
      <4>9. CASE pc[r] = "first"
        BY <1>0, <4>9 DEF CallsLeft
      <4>10. QED BY <2>1, <3>2, <4>1, <4>2, <4>3, <4>4, <4>5, <4>6, <4>7, <4>8, <4>9
    <3>3. QED BY <3>1, <3>2
  <2>5. QED BY <2>2, <2>4
<1>3. CASE FirstShot(r)
  <2>1. pc[r] = "first" /\ pc'[r] = "swipe" /\ Len(frames'[r]) = 1
    BY <1>0, <1>3 DEF FirstShot
  <2>2. QED BY <1>0, <2>1 DEF CallsLeft
<1>4. CASE Swipe(r)
  <2>1. pc[r] = "swipe" /\ pc'[r] = "next" /\ frames' = frames
    BY <1>0, <1>4 DEF Swipe
  <2>2. Len(frames[r]) \in 1 .. MaxScrolls
    BY <2>1 DEF StripInv
  <2>3. QED BY <1>0, <2>1, <2>2 DEF CallsLeft
<1>5. CASE NextShot(r)
  <2>1. pc[r] = "next"
    BY <1>5 DEF NextShot
  <2>2. Len(frames[r]) \in 1 .. MaxScrolls
    BY <2>1 DEF StripInv
  <2>3. CASE pc'[r] = "200"
    BY <1>0, <2>1, <2>2, <2>3 DEF CallsLeft
  <2>4. CASE pc'[r] # "200"
    <3>1. /\ frames' = [frames EXCEPT ![r] = Append(@, Screen(session[r]))]
          /\ Len(frames[r]) # MaxScrolls /\ pc'[r] = "swipe"
      BY <1>0, <1>5, <2>4 DEF NextShot
    <3>2. Len(frames'[r]) = Len(frames[r]) + 1
      BY <1>0, <3>1
    <3>3. QED BY <1>0, <2>1, <2>2, <3>1, <3>2 DEF CallsLeft
  <2>5. QED BY <2>3, <2>4
<1>6. QED BY <1>1, <1>2, <1>3, <1>4, <1>5 DEF Calls, Steps

\* The world outside makes no call for a request.
LEMMA WorldWaits ==
    ASSUME [Next]_vars, ~ \E r \in Request : Calls(r)
    PROVE  UNCHANGED <<pc, frames>>
  BY DEF Next, Calls, OtherClientCreates, SessionReady, SessionEnds, DeviceStops, vars,
     threadVars

\* A request being scrolled has between one picture and MaxScrolls of them.
THEOREM StripsStayWithinLimit == Spec => []StripInv
<1>1. Init => StripInv
  BY DEF Init, StripInv
<1>2. JsonInv /\ StripInv /\ [Next]_vars => StripInv'
  <2> SUFFICES ASSUME JsonInv, StripInv, [Next]_vars, NEW q \in Request,
                      pc'[q] \in {"swipe", "next"}
               PROVE  Len(frames'[q]) \in 1 .. MaxScrolls
    BY DEF StripInv
  <2>1. ASSUME NEW r \in Request, Calls(r) PROVE Len(frames'[q]) \in 1 .. MaxScrolls
    <3>1. TypeOK
      BY DEF JsonInv
    <3>2. CASE q = r
      BY <2>1, <3>1, <3>2, CallsAdvance
    <3>3. CASE q # r
      BY <2>1, <3>1, <3>3, CallsAreOwn DEF StripInv
    <3>4. QED BY <3>2, <3>3
  <2>2. CASE ~ \E r \in Request : Calls(r)
    BY <2>2, WorldWaits DEF StripInv
  <2>3. QED BY <2>1, <2>2
<1>3. QED BY <1>1, <1>2, JsonInvariant, PTL DEF Spec

\* Whatever other requests, clients and devices do, a request is answered after at
\* most 2 * MaxScrolls + 10 steps of its own, polling a session that starts, which
\* the deadline ends, counting as one.
THEOREM RequestsAlwaysAdvance == Spec => RequestsAdvance
<1>1. JsonInv /\ StripInv /\ [Next]_vars => Nearer
  <2> SUFFICES ASSUME JsonInv, StripInv, [Next]_vars, NEW q \in Request
               PROVE  CallsLeft(q)' < CallsLeft(q) \/ UNCHANGED <<pc[q], frames[q]>>
    BY DEF Nearer
  <2>1. ASSUME NEW r \in Request, Calls(r)
        PROVE  CallsLeft(q)' < CallsLeft(q) \/ UNCHANGED <<pc[q], frames[q]>>
    <3>1. TypeOK
      BY DEF JsonInv
    <3>2. CASE q = r
      BY <2>1, <3>1, <3>2, CallsAdvance
    <3>3. CASE q # r
      BY <2>1, <3>1, <3>3, CallsAreOwn
    <3>4. QED BY <3>2, <3>3
  <2>2. CASE ~ \E r \in Request : Calls(r)
    BY <2>2, WorldWaits
  <2>3. QED BY <2>1, <2>2
<1>2. QED BY <1>1, JsonInvariant, StripsStayWithinLimit, PTL DEF Spec, RequestsAdvance
=============================================================================
