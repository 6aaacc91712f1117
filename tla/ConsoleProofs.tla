----------------------------- MODULE ConsoleProofs -----------------------------
(***************************************************************************)
(* For any number of sessions: a visible canvas belongs to an attachment   *)
(* whose WebSocket has not been seen to close, and no late event or answer *)
(* takes a live picture away.  What the page knows of sessions, however    *)
(* old, never makes it do more to them than SessionLifecycle allows.       *)
(***************************************************************************)
EXTENDS Console, TLAPS

\* What concerns the list, the sessions and startSession().
ListType ==
    /\ phase \in [Session -> {"absent", "starting", "ready", "gone"}]
    /\ start \in {"idle", "listing", "polling", "stuck"}
    /\ mine \in Session \cup {NoSession}
    /\ mine # NoSession <=> start \in {"listing", "polling"}
    /\ answers \subseteq Answer
    /\ tokens \subseteq Session /\ shown \subseteq Session /\ deleting \subseteq Session

\* What concerns the attachment.
ViewInv ==
    /\ active \in Session \cup {NoSession}
    /\ socket \in {"none", "connecting", "open", "severed", "closed"}
    /\ socket = "none" <=> active = NoSession
    /\ closing \in BOOLEAN /\ viewport \in BOOLEAN
    /\ ViewportIsLive

ConsoleInv == ListType /\ ViewInv

\* The two halves are the type invariant and ViewportIsLive.
LEMMA ConsoleParts == ConsoleInv <=> TypeOK /\ ViewportIsLive
  BY DEF ConsoleInv, ListType, ViewInv, TypeOK

-----------------------------------------------------------------------------
(* The attachment *)

\* teardown() leaves nothing attached and nothing visible.
LEMMA TeardownKeeps ==
    ASSUME ViewInv, Teardown
    PROVE  ViewInv'
<1>1. closing' \in BOOLEAN
  BY Zenon DEF Teardown, Leaves, ViewInv
<1>2. active' = NoSession /\ socket' = "none" /\ viewport' = FALSE
  BY DEF Teardown
<1>3. viewport' \in BOOLEAN /\ ViewportIsLive'
  BY <1>2 DEF ViewportIsLive
<1> QED BY <1>1, <1>2, <1>3 DEF ViewInv

\* attachTo() attaches to a session, or hides what is attached.
LEMMA AttachKeeps ==
    ASSUME ViewInv, NEW s \in Session, AttachTo(s)
    PROVE  ViewInv'
<1>1. closing' \in BOOLEAN
  BY Zenon DEF AttachTo, Leaves, ViewInv
<1>2. viewport' \in BOOLEAN
  BY Zenon DEF AttachTo
<1>3. CASE s \in tokens
  <2>1. active' = s /\ socket' = "connecting"
    BY <1>3 DEF AttachTo
  <2> QED BY <1>1, <1>2, <2>1, ConsoleAssumption DEF ViewInv, ViewportIsLive
<1>4. CASE s \notin tokens
  <2>1. active' = active /\ socket' = socket /\ viewport' = FALSE
    BY <1>4 DEF AttachTo
  <2>2. ViewportIsLive'
    BY <2>1 DEF ViewportIsLive
  <2> QED BY <1>1, <1>2, <2>1, <2>2 DEF ViewInv
<1> QED BY <1>3, <1>4

\* An answer to refreshSessions() is applied with or without a teardown.
LEMMA ApplyKeeps ==
    ASSUME ConsoleInv, NEW a \in Answer, Apply(a)
    PROVE  ViewInv' /\ tokens' \subseteq Session /\ shown' \subseteq Session
<1>1. a.live \subseteq Session /\ a.ready \subseteq Session
  BY DEF Answer
<1>2. tokens' \subseteq Session /\ shown' \subseteq Session
  BY <1>1 DEF Apply, ConsoleInv, ListType
<1>3. Teardown => ViewInv'
  BY TeardownKeeps DEF ConsoleInv
<1>4. UNCHANGED viewVars => ViewInv'
  BY DEF ConsoleInv, ViewInv, ViewportIsLive, viewVars
<1>5. Teardown \/ UNCHANGED viewVars
  BY Zenon DEF Apply
<1> QED BY <1>2, <1>3, <1>4, <1>5

\* A session that ends severs the socket attached to it, at most.
LEMMA EndKeeps ==
    ASSUME ConsoleInv, NEW s \in Session, EndSession(s),
           active' = active, closing' = closing, viewport' = viewport
    PROVE  /\ phase' \in [Session -> {"absent", "starting", "ready", "gone"}]
           /\ ViewInv'
<1>1. phase' \in [Session -> {"absent", "starting", "ready", "gone"}]
  BY DEF EndSession, CP!End, ConsoleInv, ListType
<1>2. socket' \in {socket, "severed"} /\ (socket' # socket => socket = "open")
  BY DEF EndSession
<1>3. viewport' \in BOOLEAN /\ closing' \in BOOLEAN
  BY Zenon DEF ConsoleInv, ViewInv
<1>4. ViewportIsLive'
  <2>1. viewport' => active # NoSession /\ socket \in {"connecting", "open", "severed"}
    BY Zenon DEF ConsoleInv, ViewInv, ViewportIsLive
  <2> QED BY <1>2, <2>1 DEF ViewportIsLive
<1> QED BY <1>1, <1>2, <1>3, <1>4 DEF ConsoleInv, ViewInv

-----------------------------------------------------------------------------
(* Steps *)

\* The page starts with nothing.
LEMMA InitConsole == Init => ConsoleInv
<1> SUFFICES ASSUME Init PROVE ConsoleInv
  OBVIOUS
<1>1. ListType
  BY ConsoleAssumption DEF Init, ListType
<1>2. closing \in BOOLEAN /\ viewport \in BOOLEAN /\ ViewportIsLive
  BY Zenon DEF Init, ViewportIsLive
<1> QED BY <1>1, <1>2 DEF Init, ConsoleInv, ViewInv

\* The view is not touched, and so stays as it is.
LEMMA ViewUnchanged ==
    ASSUME ConsoleInv, UNCHANGED viewVars
    PROVE  ViewInv'
  BY DEF ConsoleInv, ViewInv, ViewportIsLive, viewVars

\* The answer to GET /api/sessions names sessions.
LEMMA SnapshotType == Snapshot \in Answer
  BY DEF Snapshot, Answer, In, CP!Live

\* Clicks and DELETEs of the user.
LEMMA UserKeeps ==
    ASSUME ConsoleInv,
           Stop \/ \E s \in Session : Click(s) \/ Deleted(s)
    PROVE  ConsoleInv'
<1> USE DEF startVars, listVars, viewVars
<1>1. CASE Stop
  <2>1. ViewInv'
    BY <1>1, TeardownKeeps DEF Stop, ConsoleInv
  <2>2. active \in Session
    BY <1>1 DEF Stop, ConsoleInv, ViewInv
  <2>3. ListType'
    BY <1>1, <2>2 DEF Stop, ConsoleInv, ListType
  <2> QED BY <2>1, <2>3 DEF ConsoleInv
<1>2. ASSUME NEW s \in Session, Click(s) PROVE ConsoleInv'
  <2>1. ViewInv'
    BY <1>2, AttachKeeps DEF Click, ConsoleInv
  <2>2. ListType'
    BY <1>2 DEF Click, ConsoleInv, ListType
  <2> QED BY <2>1, <2>2 DEF ConsoleInv
<1>3. ASSUME NEW s \in Session, Deleted(s) PROVE ConsoleInv'
  <2>1. /\ deleting' \subseteq Session /\ tokens' \subseteq Session
        /\ UNCHANGED <<start, mine, answers, shown, active, closing, viewport>>
    BY <1>3 DEF Deleted, ConsoleInv, ListType
  <2>2. EndSession(s) \/ UNCHANGED <<phase, socket>>
    BY <1>3 DEF Deleted
  <2>3. phase' \in [Session -> {"absent", "starting", "ready", "gone"}] /\ ViewInv'
    <3>1. CASE EndSession(s)
      BY <2>1, <3>1, EndKeeps
    <3>2. CASE UNCHANGED <<phase, socket>>
      BY <2>1, <3>2, ViewUnchanged DEF ConsoleInv, ListType
    <3> QED BY <2>2, <3>1, <3>2
  <2>4. ListType'
    BY <2>1, <2>3 DEF ConsoleInv, ListType
  <2> QED BY <2>3, <2>4 DEF ConsoleInv
<1> QED BY <1>1, <1>2, <1>3

\* The list.
LEMMA ListKeeps ==
    ASSUME ConsoleInv, ListAnswered \/ AnswerLost \/ Refresh
    PROVE  ConsoleInv'
<1> USE DEF startVars, listVars
<1>1. CASE ListAnswered \/ AnswerLost
  <2>1. UNCHANGED <<phase, startVars, tokens, shown, deleting, viewVars>>
    BY <1>1 DEF ListAnswered, AnswerLost
  <2>2. answers' \subseteq Answer
    BY <1>1, SnapshotType DEF ListAnswered, AnswerLost
  <2> QED BY <2>1, <2>2, ViewUnchanged DEF ConsoleInv, ListType
<1>2. CASE Refresh
  <2>1. PICK a \in answers : Apply(a)
    BY <1>2 DEF Refresh
  <2>2. a \in Answer
    BY DEF ConsoleInv, ListType
  <2>3. ViewInv' /\ tokens' \subseteq Session /\ shown' \subseteq Session
    BY <2>1, <2>2, ApplyKeeps
  <2> QED BY <1>2, <2>3 DEF Refresh, ConsoleInv, ListType
<1> QED BY <1>1, <1>2

\* startSession().
LEMMA StartKeeps ==
    ASSUME ConsoleInv, Post \/ Listed \/ Ready \/ GiveUp \/ PollThrows
    PROVE  ConsoleInv'
<1> USE ConsoleAssumption DEF startVars, listVars
<1>1. CASE Post
  <2>1. PICK s \in Session :
            /\ CP!Admit(s)
            /\ start' = "listing" /\ mine' = s /\ tokens' = tokens \cup {s}
    BY <1>1 DEF Post, In
  <2>2. phase' \in [Session -> {"absent", "starting", "ready", "gone"}]
    BY <2>1 DEF CP!Admit, ConsoleInv, ListType
  <2>3. ViewInv'
    BY <1>1, ViewUnchanged DEF Post
  <2> QED BY <1>1, <2>1, <2>2, <2>3 DEF Post, ConsoleInv, ListType
<1>2. CASE Listed
  <2>1. ViewInv' /\ tokens' \subseteq Session /\ shown' \subseteq Session
    <3>1. CASE Apply(Snapshot)
      BY <3>1, SnapshotType, ApplyKeeps
    <3>2. CASE UNCHANGED <<tokens, shown, viewVars>>
      BY <3>2, ViewUnchanged DEF ConsoleInv, ListType
    <3> QED BY <1>2, <3>1, <3>2 DEF Listed
  <2> QED BY <1>2, <2>1 DEF Listed, ConsoleInv, ListType
<1>3. CASE Ready
  <2>1. mine \in Session
    BY <1>3 DEF Ready, ConsoleInv, ListType
  <2>2. ViewInv'
    BY <1>3, <2>1, AttachKeeps DEF Ready, ConsoleInv
  <2> QED BY <1>3, <2>2 DEF Ready, ConsoleInv, ListType
<1>4. CASE GiveUp \/ PollThrows
  <2>1. UNCHANGED <<phase, listVars, viewVars>> /\ mine' = NoSession
        /\ start' \in {"idle", "stuck"}
    BY <1>4 DEF GiveUp, PollThrows
  <2> QED BY <2>1, ViewUnchanged DEF ConsoleInv, ListType
<1> QED BY <1>1, <1>2, <1>3, <1>4

\* The events of WebSockets.
LEMMA SocketKeeps ==
    ASSUME ConsoleInv, Upgrade \/ Sever \/ Notice \/ OldSocketCloses
    PROVE  ConsoleInv'
<1> USE DEF startVars, listVars
<1>1. ListType'
  BY DEF Upgrade, Sever, Notice, OldSocketCloses, ConsoleInv, ListType
<1>2. active' = active
  BY DEF Upgrade, Sever, Notice, OldSocketCloses
<1>3. closing' \in BOOLEAN /\ viewport' \in BOOLEAN
  BY Zenon DEF Upgrade, Sever, Notice, OldSocketCloses, ConsoleInv, ViewInv
<1>4. CASE Upgrade \/ Sever
  <2>1. socket' \in {"open", "severed"} /\ socket # "none" /\ viewport' = viewport
    BY <1>4 DEF Upgrade, Sever
  <2>2. active # NoSession
    BY <2>1 DEF ConsoleInv, ViewInv
  <2>3. ViewportIsLive'
    BY <1>2, <2>1, <2>2 DEF ViewportIsLive
  <2> QED BY <1>1, <1>2, <1>3, <2>1, <2>2, <2>3 DEF ConsoleInv, ViewInv
<1>5. CASE Notice
  <2>1. socket' = "closed" /\ socket # "none" /\ viewport' = FALSE
    BY <1>5 DEF Notice
  <2>2. ViewportIsLive'
    BY <2>1 DEF ViewportIsLive
  <2> QED BY <1>1, <1>2, <1>3, <2>1, <2>2 DEF ConsoleInv, ViewInv
<1>6. CASE OldSocketCloses
  <2>1. socket' = socket /\ viewport' = viewport
    BY <1>6 DEF OldSocketCloses
  <2>2. ViewportIsLive'
    BY <1>2, <2>1 DEF ConsoleInv, ViewInv, ViewportIsLive
  <2> QED BY <1>1, <1>2, <1>3, <2>1, <2>2 DEF ConsoleInv, ViewInv
<1> QED BY <1>4, <1>5, <1>6

\* The other clients of the control plane, and the control plane itself.
LEMMA OthersKeep ==
    ASSUME ConsoleInv, NEW s \in Session,
           OthersCreate(s) \/ BecomeReady(s) \/ OthersEnd(s)
    PROVE  ConsoleInv'
<1> USE DEF startVars, listVars
<1>1. CASE OthersCreate(s) \/ BecomeReady(s)
  <2>1. UNCHANGED <<startVars, listVars, viewVars>>
    BY <1>1 DEF OthersCreate, BecomeReady
  <2>2. phase' \in [Session -> {"absent", "starting", "ready", "gone"}]
    BY <1>1 DEF OthersCreate, BecomeReady, CP!Admit, CP!BecomeReady, ConsoleInv, ListType
  <2> QED BY <2>1, <2>2, ViewUnchanged DEF ConsoleInv, ListType
<1>2. CASE OthersEnd(s)
  BY <1>2, EndKeeps DEF OthersEnd, ConsoleInv, ListType
<1> QED BY <1>1, <1>2

\* Every step keeps the invariant.
LEMMA NextConsole == ConsoleInv /\ [Next]_vars => ConsoleInv'
<1> SUFFICES ASSUME ConsoleInv, [Next]_vars PROVE ConsoleInv'
  OBVIOUS
<1>1. CASE Next
  BY <1>1, UserKeeps, ListKeeps, StartKeeps, SocketKeeps, OthersKeep DEF Next
<1>2. CASE UNCHANGED vars
  BY <1>2, ViewUnchanged DEF vars, startVars, listVars, ConsoleInv, ListType
<1> QED BY <1>1, <1>2

\* The invariant holds always.
THEOREM ConsoleInvariant == Spec => []ConsoleInv
  BY InitConsole, NextConsole, PTL DEF Spec

-----------------------------------------------------------------------------
\* Every variable keeps its type, and there is a WebSocket exactly while a
\* session is attached to.
THEOREM ConsoleTypeCorrect == Spec => []TypeOK
  BY ConsoleInvariant, ConsoleParts, PTL

\* A visible canvas has an attachment whose WebSocket has not been seen to
\* close.
THEOREM ViewportAlwaysLive == Spec => []ViewportIsLive
  BY ConsoleInvariant, ConsoleParts, PTL
-----------------------------------------------------------------------------
\* While an attachment stays, the canvas is hidden only by its own WebSocket or
\* for want of a token.
LEMMA PictureStays ==
    ConsoleInv /\ [Next]_vars =>
        (viewport /\ ~viewport' /\ active' = active /\ socket' = "open"
            => \/ \E s \in shown : s \notin tokens
               \/ start = "polling" /\ mine \notin tokens)
<1> SUFFICES ASSUME ConsoleInv, [Next]_vars,
                    viewport, ~viewport', active' = active, socket' = "open"
             PROVE  \/ \E s \in shown : s \notin tokens
                    \/ start = "polling" /\ mine \notin tokens
  OBVIOUS
<1> USE DEF viewVars
<1>1. ~UNCHANGED viewport
  OBVIOUS
<1>2. ~Teardown
  <2>1. active # NoSession
    BY DEF ConsoleInv, ViewInv, ViewportIsLive
  <2> QED BY <2>1 DEF Teardown
<1>3. \A a : ~Apply(a)
  BY <1>1, <1>2, Zenon DEF Apply
<1>4. \A s \in Session : AttachTo(s) => s \notin tokens
  BY Zenon DEF AttachTo
<1>5. CASE \E s \in Session : Click(s)
  BY <1>4, <1>5 DEF Click
<1>6. CASE Ready
  <2>1. mine \in Session
    BY <1>6 DEF Ready, ConsoleInv, ListType
  <2> QED BY <1>4, <1>6, <2>1 DEF Ready
<1>7. ~Notice
  BY DEF Notice
<1>8. ~(Stop \/ Refresh \/ Listed)
  BY <1>1, <1>2, <1>3, Zenon DEF Stop, Refresh, Listed
<1>9. ~(ListAnswered \/ AnswerLost \/ Post \/ GiveUp \/ PollThrows \/ Upgrade \/ Sever
         \/ OldSocketCloses)
  BY <1>1, Zenon DEF ListAnswered, AnswerLost, Post, GiveUp, PollThrows, Upgrade, Sever,
      OldSocketCloses
<1>10. \A s \in Session : ~(Deleted(s) \/ OthersCreate(s) \/ BecomeReady(s) \/ OthersEnd(s))
  BY <1>1, Zenon DEF Deleted, OthersCreate, BecomeReady, OthersEnd
<1>11. ~UNCHANGED vars
  BY <1>1 DEF vars
<1> QED BY <1>5, <1>6, <1>7, <1>8, <1>9, <1>10, <1>11 DEF Next

\* A live picture is taken away by its own end, by a teardown, or by a fault for
\* want of a token: by no event of an earlier WebSocket.
THEOREM LivePictureAlwaysStays == Spec => LivePictureStays
  BY ConsoleInvariant, PictureStays, PTL DEF Spec, LivePictureStays

-----------------------------------------------------------------------------
(* The page as a client of SessionLifecycle *)

Created == {s \in Session : phase[s] # "absent"}

\* Whatever the page knows of a session, and however old that is, the session has
\* been created.
KnownInv ==
    /\ tokens \subseteq Created /\ shown \subseteq Created /\ deleting \subseteq Created
    /\ active # NoSession => active \in Created
    /\ mine # NoSession => mine \in Created
    /\ \A a \in answers : a.live \subseteq Created /\ a.ready \subseteq Created

\* The control plane's steps: they create and end sessions, and undo neither.
LEMMA PhaseSteps ==
    ASSUME ConsoleInv, NEW s \in Session
    PROVE  /\ CP!Admit(s) => s \in Created' /\ Created \subseteq Created'
           /\ CP!BecomeReady(s) => Created \subseteq Created'
           /\ CP!End({s}) => Created \subseteq Created'
           /\ s \in Created /\ CP!End({s}) => CP!Next \/ phase' = phase
<1>0. phase \in [Session -> {"absent", "starting", "ready", "gone"}]
  BY DEF ConsoleInv, ListType
<1>1. CP!Admit(s) => s \in Created' /\ Created \subseteq Created'
  BY <1>0 DEF CP!Admit, Created
<1>2. CP!BecomeReady(s) => Created \subseteq Created'
  BY <1>0 DEF CP!BecomeReady, Created
<1>3. CP!End({s}) => Created \subseteq Created'
  BY <1>0 DEF CP!End, Created
<1>4. ASSUME s \in Created, CP!End({s}) PROVE CP!Next \/ phase' = phase
  <2>1. CASE s \in CP!Live
    <3>1. {s} \in SUBSET CP!Live
      BY <2>1
    <3>2. QED BY <1>4, <3>1 DEF CP!Next
  <2>2. CASE s \notin CP!Live
    <3>1. phase[s] = "gone"
      BY <1>0, <1>4, <2>2 DEF Created, CP!Live
    <3>2. phase' = phase
      BY <1>0, <1>4, <3>1 DEF CP!End
    <3>3. QED BY <3>2
  <2>3. QED BY <2>1, <2>2
<1>5. QED BY <1>1, <1>2, <1>3, <1>4

\* Every step is one of the control plane, or leaves its sessions alone.
LEMMA LifecycleStep ==
    ASSUME ConsoleInv, KnownInv, [Next]_vars
    PROVE  (CP!Next \/ phase' = phase) /\ Created \subseteq Created'
<1> USE DEF startVars, listVars, viewVars
<1>1. ASSUME phase' = phase PROVE Created \subseteq Created'
  BY <1>1 DEF Created
<1>2. ASSUME NEW s \in Session, Deleted(s)
      PROVE  (CP!Next \/ phase' = phase) /\ Created \subseteq Created'
  <2>1. s \in Created
    BY <1>2 DEF Deleted, KnownInv
  <2>2. CP!End({s}) \/ phase' = phase
    BY <1>2 DEF Deleted, EndSession
  <2>3. QED BY <1>1, <2>1, <2>2, PhaseSteps
<1>3. ASSUME NEW s \in Session, CP!Admit(s) \/ CP!BecomeReady(s)
      PROVE  (CP!Next \/ phase' = phase) /\ Created \subseteq Created'
  BY <1>3, PhaseSteps DEF CP!Next
<1>4. CASE Post
  BY <1>3, <1>4 DEF Post, In
<1>5. ASSUME NEW s \in Session, OthersEnd(s)
      PROVE  (CP!Next \/ phase' = phase) /\ Created \subseteq Created'
  <2>1. CP!End({s}) /\ s \in Created
    BY <1>5 DEF OthersEnd, EndSession, CP!Live, Created
  <2>2. QED BY <2>1, PhaseSteps
<1>6. CASE \E s \in Session : OthersCreate(s) \/ BecomeReady(s)
  BY <1>3, <1>6 DEF OthersCreate, BecomeReady
<1>7. CASE \/ \E s \in Session : Click(s)
           \/ Stop \/ ListAnswered \/ AnswerLost \/ Refresh
           \/ Listed \/ Ready \/ GiveUp \/ PollThrows
           \/ Upgrade \/ Sever \/ Notice \/ OldSocketCloses
           \/ UNCHANGED vars
  <2>1. phase' = phase
    BY <1>7 DEF Click, Stop, ListAnswered, AnswerLost, Refresh, Listed, Ready, GiveUp,
        PollThrows, Upgrade, Sever, Notice, OldSocketCloses, vars
  <2>2. QED BY <1>1, <2>1
<1>8. QED BY <1>2, <1>4, <1>5, <1>6, <1>7 DEF Next

\* What an answer names has been created when it is applied.
LEMMA ApplyKnows ==
    ASSUME KnownInv, Created \subseteq Created', NEW a, Apply(a),
           a.live \subseteq Created, a.ready \subseteq Created
    PROVE  /\ tokens' \subseteq Created' /\ shown' \subseteq Created'
           /\ active' # NoSession => active' \in Created'
<1>1. tokens' \subseteq Created' /\ shown' \subseteq Created'
  BY DEF Apply, KnownInv
<1>2. active' = NoSession \/ active' = active
  BY Zenon DEF Apply, Teardown, viewVars
<1>3. QED BY <1>1, <1>2 DEF KnownInv

LEMMA NextKnown == ConsoleInv /\ KnownInv /\ [Next]_vars => KnownInv'
<1> SUFFICES ASSUME ConsoleInv, KnownInv, [Next]_vars PROVE KnownInv'
  OBVIOUS
<1> USE DEF startVars, listVars, viewVars
<1>0. Created \subseteq Created'
  BY LifecycleStep
<1>1. ASSUME UNCHANGED <<mine, tokens, shown, answers, deleting, active>> PROVE KnownInv'
  BY <1>0, <1>1 DEF KnownInv
<1>2. ASSUME NEW s \in Session, Click(s) PROVE KnownInv'
  <2>1. UNCHANGED <<mine, tokens, shown, answers, deleting>> /\ active' \in {active, s}
    BY <1>2 DEF Click, AttachTo
  <2>2. s \in Created
    BY <1>2 DEF Click, KnownInv
  <2>3. QED BY <1>0, <2>1, <2>2 DEF KnownInv
<1>3. CASE Stop
  <2>1. UNCHANGED <<mine, tokens, shown, answers>> /\ active' = NoSession
        /\ deleting' = deleting \cup {active} /\ active # NoSession
    BY <1>3 DEF Stop, Teardown
  <2>2. QED BY <1>0, <2>1 DEF KnownInv
<1>4. ASSUME NEW s \in Session, Deleted(s) PROVE KnownInv'
  <2>1. UNCHANGED <<mine, shown, answers, active>>
        /\ deleting' \subseteq deleting /\ tokens' \subseteq tokens
    BY <1>4 DEF Deleted
  <2>2. QED BY <1>0, <2>1 DEF KnownInv
<1>5. CASE ListAnswered
  <2>1. UNCHANGED <<mine, tokens, shown, deleting, active>> /\ answers' = {Snapshot}
    BY <1>5 DEF ListAnswered
  <2>2. Snapshot.live \subseteq Created /\ Snapshot.ready \subseteq Created
    BY DEF Snapshot, In, CP!Live, Created
  <2>3. QED BY <1>0, <2>1, <2>2 DEF KnownInv
<1>6. CASE AnswerLost
  BY <1>0, <1>6 DEF AnswerLost, KnownInv
<1>7. CASE Refresh
  <2>1. PICK a \in answers : Apply(a)
    BY <1>7 DEF Refresh
  <2>2. a.live \subseteq Created /\ a.ready \subseteq Created
    BY DEF KnownInv
  <2>3. UNCHANGED <<mine, deleting>> /\ answers' = {}
    BY <1>7 DEF Refresh
  <2>4. QED BY <1>0, <2>1, <2>2, <2>3, ApplyKnows DEF KnownInv
<1>8. CASE Post
  <2>1. PICK s \in Session : CP!Admit(s) /\ mine' = s /\ tokens' = tokens \cup {s}
    BY <1>8 DEF Post, In
  <2>2. s \in Created'
    BY <2>1, PhaseSteps
  <2>3. UNCHANGED <<shown, answers, deleting, active>>
    BY <1>8 DEF Post
  <2>4. QED BY <1>0, <2>1, <2>2, <2>3 DEF KnownInv
<1>9. CASE Listed
  <2>1. UNCHANGED <<mine, answers, deleting>>
    BY <1>9 DEF Listed
  <2>2. CASE Apply(Snapshot)
    <3>1. Snapshot.live \subseteq Created /\ Snapshot.ready \subseteq Created
      BY DEF Snapshot, In, CP!Live, Created
    <3>2. QED BY <1>0, <2>1, <2>2, <3>1, ApplyKnows DEF KnownInv
  <2>3. CASE UNCHANGED <<tokens, shown, viewVars>>
    BY <1>1, <2>1, <2>3
  <2>4. QED BY <1>9, <2>2, <2>3 DEF Listed
<1>10. CASE Ready
  <2>1. UNCHANGED <<tokens, shown, answers, deleting>> /\ mine' = NoSession
        /\ active' \in {active, mine}
    BY <1>10 DEF Ready, AttachTo
  <2>2. QED BY <1>0, <2>1 DEF KnownInv
<1>11. CASE GiveUp \/ PollThrows
  BY <1>0, <1>11 DEF GiveUp, PollThrows, KnownInv
<1>12. CASE Upgrade \/ Sever \/ Notice \/ OldSocketCloses \/ UNCHANGED vars
  BY <1>1, <1>12 DEF Upgrade, Sever, Notice, OldSocketCloses, vars
<1>13. ASSUME NEW s \in Session, OthersCreate(s) \/ BecomeReady(s) \/ OthersEnd(s)
       PROVE  KnownInv'
  BY <1>1, <1>13 DEF OthersCreate, BecomeReady, OthersEnd
<1>14. QED BY <1>2, <1>3, <1>4, <1>5, <1>6, <1>7, <1>8, <1>9, <1>10, <1>11, <1>12, <1>13
           DEF Next

\* The page, other pages and the control plane together do to sessions only what
\* SessionLifecycle allows: in particular a DELETE sent on old knowledge, to a
\* session that others have ended since, ends none that did not exist.
THEOREM ConsoleUsesLifecycle == Spec => CP!Spec
<1>1. Init => CP!Init /\ KnownInv
  BY DEF Init, CP!Init, KnownInv
<1>2. ConsoleInv /\ KnownInv /\ [Next]_vars => [CP!Next]_(CP!lifecycleVars)
  <2>1. phase' = phase => UNCHANGED CP!lifecycleVars
    BY DEF CP!lifecycleVars
  <2>2. QED BY <2>1, LifecycleStep
<1>3. QED BY <1>1, <1>2, NextKnown, ConsoleInvariant, PTL DEF Spec, CP!Spec
=============================================================================
