---------------------------- MODULE TouchPathProofs ----------------------------
(***************************************************************************)
(* For any sessions and fingers: a device is left with a finger down only  *)
(* where the end of the gesture could not reach it, and sees a stray one   *)
(* only where the beginning was lost.  For any screen: every coordinate    *)
(* meets a pixel.                                                          *)
(***************************************************************************)
EXTENDS TouchPath, TLAPS

\* A hidden canvas has had its gestures cut.
HiddenInv == ~visible => \A p \in pressed : p[1] = active => p \in cut

\* A finger in the set of pointers is down on the device, or its 'down' was lost,
\* unless the stream is over and nothing reaches the device any more.
PointerInv ==
    visible /\ bridge[active] # "ended" =>
        \A f \in fingers \cap pointers : <<active, f>> \in pressed \cup lossy

TouchInv == TypeOK /\ NoFingerLeft /\ HiddenInv /\ PointerInv

-----------------------------------------------------------------------------
(* One touch *)

Action == {"down", "move", "up", "cancel"}

\* A touch concerns the finger and the session it is for; what the end of a
\* gesture does not lift is counted as cut, and only what reaches a device where
\* the finger is not down is stray.
LEMMA TouchEffect ==
    ASSUME TypeOK, active \in Session, NEW f \in Finger, NEW action \in Action,
           Touch(f, action)
    PROVE  LET at == <<active, f>>
           IN  /\ pressed' \subseteq Session \X Finger /\ lossy' \subseteq Session \X Finger
               /\ cut' \subseteq Session \X Finger /\ stray' \subseteq Session \X Finger
               /\ \A q : q # at => /\ q \in pressed' <=> q \in pressed
                                   /\ q \in cut' <=> q \in cut
                                   /\ q \in lossy' <=> q \in lossy
               /\ action = "down" => at \in pressed' \cup lossy' /\ stray' \subseteq stray
               /\ action = "move" => UNCHANGED <<pressed, cut, lossy>>
               /\ action \in {"up", "cancel"} => at \notin pressed' \/ at \in cut'
               /\ stray' \subseteq stray \cup ({at} \ pressed)
               /\ stray' # stray => bridge[active] = "live"
<1> DEFINE at == <<active, f>>
<1>1. at \in Session \X Finger
  OBVIOUS
<1>2. CASE Reaches /\ Accepts(active, Encode(action))
  <2>1. /\ pressed' = IF action = "down" THEN pressed \cup {at}
                      ELSE IF action \in {"up", "cancel"} THEN pressed \ {at} ELSE pressed
        /\ stray' = IF action = "down" THEN stray \ {at} ELSE stray \cup ({at} \ pressed)
        /\ lossy' = IF action = "down" THEN lossy \ {at} ELSE lossy
        /\ cut' = IF action = "move" THEN cut ELSE cut \ {at}
    BY <1>2 DEF Touch, Encode, Lifts, Action
  <2>2. bridge[active] = "live"
    BY <1>2 DEF Reaches
  <2> QED BY <1>1, <2>1, <2>2 DEF TypeOK, Action
<1>3. CASE ~(Reaches /\ Accepts(active, Encode(action)))
  <2>1. /\ lossy' = IF action = "down" THEN lossy \cup {at} ELSE lossy
        /\ cut' = IF action \in {"up", "cancel"} THEN cut \cup ({at} \cap pressed) ELSE cut
        /\ pressed' = pressed /\ stray' = stray
    BY <1>3 DEF Touch
  <2> QED BY <1>1, <2>1 DEF TypeOK, Action
<1> QED BY <1>2, <1>3

\* Init has no finger anywhere.
LEMMA InitTouch == Init => TouchInv
<1> SUFFICES ASSUME Init PROVE TouchInv
  OBVIOUS
<1>1. visible = FALSE /\ visible \in BOOLEAN
  BY DEF Init
<1>2. TypeOK
  BY <1>1 DEF Init, TypeOK
<1>3. NoFingerLeft /\ HiddenInv /\ PointerInv
  BY <1>1 DEF Init, NoFingerLeft, HiddenInv, PointerInv
<1> QED BY <1>2, <1>3 DEF TouchInv

\* Only a session that is attached to has a visible canvas.
LEMMA VisibleActive == TypeOK /\ visible => active \in Session
  BY DEF TypeOK

\* A finger that comes down.
LEMMA DownKeeps ==
    ASSUME TouchInv, NEW f \in Finger, FingerDown(f)
    PROVE  TouchInv' /\ stray' \ stray \subseteq lossy
<1> USE DEF pageVars, deviceVars, touchVars
<1> DEFINE at == <<active, f>>
<1>1. /\ visible /\ active \in Session /\ f \notin fingers
      /\ fingers' = fingers \cup {f} /\ pointers' = pointers \cup {f}
      /\ UNCHANGED <<bridge, turned, active, socket, visible>>
      /\ Touch(f, "down")
  BY VisibleActive DEF FingerDown, TouchInv
<1>2. /\ pressed' \subseteq Session \X Finger /\ lossy' \subseteq Session \X Finger
      /\ cut' \subseteq Session \X Finger /\ stray' \subseteq Session \X Finger
      /\ \A q : q # at => /\ q \in pressed' <=> q \in pressed
                          /\ q \in cut' <=> q \in cut
                          /\ q \in lossy' <=> q \in lossy
      /\ at \in pressed' \cup lossy' /\ stray' \subseteq stray
  BY <1>1, TouchEffect DEF TouchInv, Action
<1>3. TypeOK'
  BY <1>1, <1>2 DEF TouchInv, TypeOK
<1>4. NoFingerLeft'
  BY <1>1, <1>2 DEF TouchInv, NoFingerLeft
<1>5. HiddenInv'
  BY <1>1 DEF HiddenInv
<1>6. PointerInv'
  BY <1>1, <1>2 DEF TouchInv, PointerInv
<1> QED BY <1>2, <1>3, <1>4, <1>5, <1>6 DEF TouchInv

\* A finger that moves.
LEMMA MoveKeeps ==
    ASSUME TouchInv, NEW f \in Finger, FingerMoves(f)
    PROVE  TouchInv' /\ stray' \ stray \subseteq lossy
<1> USE DEF pageVars, deviceVars, touchVars
<1> DEFINE at == <<active, f>>
<1>1. /\ visible /\ active \in Session /\ f \in fingers \cap pointers
      /\ UNCHANGED <<bridge, turned, active, socket, visible, fingers, pointers>>
      /\ Touch(f, "move")
  BY VisibleActive DEF FingerMoves, TouchInv
<1>2. /\ stray' \subseteq Session \X Finger
      /\ UNCHANGED <<pressed, cut, lossy>>
      /\ stray' \subseteq stray \cup ({at} \ pressed)
      /\ stray' # stray => bridge[active] = "live"
  BY <1>1, TouchEffect DEF TouchInv, Action
<1>3. TypeOK'
  BY <1>1, <1>2 DEF TouchInv, TypeOK
<1>4. NoFingerLeft' /\ HiddenInv' /\ PointerInv'
  BY <1>1, <1>2 DEF TouchInv, NoFingerLeft, HiddenInv, PointerInv
<1>5. stray' # stray => at \in pressed \cup lossy
  BY <1>1, <1>2 DEF TouchInv, PointerInv
<1> QED BY <1>2, <1>3, <1>4, <1>5 DEF TouchInv

\* A finger that goes up.
LEMMA UpKeeps ==
    ASSUME TouchInv, NEW f \in Finger, FingerUp(f)
    PROVE  TouchInv' /\ stray' \ stray \subseteq lossy
<1> USE DEF pageVars, deviceVars, touchVars
<1> DEFINE at == <<active, f>>
<1>1. /\ f \in fingers /\ fingers' = fingers \ {f}
      /\ UNCHANGED <<bridge, turned, active, socket, visible>>
  BY DEF FingerUp
<1>2. CASE visible /\ f \in pointers
  <2>1. PICK action \in {"up", "cancel"} : Touch(f, action)
    BY <1>2 DEF FingerUp
  <2>2. active \in Session /\ pointers' = pointers \ {f}
    BY <1>2, VisibleActive DEF FingerUp, TouchInv
  <2>3. /\ pressed' \subseteq Session \X Finger /\ lossy' \subseteq Session \X Finger
        /\ cut' \subseteq Session \X Finger /\ stray' \subseteq Session \X Finger
        /\ \A q : q # at => /\ q \in pressed' <=> q \in pressed
                            /\ q \in cut' <=> q \in cut
                            /\ q \in lossy' <=> q \in lossy
        /\ at \notin pressed' \/ at \in cut'
        /\ stray' \subseteq stray \cup ({at} \ pressed)
        /\ stray' # stray => bridge[active] = "live"
    BY <2>1, <2>2, TouchEffect DEF TouchInv, Action
  <2>4. TypeOK'
    BY <1>1, <2>2, <2>3 DEF TouchInv, TypeOK
  <2>5. NoFingerLeft'
    <3> SUFFICES ASSUME NEW p \in pressed', p \notin cut'
                 PROVE  p[1] = active /\ p[2] \in fingers' \cap pointers'
      BY <1>1 DEF NoFingerLeft
    <3>1. p # at /\ p \in pressed /\ p \notin cut
      BY <2>3
    <3>2. p[1] = active /\ p[2] \in fingers \cap pointers
      BY <3>1 DEF TouchInv, NoFingerLeft
    <3>3. p[2] # f
      BY <2>3, <3>1, <3>2
    <3> QED BY <1>1, <2>2, <3>2, <3>3
  <2>6. HiddenInv'
    BY <1>1, <1>2 DEF HiddenInv
  <2>7. PointerInv'
    BY <1>1, <2>2, <2>3 DEF TouchInv, PointerInv
  <2>8. stray' # stray => at \in pressed \cup lossy
    BY <1>1, <1>2, <2>3 DEF TouchInv, PointerInv
  <2> QED BY <2>3, <2>4, <2>5, <2>6, <2>7, <2>8 DEF TouchInv
<1>3. CASE ~(visible /\ f \in pointers)
  <2>1. UNCHANGED <<pointers, pressed, lossy, cut, stray>>
    BY <1>3 DEF FingerUp
  <2>2. TypeOK'
    BY <1>1, <2>1 DEF TouchInv, TypeOK
  <2>3. NoFingerLeft'
    BY <1>1, <1>3, <2>1 DEF TouchInv, NoFingerLeft, HiddenInv
  <2>4. HiddenInv' /\ PointerInv'
    BY <1>1, <2>1 DEF TouchInv, HiddenInv, PointerInv
  <2> QED BY <2>1, <2>2, <2>3, <2>4 DEF TouchInv
<1> QED BY <1>2, <1>3
-----------------------------------------------------------------------------
(* The attachment, sessions and devices *)

\* An attachment begins or ends: every finger down on its device is cut.
LEMMA AttachmentKeeps ==
    ASSUME TouchInv, Teardown \/ Hide \/ Opens \/ Drops \/ \E s \in Session : AttachTo(s)
    PROVE  TouchInv' /\ stray' = stray
<1> USE DEF pageVars, deviceVars, touchVars
<1>1. UNCHANGED <<bridge, turned, fingers, pressed, lossy, stray>>
  BY DEF Teardown, Hide, Opens, Drops, AttachTo
<1>2. cut' \in {cut, cut \cup {p \in pressed : p[1] = active}}
  BY DEF Teardown, Hide, Opens, Drops, AttachTo, CutGestures
<1>3. visible' \in BOOLEAN
  BY Zenon DEF Teardown, Hide, Opens, Drops, AttachTo, TouchInv, TypeOK
<1>4. TypeOK'
  <2>1. /\ active' \in Session \cup {NoSession} /\ pointers' \subseteq Finger
        /\ socket' \in {"connecting", "open", "closed"}
        /\ cut' \subseteq Session \X Finger
    BY <1>2 DEF Teardown, Hide, Opens, Drops, AttachTo, TouchInv, TypeOK
  <2>2. active' = NoSession => socket' = "closed" /\ ~visible'
    BY TouchAssumption DEF Teardown, Hide, Opens, Drops, AttachTo, TouchInv, TypeOK
  <2> QED BY <1>1, <1>3, <2>1, <2>2 DEF TouchInv, TypeOK
<1>5. CASE Opens \/ Drops
  <2>1. UNCHANGED <<active, visible, pointers>>
    BY <1>5 DEF Opens, Drops
  <2> QED BY <1>1, <1>2, <1>4, <2>1 DEF TouchInv, NoFingerLeft, HiddenInv, PointerInv
<1>6. CASE Hide
  <2>1. /\ visible' = FALSE /\ UNCHANGED <<active, pointers>>
        /\ cut' = cut \cup {p \in pressed : p[1] = active}
    BY <1>6 DEF Hide, CutGestures
  <2> QED BY <1>1, <1>4, <2>1 DEF TouchInv, NoFingerLeft, HiddenInv, PointerInv
<1>7. CASE Teardown \/ \E s \in Session : AttachTo(s)
  <2>1. pointers' = {} /\ cut' = cut \cup {p \in pressed : p[1] = active}
    BY <1>7 DEF Teardown, AttachTo, CutGestures
  <2>2. \A p \in pressed' : p \in cut'
    BY <1>1, <2>1 DEF TouchInv, NoFingerLeft
  <2>3. NoFingerLeft' /\ HiddenInv'
    BY <2>2 DEF NoFingerLeft, HiddenInv
  <2>4. PointerInv'
    BY <2>1 DEF PointerInv
  <2> QED BY <1>1, <1>4, <2>3, <2>4 DEF TouchInv
<1> QED BY <1>5, <1>6, <1>7

\* A session becomes ready, its stream starts, its device is rotated.
LEMMA SessionKeeps ==
    ASSUME TouchInv, NEW s \in Session, BecomeReady(s) \/ Meta(s) \/ Rotate(s)
    PROVE  TouchInv' /\ stray' = stray
<1> USE DEF pageVars, deviceVars, touchVars
<1>1. UNCHANGED <<active, socket, visible, fingers, pointers, pressed, lossy, cut, stray>>
  BY DEF BecomeReady, Meta, Rotate
<1>2. /\ bridge' \in [Session -> {"none", "mute", "live", "ended"}]
      /\ turned' \subseteq Session
      /\ \A t \in Session : bridge[t] = "ended" => bridge'[t] = "ended"
  BY DEF BecomeReady, Meta, Rotate, TouchInv, TypeOK
<1>3. TypeOK'
  BY <1>1, <1>2 DEF TouchInv, TypeOK
<1>4. NoFingerLeft' /\ HiddenInv'
  BY <1>1 DEF TouchInv, NoFingerLeft, HiddenInv
<1>5. PointerInv'
  BY <1>1, <1>2, VisibleActive DEF TouchInv, PointerInv
<1> QED BY <1>1, <1>3, <1>4, <1>5 DEF TouchInv

\* A stream ends, and what its server injected with it.
LEMMA StreamEndKeeps ==
    ASSUME TouchInv, NEW s \in Session, StreamEnds(s)
    PROVE  TouchInv' /\ stray' \subseteq stray
<1>1. /\ UNCHANGED <<active, visible, fingers, pointers>>
      /\ bridge' = [bridge EXCEPT ![s] = "ended"] /\ turned' = turned \ {s}
      /\ socket' \in {socket, "closed"}
      /\ pressed' = {p \in pressed : p[1] # s} /\ cut' = {p \in cut : p[1] # s}
      /\ lossy' = {p \in lossy : p[1] # s} /\ stray' = {p \in stray : p[1] # s}
  BY DEF StreamEnds
<1>2. TypeOK'
  <2>1. /\ bridge' \in [Session -> {"none", "mute", "live", "ended"}]
        /\ turned' \subseteq Session
        /\ active' \in Session \cup {NoSession}
        /\ socket' \in {"connecting", "open", "closed"}
        /\ fingers' \subseteq Finger /\ pointers' \subseteq Finger
    BY <1>1 DEF TouchInv, TypeOK
  <2>2. /\ pressed' \subseteq Session \X Finger /\ lossy' \subseteq Session \X Finger
        /\ cut' \subseteq Session \X Finger /\ stray' \subseteq Session \X Finger
    BY <1>1 DEF TouchInv, TypeOK
  <2>3. visible' \in BOOLEAN
    BY <1>1, Zenon DEF TouchInv, TypeOK
  <2>4. active' = NoSession => socket' = "closed" /\ ~visible'
    BY <1>1 DEF TouchInv, TypeOK
  <2> QED BY <2>1, <2>2, <2>3, <2>4 DEF TypeOK
<1>3. NoFingerLeft' /\ HiddenInv'
  BY <1>1 DEF TouchInv, NoFingerLeft, HiddenInv
<1>4. PointerInv'
  <2> SUFFICES ASSUME visible', bridge'[active'] # "ended", NEW f \in fingers' \cap pointers'
               PROVE  <<active', f>> \in pressed' \cup lossy'
    BY DEF PointerInv
  <2>1. active \in Session
    BY <1>1, VisibleActive DEF TouchInv
  <2>2. active # s /\ bridge[active] # "ended"
    BY <1>1, <2>1 DEF TouchInv, TypeOK
  <2>3. <<active, f>> \in pressed \cup lossy
    BY <1>1, <2>2 DEF TouchInv, PointerInv
  <2> QED BY <1>1, <2>2, <2>3
<1> QED BY <1>1, <1>2, <1>3, <1>4 DEF TouchInv

\* Every step keeps the invariant, and makes only lost fingers stray.
LEMMA NextTouch ==
    TouchInv /\ [Next]_vars => TouchInv' /\ stray' \ stray \subseteq lossy
<1> SUFFICES ASSUME TouchInv, [Next]_vars PROVE TouchInv' /\ stray' \ stray \subseteq lossy
  OBVIOUS
<1>1. CASE Next
  BY <1>1, DownKeeps, MoveKeeps, UpKeeps, AttachmentKeeps, SessionKeeps, StreamEndKeeps
  DEF Next
<1>2. CASE UNCHANGED vars
  BY <1>2 DEF vars, pageVars, deviceVars, touchVars, TouchInv, TypeOK, NoFingerLeft,
      HiddenInv, PointerInv
<1> QED BY <1>1, <1>2

\* The invariant holds always.
THEOREM TouchInvariant == Spec => []TouchInv
  BY InitTouch, NextTouch, PTL DEF Spec

-----------------------------------------------------------------------------
\* Every variable keeps its type, and only an attachment has a visible canvas.
THEOREM TouchTypeCorrect == Spec => []TypeOK
<1>1. TouchInv => TypeOK
  BY DEF TouchInv
<1> QED BY <1>1, TouchInvariant, PTL

\* A finger stays down on a device only if it is down on the canvas, or the
\* gesture was cut.
THEOREM NoFingerEverLeft == Spec => []NoFingerLeft
<1>1. TouchInv => NoFingerLeft
  BY DEF TouchInv
<1> QED BY <1>1, TouchInvariant, PTL

\* A device sees a finger it has not seen come down only if that was lost.
THEOREM StrayAlwaysAfterLoss == Spec => StrayOnlyAfterLoss
<1>1. TouchInv /\ [Next]_vars => [stray' \ stray \subseteq lossy]_vars
  BY NextTouch
<1> QED BY <1>1, TouchInvariant, PTL DEF Spec, StrayOnlyAfterLoss
-----------------------------------------------------------------------------
(* Pixels *)

\* Products of natural numbers are monotone.
LEMMA TimesMonotone ==
    ASSUME NEW d \in Nat, NEW a \in Nat, NEW b \in Nat, a <= b
    PROVE  d * a \in Nat /\ d * b \in Nat /\ d * a <= d * b
  BY SMTT(30)

\* Division by a positive number is between its bounds.
LEMMA DivBounds ==
    ASSUME NEW n \in Nat, NEW d \in Nat \ {0}
    PROVE  /\ n \div d \in Nat /\ d * (n \div d) \in Nat
           /\ d * (n \div d) <= n /\ n < d * (n \div d) + d
  BY SMTT(30)

\* Division is monotone.
LEMMA DivMonotone ==
    ASSUME NEW n \in Nat, NEW m \in Nat, n <= m, NEW d \in Nat \ {0}
    PROVE  n \div d <= m \div d
<1> DEFINE q == n \div d
           r == m \div d
<1>1. /\ q \in Nat /\ r \in Nat /\ d * q \in Nat /\ d * r \in Nat
      /\ d * q <= n /\ m < d * r + d
  BY DivBounds
<1>2. SUFFICES ASSUME ~(q <= r) PROVE FALSE
  OBVIOUS
<1> HIDE DEF q, r
<1>3. r + 1 <= q
  BY <1>1, <1>2
<1>4. d * (r + 1) <= d * q
  BY <1>1, <1>3, TimesMonotone
<1>5. d * (r + 1) = d * r + d
  BY <1>1, SMTT(30)
<1> QED BY <1>1, <1>4, <1>5

\* The lesser of two numbers.
LEMMA LeastOfTwo ==
    ASSUME NEW a \in Int, NEW b \in Int
    PROVE  Least({a, b}) = IF a <= b THEN a ELSE b
<1> DEFINE m == IF a <= b THEN a ELSE b
<1>1. m \in {a, b} /\ \A y \in {a, b} : m <= y
  OBVIOUS
<1>2. \A x \in {a, b} : (\A y \in {a, b} : x <= y) => x = m
  OBVIOUS
<1> QED BY <1>1, <1>2 DEF Least

\* clamp01() puts every coordinate on the screen, one that is not finite at 0.
LEMMA ClampRange ==
    /\ Clamp(NotFinite) = 0
    /\ \A k \in Int : Clamp(k) = IF k < 0 THEN 0 ELSE IF k <= Grid THEN k ELSE Grid
    /\ \A c \in Int \cup {NotFinite} : Clamp(c) \in 0 .. Grid
<1>1. Clamp(NotFinite) = 0
  BY DEF Clamp
<1>2. ASSUME NEW k \in Int
      PROVE  Clamp(k) = IF k < 0 THEN 0 ELSE IF k <= Grid THEN k ELSE Grid
  <2>1. k # NotFinite
    BY TouchAssumption
  <2>2. Least({k, Grid}) = IF k <= Grid THEN k ELSE Grid
    BY LeastOfTwo, TouchAssumption
  <2> QED BY <2>1, <2>2 DEF Clamp
<1>3. ASSUME NEW c \in Int \cup {NotFinite}
      PROVE  Clamp(c) \in 0 .. Grid
  BY <1>1, <1>2, TouchAssumption
<1> QED BY <1>1, <1>2, <1>3

\* x * width is monotone, and rounded to 0 and width at the ends.
LEMMA ScaledBounds ==
    /\ \A k \in 0 .. Grid : Scaled(k) \in Nat
    /\ Scaled(0) = 0 /\ Scaled(Grid) = Width
    /\ \A j, k \in 0 .. Grid : j <= k => Scaled(j) <= Scaled(k)
<1> DEFINE w == 2 * Width
           d == 2 * Grid
           n(k) == w * k + Grid
<1>1. w \in Nat /\ d \in Nat \ {0} /\ Grid \in Nat \ {0} /\ Width \in Nat
  BY TouchAssumption
<1>2. \A k \in 0 .. Grid : Scaled(k) = n(k) \div d
  BY DEF Scaled
<1>3. \A k \in 0 .. Grid : n(k) \in Nat
  BY <1>1, TimesMonotone
<1>4. Scaled(0) = 0
  <2>1. n(0) = Grid /\ d = Grid + Grid
    BY <1>1
  <2>2. \A q \in Nat : d * q <= Grid /\ Grid < d * q + d => q = 0
    <3> SUFFICES ASSUME NEW q \in Nat, d * q <= Grid, q # 0 PROVE FALSE
      OBVIOUS
    <3>1. d * 1 <= d * q
      BY <1>1, TimesMonotone
    <3> QED BY <1>1, <3>1
  <2>3. n(0) \div d = 0
    BY <1>1, <2>1, <2>2, DivBounds
  <2> QED BY <1>1, <1>2, <2>3
<1>5. Scaled(Grid) = Width
  <2>1. n(Grid) = d * Width + Grid /\ d = Grid + Grid /\ d * Width \in Nat
    BY <1>1, SMTT(30)
  <2>2. \A q \in Nat : d * q <= n(Grid) /\ n(Grid) < d * q + d => q = Width
    <3> SUFFICES ASSUME NEW q \in Nat, d * q <= n(Grid), n(Grid) < d * q + d, q # Width
                 PROVE  FALSE
      OBVIOUS
    <3>1. CASE q < Width
      <4>1. d * (q + 1) <= d * Width /\ d * (q + 1) = d * q + d /\ d * q \in Nat
        BY <1>1, <3>1, TimesMonotone, SMTT(30)
      <4> QED BY <1>1, <2>1, <4>1
    <3>2. CASE q > Width
      <4>1. d * (Width + 1) <= d * q /\ d * (Width + 1) = d * Width + d /\ d * q \in Nat
        BY <1>1, <3>2, TimesMonotone, SMTT(30)
      <4> QED BY <1>1, <2>1, <4>1
    <3> QED BY <1>1, <3>1, <3>2
  <2>3. n(Grid) \in Nat /\ Grid \in 0 .. Grid
    BY <1>1, <1>3
  <2>4. n(Grid) \div d = Width
    BY <1>1, <2>2, <2>3, DivBounds
  <2> QED BY <1>2, <2>3, <2>4
<1>6. ASSUME NEW j \in 0 .. Grid, NEW k \in 0 .. Grid, j <= k
      PROVE  Scaled(j) <= Scaled(k)
  <2>1. n(j) <= n(k) /\ n(j) \in Nat /\ n(k) \in Nat
    <3>1. w * j \in Nat /\ w * k \in Nat /\ w * j <= w * k
      BY <1>1, <1>6, TimesMonotone
    <3> QED BY <1>1, <3>1
  <2> HIDE DEF n, d
  <2> QED BY <1>1, <1>2, <2>1, DivMonotone
<1>7. \A k \in 0 .. Grid : Scaled(k) \in Nat
  <2> HIDE DEF n, d
  <2> QED BY <1>1, <1>2, <1>3, DivBounds
<1> QED BY <1>4, <1>5, <1>6, <1>7

\* What holds of every coordinate there is, not only of those around the screen
\* that a run enumerates: ToPixel() maps it to a pixel, 0 and 1 to the first and
\* the last, what is not finite to the first, and keeps the order of the finite.
THEOREM EveryCoordinateMeetsAPixel ==
    /\ \A c \in Int \cup {NotFinite} : ToPixel(c) \in 0 .. Width - 1
    /\ ToPixel(0) = 0 /\ ToPixel(Grid) = Width - 1 /\ ToPixel(NotFinite) = 0
    /\ \A j, k \in Int : j <= k => ToPixel(j) <= ToPixel(k)
<1>1. Width \in Nat \ {0} /\ Grid \in Nat \ {0}
  BY TouchAssumption
<1>2. ASSUME NEW c \in Int \cup {NotFinite}
      PROVE  /\ Scaled(Clamp(c)) \in Nat
             /\ ToPixel(c) = IF Width - 1 <= Scaled(Clamp(c)) THEN Width - 1
                             ELSE Scaled(Clamp(c))
  <2>1. Scaled(Clamp(c)) \in Nat
    BY ClampRange, ScaledBounds
  <2> QED BY <1>1, <2>1, LeastOfTwo DEF ToPixel
<1>3. \A c \in Int \cup {NotFinite} : ToPixel(c) \in 0 .. Width - 1
  BY <1>1, <1>2
<1>4. Clamp(0) = 0 /\ Clamp(Grid) = Grid /\ Clamp(NotFinite) = 0
  BY <1>1, ClampRange
<1>5. ToPixel(0) = 0 /\ ToPixel(Grid) = Width - 1 /\ ToPixel(NotFinite) = 0
  <2>1. Scaled(Clamp(0)) = 0 /\ Scaled(Clamp(Grid)) = Width /\ Scaled(Clamp(NotFinite)) = 0
    BY <1>4, ScaledBounds
  <2>2. 0 \in Int /\ Grid \in Int
    BY <1>1
  <2>3. ToPixel(0) = 0
    BY <1>1, <1>2, <2>1, <2>2
  <2>4. ToPixel(Grid) = Width - 1
    BY <1>1, <1>2, <2>1, <2>2
  <2>5. ToPixel(NotFinite) = 0
    <3>1. ToPixel(NotFinite) = Least({Width - 1, 0})
      BY <2>1 DEF ToPixel
    <3> QED BY <1>1, <3>1, LeastOfTwo
  <2> QED BY <2>3, <2>4, <2>5
<1>6. ASSUME NEW j \in Int, NEW k \in Int, j <= k
      PROVE  ToPixel(j) <= ToPixel(k)
  <2>1. Clamp(j) <= Clamp(k) /\ Clamp(j) \in 0 .. Grid /\ Clamp(k) \in 0 .. Grid
    BY <1>1, <1>6, ClampRange
  <2>2. Scaled(Clamp(j)) <= Scaled(Clamp(k))
    BY <2>1, ScaledBounds
  <2> QED BY <1>1, <1>2, <2>2
<1> QED BY <1>3, <1>5, <1>6

\* Whatever the screen and however fine the coordinate: a touch meets a pixel,
\* the edges of the canvas those of the screen, what is not finite the first, and
\* the order of finite coordinates is kept.
THEOREM PixelsAlwaysOnScreen == Spec => []PixelsOnScreen
<1>1. Around \subseteq Int
  BY DEF Around
<1>2. OnScreen
  BY <1>1, EveryCoordinateMeetsAPixel DEF OnScreen
<1>3. PixelsOnScreen
  BY <1>2 DEF PixelsOnScreen
<1> QED BY <1>3, PTL
=============================================================================
