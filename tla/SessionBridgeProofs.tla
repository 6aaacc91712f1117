-------------------------- MODULE SessionBridgeProofs --------------------------
(***************************************************************************)
(* What the bridge caches decodes from its first frame on, and a viewer    *)
(* that lost nothing is never fed anything undecodable and is caught up    *)
(* once its queue is empty, for any number of viewers and any sizes.       *)
(***************************************************************************)
EXTENDS SessionBridge, SequenceTheorems, WellFoundedInduction, TLAPS

\* The parameter sets cached are those the encoder works with, and there are
\* some once it sends frames.
EncoderInv ==
    /\ configPacket = epoch
    /\ encoder \notin {"none", "ended"} => epoch # 0

\* Message n may come right after message m.  Only behind the parameter sets that
\* were replayed to a page that held none, `fresh`, may a delta follow nothing: the
\* page has not started, and does not even if configure() throws.
Joined(m, n, fresh) ==
    \/ n.kind = "config"
    \/ /\ n.epoch = m.epoch
       /\ n.kind = "delta" /\ ~(fresh /\ m.kind = "config") => n.follows

\* Message m is what a page that holds parameter sets `held` is ready for, `on`
\* if it has fed its decoder.
Expected(m, held, on) ==
    \/ m.kind = "config"
    \/ /\ m.epoch = held
       /\ m.kind = "delta" /\ on => m.follows

\* What the page of v has been sent, the queue last, up to now.
SentToDate(v) ==
    IF queue[v] = <<>>
    THEN configBytes[v] = epoch /\ (started[v] => upToDate[v])
    ELSE LET m == queue[v][Len(queue[v])]
         IN  /\ m.epoch = epoch
             /\ \/ upToDate[v]
                \/ m.kind = "config" /\ Len(queue[v]) = 1 /\ configBytes[v] = NoConfig

\* The keyframe the page of v decodes from is the i-th of its queue, or behind it
\* (and then the page has started, if its decoder has not failed it since).
KeyAhead(q, i) ==
    /\ q[i].kind = "key"
    /\ \A j \in 1 .. Len(q) : j > i => q[j].kind # "config"

KeyBehind(v) ==
    /\ ~failed[v] => started[v]
    /\ \A j \in 1 .. Len(queue[v]) : queue[v][j].kind # "config"

\* The invariant of a viewer from which nothing has been withheld.
StreamInv(v) ==
    /\ ~misfed[v]
    /\ configBytes[v] = NoConfig => ~started[v]
    /\ configBytes[v] # NoConfig /\ ~failed[v] => decoder[v] = "configured"
    /\ queue[v] # <<>> => Expected(queue[v][1], configBytes[v], started[v])
    /\ \A i \in 1 .. Len(queue[v]) :
           i + 1 <= Len(queue[v]) =>
               Joined(queue[v][i], queue[v][i + 1], i = 1 /\ configBytes[v] = NoConfig)
    /\ socket[v] = "open" =>
           /\ SentToDate(v)
           /\ gop # <<>> => KeyBehind(v) \/ \E i \in 1 .. Len(queue[v]) : KeyAhead(queue[v], i)

BridgeInv ==
    /\ EncoderInv
    /\ GopDecodable
    /\ \A v \in Viewer : socket[v] = "open" => v \in clients
    /\ \A v \in Viewer : ~dropped[v] => StreamInv(v)
-----------------------------------------------------------------------------
(* SizeOf.  It is a fold, a recursive function over sets of positions: that *)
(* the function exists and what it is on initial segments is by induction.  *)

\* Induction on a set of numbers.
LEMMA SetInduction ==
    ASSUME NEW S, 0 \in S, \A n \in Nat : n \in S => n + 1 \in S
    PROVE  Nat \subseteq S
<1> DEFINE R == OpToRel(<, Nat)
           T == Nat \ S
<1>1. IsWellFoundedOn(R, Nat)
  BY NatLessThanWellFounded
<1>2. \A x, y \in Nat : y < x => <<y, x>> \in R
  BY DEF OpToRel
<1>3. CASE T # {}
  <2>1. PICK x \in T : \A y \in T : ~ (<<y, x>> \in R)
    <3> HIDE DEF R
    <3>1. T \subseteq Nat
      OBVIOUS
    <3> HIDE DEF T
    <3>2. QED BY <1>1, <1>3, <3>1, WFMin
  <2>2. x \in Nat /\ x # 0
    OBVIOUS
  <2>3. x - 1 \in Nat /\ x - 1 < x /\ x = x - 1 + 1
    BY <2>2
  <2>4. x - 1 \notin T
    <3>1. <<x - 1, x>> \in R
      BY <1>2, <2>2, <2>3, Zenon
    <3>2. QED BY <2>1, <3>1, Zenon
  <2>5. x \in S
    BY <2>2, <2>3, <2>4
  <2>6. QED BY <2>5
<1>4. QED BY <1>3

\* A set of numbers up to n has a largest.
LEMMA MaxUpTo ==
    ASSUME NEW n \in Nat, NEW t \in SUBSET (1 .. n), t # {}
    PROVE  Max(t) \in t /\ \A i \in t : i <= Max(t)
<1> DEFINE S == {k \in Nat : \A u \in SUBSET (1 .. k) : u # {} => \E x \in u : \A y \in u : x >= y}
<1>1. 0 \in S
  <2>1. \A u \in SUBSET (1 .. 0) : u = {}
    OBVIOUS
  <2>2. QED BY <2>1
<1>2. ASSUME NEW k \in Nat, k \in S PROVE k + 1 \in S
  <2>1. SUFFICES ASSUME NEW u \in SUBSET (1 .. k + 1), u # {}
                 PROVE  \E x \in u : \A y \in u : x >= y
    OBVIOUS
  <2>2. CASE k + 1 \in u
    BY <2>2
  <2>3. CASE k + 1 \notin u
    <3>1. u \in SUBSET (1 .. k)
      BY <2>3
    <3>2. QED BY <1>2, <2>1, <3>1
  <2>4. QED BY <2>2, <2>3
<1>3. n \in S
  <2> HIDE DEF S
  <2> QED BY <1>1, <1>2, SetInduction
<1>4. \E x \in t : \A y \in t : x >= y
  BY <1>3
<1>5. Max(t) \in t /\ \A y \in t : Max(t) >= y
  BY <1>4, Zenon DEF Max
<1>6. QED BY <1>5

\* The function FoldLeft builds for SizeOf: the size of the elements of s whose
\* numbers are in t.
Totals(f, s, D) ==
    f = [t \in SUBSET D |-> IF t = {} THEN 0 ELSE f[t \ {Max(t)}] + Size(s[Max(t)])]

LEMMA TotalsExist == ASSUME NEW s, NEW n \in Nat PROVE \E f : Totals(f, s, 1 .. n)
<1> DEFINE S == {k \in Nat : \E f : Totals(f, s, 1 .. k)}
<1>1. 0 \in S
  <2> DEFINE f == [t \in SUBSET (1 .. 0) |-> 0]
  <2>1. Totals(f, s, 1 .. 0)
    BY DEF Totals
  <2>2. QED BY <2>1
<1>2. ASSUME NEW k \in Nat, k \in S PROVE k + 1 \in S
  <2>1. PICK g : Totals(g, s, 1 .. k)
    BY <1>2
  <2> DEFINE f == [t \in SUBSET (1 .. k + 1) |->
                     IF k + 1 \in t THEN g[t \ {k + 1}] + Size(s[k + 1]) ELSE g[t]]
             h == [t \in SUBSET (1 .. k + 1) |->
                     IF t = {} THEN 0 ELSE f[t \ {Max(t)}] + Size(s[Max(t)])]
  <2>2. \A t \in SUBSET (1 .. k) :
          g[t] = IF t = {} THEN 0 ELSE g[t \ {Max(t)}] + Size(s[Max(t)])
    BY <2>1 DEF Totals
  <2>3. ASSUME NEW t \in SUBSET (1 .. k + 1) PROVE f[t] = h[t]
    <3>1. CASE k + 1 \in t
      <4>1. Max(t) = k + 1
        <5>1. k + 1 \in Nat
          OBVIOUS
        <5>2. Max(t) \in t /\ k + 1 <= Max(t)
          BY <3>1, <5>1, MaxUpTo
        <5>3. Max(t) \in 1 .. k + 1
          BY <5>2
        <5>4. QED BY <5>2, <5>3
      <4>2. t \ {k + 1} \in SUBSET (1 .. k + 1) /\ k + 1 \notin t \ {k + 1}
        OBVIOUS
      <4>3. f[t \ {k + 1}] = g[t \ {k + 1}]
        BY <4>2
      <4>4. QED BY <3>1, <4>1, <4>3
    <3>2. CASE k + 1 \notin t /\ t # {}
      <4>1. t \in SUBSET (1 .. k)
        BY <3>2
      <4>2. t \ {Max(t)} \in SUBSET (1 .. k + 1) /\ k + 1 \notin t \ {Max(t)}
        BY <3>2
      <4>3. f[t] = g[t] /\ f[t \ {Max(t)}] = g[t \ {Max(t)}]
        BY <3>2, <4>2
      <4>4. QED BY <2>2, <3>2, <4>1, <4>3
    <3>3. CASE t = {}
      BY <2>2, <3>3
    <3>4. QED BY <3>1, <3>2, <3>3
  <2>4. f = h
    BY <2>3
  <2>5. Totals(f, s, 1 .. k + 1)
    BY <2>4 DEF Totals
  <2>6. QED BY <2>5
<1>3. QED
  <2> HIDE DEF S
  <2>1. n \in S
    BY <1>1, <1>2, SetInduction
  <2>2. QED BY <2>1 DEF S

\* SizeOf is one such function, at the whole of its sequence.
LEMMA SizeOfTotals ==
    ASSUME NEW S, NEW q \in Seq(S)
    PROVE  \E f : Totals(f, q, 1 .. Len(q)) /\ SizeOf(q) = f[1 .. Len(q)]
<1> DEFINE g == CHOOSE f : Totals(f, q, DOMAIN q)
<1>1. DOMAIN q = 1 .. Len(q) /\ Len(q) \in Nat
  BY LenProperties
<1>2. SizeOf(q) = g[DOMAIN q]
  BY Zenon DEF SizeOf, FoldLeft, MapThenFoldSet, Totals
<1>3. \E f : Totals(f, q, DOMAIN q)
  BY <1>1, TotalsExist
<1>4. Totals(g, q, DOMAIN q)
  <2> HIDE DEF Totals
  <2> QED BY <1>3, Zenon
<1> HIDE DEF g
<1>5. QED BY <1>1, <1>2, <1>4

\* The total over an initial segment is that of a shorter one and one element.
LEMMA TotalsStep ==
    ASSUME NEW f, NEW s, NEW n \in Nat, Totals(f, s, 1 .. n)
    PROVE  /\ f[{}] = 0
           /\ \A k \in Nat : k + 1 <= n => f[1 .. k + 1] = f[1 .. k] + Size(s[k + 1])
<1>1. \A t \in SUBSET (1 .. n) :
        f[t] = IF t = {} THEN 0 ELSE f[t \ {Max(t)}] + Size(s[Max(t)])
  BY DEF Totals
<1>2. f[{}] = 0
  BY <1>1
<1>3. ASSUME NEW k \in Nat, k + 1 <= n
      PROVE  f[1 .. k + 1] = f[1 .. k] + Size(s[k + 1])
  <2> DEFINE t == 1 .. k + 1
  <2>1. t \in SUBSET (1 .. n) /\ k + 1 \in t /\ k + 1 \in Nat
    BY <1>3
  <2>2. Max(t) \in t /\ k + 1 <= Max(t)
    BY <2>1, MaxUpTo
  <2>3. Max(t) = k + 1
    BY <2>1, <2>2
  <2>4. t \ {k + 1} = 1 .. k
    OBVIOUS
  <2>5. f[t] = f[t \ {Max(t)}] + Size(s[Max(t)])
    <3> HIDE DEF t
    <3> QED BY <1>1, <2>1
  <2>6. QED BY <2>3, <2>4, <2>5
<1>4. QED BY <1>2, <1>3

Agree(s, q, m) == \A i \in 1 .. m : Size(s[i]) = Size(q[i])

\* Sequences whose elements have equal sizes have equal totals.
LEMMA TotalsAgree ==
    ASSUME NEW f, NEW g, NEW s, NEW q, NEW m \in Nat, NEW n \in Nat, m <= n,
           Totals(f, s, 1 .. m), Totals(g, q, 1 .. n), Agree(s, q, m)
    PROVE  f[1 .. m] = g[1 .. m]
<1> DEFINE S == {k \in Nat : k <= m => f[1 .. k] = g[1 .. k]}
<1>1. 0 \in S
  <2>1. f[{}] = 0 /\ g[{}] = 0
    BY TotalsStep
  <2>2. 1 .. 0 = {}
    OBVIOUS
  <2>3. QED BY <2>1, <2>2
<1>2. ASSUME NEW k \in Nat, k \in S PROVE k + 1 \in S
  <2>1. SUFFICES ASSUME k + 1 <= m PROVE f[1 .. k + 1] = g[1 .. k + 1]
    OBVIOUS
  <2>2. f[1 .. k] = g[1 .. k]
    BY <1>2, <2>1
  <2>3. f[1 .. k + 1] = f[1 .. k] + Size(s[k + 1])
    BY <2>1, TotalsStep
  <2>4. g[1 .. k + 1] = g[1 .. k] + Size(q[k + 1])
    <3>1. k + 1 <= n
      BY <2>1
    <3>2. QED BY <3>1, TotalsStep
  <2>5. Size(s[k + 1]) = Size(q[k + 1])
    <3>1. k + 1 \in 1 .. m
      BY <2>1
    <3>2. QED BY <3>1 DEF Agree
  <2>6. QED BY <2>2, <2>3, <2>4, <2>5
<1>3. m \in S
  <2> HIDE DEF S
  <2> QED BY <1>1, <1>2, SetInduction
<1>4. QED BY <1>3

\* SizeOf counts one element after the other.
LEMMA SizeOfAppend ==
    ASSUME NEW S, NEW q \in Seq(S), NEW p \in S
    PROVE  /\ SizeOf(<<>>) = 0
           /\ SizeOf(Append(q, p)) = SizeOf(q) + Size(p)
<1>1. SizeOf(<<>>) = 0
  <2>1. <<>> \in Seq(S) /\ Len(<<>>) = 0 /\ 1 .. 0 = {}
    OBVIOUS
  <2>2. PICK f : Totals(f, <<>>, 1 .. 0) /\ SizeOf(<<>>) = f[1 .. 0]
    BY <2>1, SizeOfTotals
  <2>3. QED BY <2>1, <2>2, TotalsStep
<1>2. SizeOf(Append(q, p)) = SizeOf(q) + Size(p)
  <2> DEFINE r == Append(q, p)
             n == Len(q)
  <2>1. /\ r \in Seq(S) /\ n \in Nat /\ Len(r) = n + 1 /\ n + 1 \in Nat
        /\ r[n + 1] = p /\ \A i \in 1 .. n : q[i] = r[i]
    BY AppendProperties, LenProperties
  <2> HIDE DEF r, n
  <2>2. PICK f : Totals(f, q, 1 .. n) /\ SizeOf(q) = f[1 .. n]
    BY SizeOfTotals DEF n
  <2>3. PICK g : Totals(g, r, 1 .. n + 1) /\ SizeOf(r) = g[1 .. n + 1]
    BY <2>1, SizeOfTotals
  <2>4. g[1 .. n + 1] = g[1 .. n] + Size(r[n + 1])
    <3>1. n + 1 <= n + 1
      BY <2>1
    <3>2. QED BY <2>1, <2>3, <3>1, TotalsStep
  <2>5. f[1 .. n] = g[1 .. n]
    <3>1. n \in Nat /\ n + 1 \in Nat /\ n <= n + 1
      BY <2>1
    <3>2. Agree(q, r, n)
      BY <2>1 DEF Agree
    <3>3. Totals(f, q, 1 .. n) /\ Totals(g, r, 1 .. n + 1)
      BY <2>2, <2>3
    <3>4. QED BY <3>1, <3>2, <3>3, TotalsAgree
  <2>6. SizeOf(r) = SizeOf(q) + Size(p)
    BY <2>1, <2>2, <2>3, <2>4, <2>5
  <2>7. QED BY <2>6 DEF r
<1>3. QED BY <1>1, <1>2

Sized(s, m) == \A i \in 1 .. m : Size(s[i]) \in Nat

\* Totals are numbers.
LEMMA TotalsNat ==
    ASSUME NEW f, NEW s, NEW n \in Nat, Totals(f, s, 1 .. n), Sized(s, n)
    PROVE  \A k \in Nat : k <= n => f[1 .. k] \in Nat
<1> DEFINE S == {k \in Nat : k <= n => f[1 .. k] \in Nat}
<1>1. 0 \in S
  <2>1. f[{}] = 0 /\ 1 .. 0 = {}
    BY TotalsStep
  <2>2. QED BY <2>1
<1>2. ASSUME NEW k \in Nat, k \in S PROVE k + 1 \in S
  <2>1. SUFFICES ASSUME k + 1 <= n PROVE f[1 .. k + 1] \in Nat
    OBVIOUS
  <2>2. f[1 .. k] \in Nat
    BY <1>2, <2>1
  <2>3. f[1 .. k + 1] = f[1 .. k] + Size(s[k + 1])
    BY <2>1, TotalsStep
  <2>4. Size(s[k + 1]) \in Nat
    <3>1. k + 1 \in 1 .. n
      BY <2>1
    <3>2. QED BY <3>1 DEF Sized
  <2>5. QED BY <2>2, <2>3, <2>4
<1>3. Nat \subseteq S
  <2> HIDE DEF S
  <2> QED BY <1>1, <1>2, SetInduction
<1>4. QED BY <1>3

Shifted(s, q, m) == \A i \in 1 .. m : Size(s[i + 1]) = Size(q[i])

\* One element in front adds its size to every total.
LEMMA TotalsShift ==
    ASSUME NEW f, NEW g, NEW s, NEW q, NEW m \in Nat,
           Totals(f, s, 1 .. m + 1), Totals(g, q, 1 .. m),
           Sized(s, m + 1), Shifted(s, q, m)
    PROVE  f[1 .. m + 1] = Size(s[1]) + g[1 .. m]
<1> DEFINE S == {k \in Nat : k <= m => f[1 .. k + 1] = Size(s[1]) + g[1 .. k]}
<1>1. \A k \in Nat : k <= m => g[1 .. k] \in Nat
  <2>1. Sized(q, m)
    BY DEF Sized, Shifted
  <2>2. QED BY <2>1, TotalsNat
<1>2. Size(s[1]) \in Nat
  BY DEF Sized
<1>3. 0 \in S
  <2>1. 0 \in Nat /\ 0 + 1 <= m + 1 /\ m + 1 \in Nat
    OBVIOUS
  <2>2. f[1 .. 0 + 1] = f[1 .. 0] + Size(s[0 + 1])
    <3>1. \A k \in Nat : k + 1 <= m + 1 => f[1 .. k + 1] = f[1 .. k] + Size(s[k + 1])
      BY <2>1, TotalsStep
    <3>2. QED BY <2>1, <3>1, Zenon
  <2>3. f[{}] = 0 /\ g[{}] = 0 /\ 1 .. 0 = {}
    BY <2>1, TotalsStep
  <2>4. QED BY <1>2, <2>2, <2>3
<1>4. ASSUME NEW k \in Nat, k \in S PROVE k + 1 \in S
  <2>1. SUFFICES ASSUME k + 1 <= m PROVE f[1 .. k + 1 + 1] = Size(s[1]) + g[1 .. k + 1]
    OBVIOUS
  <2>2. f[1 .. k + 1] = Size(s[1]) + g[1 .. k]
    BY <1>4, <2>1
  <2>3. f[1 .. k + 1 + 1] = f[1 .. k + 1] + Size(s[k + 1 + 1])
    <3>1. k + 1 \in Nat /\ k + 1 + 1 <= m + 1 /\ m + 1 \in Nat
      BY <2>1
    <3>2. QED BY <3>1, TotalsStep
  <2>4. g[1 .. k + 1] = g[1 .. k] + Size(q[k + 1])
    BY <2>1, TotalsStep
  <2>5. Size(s[k + 1 + 1]) = Size(q[k + 1]) /\ Size(s[k + 1 + 1]) \in Nat
    <3>1. k + 1 \in 1 .. m /\ k + 1 + 1 \in 1 .. m + 1
      BY <2>1
    <3>2. QED BY <3>1 DEF Shifted, Sized
  <2>6. g[1 .. k] \in Nat
    BY <1>1, <2>1
  <2>7. QED BY <1>2, <2>2, <2>3, <2>4, <2>5, <2>6
<1>5. m \in S
  <2> HIDE DEF S
  <2> QED BY <1>3, <1>4, SetInduction
<1>6. QED BY <1>5

\* Sizes of sequences: they are numbers, and depend on the elements' sizes only;
\* the head of a sequence counts apart from its tail.
LEMMA SizeOfNat ==
    ASSUME NEW S, NEW q \in Seq(S), \A p \in S : Size(p) \in Nat
    PROVE  SizeOf(q) \in Nat
<1>1. PICK f : Totals(f, q, 1 .. Len(q)) /\ SizeOf(q) = f[1 .. Len(q)]
  BY SizeOfTotals
<1>2. Sized(q, Len(q)) /\ Len(q) \in Nat
  BY DEF Sized
<1>3. QED BY <1>1, <1>2, TotalsNat

LEMMA SizeOfSplit ==
    ASSUME NEW S, NEW s \in Seq(S), NEW T, NEW q \in Seq(T), Len(s) = Len(q) + 1,
           \A p \in S : Size(p) \in Nat, Shifted(s, q, Len(q))
    PROVE  SizeOf(s) = Size(s[1]) + SizeOf(q)
<1> DEFINE m == Len(q)
<1>1. m \in Nat /\ Len(s) = m + 1 /\ m + 1 \in Nat
  OBVIOUS
<1>2. PICK f : Totals(f, s, 1 .. Len(s)) /\ SizeOf(s) = f[1 .. Len(s)]
  BY SizeOfTotals
<1>3. PICK g : Totals(g, q, 1 .. m) /\ SizeOf(q) = g[1 .. m]
  BY SizeOfTotals
<1>4. Sized(s, m + 1)
  BY <1>1 DEF Sized
<1> HIDE DEF m
<1>5. Shifted(s, q, m)
  BY DEF m
<1>6. Totals(f, s, 1 .. m + 1) /\ SizeOf(s) = f[1 .. m + 1]
  BY <1>1, <1>2
<1>7. f[1 .. m + 1] = Size(s[1]) + g[1 .. m]
  BY <1>1, <1>3, <1>4, <1>5, <1>6, TotalsShift
<1>8. QED BY <1>3, <1>6, <1>7

-----------------------------------------------------------------------------
(* Types *)

Msg == [kind : {"config", "key", "delta"}, epoch : 1 .. MaxEpoch, follows : BOOLEAN]
Pkt == [kind : {"key", "delta"}, epoch : 1 .. MaxEpoch]

\* The buffer and its count stay in their types when a packet is filed.
LEMMA FiledType ==
    ASSUME TypeOK, NEW k \in {"config", "key", "delta"}, NEW e \in 1 .. MaxEpoch
    PROVE  Filed(Packet(k, e)) \in Seq(Pkt) /\ FiledBytes(Packet(k, e)) \in Nat
<1> DEFINE p == Packet(k, e)
<1>1. p.kind = k /\ p.epoch = e
  BY DEF Packet
<1>2. gop \in Seq(Pkt) /\ gopBytes \in Nat
  BY DEF TypeOK, Pkt
<1>3. Size(p) \in Nat
  BY <1>1, BridgeAssumption DEF Size
<1>4. k # "config" => p \in Pkt
  BY DEF Packet, Pkt
<1>5. Filed(p) \in Seq(Pkt)
  <2>1. <<>> \in Seq(Pkt)
    OBVIOUS
  <2>2. k # "config" => <<p>> \in Seq(Pkt) /\ Append(gop, p) \in Seq(Pkt)
    BY <1>2, <1>4
  <2>3. CASE k = "config"
    BY <1>1, <2>1, <2>3 DEF Filed
  <2>4. CASE k = "key"
    BY <1>1, <2>2, <2>4 DEF Filed
  <2>5. CASE k = "delta"
    BY <1>1, <2>1, <2>2, <2>5 DEF Filed
  <2>6. QED BY <2>3, <2>4, <2>5
<1>6. FiledBytes(p) \in Nat
  <2>1. CASE k = "config"
    BY <1>1, <2>1 DEF FiledBytes
  <2>2. CASE k = "key"
    BY <1>1, <1>3, <2>2 DEF FiledBytes
  <2>3. CASE k = "delta"
    BY <1>1, <1>2, <1>3, <2>3 DEF FiledBytes
  <2>4. QED BY <2>1, <2>2, <2>3
<1>7. QED BY <1>5, <1>6

\* What attach() replays: the parameter sets, then the buffer.
LEMMA ReplayShape ==
    ASSUME TypeOK, configPacket # NoConfig
    PROVE  /\ Replay \in Seq(Msg)
           /\ Len(Replay) = Len(gop) + 1
           /\ Replay[1] = Message(Packet("config", configPacket), FALSE)
           /\ \A i \in 1 .. Len(gop) : Replay[i + 1] = Message(gop[i], i > 1)
<1> DEFINE head == Message(Packet("config", configPacket), FALSE)
           rest == [i \in 1 .. Len(gop) |-> Message(gop[i], i > 1)]
<1>1. gop \in Seq(Pkt) /\ Len(gop) \in Nat /\ configPacket \in 1 .. MaxEpoch
  BY BridgeAssumption DEF TypeOK, Pkt, NoConfig
<1>2. head \in Msg
  BY <1>1 DEF Message, Packet, Msg
<1>3. \A i \in 1 .. Len(gop) : gop[i] \in Pkt
  BY <1>1
<1>4. \A i \in 1 .. Len(gop) : Message(gop[i], i > 1) \in Msg
  BY <1>3 DEF Message, Msg, Pkt
<1>5. rest \in Seq(Msg) /\ Len(rest) = Len(gop)
  BY <1>1, <1>4
<1>6. Replay = <<head>> \o rest
  BY DEF Replay
<1>7. \A i \in 1 .. Len(gop) : rest[i] = Message(gop[i], i > 1)
  OBVIOUS
<1>8. head = Message(Packet("config", configPacket), FALSE)
  OBVIOUS
<1> HIDE DEF head, rest
<1>9. <<head>> \in Seq(Msg) /\ Len(<<head>>) = 1 /\ <<head>>[1] = head
  BY <1>2
<1>10. /\ <<head>> \o rest \in Seq(Msg)
       /\ Len(<<head>> \o rest) = Len(<<head>>) + Len(rest)
       /\ \A i \in 1 .. Len(<<head>>) + Len(rest) :
             (<<head>> \o rest)[i] = IF i <= Len(<<head>>) THEN <<head>>[i]
                                    ELSE rest[i - Len(<<head>>)]
  BY <1>5, <1>9, ConcatProperties
<1>11. Replay[1] = head
  <2>1. 1 \in 1 .. Len(<<head>>) + Len(rest) /\ 1 <= Len(<<head>>)
    BY <1>1, <1>5, <1>9
  <2>2. QED BY <1>6, <1>9, <1>10, <2>1
<1>12. ASSUME NEW i \in 1 .. Len(gop)
       PROVE  Replay[i + 1] = Message(gop[i], i > 1)
  <2>1. /\ i + 1 \in 1 .. Len(<<head>>) + Len(rest) /\ ~(i + 1 <= Len(<<head>>))
        /\ (i + 1) - Len(<<head>>) = i
    BY <1>1, <1>5, <1>9
  <2>2. Replay[i + 1] = rest[(i + 1) - Len(<<head>>)]
    BY <1>6, <1>10, <2>1
  <2>3. QED BY <1>7, <2>1, <2>2
<1>13. Replay \in Seq(Msg) /\ Len(Replay) = Len(gop) + 1
  BY <1>1, <1>5, <1>6, <1>9, <1>10
<1>14. QED BY <1>8, <1>11, <1>12, <1>13

\* #onVideo() keeps the types.
LEMMA OnVideoType ==
    ASSUME TypeOK, NEW k \in {"config", "key", "delta"}, NEW e \in 1 .. MaxEpoch,
           OnVideo(Packet(k, e))
    PROVE  /\ configPacket' \in 0 .. MaxEpoch
           /\ gop' \in Seq([kind : {"key", "delta"}, epoch : 1 .. MaxEpoch])
           /\ gopBytes' \in Nat
           /\ clients' \subseteq Viewer
           /\ socket' \in [Viewer -> {"out", "open", "closing"}]
           /\ queue' \in [Viewer -> Seq([kind : {"config", "key", "delta"},
                                        epoch : 1 .. MaxEpoch, follows : BOOLEAN])]
           /\ upToDate' \in [Viewer -> BOOLEAN] /\ dropped' \in [Viewer -> BOOLEAN]
           /\ decoder' \in [Viewer -> {"null", "unconfigured", "configured"}]
           /\ configBytes' \in [Viewer -> 0 .. MaxEpoch]
           /\ started' \in [Viewer -> BOOLEAN] /\ misfed' \in [Viewer -> BOOLEAN]
           /\ failed' \in [Viewer -> BOOLEAN]
<1> DEFINE p == Packet(k, e)
<1>1. p.kind = k /\ p.epoch = e
  BY DEF Packet
<1>2. configPacket' \in 0 .. MaxEpoch
  BY <1>1, BridgeAssumption DEF OnVideo, TypeOK
<1>3. gop' \in Seq(Pkt) /\ gopBytes' \in Nat
  BY FiledType DEF OnVideo
<1>4. queue' \in [Viewer -> Seq(Msg)]
  <2>1. ASSUME NEW v \in Viewer
        PROVE  (IF v \in clients /\ Sends(v)
                THEN Append(queue[v], Message(p, upToDate[v])) ELSE queue[v]) \in Seq(Msg)
    <3>1. queue[v] \in Seq(Msg) /\ upToDate[v] \in BOOLEAN
      BY DEF TypeOK, Msg
    <3>2. Message(p, upToDate[v]) \in Msg
      BY <1>1, <3>1 DEF Message, Msg
    <3>3. Append(queue[v], Message(p, upToDate[v])) \in Seq(Msg)
      BY <3>1, <3>2
    <3>4. QED BY <3>1, <3>3
  <2>2. QED BY <2>1 DEF OnVideo
<1>5. upToDate' \in [Viewer -> BOOLEAN] /\ dropped' \in [Viewer -> BOOLEAN]
  <2>1. upToDate' = [v \in Viewer |-> v \in clients /\ Sends(v)]
        /\ dropped' = [v \in Viewer |-> dropped[v] \/ (v \in clients /\ ~Sends(v))]
    BY DEF OnVideo
  <2>2. \A v \in Viewer : (v \in clients /\ Sends(v)) \in BOOLEAN
                         /\ (dropped[v] \/ (v \in clients /\ ~Sends(v))) \in BOOLEAN
    BY Zenon DEF TypeOK
  <2>3. QED BY <2>1, <2>2, Zenon
<1>6. UNCHANGED <<clients, socket, decoder, configBytes, started, misfed, failed>>
  BY DEF OnVideo, pageVars
<1>7. QED BY <1>2, <1>3, <1>4, <1>5, <1>6 DEF TypeOK, Msg, Pkt

\* The packets of the encoder are of a legal epoch.
LEMMA EncoderType ==
    ASSUME TypeOK, EncoderInv, SendConfig \/ SendKey \/ SendDelta
    PROVE  \E k \in {"config", "key", "delta"} :
               /\ epoch' \in 1 .. MaxEpoch /\ encoder' = k
               /\ OnVideo(Packet(k, epoch'))
<1>1. epoch \in 0 .. MaxEpoch /\ MaxEpoch \in Nat
  BY BridgeAssumption DEF TypeOK
<1>2. CASE SendConfig
  BY <1>1, <1>2 DEF SendConfig
<1>3. CASE SendKey
  <2>1. epoch' = epoch /\ encoder \notin {"none", "ended"} /\ encoder' = "key"
        /\ OnVideo(Packet("key", epoch'))
    BY <1>3 DEF SendKey
  <2>2. QED BY <1>1, <2>1 DEF EncoderInv
<1>4. CASE SendDelta
  <2>1. epoch' = epoch /\ encoder \notin {"none", "ended"} /\ encoder' = "delta"
        /\ OnVideo(Packet("delta", epoch'))
    BY <1>4 DEF SendDelta
  <2>2. QED BY <1>1, <2>1 DEF EncoderInv
<1>5. QED BY <1>2, <1>3, <1>4

\* Every step keeps the types.
LEMMA NextType == TypeOK /\ EncoderInv /\ [Next]_vars => TypeOK'
<1> SUFFICES ASSUME TypeOK, EncoderInv, [Next]_vars PROVE TypeOK'
  OBVIOUS
<1>1. CASE SendConfig \/ SendKey \/ SendDelta
  <2>1. PICK k \in {"config", "key", "delta"} :
               epoch' \in 1 .. MaxEpoch /\ encoder' = k /\ OnVideo(Packet(k, epoch'))
    BY <1>1, EncoderType
  <2>2. epoch' \in 0 .. MaxEpoch
        /\ encoder' \in {"none", "config", "key", "delta", "ended"}
    BY <2>1, BridgeAssumption
  <2>3. QED BY <2>1, <2>2, OnVideoType DEF TypeOK
<1>2. CASE StreamEnds
  BY <1>2 DEF StreamEnds, TypeOK, pageVars
<1>3. ASSUME NEW v \in Viewer, Attach(v) PROVE TypeOK'
  <2>1. Replay \in Seq(Msg)
    <3>1. CASE configPacket = NoConfig
      BY <3>1 DEF Replay
    <3>2. QED BY <3>1, ReplayShape
  <2>2. queue' \in [Viewer -> Seq(Msg)]
    BY <1>3, <2>1 DEF Attach, TypeOK, Msg
  <2>3. upToDate' \in [Viewer -> BOOLEAN] /\ dropped' \in [Viewer -> BOOLEAN]
    <3>1. upToDate' = [upToDate EXCEPT ![v] = gop # <<>>]
          /\ dropped' = [dropped EXCEPT ![v] = FALSE]
      BY <1>3 DEF Attach
    <3>2. (gop # <<>>) \in BOOLEAN /\ FALSE \in BOOLEAN
      BY Zenon
    <3>3. upToDate \in [Viewer -> BOOLEAN] /\ dropped \in [Viewer -> BOOLEAN]
      BY DEF TypeOK
    <3>4. QED BY <3>1, <3>2, <3>3, Zenon
  <2>4. NoConfig \in 0 .. MaxEpoch
    BY BridgeAssumption DEF NoConfig
  <2>5. /\ decoder' \in [Viewer -> {"null", "unconfigured", "configured"}]
        /\ configBytes' \in [Viewer -> 0 .. MaxEpoch]
        /\ started' \in [Viewer -> BOOLEAN] /\ misfed' \in [Viewer -> BOOLEAN]
        /\ failed' \in [Viewer -> BOOLEAN]
    BY <1>3, <2>4 DEF Attach, TypeOK
  <2>6. /\ clients' \subseteq Viewer
        /\ socket' \in [Viewer -> {"out", "open", "closing"}]
    BY <1>3 DEF Attach, TypeOK
  <2>7. UNCHANGED <<epoch, encoder, configPacket, gop, gopBytes>>
    BY <1>3 DEF Attach
  <2>8. QED BY <2>2, <2>3, <2>5, <2>6, <2>7 DEF TypeOK, Msg
<1>4. ASSUME NEW v \in Viewer, Leave(v) PROVE TypeOK'
  <2>1. queue \in [Viewer -> Seq(Msg)]
    BY Zenon DEF TypeOK, Msg
  <2>2. queue' \in [Viewer -> Seq(Msg)]
    <3>1. <<>> \in Seq(Msg)
      OBVIOUS
    <3>2. QED BY <1>4, <2>1, <3>1 DEF Leave
  <2>3. QED BY <1>4, <2>2 DEF Leave, TypeOK, Msg, bridgeVars, pageVars
<1>5. ASSUME NEW v \in Viewer, Closed(v) PROVE TypeOK'
  BY <1>5 DEF Closed, TypeOK, pageVars
<1>6. ASSUME NEW v \in Viewer, Receive(v) PROVE TypeOK'
  <2>1. queue[v] \in Seq(Msg) /\ queue[v] # <<>>
    BY <1>6 DEF Receive, TypeOK, Msg
  <2>2. Tail(queue[v]) \in Seq(Msg) /\ Head(queue[v]) \in Msg
    BY <2>1
  <2>3. queue' \in [Viewer -> Seq(Msg)]
    BY <1>6, <2>2 DEF Receive, TypeOK, Msg
  <2>4. Head(queue[v]).epoch \in 0 .. MaxEpoch
    BY <2>2, BridgeAssumption DEF Msg
  <2>5. /\ decoder' \in [Viewer -> {"null", "unconfigured", "configured"}]
        /\ configBytes' \in [Viewer -> 0 .. MaxEpoch]
        /\ started' \in [Viewer -> BOOLEAN] /\ misfed' \in [Viewer -> BOOLEAN]
        /\ failed' \in [Viewer -> BOOLEAN]
    <3>1. CASE OnConfig(v, Head(queue[v]))
      BY <2>4, <3>1 DEF OnConfig, Configures, ConfigureThrows, TypeOK
    <3>2. CASE OnUnusable(v, Head(queue[v]))
      BY <3>2 DEF OnUnusable, TypeOK, pageVars
    <3>3. CASE OnFrame(v, Head(queue[v]))
      BY <3>3 DEF OnFrame, TypeOK
    <3>4. QED BY <1>6, <3>1, <3>2, <3>3 DEF Receive
  <2>6. QED BY <1>6, <2>3, <2>5 DEF Receive, TypeOK, Msg, bridgeVars
<1>7. ASSUME NEW v \in Viewer, DecoderFails(v) PROVE TypeOK'
  BY <1>7 DEF DecoderFails, TypeOK, bridgeVars, socketVars
<1>8. CASE UNCHANGED vars
  BY <1>8 DEF vars, TypeOK, bridgeVars, socketVars, pageVars
<1>9. QED
  BY <1>1, <1>2, <1>3, <1>4, <1>5, <1>6, <1>7, <1>8 DEF Next

\* Every step keeps the encoder and the cached parameter sets in step.
LEMMA NextEncoder == TypeOK /\ EncoderInv /\ [Next]_vars => EncoderInv'
<1> SUFFICES ASSUME TypeOK, EncoderInv, [Next]_vars PROVE EncoderInv'
  OBVIOUS
<1>1. CASE SendConfig \/ SendKey \/ SendDelta
  <2>1. PICK k \in {"config", "key", "delta"} :
               epoch' \in 1 .. MaxEpoch /\ encoder' = k /\ OnVideo(Packet(k, epoch'))
    BY <1>1, EncoderType
  <2>2. configPacket' = IF k = "config" THEN epoch' ELSE configPacket
    BY <2>1 DEF OnVideo, Packet
  <2>3. k # "config" => epoch' = epoch
    BY <1>1, <2>1 DEF SendConfig, SendKey, SendDelta
  <2>4. QED BY <2>1, <2>2, <2>3 DEF EncoderInv
<1>2. CASE StreamEnds
  BY <1>2 DEF StreamEnds, EncoderInv
<1>3. CASE \E v \in Viewer : \/ Attach(v) \/ Leave(v) \/ Closed(v)
                             \/ Receive(v) \/ DecoderFails(v)
  BY <1>3 DEF Attach, Leave, Closed, Receive, DecoderFails, EncoderInv, bridgeVars
<1>4. CASE UNCHANGED vars
  BY <1>4 DEF vars, EncoderInv, bridgeVars
<1>5. QED BY <1>1, <1>2, <1>3, <1>4 DEF Next

\* The initial state satisfies both.
LEMMA InitType == Init => TypeOK /\ EncoderInv
BY BridgeAssumption DEF Init, TypeOK, EncoderInv, NoConfig

\* Type correctness of the bridge, its sockets and its pages.
THEOREM TypeCorrect == Spec => []TypeOK
<1>1. TypeOK /\ EncoderInv /\ [Next]_vars => (TypeOK /\ EncoderInv)'
  BY NextType, NextEncoder
<1>2. QED BY <1>1, InitType, PTL DEF Spec
-----------------------------------------------------------------------------
(* The stream of a viewer that lost nothing *)

\* A step that leaves the queue and the page of v alone keeps its invariant if
\* v is not listening afterwards, or nothing was sent.
LEMMA Untouched ==
    ASSUME NEW v \in Viewer, StreamInv(v),
           UNCHANGED <<queue[v], decoder[v], configBytes[v], started[v], misfed[v], failed[v]>>,
           socket'[v] = "open" =>
               /\ socket[v] = "open"
               /\ UNCHANGED <<upToDate[v], epoch, gop>>
    PROVE  StreamInv(v)'
BY DEF StreamInv, Expected, SentToDate, KeyAhead, KeyBehind

\* The buffer stays decodable when the encoder's next packet is filed.
LEMMA FiledDecodable ==
    ASSUME TypeOK, EncoderInv, GopDecodable,
           NEW k \in {"config", "key", "delta"}, NEW e \in 1 .. MaxEpoch,
           OnVideo(Packet(k, e)), k # "config" => e = epoch
    PROVE  /\ GopDecodable'
           /\ k = "config" => gop' = <<>>
           /\ k = "delta" /\ gop' # <<>> => gop # <<>>
<1> DEFINE p == Packet(k, e)
<1>1. p.kind = k /\ p.epoch = e
  BY DEF Packet
<1>2. gop' = Filed(p) /\ configPacket' = IF k = "config" THEN e ELSE configPacket
  BY <1>1 DEF OnVideo
<1>3. gop \in Seq(Pkt) /\ configPacket = epoch
  BY DEF TypeOK, Pkt, EncoderInv
<1>4. CASE k = "config"
  BY <1>1, <1>2, <1>4 DEF Filed, GopDecodable
<1>5. CASE k = "key"
  <2>1. gop' = <<p>>
    BY <1>1, <1>2, <1>5 DEF Filed
  <2>2. QED BY <1>1, <1>2, <1>3, <1>5, <2>1 DEF GopDecodable
<1>6. CASE k = "delta"
  <2>1. gop' = <<>> \/ (gop # <<>> /\ gop' = Append(gop, p))
    BY <1>1, <1>2, <1>6 DEF Filed
  <2>2. CASE gop' = <<>>
    BY <1>6, <2>2 DEF GopDecodable
  <2>3. CASE gop # <<>> /\ gop' = Append(gop, p)
    <3>1. Len(gop) \in Nat \ {0} /\ Len(gop') = Len(gop) + 1
      BY <1>3, <2>3
    <3>2. \A i \in 1 .. Len(gop) : gop'[i] = gop[i]
      BY <1>3, <2>3
    <3>3. gop'[Len(gop) + 1] = p
      BY <1>3, <2>3
    <3>4. gop' \in Seq(Pkt)
      BY <1>3, <1>1, <1>6, <2>3, FiledType DEF Packet, Pkt
    <3>5. DOMAIN gop' = 1 .. Len(gop') /\ DOMAIN gop = 1 .. Len(gop)
      BY <1>3, <3>4
    <3>6. ASSUME NEW i \in 1 .. Len(gop')
          PROVE  gop'[i].epoch = configPacket' /\ (gop'[i].kind = "key" <=> i = 1)
      <4>1. CASE i \in 1 .. Len(gop)
        BY <1>2, <1>6, <3>2, <3>5, <4>1 DEF GopDecodable
      <4>2. CASE i = Len(gop) + 1
        BY <1>1, <1>2, <1>3, <1>6, <3>1, <3>3, <4>2
      <4>3. QED BY <3>1, <4>1, <4>2
    <3>7. QED BY <1>6, <2>3, <3>5, <3>6 DEF GopDecodable
  <2>4. QED BY <2>1, <2>2, <2>3
<1>7. QED BY <1>4, <1>5, <1>6

\* The encoder's next packet keeps the invariant of a viewer it is sent to.
LEMMA SentKeeps ==
    ASSUME TypeOK, EncoderInv, GopDecodable,
           NEW k \in {"config", "key", "delta"}, NEW e \in 1 .. MaxEpoch,
           OnVideo(Packet(k, e)), epoch' = e, k # "config" => e = epoch,
           NEW v \in Viewer, StreamInv(v), v \in clients, Sends(v)
    PROVE  StreamInv(v)'
<1> DEFINE m == Message(Packet(k, e), upToDate[v])
           q == queue[v]
           r == queue'[v]
<1>1. m.kind = k /\ m.epoch = e /\ m.follows = upToDate[v]
  BY DEF Message, Packet
<1>2. r = Append(q, m)
  BY DEF OnVideo, TypeOK
<1>3. upToDate'[v] = TRUE
  BY DEF OnVideo, TypeOK
<1>4. socket[v] = "open" /\ socket'[v] = "open"
  BY DEF OnVideo, Sends
<1>5. /\ decoder'[v] = decoder[v] /\ configBytes'[v] = configBytes[v]
      /\ started'[v] = started[v] /\ misfed'[v] = misfed[v] /\ failed'[v] = failed[v]
  BY DEF OnVideo, pageVars
<1>6. q \in Seq(Msg)
  BY DEF TypeOK, Msg
<1>7. SentToDate(v) /\ (gop # <<>> => KeyBehind(v) \/ \E i \in 1 .. Len(q) : KeyAhead(q, i))
  BY <1>4 DEF StreamInv
<1>8. Len(q) \in Nat /\ Len(r) = Len(q) + 1 /\ r # <<>>
  BY <1>2, <1>6
<1>9. (\A i \in 1 .. Len(q) : r[i] = q[i]) /\ r[Len(q) + 1] = m
  BY <1>2, <1>6
<1>10. q = <<>> <=> Len(q) = 0
  BY <1>6
<1> HIDE DEF m, q, r
<1>11. Expected(r[1], configBytes'[v], started'[v])
  <2>1. CASE q = <<>>
    <3>1. r[1] = m
      BY <1>9, <1>10, <2>1
    <3>2. k # "config" => /\ configBytes[v] = e
                          /\ started[v] => upToDate[v]
      BY <1>7, <2>1 DEF SentToDate, q
    <3>3. Expected(m, configBytes[v], started[v])
      BY <1>1, <3>2 DEF Expected
    <3>4. QED BY <1>5, <3>1, <3>3, Zenon
  <2>2. CASE q # <<>>
    <3>1. r[1] = q[1]
      BY <1>8, <1>9, <1>10, <2>2
    <3>2. Expected(q[1], configBytes[v], started[v])
      BY <2>2 DEF StreamInv, q
    <3>3. QED BY <1>5, <3>1, <3>2 DEF Expected, r
  <2>3. QED BY <2>1, <2>2
<1>12. ASSUME NEW i \in 1 .. Len(r), i + 1 <= Len(r)
       PROVE  Joined(r[i], r[i + 1], i = 1 /\ configBytes[v] = NoConfig)
  <2>1. CASE i + 1 <= Len(q)
    <3>1. i \in 1 .. Len(q) /\ i + 1 \in 1 .. Len(q)
      BY <1>8, <2>1
    <3>2. Joined(q[i], q[i + 1], i = 1 /\ configBytes[v] = NoConfig)
      BY <2>1, <3>1 DEF StreamInv, q
    <3>3. QED BY <1>9, <3>1, <3>2
  <2>2. CASE i = Len(q)
    <3>1. q # <<>> /\ r[i] = q[Len(q)] /\ r[i + 1] = m
      BY <1>8, <1>9, <1>10, <2>2
    <3>2. /\ q[Len(q)].epoch = epoch
          /\ \/ upToDate[v]
             \/ q[Len(q)].kind = "config" /\ Len(q) = 1 /\ configBytes[v] = NoConfig
      BY <1>7, <3>1 DEF SentToDate, q
    <3>3. QED BY <1>1, <2>2, <3>1, <3>2 DEF Joined
  <2>3. QED BY <1>8, <1>12, <2>1, <2>2
<1>13. SentToDate(v)'
  <2>1. r[Len(r)] = m
    BY <1>8, <1>9
  <2>2. QED BY <1>1, <1>3, <1>8, <2>1 DEF SentToDate, r
<1>14. gop' # <<>> => KeyBehind(v)' \/ \E i \in 1 .. Len(r) : KeyAhead(r, i)
  <2>1. k = "config" => gop' = <<>>
    BY FiledDecodable
  <2>2. CASE k = "key"
    <3>1. KeyAhead(r, Len(q) + 1)
      <4>1. r[Len(q) + 1].kind = "key"
        BY <1>1, <1>9, <2>2
      <4>2. \A j \in 1 .. Len(r) : ~(j > Len(q) + 1)
        BY <1>8
      <4>3. QED BY <4>1, <4>2 DEF KeyAhead
    <3>2. QED BY <1>8, <3>1
  <2>3. CASE k = "delta" /\ gop' # <<>>
    <3>1. KeyBehind(v) \/ \E i \in 1 .. Len(q) : KeyAhead(q, i)
      BY <1>7, <2>3, FiledDecodable
    <3>2. CASE KeyBehind(v)
      <4>1. \A j \in 1 .. Len(r) : r[j].kind # "config"
        BY <1>1, <1>8, <1>9, <2>3, <3>2 DEF KeyBehind, q
      <4>2. QED BY <1>5, <3>2, <4>1 DEF KeyBehind, r
    <3>3. ASSUME NEW i \in 1 .. Len(q), KeyAhead(q, i)
          PROVE  i \in 1 .. Len(r) /\ KeyAhead(r, i)
      <4>1. i \in 1 .. Len(r) /\ r[i].kind = "key"
        BY <1>8, <1>9, <3>3 DEF KeyAhead
      <4>2. \A j \in 1 .. Len(r) : j > i => r[j].kind # "config"
        BY <1>1, <1>8, <1>9, <2>3, <3>3 DEF KeyAhead
      <4>3. QED BY <4>1, <4>2 DEF KeyAhead
    <3>4. QED BY <3>1, <3>2, <3>3
  <2>4. QED BY <2>1, <2>2, <2>3
<1>15. QED
  BY <1>4, <1>5, <1>11, <1>12, <1>13, <1>14 DEF StreamInv, r

\* What attach() replays starts the invariant of the viewer it is sent to.
LEMMA AttachStarts ==
    ASSUME TypeOK, EncoderInv, GopDecodable, NEW v \in Viewer, Attach(v)
    PROVE  StreamInv(v)'
<1> DEFINE r == queue'[v]
           n == Len(gop)
<1>1. /\ socket'[v] = "open" /\ configBytes'[v] = NoConfig
      /\ r = Replay /\ UNCHANGED <<gop, epoch>>
  BY DEF Attach, TypeOK
<1>2. started'[v] = FALSE /\ misfed'[v] = FALSE /\ failed'[v] = FALSE
  BY DEF Attach, TypeOK
<1>3. gop # <<>> => upToDate'[v]
  <2>1. upToDate' = [upToDate EXCEPT ![v] = gop # <<>>] /\ upToDate \in [Viewer -> BOOLEAN]
    BY DEF Attach, TypeOK
  <2>2. QED BY <2>1, Zenon
<1>4. gop \in Seq(Pkt) /\ n \in Nat /\ configPacket = epoch /\ (gop = <<>> <=> n = 0)
  BY DEF TypeOK, Pkt, EncoderInv
<1>5. \A i \in 1 .. n : /\ gop[i] \in Pkt /\ gop[i].epoch = epoch
                        /\ gop[i].kind \in {"key", "delta"}
                        /\ gop[i].kind = "key" <=> i = 1
  <2>1. \A i \in 1 .. n : gop[i] \in Pkt
    BY <1>4
  <2>2. \A i \in 1 .. n : gop[i].epoch = epoch /\ (gop[i].kind = "key" <=> i = 1)
    BY <1>4 DEF GopDecodable
  <2>3. QED BY <2>1, <2>2 DEF Pkt
<1> HIDE DEF r, n
<1>6. CASE configPacket = NoConfig
  <2>1. r = <<>> /\ Len(r) = 0
    BY <1>1, <1>6 DEF Replay
  <2>2. gop = <<>>
    <3>1. \A i \in 1 .. n : FALSE
      BY <1>4, <1>5, <1>6 DEF Pkt, NoConfig
    <3>2. QED BY <1>4, <3>1
  <2>3. SentToDate(v)'
    BY <1>1, <1>2, <1>4, <1>6, <2>1 DEF SentToDate, r
  <2>4. QED BY <1>1, <1>2, <2>1, <2>2, <2>3 DEF StreamInv, r
<1>7. CASE configPacket # NoConfig
  <2>1. /\ Len(r) = n + 1 /\ r # <<>>
        /\ r[1].kind = "config" /\ r[1].epoch = epoch
    BY <1>1, <1>4, <1>7, ReplayShape DEF Message, Packet, n
  <2>2. \A i \in 1 .. n : /\ r[i + 1].kind = gop[i].kind /\ r[i + 1].epoch = epoch
                          /\ i > 1 => r[i + 1].follows
    <3>1. ASSUME NEW i \in 1 .. n
          PROVE  r[i + 1] = Message(gop[i], i > 1)
      BY <1>1, <1>7, ReplayShape DEF n
    <3>2. ASSUME NEW i \in 1 .. n, i > 1
          PROVE  r[i + 1].follows
      <4>1. r[i + 1] = Message(gop[i], TRUE)
        BY <3>1, <3>2, Zenon
      <4>2. QED BY <4>1 DEF Message
    <3>3. ASSUME NEW i \in 1 .. n
          PROVE  r[i + 1].kind = gop[i].kind /\ r[i + 1].epoch = epoch
      <4>1. PICK b : r[i + 1] = Message(gop[i], b)
        BY <3>1, Zenon
      <4>2. QED BY <1>5, <4>1 DEF Message
    <3>4. QED BY <3>2, <3>3
  <2>3. \A j \in 2 .. n + 1 : /\ r[j].epoch = epoch
                              /\ j > 2 => r[j].follows
                              /\ r[j].kind # "config"
                              /\ r[j].kind = "key" <=> j = 2
    <3>1. ASSUME NEW j \in 2 .. n + 1
          PROVE  /\ r[j].epoch = epoch
                 /\ j > 2 => r[j].follows
                 /\ r[j].kind # "config"
                 /\ r[j].kind = "key" <=> j = 2
      <4>1. j - 1 \in 1 .. n /\ (j - 1) + 1 = j /\ (j > 2 <=> j - 1 > 1)
        BY <1>4
      <4>2. PICK i \in 1 .. n : j = i + 1
        BY <4>1
      <4>3. r[j].kind = gop[i].kind /\ r[j].epoch = epoch /\ (i > 1 => r[j].follows)
        BY <2>2, <4>2
      <4>4. QED BY <1>5, <4>1, <4>2, <4>3
    <3>2. QED BY <3>1
  <2>4. ASSUME NEW i \in 1 .. Len(r), i + 1 <= Len(r)
        PROVE  Joined(r[i], r[i + 1], i = 1)
    <3>1. i + 1 \in 2 .. n + 1 /\ i \in 1 .. n
      BY <1>4, <2>1, <2>4
    <3>2. CASE i = 1
      BY <1>4, <2>1, <2>3, <3>1, <3>2 DEF Joined
    <3>3. CASE i # 1
      <4>1. i \in 2 .. n + 1 /\ i + 1 > 2
        BY <1>4, <3>1, <3>3
      <4>2. QED BY <2>3, <3>1, <4>1 DEF Joined
    <3>4. QED BY <3>2, <3>3
  <2>5. SentToDate(v)'
    <3>1. CASE n = 0
      BY <1>1, <2>1, <3>1 DEF SentToDate, r
    <3>2. CASE n # 0
      <4>1. n + 1 \in 2 .. n + 1
        BY <1>4, <3>2
      <4>2. QED BY <1>1, <1>3, <1>4, <2>1, <2>3, <3>2, <4>1 DEF SentToDate, r
    <3>3. QED BY <3>1, <3>2
  <2>6. gop # <<>> => \E i \in 1 .. Len(r) : KeyAhead(r, i)
    <3>1. ASSUME gop # <<>>
          PROVE  2 \in 1 .. Len(r) /\ KeyAhead(r, 2)
      <4>1. 2 \in 1 .. Len(r) /\ 2 \in 2 .. n + 1
        BY <1>4, <2>1, <3>1
      <4>2. \A j \in 1 .. Len(r) : j > 2 => j \in 2 .. n + 1
        BY <1>4, <2>1
      <4>3. QED BY <2>3, <4>1, <4>2 DEF KeyAhead
    <3>2. QED BY <3>1
  <2>7. Expected(r[1], configBytes'[v], started'[v])
    BY <2>1 DEF Expected
  <2>8. QED BY <1>1, <1>2, <2>1, <2>4, <2>5, <2>6, <2>7 DEF StreamInv, r
<1>8. QED BY <1>6, <1>7

\* A page that takes the next message of its queue keeps the invariant.
LEMMA ReceiveKeeps ==
    ASSUME TypeOK, EncoderInv, NEW v \in Viewer, Receive(v), StreamInv(v)
    PROVE  StreamInv(v)'
<1> DEFINE q == queue[v]
           r == queue'[v]
           m == q[1]
<1>1. /\ q \in Seq(Msg) /\ q # <<>> /\ r = Tail(q) /\ m = Head(q)
      /\ socket' = socket /\ upToDate' = upToDate /\ epoch' = epoch /\ gop' = gop
  <2>1. q \in Seq(Msg) /\ q # <<>>
    BY DEF Receive, TypeOK, Msg
  <2>2. r = Tail(q)
    BY DEF Receive, TypeOK
  <2>3. m = Head(q)
    BY <2>1
  <2>4. socket' = socket /\ upToDate' = upToDate /\ epoch' = epoch /\ gop' = gop
    BY DEF Receive, bridgeVars
  <2>5. QED BY <2>1, <2>2, <2>3, <2>4
<1>2. /\ Len(q) \in Nat \ {0} /\ Len(r) = Len(q) - 1
      /\ \A i \in 1 .. Len(r) : r[i] = q[i + 1]
      /\ r = <<>> <=> Len(q) = 1
  <2>1. r \in Seq(Msg) /\ Len(q) \in Nat \ {0} /\ Len(r) = Len(q) - 1
    BY <1>1
  <2>2. \A i \in 1 .. Len(r) : r[i] = q[i + 1]
    BY <1>1
  <2>3. r = <<>> <=> Len(r) = 0
    BY <2>1, EmptySeq
  <2>4. QED BY <2>1, <2>2, <2>3
<1>3. m \in Msg
  BY <1>1
<1>4. \/ OnConfig(v, m) \/ OnUnusable(v, m) \/ OnFrame(v, m)
  BY <1>1 DEF Receive
<1> HIDE DEF q, r
<1>5. Expected(m, configBytes[v], started[v])
  BY <1>1 DEF StreamInv, q
<1>6. Len(q) > 1 => Joined(m, q[2], configBytes[v] = NoConfig)
  <2>1. ASSUME Len(q) > 1
        PROVE  Joined(q[1], q[1 + 1], 1 = 1 /\ configBytes[v] = NoConfig)
    <3>1. 1 \in 1 .. Len(q) /\ 1 + 1 <= Len(q)
      BY <1>2, <2>1
    <3>2. QED BY <3>1 DEF StreamInv, q
  <2>2. QED BY <2>1 DEF Joined
<1>7. Len(q) = 1 /\ socket[v] = "open" =>
          /\ m.epoch = epoch
          /\ upToDate[v] \/ (m.kind = "config" /\ configBytes[v] = NoConfig)
  BY <1>1 DEF StreamInv, SentToDate, q
<1>8. Len(q) > 1 /\ socket[v] = "open" => q[Len(q)].epoch = epoch /\ upToDate[v]
  BY <1>1 DEF StreamInv, SentToDate, q
<1>9. ASSUME NEW i \in 1 .. Len(r), i + 1 <= Len(r)
      PROVE  Joined(r[i], r[i + 1], i = 1 /\ configBytes'[v] = NoConfig)
  <2>1. Joined(q[i + 1], q[i + 2], i + 1 = 1 /\ configBytes[v] = NoConfig)
    <3>1. i + 1 \in 1 .. Len(q) /\ (i + 1) + 1 = i + 2 /\ (i + 1) + 1 <= Len(q)
      BY <1>2, <1>9
    <3>2. QED BY <3>1 DEF StreamInv, q
  <2>2. i + 1 # 1 /\ r[i] = q[i + 1] /\ r[i + 1] = q[i + 2]
    BY <1>2, <1>9
  <2>3. QED BY <2>1, <2>2 DEF Joined
<1>10. /\ ~misfed'[v]
       /\ configBytes'[v] = m.epoch /\ configBytes'[v] # NoConfig
       /\ configBytes'[v] # NoConfig /\ ~failed'[v] => decoder'[v] = "configured"
  <2>1. CASE OnConfig(v, m)
    BY <1>3, <2>1 DEF OnConfig, Configures, ConfigureThrows, TypeOK, StreamInv, Msg, NoConfig
  <2>2. CASE OnUnusable(v, m)
    BY <1>3, <1>5, <2>2 DEF OnUnusable, TypeOK, StreamInv, Expected, pageVars, Msg, NoConfig
  <2>3. CASE OnFrame(v, m)
    BY <1>3, <1>5, <2>3 DEF OnFrame, TypeOK, StreamInv, Expected, Msg, NoConfig
  <2>4. QED BY <1>4, <2>1, <2>2, <2>3
\* Whether the page has started, after parameter sets and after a frame.
<1>11. /\ m.kind = "config" /\ started'[v] => started[v]
       /\ m.kind # "config" => failed'[v] = failed[v]
       /\ m.kind = "delta" => started'[v] = started[v]
       /\ m.kind = "key" /\ ~failed'[v] => started'[v]
  <2>1. CASE OnConfig(v, m)
    BY <2>1 DEF OnConfig, Configures, ConfigureThrows, TypeOK
  <2>2. CASE OnUnusable(v, m)
    <3>1. started' = started /\ failed' = failed /\ m.kind # "config"
      BY <2>2 DEF OnUnusable, pageVars
    <3>2. m.kind = "key" => decoder[v] # "configured"
      BY <2>2 DEF OnUnusable
    <3>3. m.kind = "key" => configBytes[v] # NoConfig
      BY <1>3, <1>5 DEF Expected, Msg, NoConfig
    <3>4. m.kind = "key" => failed[v]
      BY <3>2, <3>3 DEF StreamInv
    <3>5. QED BY <3>1, <3>4
  <2>3. CASE OnFrame(v, m)
    <3>1. started'[v] = TRUE /\ failed' = failed /\ m.kind # "config"
      BY <2>3 DEF OnFrame, TypeOK
    <3>2. m.kind = "delta" => started[v] = TRUE
      BY <2>3 DEF OnFrame, TypeOK
    <3>3. QED BY <3>1, <3>2
  <2>4. QED BY <1>4, <2>1, <2>2, <2>3
<1>12. r # <<>> => Expected(r[1], configBytes'[v], started'[v])
  <2>1. ASSUME r # <<>>
        PROVE  Expected(r[1], configBytes'[v], started'[v])
    <3>1. r[1] = q[2] /\ Len(q) > 1
      BY <1>2, <2>1
    <3>2. Joined(m, q[2], configBytes[v] = NoConfig)
      BY <1>6, <3>1
    <3>3. m.kind = "config" /\ configBytes[v] = NoConfig => ~started'[v]
      BY <1>11 DEF StreamInv
    <3>4. QED BY <1>10, <3>1, <3>2, <3>3 DEF Joined, Expected
  <2>2. QED BY <2>1
<1>13. socket'[v] = "open" => SentToDate(v)'
  <2>1. CASE r = <<>>
    <3>1. ASSUME socket[v] = "open", started'[v] PROVE upToDate[v]
      <4>1. upToDate[v] \/ (m.kind = "config" /\ configBytes[v] = NoConfig)
        BY <1>2, <1>7, <2>1, <3>1
      <4>2. m.kind = "config" /\ configBytes[v] = NoConfig => ~started'[v]
        BY <1>11 DEF StreamInv
      <4>3. QED BY <3>1, <4>1, <4>2
    <3>2. QED BY <1>1, <1>2, <1>7, <1>10, <2>1, <3>1 DEF SentToDate, r
  <2>2. CASE r # <<>>
    <3>1. Len(q) > 1 /\ r[Len(r)] = q[Len(q)]
      BY <1>2, <2>2
    <3>2. QED BY <1>1, <1>8, <2>2, <3>1 DEF SentToDate, r
  <2>3. QED BY <2>1, <2>2
<1>14. socket'[v] = "open" =>
           (gop' # <<>> => KeyBehind(v)' \/ \E i \in 1 .. Len(r) : KeyAhead(r, i))
  <2>1. SUFFICES ASSUME socket[v] = "open", gop # <<>>
                 PROVE  KeyBehind(v)' \/ \E i \in 1 .. Len(r) : KeyAhead(r, i)
    BY <1>1
  <2>2. KeyBehind(v) \/ \E i \in 1 .. Len(q) : KeyAhead(q, i)
    BY <2>1 DEF StreamInv, q
  <2>3. CASE KeyBehind(v)
    <3>1. (~failed[v] => started[v]) /\ \A j \in 1 .. Len(q) : q[j].kind # "config"
      BY <2>3 DEF KeyBehind, q
    <3>2. m.kind \in {"key", "delta"}
      BY <1>2, <1>3, <3>1 DEF Msg
    <3>3. \A j \in 1 .. Len(r) : r[j].kind # "config"
      BY <1>2, <3>1
    <3>4. ~failed'[v] => started'[v]
      BY <1>11, <3>1, <3>2
    <3>5. QED BY <3>3, <3>4 DEF KeyBehind, r
  <2>4. CASE KeyAhead(q, 1)
    <3>1. m.kind = "key" /\ \A j \in 1 .. Len(q) : j > 1 => q[j].kind # "config"
      BY <2>4 DEF KeyAhead
    <3>2. \A j \in 1 .. Len(r) : r[j].kind # "config"
      BY <1>2, <3>1
    <3>3. QED BY <1>11, <3>1, <3>2 DEF KeyBehind, r
  <2>5. ASSUME NEW i \in 1 .. Len(q), i # 1, KeyAhead(q, i)
        PROVE  i - 1 \in 1 .. Len(r) /\ KeyAhead(r, i - 1)
    <3>1. i - 1 \in 1 .. Len(r) /\ r[i - 1] = q[i]
      BY <1>2, <2>5
    <3>2. \A j \in 1 .. Len(r) : j > i - 1 => r[j].kind # "config"
      BY <1>2, <2>5 DEF KeyAhead
    <3>3. QED BY <2>5, <3>1, <3>2 DEF KeyAhead
  <2>6. QED BY <2>2, <2>3, <2>4, <2>5
<1>15. QED
  BY <1>1, <1>9, <1>10, <1>12, <1>13, <1>14 DEF StreamInv, r

\* A decoder that fails leaves the page with what it has been sent.
LEMMA FailsKeeps ==
    ASSUME TypeOK, NEW v \in Viewer, DecoderFails(v), StreamInv(v)
    PROVE  StreamInv(v)'
<1>1. /\ UNCHANGED <<queue, socket, upToDate, epoch, gop, configBytes, misfed>>
      /\ failed'[v] = TRUE
  BY DEF DecoderFails, TypeOK, socketVars, bridgeVars
<1>2. started'[v] => started[v]
  BY DEF DecoderFails, TypeOK
<1>3. ASSUME NEW m, NEW held, Expected(m, held, started[v])
      PROVE  Expected(m, held, started'[v])
  BY <1>2, <1>3 DEF Expected
<1>4. SentToDate(v) => SentToDate(v)'
  BY <1>1, <1>2 DEF SentToDate
<1>5. KeyBehind(v) => KeyBehind(v)'
  BY <1>1 DEF KeyBehind
<1>6. QED BY <1>1, <1>2, <1>3, <1>4, <1>5 DEF StreamInv

-----------------------------------------------------------------------------
(* The theorems *)

\* The encoder's packets keep the invariant.
LEMMA VideoKeeps ==
    ASSUME TypeOK, BridgeInv, SendConfig \/ SendKey \/ SendDelta
    PROVE  GopDecodable' /\ \A v \in Viewer : ~dropped'[v] => StreamInv(v)'
<1>1. EncoderInv /\ GopDecodable
  BY DEF BridgeInv
<1>2. PICK k \in {"config", "key", "delta"} :
             epoch' \in 1 .. MaxEpoch /\ encoder' = k /\ OnVideo(Packet(k, epoch'))
  BY <1>1, EncoderType
<1>3. k # "config" => epoch' = epoch
  BY <1>2 DEF SendConfig, SendKey, SendDelta
<1>4. PICK e \in 1 .. MaxEpoch : e = epoch'
  BY <1>2
<1>5. OnVideo(Packet(k, e)) /\ (k # "config" => e = epoch)
  BY <1>2, <1>3, <1>4
<1>6. GopDecodable'
  BY <1>1, <1>5, FiledDecodable
<1>7. ASSUME NEW v \in Viewer, ~dropped'[v]
      PROVE  StreamInv(v)'
  <2>1. dropped'[v] = (dropped[v] \/ (v \in clients /\ ~Sends(v)))
    BY <1>5 DEF OnVideo
  <2>2. ~dropped[v] /\ ~(v \in clients /\ ~Sends(v))
    BY <1>7, <2>1, Zenon
  <2>3. StreamInv(v)
    BY <2>2 DEF BridgeInv
  <2>4. CASE v \in clients
    BY <1>1, <1>4, <1>5, <2>2, <2>3, <2>4, SentKeeps
  <2>5. CASE v \notin clients
    <3>1. socket'[v] # "open"
      BY <1>5, <2>5 DEF BridgeInv, OnVideo
    <3>2. UNCHANGED <<queue[v], decoder[v], configBytes[v], started[v], misfed[v], failed[v]>>
      BY <1>5, <2>5 DEF OnVideo, pageVars
    <3>3. QED BY <2>3, <3>1, <3>2, Untouched
  <2>6. QED BY <2>4, <2>5
<1>8. QED BY <1>6, <1>7

\* Every step keeps the invariant.
LEMMA NextInv == TypeOK /\ BridgeInv /\ [Next]_vars => BridgeInv'
<1> SUFFICES ASSUME TypeOK, BridgeInv, [Next]_vars PROVE BridgeInv'
  OBVIOUS
<1>1. EncoderInv'
  BY NextEncoder DEF BridgeInv
<1>2. \A v \in Viewer : socket'[v] = "open" => v \in clients'
  <2>1. CASE SendConfig \/ SendKey \/ SendDelta
    BY <2>1 DEF SendConfig, SendKey, SendDelta, OnVideo, BridgeInv
  <2>2. CASE StreamEnds
    BY <2>2 DEF StreamEnds, BridgeInv, TypeOK
  <2>3. CASE \E v \in Viewer : Attach(v)
    BY <2>3 DEF Attach, BridgeInv, TypeOK
  <2>4. CASE \E v \in Viewer : Leave(v) \/ Closed(v)
    BY <2>4 DEF Leave, Closed, BridgeInv, TypeOK, bridgeVars
  <2>5. CASE \E v \in Viewer : Receive(v) \/ DecoderFails(v)
    BY <2>5 DEF Receive, DecoderFails, BridgeInv, bridgeVars, socketVars
  <2>6. CASE UNCHANGED vars
    BY <2>6 DEF vars, BridgeInv, bridgeVars, socketVars
  <2>7. QED BY <2>1, <2>2, <2>3, <2>4, <2>5, <2>6 DEF Next
<1>3. GopDecodable' /\ \A v \in Viewer : ~dropped'[v] => StreamInv(v)'
  <2>1. CASE SendConfig \/ SendKey \/ SendDelta
    BY <2>1, VideoKeeps
  <2>2. ASSUME UNCHANGED <<configPacket, gop>>,
               \A v \in Viewer : ~dropped'[v] => StreamInv(v)'
        PROVE  GopDecodable' /\ \A v \in Viewer : ~dropped'[v] => StreamInv(v)'
    BY <2>2 DEF BridgeInv, GopDecodable
  <2>3. CASE StreamEnds
    <3>1. ASSUME NEW w \in Viewer, ~dropped'[w] PROVE StreamInv(w)'
      <4>1. StreamInv(w) /\ socket'[w] # "open"
        BY <2>3, <3>1 DEF StreamEnds, BridgeInv, TypeOK
      <4>2. QED BY <2>3, <4>1, Untouched DEF StreamEnds, pageVars
    <3>2. QED BY <2>2, <2>3, <3>1 DEF StreamEnds
  <2>4. ASSUME NEW v \in Viewer, Attach(v)
        PROVE  GopDecodable' /\ \A w \in Viewer : ~dropped'[w] => StreamInv(w)'
    <3>1. StreamInv(v)'
      BY <2>4, AttachStarts DEF BridgeInv
    <3>2. ASSUME NEW w \in Viewer, w # v, ~dropped'[w] PROVE StreamInv(w)'
      <4>1. /\ queue'[w] = queue[w] /\ decoder'[w] = decoder[w]
            /\ configBytes'[w] = configBytes[w] /\ started'[w] = started[w]
            /\ misfed'[w] = misfed[w] /\ failed'[w] = failed[w] /\ socket'[w] = socket[w]
            /\ upToDate'[w] = upToDate[w] /\ dropped'[w] = dropped[w]
            /\ epoch' = epoch /\ gop' = gop
        BY <2>4, <3>2 DEF Attach, TypeOK
      <4>2. StreamInv(w)
        BY <3>2, <4>1, Zenon DEF BridgeInv
      <4>3. QED BY <4>1, <4>2, Untouched
    <3>3. QED BY <2>2, <2>4, <3>1, <3>2 DEF Attach
  <2>5. ASSUME NEW v \in Viewer, Leave(v)
        PROVE  GopDecodable' /\ \A w \in Viewer : ~dropped'[w] => StreamInv(w)'
    <3>1. UNCHANGED <<epoch, configPacket, gop, upToDate, dropped>>
      BY <2>5 DEF Leave, bridgeVars
    <3>2. ASSUME ~dropped'[v] PROVE StreamInv(v)'
      <4>1. StreamInv(v)
        BY <3>1, <3>2 DEF BridgeInv
      <4>2. queue'[v] = <<>> /\ socket'[v] # "open" /\ Len(queue'[v]) = 0
        BY <2>5 DEF Leave, TypeOK
      <4>3. UNCHANGED <<decoder, configBytes, started, misfed, failed>>
        BY <2>5 DEF Leave, pageVars
      <4>4. QED BY <4>1, <4>2, <4>3 DEF StreamInv
    <3>3. ASSUME NEW w \in Viewer, w # v, ~dropped'[w] PROVE StreamInv(w)'
      <4>1. StreamInv(w)
        BY <3>1, <3>3 DEF BridgeInv
      <4>2. UNCHANGED <<queue[w], socket[w], decoder[w], configBytes[w], started[w], misfed[w], failed[w]>>
        BY <2>5, <3>3 DEF Leave, TypeOK, pageVars
      <4>3. QED BY <3>1, <4>1, <4>2, Untouched
    <3>4. QED BY <2>2, <3>1, <3>2, <3>3
  <2>6. ASSUME NEW v \in Viewer, Closed(v)
        PROVE  GopDecodable' /\ \A w \in Viewer : ~dropped'[w] => StreamInv(w)'
    <3>1. UNCHANGED <<epoch, configPacket, gop, upToDate, dropped>>
      BY <2>6 DEF Closed
    <3>2. ASSUME NEW w \in Viewer, ~dropped'[w] PROVE StreamInv(w)'
      <4>1. StreamInv(w)
        BY <3>1, <3>2 DEF BridgeInv
      <4>2. UNCHANGED <<queue[w], decoder[w], configBytes[w], started[w], misfed[w], failed[w]>>
            /\ (socket'[w] = "open" => socket[w] = "open")
        BY <2>6 DEF Closed, TypeOK, pageVars
      <4>3. QED BY <3>1, <4>1, <4>2, Untouched
    <3>3. QED BY <2>2, <3>1, <3>2
  <2>7. ASSUME NEW v \in Viewer, Receive(v)
        PROVE  GopDecodable' /\ \A w \in Viewer : ~dropped'[w] => StreamInv(w)'
    <3>1. UNCHANGED <<epoch, configPacket, gop, upToDate, dropped, socket>>
      BY <2>7 DEF Receive, bridgeVars
    <3>2. ASSUME ~dropped'[v] PROVE StreamInv(v)'
      <4>1. StreamInv(v)
        BY <3>1, <3>2 DEF BridgeInv
      <4>2. QED BY <2>7, <4>1, ReceiveKeeps DEF BridgeInv
    <3>3. ASSUME NEW w \in Viewer, w # v, ~dropped'[w] PROVE StreamInv(w)'
      <4>1. StreamInv(w)
        BY <3>1, <3>3 DEF BridgeInv
      <4>2. queue'[w] = queue[w]
        BY <2>7, <3>3 DEF Receive, TypeOK
      <4>3. UNCHANGED <<decoder[w], configBytes[w], started[w], misfed[w], failed[w]>>
        BY <2>7, <3>3 DEF Receive, OnConfig, Configures, ConfigureThrows, OnUnusable, OnFrame,
                         TypeOK, pageVars
      <4>4. QED BY <3>1, <4>1, <4>2, <4>3, Untouched
    <3>4. QED BY <2>2, <3>1, <3>2, <3>3
  <2>8. ASSUME NEW v \in Viewer, DecoderFails(v)
        PROVE  GopDecodable' /\ \A w \in Viewer : ~dropped'[w] => StreamInv(w)'
    <3>1. UNCHANGED <<epoch, configPacket, gop, upToDate, dropped, socket, queue>>
      BY <2>8 DEF DecoderFails, bridgeVars, socketVars
    <3>2. ASSUME NEW w \in Viewer, ~dropped'[w] PROVE StreamInv(w)'
      <4>1. StreamInv(w)
        BY <3>1, <3>2 DEF BridgeInv
      <4>2. CASE w # v
        <5>1. UNCHANGED <<decoder[w], configBytes[w], started[w], misfed[w], failed[w]>>
          BY <2>8, <4>2 DEF DecoderFails, TypeOK
        <5>2. QED BY <3>1, <4>1, <5>1, Untouched
      <4>3. CASE w = v
        BY <2>8, <4>1, <4>3, FailsKeeps
      <4>4. QED BY <4>2, <4>3
    <3>3. QED BY <2>2, <3>1, <3>2
  <2>9. CASE UNCHANGED vars
    <3>1. ASSUME NEW w \in Viewer, ~dropped'[w] PROVE StreamInv(w)'
      <4>1. StreamInv(w)
        BY <2>9, <3>1 DEF BridgeInv, vars, socketVars
      <4>2. QED BY <2>9, <4>1, Untouched
              DEF vars, bridgeVars, socketVars, pageVars
    <3>2. QED BY <2>2, <2>9, <3>1 DEF vars, bridgeVars
  <2>10. QED
    BY <2>1, <2>3, <2>4, <2>5, <2>6, <2>7, <2>8, <2>9 DEF Next
<1>4. QED BY <1>1, <1>2, <1>3 DEF BridgeInv

\* The initial state satisfies the invariant.
LEMMA InitInv == Init => BridgeInv
<1> SUFFICES ASSUME Init PROVE BridgeInv
  OBVIOUS
<1>1. EncoderInv
  BY InitType
<1>2. GopDecodable
  BY DEF Init, GopDecodable
<1>3. ASSUME NEW v \in Viewer
      PROVE  socket[v] # "open" /\ StreamInv(v)
  BY DEF Init, StreamInv
<1>4. QED BY <1>1, <1>2, <1>3 DEF BridgeInv

\* The invariant holds in every reachable state.
LEMMA BridgeInvariant == Spec => [](TypeOK /\ BridgeInv)
<1>1. TypeOK /\ BridgeInv /\ [Next]_vars => (TypeOK /\ BridgeInv)'
  BY NextType, NextInv DEF BridgeInv
<1>2. QED BY <1>1, InitType, InitInv, PTL DEF Spec

\* What attach() replays always decodes from its first frame on.
THEOREM GopAlwaysDecodable == Spec => []GopDecodable
<1>1. BridgeInv => GopDecodable
  BY DEF BridgeInv
<1>2. QED BY <1>1, BridgeInvariant, PTL

\* A page feeds its decoder something undecodable only if the bridge withheld
\* a packet from it since it attached.
THEOREM OnlyDropsMisfeed == Spec => []MisfedOnlyByDrops
<1>1. TypeOK /\ BridgeInv => MisfedOnlyByDrops
  BY DEF BridgeInv, MisfedOnlyByDrops, StreamInv
<1>2. QED BY <1>1, BridgeInvariant, PTL

\* A page that was sent everything is caught up once its queue is empty, unless the
\* browser failed it under the parameter sets it holds.
THEOREM ViewersCatchUp == Spec => []CaughtUp
<1>1. ASSUME TypeOK, BridgeInv, NEW v \in Viewer, socket[v] = "open", ~dropped[v],
             queue[v] = <<>>, configPacket # NoConfig
      PROVE  /\ configBytes[v] = configPacket
             /\ ~failed[v] => decoder[v] = "configured" /\ (gop # <<>> => started[v])
  <2>1. StreamInv(v) /\ configPacket = epoch
    BY <1>1 DEF BridgeInv, EncoderInv
  <2>2. SentToDate(v) /\ Len(queue[v]) = 0
    BY <1>1, <2>1 DEF StreamInv
  <2>3. configBytes[v] = configPacket
    BY <1>1, <2>1, <2>2 DEF SentToDate
  <2>4. gop # <<>> => KeyBehind(v) \/ \E i \in 1 .. Len(queue[v]) : KeyAhead(queue[v], i)
    BY <1>1, <2>1 DEF StreamInv
  <2>5. ~failed[v] /\ gop # <<>> => started[v]
    BY <2>2, <2>4 DEF KeyBehind
  <2>6. QED BY <1>1, <2>1, <2>3, <2>5 DEF StreamInv
<1>2. TypeOK /\ BridgeInv => CaughtUp
  BY <1>1 DEF CaughtUp
<1>3. QED BY <1>2, BridgeInvariant, PTL

-----------------------------------------------------------------------------
(* The buffer's byte count *)

\* Each branch of #onVideo() keeps the count in step with the buffer.
LEMMA FiledBounded ==
    ASSUME TypeOK, GopBounded,
           NEW k \in {"config", "key", "delta"}, NEW e \in 1 .. MaxEpoch,
           OnVideo(Packet(k, e))
    PROVE  GopBounded'
<1> DEFINE p == Packet(k, e)
<1>1. p.kind = k
  BY DEF Packet
<1>2. gop' = Filed(p) /\ gopBytes' = FiledBytes(p)
  BY DEF OnVideo
<1>3. gop \in Seq(Pkt) /\ gopBytes = SizeOf(gop) /\ SizeOf(<<>>) = 0
  <2>1. gop \in Seq(Pkt)
    BY DEF TypeOK, Pkt
  <2>2. <<>> \in Seq({p}) /\ p \in {p}
    OBVIOUS
  <2>3. SizeOf(<<>>) = 0
    BY <2>2, SizeOfAppend
  <2>4. QED BY <2>1, <2>3 DEF GopBounded
<1>4. Size(p) \in Nat
  BY <1>1, BridgeAssumption DEF Size
<1>5. k # "config" => p \in Pkt
  BY DEF Packet, Pkt
<1> HIDE DEF p
<1>6. CASE gop' = <<>> /\ gopBytes' = 0
  BY <1>3, <1>6 DEF GopBounded
<1>7. CASE k = "config"
  BY <1>1, <1>2, <1>6, <1>7 DEF Filed, FiledBytes
<1>8. CASE k = "key"
  <2>1. gop' = <<p>> /\ gopBytes' = Size(p)
    BY <1>1, <1>2, <1>8 DEF Filed, FiledBytes
  <2>2. <<>> \in Seq(Pkt) /\ p \in Pkt /\ Append(<<>>, p) = <<p>>
    BY <1>5, <1>8
  <2>3. SizeOf(<<p>>) = SizeOf(<<>>) + Size(p)
    BY <2>2, SizeOfAppend
  <2>4. QED BY <1>3, <1>4, <2>1, <2>3 DEF GopBounded
<1>9. CASE k = "delta" /\ gop = <<>>
  BY <1>1, <1>2, <1>3, <1>6, <1>9 DEF Filed, FiledBytes
<1>10. CASE k = "delta" /\ gop # <<>> /\ gopBytes + Size(p) > GopLimit
  BY <1>1, <1>2, <1>6, <1>10 DEF Filed, FiledBytes
<1>11. CASE k = "delta" /\ gop # <<>> /\ ~(gopBytes + Size(p) > GopLimit)
  <2>1. gop' = Append(gop, p) /\ gopBytes' = gopBytes + Size(p)
    BY <1>1, <1>2, <1>11 DEF Filed, FiledBytes
  <2>2. SizeOf(gop') = SizeOf(gop) + Size(p)
    BY <1>3, <1>5, <1>11, <2>1, SizeOfAppend
  <2>3. gopBytes \in Nat /\ GopLimit \in Nat
    BY BridgeAssumption DEF TypeOK
  <2>4. QED BY <1>3, <1>4, <1>11, <2>1, <2>2, <2>3 DEF GopBounded
<1>12. QED BY <1>7, <1>8, <1>9, <1>10, <1>11

LEMMA NextBounded == TypeOK /\ EncoderInv /\ GopBounded /\ [Next]_vars => GopBounded'
<1> SUFFICES ASSUME TypeOK, EncoderInv, GopBounded, [Next]_vars PROVE GopBounded'
  OBVIOUS
<1>1. CASE SendConfig \/ SendKey \/ SendDelta
  BY <1>1, EncoderType, FiledBounded
<1>2. CASE UNCHANGED <<gop, gopBytes>>
  BY <1>2 DEF GopBounded
<1>3. ASSUME NEW v \in Viewer,
             Attach(v) \/ Leave(v) \/ Closed(v) \/ Receive(v) \/ DecoderFails(v)
      PROVE  UNCHANGED <<gop, gopBytes>>
  BY <1>3 DEF Attach, Leave, Closed, Receive, DecoderFails, bridgeVars
<1>4. CASE StreamEnds \/ UNCHANGED vars
  BY <1>2, <1>4 DEF StreamEnds, vars, bridgeVars
<1>5. QED BY <1>1, <1>2, <1>3, <1>4 DEF Next

\* However keyframes, deltas and new parameter sets follow one another, the byte
\* count is that of the buffer, and the buffer within its limit.
THEOREM GopAlwaysBounded == Spec => []GopBounded
<1>1. Init => GopBounded
  <2>1. <<>> \in Seq({1}) /\ 1 \in {1}
    OBVIOUS
  <2>2. SizeOf(<<>>) = 0
    BY <2>1, SizeOfAppend
  <2>3. QED BY <2>2 DEF Init, GopBounded
<1>2. TypeOK /\ BridgeInv /\ GopBounded /\ [Next]_vars => GopBounded'
  BY NextBounded DEF BridgeInv
<1>3. QED BY <1>1, <1>2, BridgeInvariant, PTL DEF Spec

-----------------------------------------------------------------------------
(* What is queued for one viewer *)

\* A browser that stops reading costs the bridge no more than this: what a
\* replay holds, or the drop mark and one packet.
QueueBounded ==
    \A v \in Viewer :
        \/ SizeOf(queue[v]) <= ConfigSize + GopLimit
        \/ SizeOf(queue[v]) <= ConfigSize + KeySize
        \/ \E k \in {"config", "key", "delta"}, e \in 1 .. MaxEpoch :
                SizeOf(queue[v]) <= DropAbove + Size(Packet(k, e))

LEMMA PacketSizes ==
    /\ \A p \in Msg : Size(p) \in Nat
    /\ \A p \in Pkt : Size(p) \in Nat
    /\ \A k \in {"config", "key", "delta"}, e \in 1 .. MaxEpoch :
          /\ Size(Packet(k, e)) \in Nat
          /\ \A f \in BOOLEAN : /\ Message(Packet(k, e), f) \in Msg
                               /\ Size(Message(Packet(k, e), f)) = Size(Packet(k, e))
    /\ \A p \in Pkt, f \in BOOLEAN : Size(Message(p, f)) = Size(p)
    /\ SizeOf(<<>>) = 0
<1>1. <<>> \in Seq({1}) /\ 1 \in {1}
  OBVIOUS
<1>2. SizeOf(<<>>) = 0
  BY <1>1, SizeOfAppend
<1>3. QED BY <1>2, BridgeAssumption DEF Msg, Pkt, Size, Packet, Message

\* attach() replays the parameter sets and the buffer, which is bounded.
LEMMA ReplayBounded ==
    ASSUME TypeOK, GopDecodable, GopBounded
    PROVE  SizeOf(Replay) <= ConfigSize + GopLimit \/ SizeOf(Replay) <= ConfigSize + KeySize
<1>1. ConfigSize \in Nat /\ KeySize \in Nat /\ GopLimit \in Nat
  BY BridgeAssumption
<1>2. CASE configPacket = NoConfig
  <2>1. SizeOf(Replay) = 0
    BY <1>2, PacketSizes DEF Replay
  <2>2. QED BY <1>1, <2>1
<1>3. CASE configPacket # NoConfig
  <2>1. /\ Replay \in Seq(Msg) /\ Len(Replay) = Len(gop) + 1
        /\ Replay[1] = Message(Packet("config", configPacket), FALSE)
        /\ \A i \in 1 .. Len(gop) : Replay[i + 1] = Message(gop[i], i > 1)
    BY <1>3, ReplayShape
  <2>2. gop \in Seq(Pkt) /\ Len(gop) \in Nat
    BY DEF TypeOK, Pkt
  <2>3. Shifted(Replay, gop, Len(gop))
    <3>1. ASSUME NEW i \in 1 .. Len(gop) PROVE Size(Replay[i + 1]) = Size(gop[i])
      <4>1. gop[i] \in Pkt /\ (i > 1) \in BOOLEAN
        BY <2>2
      <4>2. QED BY <2>1, <4>1, PacketSizes
    <3>2. QED BY <3>1 DEF Shifted
  <2>4. SizeOf(Replay) = Size(Replay[1]) + SizeOf(gop)
    <3>1. \A p \in Msg : Size(p) \in Nat
      BY PacketSizes
    <3>2. QED BY <2>1, <2>2, <2>3, <3>1, SizeOfSplit
  <2>5. Size(Replay[1]) = ConfigSize
    BY <2>1 DEF Size, Message, Packet
  <2>6. CASE Len(gop) > 1
    BY <1>1, <2>4, <2>5, <2>6 DEF GopBounded, TypeOK
  <2>7. CASE Len(gop) = 1
    <3>1. gop = Append(<<>>, gop[1]) /\ gop[1] \in Pkt /\ <<>> \in Seq(Pkt)
      BY <2>2, <2>7
    <3>2. SizeOf(gop) = Size(gop[1])
      <4>1. SizeOf(Append(<<>>, gop[1])) = SizeOf(<<>>) + Size(gop[1])
        BY <3>1, SizeOfAppend
      <4>2. QED BY <3>1, <4>1, PacketSizes
    <3>3. gop[1].kind = "key"
      BY <2>2, <2>7 DEF GopDecodable
    <3>4. Size(gop[1]) = KeySize
      BY <3>3 DEF Size
    <3>5. QED BY <1>1, <2>4, <2>5, <3>2, <3>4
  <2>8. CASE Len(gop) = 0
    <3>1. gop = <<>>
      BY <2>2, <2>8
    <3>2. QED BY <1>1, <2>4, <2>5, <3>1, PacketSizes
  <2>9. Len(gop) > 1 \/ Len(gop) = 1 \/ Len(gop) = 0
    <3>1. \A l \in Nat : l > 1 \/ l = 1 \/ l = 0
      OBVIOUS
    <3>2. QED BY <2>2, <3>1, Zenon
  <2>10. QED BY <2>6, <2>7, <2>8, <2>9, Zenon
<1>4. QED BY <1>2, <1>3

LEMMA NextQueue ==
    TypeOK /\ EncoderInv /\ GopDecodable /\ GopBounded /\ QueueBounded /\ [Next]_vars
        => QueueBounded'
<1> SUFFICES ASSUME TypeOK, EncoderInv, GopDecodable, GopBounded, QueueBounded,
                    [Next]_vars
             PROVE  QueueBounded'
  OBVIOUS
<1>0. /\ queue \in [Viewer -> Seq(Msg)]
      /\ ConfigSize \in Nat /\ KeySize \in Nat /\ GopLimit \in Nat /\ DropAbove \in Nat
      /\ \A v \in Viewer : SizeOf(queue[v]) \in Nat
  <2>1. queue \in [Viewer -> Seq(Msg)]
    BY Zenon DEF TypeOK, Msg
  <2>2. \A v \in Viewer : SizeOf(queue[v]) \in Nat
    <3>1. \A p \in Msg : Size(p) \in Nat
      BY PacketSizes
    <3>2. \A v \in Viewer : queue[v] \in Seq(Msg)
      BY <2>1
    <3>3. QED BY <3>1, <3>2, SizeOfNat
  <2>3. QED BY <2>1, <2>2, BridgeAssumption
<1>1. CASE SendConfig \/ SendKey \/ SendDelta
  <2>1. PICK k \in {"config", "key", "delta"}, e \in 1 .. MaxEpoch : OnVideo(Packet(k, e))
    BY <1>1, EncoderType
  <2>2. SUFFICES ASSUME NEW v \in Viewer, Sends(v),
                        queue'[v] = Append(queue[v], Message(Packet(k, e), upToDate[v]))
                 PROVE  SizeOf(queue'[v]) <= DropAbove + Size(Packet(k, e))
    BY <2>1 DEF OnVideo, QueueBounded
  <2>3. upToDate[v] \in BOOLEAN /\ queue[v] \in Seq(Msg)
    BY <1>0 DEF TypeOK
  <2> DEFINE m == Message(Packet(k, e), upToDate[v])
  <2>4. m \in Msg /\ Size(m) = Size(Packet(k, e)) /\ Size(Packet(k, e)) \in Nat
    BY <2>3, PacketSizes
  <2> HIDE DEF m
  <2>5. SizeOf(queue'[v]) = SizeOf(queue[v]) + Size(m)
    <3>1. queue'[v] = Append(queue[v], m)
      BY <2>2 DEF m
    <3>2. QED BY <2>3, <2>4, <3>1, SizeOfAppend
  <2>6. SizeOf(queue[v]) <= DropAbove
    BY <2>2 DEF Sends
  <2>7. QED BY <1>0, <2>4, <2>5, <2>6
<1>2. ASSUME NEW v \in Viewer, Attach(v) PROVE QueueBounded'
  <2>1. queue' = [queue EXCEPT ![v] = Replay]
    BY <1>2 DEF Attach
  <2>2. QED BY <1>0, <2>1, ReplayBounded DEF QueueBounded
<1>3. ASSUME NEW v \in Viewer, Leave(v) PROVE QueueBounded'
  <2>1. queue' = [queue EXCEPT ![v] = <<>>] /\ SizeOf(<<>>) = 0
    BY <1>3, PacketSizes DEF Leave
  <2>2. QED BY <1>0, <2>1 DEF QueueBounded
<1>4. ASSUME NEW v \in Viewer, Receive(v) PROVE QueueBounded'
  <2>1. queue[v] # <<>> /\ queue' = [queue EXCEPT ![v] = Tail(queue[v])]
    BY <1>4 DEF Receive
  <2> DEFINE q == queue[v]
  <2>2. q \in Seq(Msg) /\ Tail(q) \in Seq(Msg) /\ Len(q) = Len(Tail(q)) + 1
        /\ q[1] \in Msg /\ \A i \in 1 .. Len(Tail(q)) : Tail(q)[i] = q[i + 1]
    BY <1>0, <2>1
  <2>3. queue' = [queue EXCEPT ![v] = Tail(q)]
    BY <2>1
  <2> HIDE DEF q
  <2>4. SizeOf(q) = Size(q[1]) + SizeOf(Tail(q))
    <3>1. Shifted(q, Tail(q), Len(Tail(q))) /\ \A p \in Msg : Size(p) \in Nat
      BY <2>2, PacketSizes DEF Shifted
    <3>2. QED BY <2>2, <3>1, SizeOfSplit
  <2>5. SizeOf(Tail(q)) \in Nat /\ Size(q[1]) \in Nat
    <3>1. \A p \in Msg : Size(p) \in Nat
      BY PacketSizes
    <3>2. QED BY <2>2, <3>1, SizeOfNat
  <2>6. SizeOf(Tail(q)) <= SizeOf(q) /\ SizeOf(q) \in Nat
    BY <2>4, <2>5
  <2>7. ASSUME NEW w \in Viewer
        PROVE  SizeOf(queue'[w]) <= SizeOf(queue[w]) /\ SizeOf(queue'[w]) \in Nat
    BY <1>0, <2>3, <2>5, <2>6 DEF q
  <2>8. \A k \in {"config", "key", "delta"}, e \in 1 .. MaxEpoch : Size(Packet(k, e)) \in Nat
    BY PacketSizes
  <2>9. QED
    <3>1. SUFFICES ASSUME NEW w \in Viewer
                   PROVE  \/ SizeOf(queue'[w]) <= ConfigSize + GopLimit
                          \/ SizeOf(queue'[w]) <= ConfigSize + KeySize
                          \/ \E k \in {"config", "key", "delta"}, e \in 1 .. MaxEpoch :
                                 SizeOf(queue'[w]) <= DropAbove + Size(Packet(k, e))
      BY DEF QueueBounded
    <3>2. CASE SizeOf(queue[w]) <= ConfigSize + GopLimit
               \/ SizeOf(queue[w]) <= ConfigSize + KeySize
      BY <1>0, <2>7, <3>2
    <3>3. ASSUME NEW k \in {"config", "key", "delta"}, NEW e \in 1 .. MaxEpoch,
                 SizeOf(queue[w]) <= DropAbove + Size(Packet(k, e))
          PROVE  SizeOf(queue'[w]) <= DropAbove + Size(Packet(k, e))
      BY <1>0, <2>7, <2>8, <3>3
    <3>4. QED BY <3>2, <3>3 DEF QueueBounded
<1>5. CASE UNCHANGED queue
  BY <1>5 DEF QueueBounded
<1>6. ASSUME NEW v \in Viewer, Closed(v) \/ DecoderFails(v) PROVE UNCHANGED queue
  BY <1>6 DEF Closed, DecoderFails, socketVars
<1>7. CASE StreamEnds \/ UNCHANGED vars
  BY <1>5, <1>7 DEF StreamEnds, vars, socketVars
<1>8. QED BY <1>1, <1>2, <1>3, <1>4, <1>5, <1>6, <1>7 DEF Next

\* #sendFrame() looks at what is already queued, so the send buffer of a viewer
\* that reads too slowly, or not at all, stays within fixed limits, whatever the
\* number of viewers and the order of attaching, sending and dropping.
THEOREM QueuesStayBounded == Spec => []QueueBounded
<1>1. Init => QueueBounded
  BY PacketSizes, BridgeAssumption DEF Init, QueueBounded
<1>2. TypeOK /\ BridgeInv /\ GopBounded /\ QueueBounded /\ [Next]_vars => QueueBounded'
  BY NextQueue DEF BridgeInv
<1>3. QED BY <1>1, <1>2, BridgeInvariant, GopAlwaysBounded, PTL DEF Spec
=============================================================================
