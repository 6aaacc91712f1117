-------------------------- MODULE StreamReaderProofs --------------------------
(***************************************************************************)
(* For all chunks, frames and limits:                                      *)
(*                                                                         *)
(* - #take() splits the buffer at the byte it was asked for, and `buffered`*)
(*   counts the bytes of the chunks;                                       *)
(* - the frames of the 'video' events are the device's, whole and in order,*)
(*   and an 'end' cuts none of them off;                                   *)
(* - a read for no more than PauseAbove bytes never waits on a paused      *)
(*   socket.  A longer one may, for good: the code accepts frames of 32 MB *)
(*   and pauses at 16 MB;                                                  *)
(* - the buffer never exceeds that mark by more than a chunk.              *)
(*                                                                         *)
(* FlattenSeq and FoldLeft are defined by recursion on the sequence; a CHOOSE*)
(* over such functions is unfolded here step by step.  The induction over  *)
(* lengths is SetInduction, for a set of numbers rather than a predicate.  *)
(***************************************************************************)
EXTENDS StreamReader, SequenceTheorems, WellFoundedInduction, TLAPS

\* A header is at least one byte.
LEMMA HeaderIsSome == HeaderSize \in Nat \ {0}
BY ReaderAssumption

\* Induction on a set of numbers.
LEMMA SetInduction ==
    ASSUME NEW S, 0 \in S, \A n \in Nat : n \in S => n + 1 \in S
    PROVE  Nat \subseteq S
<1> DEFINE R == OpToRel(<, Nat)
           T == Nat \ S
<1>1. IsWellFoundedOn(R, Nat)
  BY NatLessThanWellFounded
<1>2. \A x, y \in Nat : y < x => <<y, x>> \in R
  BY DEF OpToRel
<1>3. CASE T # {}
  <2>1. PICK x \in T : \A y \in T : ~ (<<y, x>> \in R)
    <3> HIDE DEF R
    <3>1. T \subseteq Nat
      OBVIOUS
    <3> HIDE DEF T
    <3>2. QED BY <1>1, <1>3, <3>1, WFMin
  <2>2. x \in Nat /\ x # 0
    OBVIOUS
  <2>3. x - 1 \in Nat /\ x - 1 < x /\ x = x - 1 + 1
    BY <2>2
  <2>4. x - 1 \notin T
    <3>1. <<x - 1, x>> \in R
      BY <1>2, <2>2, <2>3, Zenon
    <3>2. QED BY <2>1, <3>1, Zenon
  <2>5. x \in S
    BY <2>2, <2>3, <2>4
  <2>6. QED BY <2>5
<1>4. QED BY <1>3

\* A set of numbers up to n has a largest.
LEMMA MaxUpTo ==
    ASSUME NEW n \in Nat, NEW t \in SUBSET (1 .. n), t # {}
    PROVE  Max(t) \in t /\ \A i \in t : i <= Max(t)
<1> DEFINE S == {k \in Nat : \A u \in SUBSET (1 .. k) : u # {} => \E x \in u : \A y \in u : x >= y}
<1>1. 0 \in S
  <2>1. \A u \in SUBSET (1 .. 0) : u = {}
    OBVIOUS
  <2>2. QED BY <2>1
<1>2. ASSUME NEW k \in Nat, k \in S PROVE k + 1 \in S
  <2>1. SUFFICES ASSUME NEW u \in SUBSET (1 .. k + 1), u # {}
                 PROVE  \E x \in u : \A y \in u : x >= y
    OBVIOUS
  <2>2. CASE k + 1 \in u
    BY <2>2
  <2>3. CASE k + 1 \notin u
    <3>1. u \in SUBSET (1 .. k)
      BY <2>3
    <3>2. QED BY <1>2, <2>1, <3>1
  <2>4. QED BY <2>2, <2>3
<1>3. n \in S
  <2> HIDE DEF S
  <2> QED BY <1>1, <1>2, SetInduction
<1>4. \E x \in t : \A y \in t : x >= y
  BY <1>3
<1>5. Max(t) \in t /\ \A y \in t : Max(t) >= y
  BY <1>4, Zenon DEF Max
<1>6. QED BY <1>5

-----------------------------------------------------------------------------
(* FlattenSeq, by induction on the length *)

\* The function that FlattenSeq builds: f[i] is the first i elements, joined.
Flattening(f, s, n) ==
    f = [i \in 1 .. n |-> IF i = 1 THEN s[i] ELSE f[i - 1] \o s[i]]

LEMMA FlatteningExists == ASSUME NEW s, NEW n \in Nat PROVE \E f : Flattening(f, s, n)
<1> DEFINE S == {k \in Nat : \E f : Flattening(f, s, k)}
<1>1. 0 \in S
  <2> DEFINE f == [i \in 1 .. 0 |-> <<>>]
  <2>1. Flattening(f, s, 0)
    BY DEF Flattening
  <2>2. QED BY <2>1
<1>2. ASSUME NEW k \in Nat, k \in S PROVE k + 1 \in S
  <2>1. PICK g : Flattening(g, s, k)
    BY <1>2
  <2> DEFINE f == [i \in 1 .. k + 1 |->
                     IF i <= k THEN g[i] ELSE IF i = 1 THEN s[i] ELSE g[i - 1] \o s[i]]
             h == [i \in 1 .. k + 1 |-> IF i = 1 THEN s[i] ELSE f[i - 1] \o s[i]]
  <2>2. \A i \in 1 .. k : g[i] = IF i = 1 THEN s[i] ELSE g[i - 1] \o s[i]
    BY <2>1 DEF Flattening
  <2>3. ASSUME NEW i \in 1 .. k + 1 PROVE f[i] = h[i]
    <3>1. i # 1 => i - 1 \in 1 .. k + 1 /\ i - 1 <= k
      OBVIOUS
    <3>2. i # 1 => f[i - 1] = g[i - 1]
      BY <3>1
    <3>3. CASE i <= k
      <4>1. i \in 1 .. k
        BY <3>3
      <4>2. QED BY <2>2, <3>2, <3>3, <4>1
    <3>4. CASE ~(i <= k)
      BY <3>2, <3>4
    <3>5. QED BY <3>3, <3>4
  <2>4. f = h
    BY <2>3
  <2>5. Flattening(f, s, k + 1)
    BY <2>4 DEF Flattening
  <2>6. QED BY <2>5
<1>3. QED
  <2> HIDE DEF S
  <2>1. n \in S
    BY <1>1, <1>2, SetInduction
  <2>2. QED BY <2>1 DEF S

LEMMA FlattenFlattening ==
    ASSUME NEW s, Len(s) \in Nat, Len(s) # 0
    PROVE  \E f : Flattening(f, s, Len(s)) /\ FlattenSeq(s) = f[Len(s)]
<1> DEFINE g == CHOOSE f : Flattening(f, s, Len(s))
<1>1. FlattenSeq(s) = g[Len(s)]
  BY Zenon DEF FlattenSeq, Flattening
<1>2. \E f : Flattening(f, s, Len(s))
  BY FlatteningExists
<1>3. Flattening(g, s, Len(s))
  <2> HIDE DEF Flattening
  <2> QED BY <1>2, Zenon
<1>4. QED BY <1>1, <1>3

\* The first element, and every further one.
LEMMA FlatteningStep ==
    ASSUME NEW f, NEW s, NEW n \in Nat, Flattening(f, s, n)
    PROVE  /\ n # 0 => f[1] = s[1]
           /\ \A k \in Nat \ {0} : k + 1 <= n => f[k + 1] = f[k] \o s[k + 1]
<1>1. \A i \in 1 .. n : f[i] = IF i = 1 THEN s[i] ELSE f[i - 1] \o s[i]
  BY DEF Flattening
<1>2. n # 0 => f[1] = s[1]
  BY <1>1
<1>3. ASSUME NEW k \in Nat \ {0}, k + 1 <= n PROVE f[k + 1] = f[k] \o s[k + 1]
  <2>1. PICK i \in 1 .. n : i = k + 1 /\ i # 1 /\ i - 1 = k
    BY <1>3
  <2>2. f[i] = f[i - 1] \o s[i]
    BY <1>1, <2>1, Zenon
  <2>3. QED BY <2>1, <2>2, Zenon
<1>4. QED BY <1>2, <1>3

Begins(s, q, m) == \A i \in 1 .. m : s[i] = q[i]

\* What sequences begin with alike is joined alike.
LEMMA FlatteningAgrees ==
    ASSUME NEW f, NEW g, NEW s, NEW q, NEW m \in Nat, NEW n \in Nat, m <= n,
           Flattening(f, s, m), Flattening(g, q, n), Begins(s, q, m)
    PROVE  \A i \in 1 .. m : f[i] = g[i]
<1> DEFINE S == {k \in Nat : k \in 1 .. m => f[k] = g[k]}
<1>1. /\ m # 0 => f[1] = s[1]
      /\ \A k \in Nat \ {0} : k + 1 <= m => f[k + 1] = f[k] \o s[k + 1]
      /\ n # 0 => g[1] = q[1]
      /\ \A k \in Nat \ {0} : k + 1 <= n => g[k + 1] = g[k] \o q[k + 1]
  BY FlatteningStep
<1>2. 0 \in S
  OBVIOUS
<1>3. ASSUME NEW k \in Nat, k \in S PROVE k + 1 \in S
  <2>1. SUFFICES ASSUME k + 1 \in 1 .. m PROVE f[k + 1] = g[k + 1]
    OBVIOUS
  <2>2. k + 1 \in 1 .. n /\ s[k + 1] = q[k + 1]
    BY <2>1 DEF Begins
  <2>3. CASE k = 0
    BY <1>1, <2>1, <2>2, <2>3
  <2>4. CASE k # 0
    <3>1. f[k] = g[k]
      BY <1>3, <2>1, <2>4
    <3>2. k \in Nat \ {0} /\ k + 1 <= m /\ k + 1 <= n
      BY <2>1, <2>2, <2>4
    <3>3. f[k + 1] = f[k] \o s[k + 1] /\ g[k + 1] = g[k] \o q[k + 1]
      BY <1>1, <3>2, Zenon
    <3>4. QED BY <2>2, <3>1, <3>3, Zenon
  <2>5. QED BY <2>3, <2>4
<1>4. Nat \subseteq S
  <2> HIDE DEF S
  <2> QED BY <1>2, <1>3, SetInduction
<1>5. QED BY <1>4

\* FlattenSeq joins one element after the other.
LEMMA FlattenAppend ==
    ASSUME NEW B, NEW s \in Seq(Seq(B)), NEW x \in Seq(B)
    PROVE  FlattenSeq(Append(s, x)) = FlattenSeq(s) \o x
<1> DEFINE r == Append(s, x)
           n == Len(s)
<1>1. /\ n \in Nat /\ Len(r) = n + 1 /\ n + 1 \in Nat /\ n + 1 # 0
      /\ r[n + 1] = x /\ \A i \in 1 .. n : s[i] = r[i]
  BY AppendProperties, LenProperties
<1> HIDE DEF r, n
<1>2. PICK g : Flattening(g, r, n + 1) /\ FlattenSeq(r) = g[n + 1]
  BY <1>1, FlattenFlattening
<1>3. /\ n + 1 # 0 => g[1] = r[1]
      /\ \A k \in Nat \ {0} : k + 1 <= n + 1 => g[k + 1] = g[k] \o r[k + 1]
  BY <1>1, <1>2, FlatteningStep
<1>4. CASE n = 0
  <2>1. s = <<>> /\ FlattenSeq(s) = <<>>
    BY <1>4 DEF n, FlattenSeq
  <2>2. g[1] = x
    BY <1>1, <1>3, <1>4
  <2>3. QED BY <1>2, <1>4, <2>1, <2>2, ConcatEmptySeq DEF r
<1>5. CASE n # 0
  <2>1. PICK f : Flattening(f, s, n) /\ FlattenSeq(s) = f[n]
    BY <1>1, <1>5, FlattenFlattening DEF n
  <2>2. n \in 1 .. n /\ n + 1 \in 1 .. n + 1 /\ n + 1 # 1 /\ n + 1 - 1 = n /\ n <= n + 1
    BY <1>1, <1>5
  <2>3. Begins(s, r, n)
    BY <1>1 DEF Begins
  <2>4. f[n] = g[n]
    <3>1. \A i \in 1 .. n : f[i] = g[i]
      BY <1>1, <1>2, <2>1, <2>2, <2>3, FlatteningAgrees
    <3>2. QED BY <2>2, <3>1
  <2>5. g[n + 1] = g[n] \o x
    <3>1. n \in Nat \ {0} /\ n + 1 <= n + 1
      BY <1>1, <1>5
    <3>2. g[n + 1] = g[n] \o r[n + 1]
      BY <1>3, <3>1, Zenon
    <3>3. QED BY <1>1, <3>2
  <2>6. QED BY <1>2, <2>1, <2>4, <2>5 DEF r
<1>6. QED BY <1>4, <1>5

\* The joined elements form a sequence; of none, the empty one.
LEMMA FlattenType ==
    ASSUME NEW B
    PROVE  /\ FlattenSeq(<<>>) = <<>>
           /\ \A s \in Seq(Seq(B)) : FlattenSeq(s) \in Seq(B)
<1> DEFINE S == {n \in Nat : \A s \in Seq(Seq(B)) : Len(s) = n => FlattenSeq(s) \in Seq(B)}
<1>1. FlattenSeq(<<>>) = <<>>
  BY DEF FlattenSeq
<1>2. 0 \in S
  BY <1>1
<1>3. ASSUME NEW n \in Nat, n \in S PROVE n + 1 \in S
  <2>1. SUFFICES ASSUME NEW s \in Seq(Seq(B)), Len(s) = n + 1
                 PROVE  FlattenSeq(s) \in Seq(B)
    OBVIOUS
  <2>2. s # <<>>
    BY <2>1
  <2>3. PICK r \in Seq(Seq(B)), x \in Seq(B) : s = Append(r, x)
    BY <2>2, SequenceEmptyOrAppend
  <2>4. Len(r) = n
    BY <2>1, <2>3
  <2>5. FlattenSeq(r) \in Seq(B)
    BY <1>3, <2>4
  <2>6. QED BY <2>3, <2>5, FlattenAppend, ConcatProperties
<1>4. Nat \subseteq S
  <2> HIDE DEF S
  <2> QED BY <1>2, <1>3, SetInduction
<1>5. ASSUME NEW s \in Seq(Seq(B)) PROVE FlattenSeq(s) \in Seq(B)
  <2>1. Len(s) \in S
    BY <1>4
  <2>2. QED BY <2>1
<1>6. QED BY <1>1, <1>5

\* An element in front comes first.
LEMMA FlattenFront ==
    ASSUME NEW B, NEW x \in Seq(B), NEW s \in Seq(Seq(B))
    PROVE  FlattenSeq(<<x>> \o s) = x \o FlattenSeq(s)
<1> DEFINE S == {n \in Nat : \A q \in Seq(Seq(B)) :
                     Len(q) = n => FlattenSeq(<<x>> \o q) = x \o FlattenSeq(q)}
<1>1. FlattenSeq(<<>>) = <<>> /\ \A q \in Seq(Seq(B)) : FlattenSeq(q) \in Seq(B)
  BY FlattenType
<1>2. <<x>> \in Seq(Seq(B)) /\ <<>> \in Seq(Seq(B)) /\ <<x>> = Append(<<>>, x)
  OBVIOUS
<1>3. 0 \in S
  <2>1. SUFFICES ASSUME NEW q \in Seq(Seq(B)), Len(q) = 0
                 PROVE  FlattenSeq(<<x>> \o q) = x \o FlattenSeq(q)
    OBVIOUS
  <2>2. q = <<>>
    BY <2>1
  <2>3. <<x>> \o q = <<x>>
    BY <1>2, <2>2, ConcatEmptySeq
  <2>4. FlattenSeq(<<x>>) = FlattenSeq(<<>>) \o x
    BY <1>2, FlattenAppend
  <2>5. <<>> \o x = x /\ x \o <<>> = x
    BY ConcatEmptySeq
  <2>6. QED BY <1>1, <2>2, <2>3, <2>4, <2>5
<1>4. ASSUME NEW n \in Nat, n \in S PROVE n + 1 \in S
  <2>1. SUFFICES ASSUME NEW q \in Seq(Seq(B)), Len(q) = n + 1
                 PROVE  FlattenSeq(<<x>> \o q) = x \o FlattenSeq(q)
    <3>1. n + 1 \in Nat
      OBVIOUS
    <3>2. QED BY <2>1, <3>1, Zenon
  <2>2. q # <<>>
    BY <2>1
  <2>3. PICK r \in Seq(Seq(B)), y \in Seq(B) : q = Append(r, y)
    BY <2>2, SequenceEmptyOrAppend
  <2>4. Len(r) = n
    BY <2>1, <2>3
  <2>5. FlattenSeq(<<x>> \o r) = x \o FlattenSeq(r)
    BY <1>4, <2>4
  <2>6. <<x>> \o q = Append(<<x>> \o r, y) /\ <<x>> \o r \in Seq(Seq(B))
    <3>1. q = r \o <<y>> /\ <<y>> \in Seq(Seq(B))
      BY <2>3, AppendIsConcat
    <3>2. <<x>> \o r \in Seq(Seq(B))
      BY <1>2, ConcatProperties
    <3>3. (<<x>> \o r) \o <<y>> = <<x>> \o (r \o <<y>>)
      BY <1>2, <3>1, ConcatAssociative
    <3>4. Append(<<x>> \o r, y) = (<<x>> \o r) \o <<y>>
      BY <3>2, AppendIsConcat
    <3>5. QED BY <3>1, <3>2, <3>3, <3>4
  <2>7. FlattenSeq(<<x>> \o q) = FlattenSeq(<<x>> \o r) \o y /\ FlattenSeq(q) = FlattenSeq(r) \o y
    BY <2>3, <2>6, FlattenAppend
  <2>8. (x \o FlattenSeq(r)) \o y = x \o (FlattenSeq(r) \o y)
    <3> DEFINE z == FlattenSeq(r)
    <3>1. z \in Seq(B)
      BY <1>1
    <3> HIDE DEF z
    <3>2. (x \o z) \o y = x \o (z \o y)
      BY <3>1, ConcatAssociative, SMTT(30)
    <3>3. QED BY <3>2 DEF z
  <2>9. QED BY <2>5, <2>7, <2>8
<1>5. Nat \subseteq S
  <2> HIDE DEF S
  <2> QED BY <1>3, <1>4, SetInduction
<1>6. Len(s) \in Nat
  OBVIOUS
<1>7. Len(s) \in S
  BY <1>5, <1>6, Zenon
<1>8. QED BY <1>7, Zenon

-----------------------------------------------------------------------------
(* Take, by induction on the chunks *)

\* What the loop of #take() does with one chunk.
TakeChunk(acc, c) ==
    LET n == IF Len(c) <= acc.left THEN Len(c) ELSE acc.left
    IN  [left |-> acc.left - n,
         out  |-> acc.out \o SubSeq(c, 1, n),
         rest |-> IF n = Len(c) THEN acc.rest
                  ELSE Append(acc.rest, SubSeq(c, n + 1, Len(c)))]

\* The function that Take's fold builds: f[t] is the state after the chunks whose
\* numbers are in t.
TakingOver(f, cs, need, D) ==
    f = [t \in SUBSET D |->
           IF t = {} THEN [left |-> need, out |-> <<>>, rest |-> <<>>]
           ELSE TakeChunk(f[t \ {Max(t)}], cs[Max(t)])]

Taking(f, cs, need, n) == n \in Nat /\ TakingOver(f, cs, need, 1 .. n)

LEMMA TakingExists ==
    ASSUME NEW cs, NEW need, NEW n \in Nat
    PROVE  \E f : Taking(f, cs, need, n)
<1> DEFINE S == {k \in Nat : \E f : Taking(f, cs, need, k)}
           start == [left |-> need, out |-> <<>>, rest |-> <<>>]
<1>1. 0 \in S
  <2> DEFINE f == [t \in SUBSET (1 .. 0) |-> start]
  <2>1. Taking(f, cs, need, 0)
    BY DEF Taking, TakingOver
  <2>2. QED BY <2>1
<1>2. ASSUME NEW k \in Nat, k \in S PROVE k + 1 \in S
  <2>1. PICK g : Taking(g, cs, need, k)
    BY <1>2
  <2>2. \A t \in SUBSET (1 .. k) :
          g[t] = IF t = {} THEN start ELSE TakeChunk(g[t \ {Max(t)}], cs[Max(t)])
    BY <2>1 DEF Taking, TakingOver
  <2> DEFINE f == [t \in SUBSET (1 .. k + 1) |->
                     IF k + 1 \in t THEN TakeChunk(g[t \ {k + 1}], cs[k + 1]) ELSE g[t]]
             h == [t \in SUBSET (1 .. k + 1) |->
                     IF t = {} THEN start ELSE TakeChunk(f[t \ {Max(t)}], cs[Max(t)])]
  <2> HIDE DEF start
  <2>3. ASSUME NEW t \in SUBSET (1 .. k + 1) PROVE f[t] = h[t]
    <3>1. CASE k + 1 \in t
      <4>1. Max(t) = k + 1
        <5>1. k + 1 \in Nat
          OBVIOUS
        <5>2. Max(t) \in t /\ k + 1 <= Max(t)
          BY <3>1, <5>1, MaxUpTo
        <5>3. Max(t) \in 1 .. k + 1
          BY <5>2
        <5>4. QED BY <5>2, <5>3
      <4>2. t \ {k + 1} \in SUBSET (1 .. k + 1) /\ k + 1 \notin t \ {k + 1}
        OBVIOUS
      <4>3. f[t \ {k + 1}] = g[t \ {k + 1}]
        BY <4>2
      <4>4. QED BY <3>1, <4>1, <4>3
    <3>2. CASE k + 1 \notin t /\ t # {}
      <4>1. t \in SUBSET (1 .. k)
        BY <3>2
      <4>2. t \ {Max(t)} \in SUBSET (1 .. k + 1) /\ k + 1 \notin t \ {Max(t)}
        BY <3>2
      <4>3. f[t] = g[t] /\ f[t \ {Max(t)}] = g[t \ {Max(t)}]
        BY <3>2, <4>2
      <4>4. QED BY <2>2, <3>2, <4>1, <4>3
    <3>3. CASE t = {}
      BY <2>2, <3>3
    <3>4. QED BY <3>1, <3>2, <3>3
  <2>4. f = h
    BY <2>3
  <2>5. TakingOver(f, cs, need, 1 .. k + 1)
    <3> HIDE DEF f
    <3> QED BY <2>4 DEF TakingOver, start
  <2>6. Taking(f, cs, need, k + 1)
    BY <2>5 DEF Taking
  <2>7. QED BY <2>6
<1>3. QED
  <2> HIDE DEF S
  <2>1. n \in S
    BY <1>1, <1>2, SetInduction
  <2>2. QED BY <2>1 DEF S

LEMMA TakeTaking ==
    ASSUME NEW S, NEW cs \in Seq(S), NEW need
    PROVE  \E f : Taking(f, cs, need, Len(cs)) /\ Take(cs, need) = f[1 .. Len(cs)]
<1> DEFINE g == CHOOSE f : TakingOver(f, cs, need, DOMAIN cs)
<1>1. DOMAIN cs = 1 .. Len(cs) /\ Len(cs) \in Nat
  BY LenProperties
<1>2. Take(cs, need) = g[DOMAIN cs]
  BY Zenon DEF Take, FoldLeft, MapThenFoldSet, TakingOver, TakeChunk
<1>3. \E f : TakingOver(f, cs, need, DOMAIN cs)
  BY <1>1, TakingExists DEF Taking
<1>4. TakingOver(g, cs, need, DOMAIN cs)
  <2> HIDE DEF TakingOver
  <2> QED BY <1>3, Zenon
<1> HIDE DEF g
<1>5. QED BY <1>1, <1>2, <1>4 DEF Taking

\* No chunk, and one chunk more.
LEMMA TakingNone ==
    ASSUME NEW f, NEW cs, NEW need, NEW n, Taking(f, cs, need, n)
    PROVE  f[1 .. 0] = [left |-> need, out |-> <<>>, rest |-> <<>>]
<1>1. 1 .. 0 = {} /\ {} \in SUBSET (1 .. n)
  OBVIOUS
<1>2. QED BY <1>1 DEF Taking, TakingOver

LEMMA TakingStep ==
    ASSUME NEW f, NEW cs, NEW need, NEW n, Taking(f, cs, need, n)
    PROVE  \A k \in Nat : k + 1 <= n => f[1 .. k + 1] = TakeChunk(f[1 .. k], cs[k + 1])
<1> DEFINE start == [left |-> need, out |-> <<>>, rest |-> <<>>]
<1>1. /\ n \in Nat
      /\ \A t \in SUBSET (1 .. n) :
           f[t] = IF t = {} THEN start ELSE TakeChunk(f[t \ {Max(t)}], cs[Max(t)])
  BY DEF Taking, TakingOver
<1> HIDE DEF start
<1>2. SUFFICES ASSUME NEW k \in Nat, k + 1 <= n
               PROVE  f[1 .. k + 1] = TakeChunk(f[1 .. k], cs[k + 1])
  OBVIOUS
<1> DEFINE t == 1 .. k + 1
<1>3. t \in SUBSET (1 .. n) /\ k + 1 \in t /\ k + 1 \in Nat
  BY <1>1, <1>2
<1>4. Max(t) \in t /\ k + 1 <= Max(t)
  BY <1>3, MaxUpTo
<1>5. Max(t) = k + 1
  BY <1>3, <1>4
<1>6. t \ {k + 1} = 1 .. k
  OBVIOUS
<1>7. f[t] = TakeChunk(f[t \ {Max(t)}], cs[Max(t)])
  <2> HIDE DEF t
  <2> QED BY <1>1, <1>3
<1>8. QED BY <1>5, <1>6, <1>7

\* Chunks that agree leave the loop in the same state.
LEMMA TakingAgrees ==
    ASSUME NEW f, NEW g, NEW s, NEW q, NEW need, NEW m, NEW n,
           m \in Nat /\ n \in Nat /\ m <= n,
           Taking(f, s, need, m), Taking(g, q, need, n), Begins(s, q, m)
    PROVE  f[1 .. m] = g[1 .. m]
<1> DEFINE S == {k \in Nat : k <= m => f[1 .. k] = g[1 .. k]}
<1> DEFINE start == [left |-> need, out |-> <<>>, rest |-> <<>>]
<1>5. f[1 .. 0] = start
  BY TakingNone
<1>6. g[1 .. 0] = start
  BY TakingNone
<1>7. \A k \in Nat : k + 1 <= m => f[1 .. k + 1] = TakeChunk(f[1 .. k], s[k + 1])
  BY TakingStep
<1>8. \A k \in Nat : k + 1 <= n => g[1 .. k + 1] = TakeChunk(g[1 .. k], q[k + 1])
  BY TakingStep
<1> HIDE DEF start
<1>1. 0 \in S
  BY <1>5, <1>6
<1>2. ASSUME NEW k \in Nat, k \in S PROVE k + 1 \in S
  <2>1. SUFFICES ASSUME k + 1 <= m PROVE f[1 .. k + 1] = g[1 .. k + 1]
    OBVIOUS
  <2>2. f[1 .. k] = g[1 .. k]
    BY <1>2, <2>1
  <2>3. f[1 .. k + 1] = TakeChunk(f[1 .. k], s[k + 1])
    BY <1>7, <2>1, Zenon
  <2>4. g[1 .. k + 1] = TakeChunk(g[1 .. k], q[k + 1])
    <3>1. k + 1 <= n
      BY <2>1
    <3>2. QED BY <1>8, <3>1, Zenon
  <2>5. s[k + 1] = q[k + 1]
    <3>1. k + 1 \in 1 .. m
      BY <2>1
    <3>2. QED BY <3>1 DEF Begins
  <2>6. QED BY <2>2, <2>3, <2>4, <2>5
<1>3. m \in S
  <2> HIDE DEF S
  <2> QED BY <1>1, <1>2, SetInduction
<1>4. QED BY <1>3

\* #take() handles one chunk after the other.
LEMMA TakeAppend ==
    ASSUME NEW S, NEW cs \in Seq(S), NEW c \in S, NEW need
    PROVE  /\ Take(<<>>, need) = [left |-> need, out |-> <<>>, rest |-> <<>>]
           /\ Take(Append(cs, c), need) = TakeChunk(Take(cs, need), c)
<1>1. Take(<<>>, need) = [left |-> need, out |-> <<>>, rest |-> <<>>]
  <2>1. <<>> \in Seq(S) /\ Len(<<>>) = 0
    OBVIOUS
  <2>2. PICK f : Taking(f, <<>>, need, 0) /\ Take(<<>>, need) = f[1 .. 0]
    BY <2>1, TakeTaking
  <2>3. QED BY <2>2, TakingNone
<1>2. Take(Append(cs, c), need) = TakeChunk(Take(cs, need), c)
  <2> DEFINE r == Append(cs, c)
             n == Len(cs)
  <2>1. /\ r \in Seq(S) /\ n \in Nat /\ Len(r) = n + 1 /\ n + 1 \in Nat
        /\ r[n + 1] = c /\ \A i \in 1 .. n : cs[i] = r[i]
    BY AppendProperties, LenProperties
  <2> HIDE DEF r, n
  <2>2. PICK f : Taking(f, cs, need, n) /\ Take(cs, need) = f[1 .. n]
    BY TakeTaking DEF n
  <2>3. PICK g : Taking(g, r, need, n + 1) /\ Take(r, need) = g[1 .. n + 1]
    BY <2>1, TakeTaking
  <2>4. g[1 .. n + 1] = TakeChunk(g[1 .. n], r[n + 1])
    <3>1. n + 1 <= n + 1 /\ n \in Nat
      BY <2>1
    <3>2. \A k \in Nat : k + 1 <= n + 1 => g[1 .. k + 1] = TakeChunk(g[1 .. k], r[k + 1])
      BY <2>3, TakingStep
    <3>3. QED BY <3>1, <3>2, Zenon
  <2>5. f[1 .. n] = g[1 .. n]
    <3>1. n \in Nat /\ n + 1 \in Nat /\ n <= n + 1
      BY <2>1
    <3>2. Begins(cs, r, n)
      BY <2>1 DEF Begins
    <3>3. Taking(f, cs, need, n) /\ Taking(g, r, need, n + 1)
      BY <2>2, <2>3
    <3>4. QED BY <3>1, <3>2, <3>3, TakingAgrees
  <2>6. Take(r, need) = TakeChunk(Take(cs, need), c)
    BY <2>1, <2>2, <2>3, <2>4, <2>5
  <2>7. QED BY <2>6 DEF r
<1>3. QED BY <1>1, <1>2

\* The state of the loop: what is taken and what is left are what there was, and
\* nothing is left while more is wanted.
TakenFrom(B, acc, cs, need) ==
    /\ acc.left \in Nat /\ acc.out \in Seq(B) /\ acc.rest \in Seq(Seq(B))
    /\ acc.left + Len(acc.out) = need
    /\ acc.left # 0 => acc.rest = <<>>
    /\ acc.out \o FlattenSeq(acc.rest) = FlattenSeq(cs)

Commute(a, r) == a \o r = r \o a
Regroups(o, a, r, b) == (o \o a) \o (r \o b) = (o \o r) \o (a \o b)

LEMMA Regroup ==
    ASSUME NEW B, NEW o, NEW a, NEW r, NEW b,
           o \in Seq(B) /\ a \in Seq(B) /\ r \in Seq(B) /\ b \in Seq(B), Commute(a, r)
    PROVE  Regroups(o, a, r, b)
<1>1. o \in Seq(B) /\ a \in Seq(B)
  OBVIOUS
<1>2. a \in Seq(B) /\ b \in Seq(B) /\ r \in Seq(B)
  OBVIOUS
<1>3. o \in Seq(B) /\ r \in Seq(B)
  OBVIOUS
<1> DEFINE x == r \o b
           y == a \o b
<1>4. x \in Seq(B)
  BY ONLY <1>2, ConcatProperties
<1>5. y \in Seq(B)
  BY ONLY <1>2, ConcatProperties
<1>6. a \o x = (a \o r) \o b
  BY ONLY <1>2, ConcatAssociative
<1>7. (r \o a) \o b = r \o y
  BY ONLY <1>2, ConcatAssociative
<1> HIDE DEF x, y
<1>8. (o \o a) \o x = o \o (a \o x)
  BY ONLY <1>1, <1>4, ConcatAssociative
<1>9. o \o (r \o y) = (o \o r) \o y
  BY ONLY <1>3, <1>5, ConcatAssociative
<1>10. a \o r = r \o a
  BY DEF Commute
<1>11. (o \o a) \o x = (o \o r) \o y
  BY <1>6, <1>7, <1>8, <1>9, <1>10
<1>12. QED BY <1>11 DEF x, y, Regroups

LEMMA TakeChunkKeeps ==
    ASSUME NEW B, NEW cs \in Seq(Seq(B)), NEW c \in Seq(B), NEW need \in Nat, NEW acc,
           TakenFrom(B, acc, cs, need)
    PROVE  TakenFrom(B, TakeChunk(acc, c), Append(cs, c), need)
<1> DEFINE n == IF Len(c) <= acc.left THEN Len(c) ELSE acc.left
           a == SubSeq(c, 1, n)
           b == SubSeq(c, n + 1, Len(c))
           new == TakeChunk(acc, c)
<1>1. /\ acc.left \in Nat /\ acc.out \in Seq(B) /\ acc.rest \in Seq(Seq(B))
      /\ acc.left + Len(acc.out) = need
      /\ acc.left # 0 => acc.rest = <<>>
      /\ acc.out \o FlattenSeq(acc.rest) = FlattenSeq(cs)
  BY DEF TakenFrom
<1>2. Len(c) \in Nat /\ n \in 0 .. Len(c) /\ n <= acc.left
  BY <1>1
<1>3. /\ new.left = acc.left - n /\ new.out = acc.out \o a
      /\ new.rest = IF n = Len(c) THEN acc.rest ELSE Append(acc.rest, b)
  BY DEF TakeChunk
<1>4. n # Len(c) => acc.left = n
  BY <1>1
<1>5. FlattenSeq(Append(cs, c)) = FlattenSeq(cs) \o c
  BY FlattenAppend
<1>6. FlattenSeq(<<>>) = <<>> /\ FlattenSeq(acc.rest) \in Seq(B)
  BY <1>1, FlattenType
<1> DEFINE l == acc.left
           o == acc.out
           r == acc.rest
           fr == FlattenSeq(r)
           fc == FlattenSeq(cs)
<1>7. /\ a \in Seq(B) /\ b \in Seq(B) /\ Len(a) = n /\ a \o b = c
      /\ n = Len(c) => a = c
  <2> HIDE DEF n
  <2>1. \A i \in 1 .. Len(c) : c[i] \in B
    OBVIOUS
  <2>2. a \in Seq(B) /\ Len(a) = n
    BY <1>2, <2>1, SubSeqProperties
  <2>3. b \in Seq(B)
    BY <1>2, <2>1, SubSeqProperties
  <2>4. 1 \in 1 .. Len(c) + 1 /\ n \in 1 - 1 .. Len(c) /\ Len(c) \in n .. Len(c)
    BY <1>2
  <2>5. a \o b = SubSeq(c, 1, Len(c))
    BY <2>4, ConcatAdjacentSubSeq
  <2>6. SubSeq(c, 1, Len(c)) = c
    BY SubSeqFull
  <2>7. QED BY <2>2, <2>3, <2>5, <2>6
<1>8. /\ l \in Nat /\ o \in Seq(B) /\ r \in Seq(Seq(B)) /\ l + Len(o) = need
      /\ l # 0 => r = <<>>
      /\ o \o fr = fc /\ fr \in Seq(B)
  BY <1>1, <1>6
<1> HIDE DEF n, a, b, new, l, o, r, fr, fc
<1>9. new.left = l - n /\ new.left \in Nat
  <2>1. n \in Nat /\ n <= l /\ l \in Nat
    BY <1>2, <1>8 DEF l
  <2>2. new.left = l - n
    BY <1>3 DEF l
  <2>3. QED BY <2>1, <2>2
<1>10. new.out \in Seq(B) /\ Len(new.out) = Len(o) + n
  <2>1. o \o a \in Seq(B) /\ Len(o \o a) = Len(o) + Len(a)
    BY <1>7, <1>8, ConcatProperties
  <2>2. new.out = o \o a
    BY <1>3 DEF o
  <2>3. QED BY <1>7, <2>1, <2>2
<1>11. new.left + Len(new.out) = need
  <2>1. Len(o) \in Int /\ n \in Int /\ l \in Int /\ need \in Int
    BY <1>2, <1>8
  <2>2. l + Len(o) = need
    BY <1>8
  <2>3. new.left = l - n /\ Len(new.out) = Len(o) + n
    BY <1>9, <1>10
  <2> DEFINE x == new.left
             y == Len(new.out)
             z == Len(o)
  <2>4. /\ z \in Int /\ n \in Int /\ l \in Int /\ need \in Int
        /\ l + z = need /\ x = l - n /\ y = z + n
    BY <2>1, <2>2, <2>3
  <2> HIDE DEF x, y, z
  <2>5. x + y = need
    BY <2>4
  <2>6. QED BY <2>5 DEF x, y
<1>12. CASE n = Len(c)
  <2>1. new.rest = r /\ a = c
    BY <1>3, <1>7, <1>12 DEF r
  <2>2. new.left # 0 => new.rest = <<>>
    BY <1>2, <1>8, <1>9, <2>1
  <2>3. new.out \o fr = fc \o c
    <3>1. CASE n = 0
      <4>1. c = <<>>
        BY <1>12, <3>1, EmptySeq
      <4>2. new.out = o
        BY <1>3, <1>8, <2>1, <4>1, ConcatEmptySeq DEF o
      <4>3. fc \in Seq(B)
        BY <1>8, ConcatProperties
      <4>4. QED BY <1>8, <4>1, <4>2, <4>3, ConcatEmptySeq
    <3>2. CASE n # 0
      <4>1. r = <<>>
        BY <1>2, <1>8, <3>2 DEF l
      <4>2. fr = <<>>
        BY <1>6, <4>1 DEF fr
      <4>3. fc = o
        BY <1>8, <4>2, ConcatEmptySeq
      <4>4. new.out = o \o c
        BY <1>3, <2>1 DEF o
      <4>5. QED BY <1>10, <4>2, <4>3, <4>4, ConcatEmptySeq
    <3>3. QED BY <3>1, <3>2
  <2>4. new.out \o FlattenSeq(new.rest) = FlattenSeq(Append(cs, c))
    BY <1>5, <2>1, <2>3 DEF fr, fc
  <2>5. new.rest \in Seq(Seq(B))
    BY <1>8, <2>1
  <2>6. QED BY <1>9, <1>10, <1>11, <2>2, <2>4, <2>5, Zenon DEF TakenFrom, new
<1>13. CASE n # Len(c)
  <2>1. new.rest = Append(r, b) /\ l = n
    BY <1>3, <1>4, <1>13 DEF r, l
  <2>2. new.left = 0
    BY <1>2, <1>9, <2>1
  <2>3. FlattenSeq(new.rest) = fr \o b
    BY <1>7, <1>8, <2>1, FlattenAppend DEF fr
  <2>4. (o \o a) \o (fr \o b) = fc \o c
    <3>1. Commute(a, fr)
      <4>1. CASE n = 0
        <5>1. a = <<>>
          BY <1>7, <4>1
        <5>2. QED BY <1>8, <5>1, ConcatEmptySeq DEF Commute
      <4>2. CASE n # 0
        <5>1. fr = <<>>
          BY <1>6, <1>8, <2>1, <4>2 DEF fr
        <5>2. QED BY <1>7, <5>1, ConcatEmptySeq DEF Commute
      <4>3. QED BY <4>1, <4>2
    <3>2. o \in Seq(B) /\ a \in Seq(B) /\ fr \in Seq(B) /\ b \in Seq(B)
      BY <1>7, <1>8
    <3>3. (o \o a) \o (fr \o b) = (o \o fr) \o (a \o b)
      <4>1. Regroups(o, a, fr, b)
        BY <3>1, <3>2, Regroup
      <4>2. QED BY <4>1 DEF Regroups
    <3>4. QED BY <1>7, <1>8, <3>3
  <2>5. new.out \o FlattenSeq(new.rest) = FlattenSeq(Append(cs, c))
    BY <1>3, <1>5, <2>3, <2>4 DEF o, fc
  <2>6. new.rest \in Seq(Seq(B))
    BY <1>7, <1>8, <2>1
  <2>7. QED BY <1>9, <1>10, <1>11, <2>2, <2>5, <2>6, Zenon DEF TakenFrom, new
<1>14. QED BY <1>12, <1>13

\* #take(need) splits what is buffered, provided it is enough: the caller gets
\* the first `need` bytes, and the chunks keep the others, in order.
THEOREM TakeSplitsTheBuffer ==
    ASSUME NEW B, NEW cs \in Seq(Seq(B)), NEW need \in Nat, need <= Len(FlattenSeq(cs))
    PROVE  /\ Take(cs, need).out \in Seq(B) /\ Take(cs, need).rest \in Seq(Seq(B))
           /\ Len(Take(cs, need).out) = need
           /\ Take(cs, need).out \o FlattenSeq(Take(cs, need).rest) = FlattenSeq(cs)
<1> DEFINE S == {n \in Nat : \A q \in Seq(Seq(B)) :
                     Len(q) = n => TakenFrom(B, Take(q, need), q, need)}
<1>1. 0 \in S
  <2>1. SUFFICES ASSUME NEW q \in Seq(Seq(B)), Len(q) = 0
                 PROVE  TakenFrom(B, Take(q, need), q, need)
    OBVIOUS
  <2>2. q = <<>> /\ <<>> \in Seq(B) /\ <<>> \in Seq(Seq(B))
    BY <2>1
  <2>3. Take(q, need) = [left |-> need, out |-> <<>>, rest |-> <<>>]
    BY <2>2, TakeAppend
  <2>4. FlattenSeq(<<>>) = <<>> /\ <<>> \o <<>> = <<>> /\ Len(<<>>) = 0
    BY <2>2, FlattenType, ConcatEmptySeq
  <2> DEFINE acc == [left |-> need, out |-> <<>>, rest |-> <<>>]
  <2>5. acc.left = need /\ acc.out = <<>> /\ acc.rest = <<>>
    OBVIOUS
  <2> HIDE DEF acc
  <2>6. TakenFrom(B, acc, q, need)
    BY <2>2, <2>4, <2>5 DEF TakenFrom
  <2>7. QED BY <2>3, <2>6 DEF acc
<1>2. ASSUME NEW n \in Nat, n \in S PROVE n + 1 \in S
  <2>1. SUFFICES ASSUME NEW q \in Seq(Seq(B)), Len(q) = n + 1
                 PROVE  TakenFrom(B, Take(q, need), q, need)
    <3>1. n + 1 \in Nat
      OBVIOUS
    <3>2. QED BY <2>1, <3>1, Zenon
  <2>2. q # <<>>
    BY <2>1
  <2>3. PICK r \in Seq(Seq(B)), y \in Seq(B) : q = Append(r, y)
    BY <2>2, SequenceEmptyOrAppend
  <2>4. Len(r) = n
    BY <2>1, <2>3
  <2>5. TakenFrom(B, Take(r, need), r, need)
    BY <1>2, <2>4, Zenon
  <2>6. Take(q, need) = TakeChunk(Take(r, need), y)
    BY <2>3, TakeAppend
  <2>7. QED BY <2>3, <2>5, <2>6, TakeChunkKeeps
<1>3. Nat \subseteq S
  <2> HIDE DEF S
  <2> QED BY <1>1, <1>2, SetInduction
<1>4. Len(cs) \in Nat
  OBVIOUS
<1>5. Len(cs) \in S
  BY <1>3, <1>4, Zenon
<1>6. TakenFrom(B, Take(cs, need), cs, need)
  BY <1>5, Zenon
<1> DEFINE l == Take(cs, need).left
           o == Take(cs, need).out
           r == Take(cs, need).rest
<1>7. /\ l \in Nat /\ o \in Seq(B) /\ r \in Seq(Seq(B)) /\ l + Len(o) = need
      /\ l # 0 => r = <<>>
      /\ o \o FlattenSeq(r) = FlattenSeq(cs)
  BY <1>6, Zenon DEF TakenFrom
<1> HIDE DEF l, o, r
<1>8. l = 0
  <2>1. SUFFICES ASSUME l # 0 PROVE FALSE
    OBVIOUS
  <2>2. FlattenSeq(cs) = o
    BY <1>7, <2>1, FlattenType, ConcatEmptySeq
  <2>3. Len(o) \in Nat
    BY <1>7
  <2>4. QED BY <1>7, <2>1, <2>2, <2>3
<1>9. Len(o) = need
  <2>1. Len(o) \in Nat
    BY <1>7
  <2>2. QED BY <1>7, <1>8, <2>1
<1>10. QED BY <1>7, <1>9, Zenon DEF o, r

-----------------------------------------------------------------------------
(* Types, and the byte count *)

\* #take() on a buffer that holds enough: the count stays that of the chunks.
LEMMA TakeFromSplits ==
    ASSUME NEW cs \in Seq(Seq(Byte)), NEW size, size = Len(FlattenSeq(cs)),
           NEW need \in Nat, need <= size, TakeFrom(cs, size, need)
    PROVE  /\ chunks' \in Seq(Seq(Byte)) /\ resolved' \in Seq(Byte) /\ due' = TRUE
           /\ Len(resolved') = need /\ buffered' = size - need
           /\ buffered' = Len(FlattenSeq(chunks'))
           /\ resolved' \o FlattenSeq(chunks') = FlattenSeq(cs)
<1> DEFINE o == Take(cs, need).out
           r == Take(cs, need).rest
<1>1. chunks' = r /\ resolved' = o /\ due' = TRUE /\ buffered' = size - need
  BY DEF TakeFrom
<1>2. /\ o \in Seq(Byte) /\ r \in Seq(Seq(Byte)) /\ Len(o) = need
      /\ o \o FlattenSeq(r) = FlattenSeq(cs)
  BY TakeSplitsTheBuffer
<1> HIDE DEF o, r
<1>3. FlattenSeq(r) \in Seq(Byte)
  BY <1>2, FlattenType
<1>4. Len(FlattenSeq(cs)) = Len(o) + Len(FlattenSeq(r)) /\ Len(FlattenSeq(r)) \in Nat
  BY <1>2, <1>3, ConcatProperties
<1>5. QED BY <1>1, <1>2, <1>4

\* What Data's SubSeqs are.
LEMMA WireSplits ==
    ASSUME NEW w \in Seq(Byte), NEW n \in Nat, n <= Len(w)
    PROVE  /\ SubSeq(w, 1, n) \in Seq(Byte) /\ SubSeq(w, n + 1, Len(w)) \in Seq(Byte)
           /\ Len(SubSeq(w, 1, n)) = n
           /\ SubSeq(w, 1, n) \o SubSeq(w, n + 1, Len(w)) = w
<1>1. \A i \in 1 .. Len(w) : w[i] \in Byte
  OBVIOUS
<1>2. SubSeq(w, 1, n) \in Seq(Byte) /\ Len(SubSeq(w, 1, n)) = n
  BY <1>1, SubSeqProperties
<1>3. SubSeq(w, n + 1, Len(w)) \in Seq(Byte)
  BY <1>1, SubSeqProperties
<1>4. 1 \in 1 .. Len(w) + 1 /\ n \in 1 - 1 .. Len(w) /\ Len(w) \in n .. Len(w)
  OBVIOUS
<1>5. SubSeq(w, 1, n) \o SubSeq(w, n + 1, Len(w)) = SubSeq(w, 1, Len(w))
  BY <1>4, ConcatAdjacentSubSeq
<1>6. QED BY <1>2, <1>3, <1>5, SubSeqFull

LEMMA BytesType ==
    ASSUME NEW kind \in {"pre", "hdr", "dat"}, NEW n \in Nat, NEW len \in Nat
    PROVE  Bytes(kind, n, len) \in Seq(Byte) /\ Len(Bytes(kind, n, len)) = len
  BY DEF Bytes, Byte

\* What read(need) leaves: its bytes and a continuation due, or a pending read for
\* more than there is.
Answered(need) ==
    /\ due' = TRUE /\ pending' = pending
    /\ resolved' \in Seq(Byte) /\ Len(resolved') = need
    /\ chunks' \in Seq(Seq(Byte)) /\ buffered' = Len(FlattenSeq(chunks'))
    /\ resolved' \o FlattenSeq(chunks') = FlattenSeq(chunks)

Waiting(need) ==
    /\ due' = FALSE /\ pending' = need /\ buffered < need
    /\ UNCHANGED <<chunks, buffered, resolved>>

LEMMA ReadAnswersOrWaits ==
    ASSUME TypeOK, NEW need \in Nat, Read(need)
    PROVE  (Answered(need) \/ Waiting(need)) /\ paused' \in BOOLEAN
<1>1. /\ chunks \in Seq(Seq(Byte)) /\ buffered = Len(FlattenSeq(chunks))
      /\ FlattenSeq(chunks) \in Seq(Byte) /\ buffered \in Nat
  BY FlattenType DEF TypeOK
<1>2. paused \in BOOLEAN
  BY DEF TypeOK
<1>3. CASE buffered >= need
  <2>1. TakeFrom(chunks, buffered, need) /\ pending' = pending
        /\ paused' = (paused /\ buffered - need >= ResumeBelow)
    BY <1>3 DEF Read
  <2>2. need <= buffered
    BY <1>1, <1>3
  <2>3. Answered(need)
    BY <1>1, <2>1, <2>2, TakeFromSplits DEF Answered
  <2>4. paused' \in BOOLEAN
    BY <2>1, Zenon
  <2>5. QED BY <2>3, <2>4
<1>4. CASE ~(buffered >= need)
  <2>1. /\ pending' = need /\ due' = FALSE
        /\ UNCHANGED <<chunks, buffered, paused, resolved>>
    BY <1>4 DEF Read
  <2>2. buffered < need
    BY <1>1, <1>4
  <2>3. QED BY <1>2, <2>1, <2>2 DEF Waiting
<1>5. QED BY <1>3, <1>4

\* The parts of TypeOK that reads change.
BufferOK ==
    /\ resolved \in Seq(Byte) /\ chunks \in Seq(Seq(Byte))
    /\ buffered = Len(FlattenSeq(chunks))
    /\ pending \in Nat
    /\ paused \in BOOLEAN /\ due \in BOOLEAN

LEMMA ReadTypes == ASSUME TypeOK, NEW need \in Nat, Read(need) PROVE BufferOK'
<1>1. (Answered(need) \/ Waiting(need)) /\ paused' \in BOOLEAN
  BY ReadAnswersOrWaits
<1>2. CASE Answered(need)
  <2>1. due' \in BOOLEAN /\ pending' \in Nat
    BY <1>2 DEF Answered, TypeOK
  <2>2. QED BY <1>1, <1>2, <2>1, Zenon DEF Answered, BufferOK
<1>3. CASE Waiting(need)
  <2>1. due' \in BOOLEAN /\ pending' \in Nat
    BY <1>3 DEF Waiting
  <2>2. resolved' = resolved /\ chunks' = chunks /\ buffered' = buffered
    BY <1>3 DEF Waiting
  <2>3. resolved' \in Seq(Byte) /\ chunks' \in Seq(Seq(Byte)) /\ buffered' = Len(FlattenSeq(chunks'))
    BY <2>2, Zenon DEF TypeOK
  <2>4. QED BY <1>1, <2>1, <2>3, Zenon DEF BufferOK
<1>4. QED BY <1>1, <1>2, <1>3

LEMMA PreambleFacts ==
    /\ Len(PreambleSizes) \in Nat \ {0}
    /\ \A i \in 1 .. Len(PreambleSizes) : PreambleSizes[i] \in Nat \ {0}
<1>1. PreambleSizes \in Seq(Nat \ {0}) /\ PreambleSizes # <<>>
  BY ReaderAssumption
<1>2. QED BY <1>1, EmptySeq

LEMMA InitType == Init => TypeOK
<1> SUFFICES ASSUME Init PROVE TypeOK
  OBVIOUS
<1> DEFINE blocks == [i \in 1 .. Len(PreambleSizes) |-> Bytes("pre", i, PreambleSizes[i])]
<1>1. blocks \in Seq(Seq(Byte))
  <2>1. ASSUME NEW i \in 1 .. Len(PreambleSizes)
        PROVE  Bytes("pre", i, PreambleSizes[i]) \in Seq(Byte)
    <3>1. i \in Nat /\ PreambleSizes[i] \in Nat
      BY PreambleFacts
    <3>2. QED BY <3>1, BytesType
  <2>2. QED BY <2>1, PreambleFacts
<1>2. wire \in Seq(Byte)
  <2>1. wire = FlattenSeq(blocks)
    BY DEF Init, Preamble
  <2> HIDE DEF blocks
  <2>2. QED BY <1>1, <2>1, FlattenType
<1>3. <<>> \in Seq(Byte) /\ <<>> \in Seq(Seq(Byte)) /\ <<>> \in Seq(Lengths)
      /\ Len(FlattenSeq(<<>>)) = 0
  BY DEF FlattenSeq
<1>4. pending \in Nat /\ block \in 1 .. Len(PreambleSizes)
  BY PreambleFacts DEF Init
<1>5. {paused, due, closed} \subseteq BOOLEAN
  BY DEF Init
<1>6. QED BY <1>2, <1>3, <1>4, <1>5 DEF Init, TypeOK

\* Every step keeps the types and the count.
LEMMA NextType == TypeOK /\ [Next]_vars => TypeOK'
<1> SUFFICES ASSUME TypeOK, [Next]_vars PROVE TypeOK'
  OBVIOUS
<1>0. /\ BufferOK /\ closed \in BOOLEAN
      /\ wire \in Seq(Byte) /\ link \in {"open", "ended", "reset"} /\ sent \in Seq(Lengths)
      /\ emitted \in Seq(Seq(Byte)) /\ error \in {"none", "end", "error", "close"}
      /\ awaits \in {"preamble", "header", "payload", "nothing"}
      /\ block \in 1 .. Len(PreambleSizes)
  <2>1. BufferOK /\ closed \in BOOLEAN
    <3>1. paused \in BOOLEAN /\ due \in BOOLEAN /\ closed \in BOOLEAN
      BY DEF TypeOK
    <3>2. QED BY <3>1, Zenon DEF TypeOK, BufferOK
  <2>2. QED BY <2>1, Zenon DEF TypeOK
<1> DEFINE Others == /\ wire \in Seq(Byte) /\ link \in {"open", "ended", "reset"}
                     /\ sent \in Seq(Lengths) /\ emitted \in Seq(Seq(Byte))
                     /\ error \in {"none", "end", "error", "close"}
                     /\ awaits \in {"preamble", "header", "payload", "nothing"}
                     /\ block \in 1 .. Len(PreambleSizes)
<1>1. ASSUME BufferOK', closed' \in BOOLEAN, Others' PROVE TypeOK'
  <2>1. {paused', due', closed'} \subseteq BOOLEAN
    <3>1. paused' \in BOOLEAN /\ due' \in BOOLEAN
      BY <1>1, Zenon DEF BufferOK
    <3>2. QED BY <1>1, <3>1, Zenon
  <2>2. QED BY <1>1, <2>1, Zenon DEF BufferOK, TypeOK
<1>2. ASSUME NEW n \in 1 .. MaxChunk, Data(n) PROVE TypeOK'
  <2> DEFINE w == SubSeq(wire, 1, n)
             all == Append(chunks, w)
             size == buffered + n
  <2>1. /\ n \in Nat /\ n <= Len(wire)
        /\ wire' = SubSeq(wire, n + 1, Len(wire))
        /\ UNCHANGED <<link, sent, error, awaits, block, emitted, closed>>
    BY <1>2, ReaderAssumption DEF Data
  <2>2. w \in Seq(Byte) /\ Len(w) = n /\ wire' \in Seq(Byte)
    BY <1>0, <2>1, WireSplits
  <2>3. Others' /\ closed' \in BOOLEAN
    BY <1>0, <2>1, <2>2
  <2>4. /\ chunks \in Seq(Seq(Byte)) /\ buffered = Len(FlattenSeq(chunks))
        /\ FlattenSeq(chunks) \in Seq(Byte) /\ buffered \in Nat /\ pending \in Nat
    BY FlattenType DEF TypeOK
  <2>5. /\ CASE Settles(size) -> /\ TakeFrom(all, size, pending) /\ pending' = NoRead
                                 /\ paused' = Behind(size - pending)
           [] OTHER -> /\ chunks' = all /\ buffered' = size /\ paused' = Behind(size)
                       /\ UNCHANGED <<pending, due, resolved>>
    BY <1>2 DEF Data
  <2> HIDE DEF w, Others
  <2>6. all \in Seq(Seq(Byte)) /\ FlattenSeq(all) = FlattenSeq(chunks) \o w
    BY <2>2, <2>4, FlattenAppend
  <2>7. size = Len(FlattenSeq(all)) /\ size \in Nat
    <3>1. Len(FlattenSeq(chunks) \o w) = Len(FlattenSeq(chunks)) + Len(w)
      BY <2>2, <2>4, ConcatProperties
    <3>2. QED BY <2>1, <2>2, <2>4, <2>6, <3>1
  <2> HIDE DEF all, size
  <2>8. BufferOK'
    <3>1. CASE Settles(size)
      <4>1. /\ TakeFrom(all, size, pending) /\ pending' = NoRead
            /\ paused' = Behind(size - pending)
        BY <2>5, <3>1
      <4>2. pending <= size
        BY <2>4, <2>7, <3>1 DEF Settles
      <4>3. /\ chunks' \in Seq(Seq(Byte)) /\ resolved' \in Seq(Byte) /\ due' = TRUE
            /\ buffered' = Len(FlattenSeq(chunks'))
        BY <2>4, <2>6, <2>7, <4>1, <4>2, TakeFromSplits
      <4>4. paused' \in BOOLEAN /\ due' \in BOOLEAN /\ pending' \in Nat
        BY <4>1, <4>3 DEF Behind, NoRead
      <4>5. QED BY <4>3, <4>4, Zenon DEF BufferOK
    <3>2. CASE ~Settles(size)
      <4>1. /\ chunks' = all /\ buffered' = size /\ paused' = Behind(size)
            /\ UNCHANGED <<pending, due, resolved>>
        BY <2>5, <3>2
      <4>2. paused' \in BOOLEAN
        BY <4>1 DEF Behind
      <4>3. due' \in BOOLEAN /\ pending' \in Nat /\ resolved' \in Seq(Byte)
        BY <1>0, <4>1 DEF BufferOK
      <4>4. chunks' \in Seq(Seq(Byte)) /\ buffered' = Len(FlattenSeq(chunks'))
        BY <2>6, <2>7, <4>1
      <4>5. QED BY <4>2, <4>3, <4>4, Zenon DEF BufferOK
    <3>3. QED BY <3>1, <3>2
  <2>9. QED BY <1>1, <2>3, <2>8
<1>3. ASSUME NEW event \in {"end", "error", "close"}, Fail(event) PROVE TypeOK'
  <2>1. /\ error' = event /\ pending' = NoRead /\ closed' = ~due
        /\ awaits' = (IF due THEN awaits ELSE "nothing")
        /\ UNCHANGED <<socketVars, chunks, buffered, paused, due, resolved, block, emitted>>
    BY <1>3 DEF Fail
  <2>2. closed' \in BOOLEAN
    BY <2>1
  <2>3. Others'
    BY <1>0, <2>1 DEF socketVars
  <2>4. paused' \in BOOLEAN /\ due' \in BOOLEAN /\ pending' \in Nat
    BY <1>0, <2>1 DEF BufferOK, NoRead
  <2>5. resolved' = resolved /\ chunks' = chunks /\ buffered' = buffered
    BY <2>1
  <2>6. BufferOK'
    BY <1>0, <2>4, <2>5, Zenon DEF BufferOK
  <2>7. QED BY <1>1, <2>2, <2>3, <2>6
<1>4. CASE Consume
  <2>1. UNCHANGED <<socketVars, error>>
    BY <1>4 DEF Consume
  <2>2. ASSUME NEW need \in Nat, Read(need), closed' \in BOOLEAN,
               awaits' \in {"preamble", "header", "payload", "nothing"},
               block' \in 1 .. Len(PreambleSizes), emitted' \in Seq(Seq(Byte))
        PROVE  TypeOK'
    <3>1. BufferOK'
      BY <2>2, ReadTypes
    <3>2. Others'
      BY <1>0, <2>1, <2>2 DEF socketVars
    <3>3. QED BY <1>1, <2>2, <3>1, <3>2
  <2>3. CASE /\ awaits = "preamble" /\ block < Len(PreambleSizes)
             /\ block' = block + 1 /\ Read(PreambleSizes[block + 1])
             /\ UNCHANGED <<awaits, emitted, closed>>
    <3>1. block + 1 \in 1 .. Len(PreambleSizes) /\ PreambleSizes[block + 1] \in Nat
      BY <1>0, <2>3, PreambleFacts
    <3>2. QED BY <1>0, <2>2, <2>3, <3>1
  <2>4. CASE Read(HeaderSize) /\ awaits' = "header" /\ UNCHANGED <<block, emitted, closed>>
    BY <1>0, <2>2, <2>4, HeaderIsSome
  <2>5. CASE /\ awaits = "header" /\ ~Implausible(resolved[1][2]) /\ awaits' = "payload"
             /\ Read(resolved[1][2]) /\ UNCHANGED <<block, emitted, closed>>
    <3>1. resolved[1][2] \in Nat
      BY <2>5, ReaderAssumption DEF Implausible
    <3>2. QED BY <1>0, <2>2, <2>5, <3>1
  <2>6. CASE /\ emitted' = Append(emitted, resolved) /\ awaits' = "header"
             /\ Read(HeaderSize) /\ UNCHANGED <<block, closed>>
    <3>1. emitted' \in Seq(Seq(Byte))
      BY <1>0, <2>6 DEF BufferOK
    <3>2. QED BY <1>0, <2>2, <2>6, <3>1, HeaderIsSome
  <2>7. CASE /\ awaits' = "nothing" /\ closed' = TRUE /\ due' = FALSE
             /\ UNCHANGED <<block, emitted, chunks, buffered, pending, paused, resolved>>
    <3>1. Others'
      BY <1>0, <2>1, <2>7 DEF socketVars
    <3>2. due' \in BOOLEAN /\ closed' \in BOOLEAN
      BY <2>7
    <3>3. resolved' = resolved /\ chunks' = chunks /\ buffered' = buffered
          /\ pending' = pending /\ paused' = paused
      BY <2>7
    <3>4. BufferOK'
      BY <1>0, <3>2, <3>3, Zenon DEF BufferOK
    <3>5. QED BY <1>1, <3>1, <3>2, <3>4
  <2>8. QED BY <1>4, <2>3, <2>4, <2>5, <2>6, <2>7 DEF Consume
<1>5. ASSUME NEW len \in Lengths, SendFrame(len) PROVE TypeOK'
  <2>1. /\ sent' = Append(sent, len)
        /\ wire' = wire \o Bytes("hdr", len, HeaderSize) \o Bytes("dat", Len(sent) + 1, len)
        /\ UNCHANGED <<link, chunks, buffered, pending, paused, error, due, resolved,
                       awaits, block, emitted, closed>>
    BY <1>5 DEF SendFrame
  <2>2. Bytes("hdr", len, HeaderSize) \in Seq(Byte)
        /\ Bytes("dat", Len(sent) + 1, len) \in Seq(Byte)
    <3>1. len \in Nat /\ HeaderSize \in Nat /\ Len(sent) + 1 \in Nat
      BY <1>0, ReaderAssumption, HeaderIsSome
    <3>2. QED BY <3>1, BytesType
  <2>3. wire' \in Seq(Byte) /\ sent' \in Seq(Lengths)
    BY <1>0, <2>1, <2>2
  <2>4. QED BY <1>0, <1>1, <2>1, <2>3 DEF BufferOK
<1>6. CASE DeviceEnds
  <2>1. /\ link' \in {"ended", "reset"} /\ wire' \in {wire, <<>>}
        /\ UNCHANGED <<sent, chunks, buffered, pending, paused, error, due, resolved,
                       awaits, block, emitted, closed>>
    BY <1>6 DEF DeviceEnds
  <2>2. wire' \in Seq(Byte)
    <3>1. wire \in Seq(Byte) /\ <<>> \in Seq(Byte)
      BY <1>0
    <3>2. QED BY <2>1, <3>1, Zenon
  <2>3. QED BY <1>0, <1>1, <2>1, <2>2 DEF BufferOK
<1>7. CASE UNCHANGED vars
  BY <1>0, <1>1, <1>7 DEF vars, socketVars, BufferOK
<1>8. QED
  BY <1>2, <1>3, <1>4, <1>5, <1>6, <1>7
     DEF Next, SocketEnds, SocketResets, ServerExits

\* StreamReader.buffered is the number of bytes in StreamReader.chunks, whatever
\* is pushed and taken; and every variable has its type.
THEOREM CountIsThatOfTheChunks == Spec => []TypeOK
<1>1. Init => TypeOK BY InitType
<1>2. TypeOK /\ [Next]_vars => TypeOK' BY NextType
<1>3. QED BY <1>1, <1>2, PTL DEF Spec

-----------------------------------------------------------------------------
(* The stream as a sequence of parts, each of which #readVideo() reads with   *)
(* one read(): the blocks of the preamble, then, for each of the lengths s    *)
(* that the device has sent, a header and a payload.                          *)

Blocks == Len(PreambleSizes)
Count(s) == Blocks + 2 * Len(s)

Part(s, i) ==
    IF i <= Blocks THEN Bytes("pre", i, PreambleSizes[i])
    ELSE IF (i - Blocks) % 2 = 1
         THEN Bytes("hdr", s[(i - Blocks + 1) \div 2], HeaderSize)
         ELSE Bytes("dat", (i - Blocks) \div 2, s[(i - Blocks) \div 2])

\* The parts from the j-th on.
Remaining(s, j) == [i \in 1 .. Count(s) - j + 1 |-> Part(s, j + i - 1)]

\* How many bytes the read of the j-th part asks for, which may be yet to come.
Need(s, j) == IF j <= Count(s) THEN Len(Part(s, j)) ELSE HeaderSize

\* The bytes u are those of the stream from its j-th part on, but for what a reset
\* of the link l has lost.
Precede(u, l, s, j) ==
    \E lost \in Seq(Byte) : /\ u \o lost = FlattenSeq(Remaining(s, j))
                            /\ lost # <<>> => l = "reset"

LEMMA LengthsAreNat ==
    ASSUME NEW s \in Seq(Lengths), NEW i \in 1 .. Len(s)
    PROVE  s[i] \in Nat
<1>1. s[i] \in Lengths
  BY ElementOfSeq
<1>2. Lengths \subseteq Nat
  BY ReaderAssumption
<1>3. QED BY <1>1, <1>2

\* The parts are the preamble's blocks, and two for each frame.
LEMMA PartFacts ==
    ASSUME NEW s \in Seq(Lengths)
    PROVE  /\ Count(s) \in Nat /\ Blocks \in Nat /\ Len(s) \in Nat
           /\ Blocks >= 1 /\ Count(s) = Blocks + 2 * Len(s)
           /\ \A i \in 1 .. Blocks : Part(s, i) = Bytes("pre", i, PreambleSizes[i])
           /\ \A k \in Nat : /\ Part(s, Blocks + 2 * k + 1) = Bytes("hdr", s[k + 1], HeaderSize)
                             /\ Part(s, Blocks + 2 * k + 2) = Bytes("dat", k + 1, s[k + 1])
           /\ \A i \in 1 .. Count(s) : Part(s, i) \in Seq(Byte)
<1>1. Blocks \in Nat /\ Blocks >= 1 /\ Len(s) \in Nat /\ Count(s) = Blocks + 2 * Len(s)
  BY PreambleFacts DEF Blocks, Count
<1>2. \A i \in 1 .. Blocks : Part(s, i) = Bytes("pre", i, PreambleSizes[i])
  BY <1>1 DEF Part
<1>3. ASSUME NEW k \in Nat
      PROVE  /\ Part(s, Blocks + 2 * k + 1) = Bytes("hdr", s[k + 1], HeaderSize)
             /\ Part(s, Blocks + 2 * k + 2) = Bytes("dat", k + 1, s[k + 1])
  <2> DEFINE a == Blocks + 2 * k + 1
             b == Blocks + 2 * k + 2
  <2>1. ~(a <= Blocks) /\ (a - Blocks) % 2 = 1 /\ (a - Blocks + 1) \div 2 = k + 1
    BY <1>1
  <2>2. ~(b <= Blocks) /\ (b - Blocks) % 2 # 1 /\ (b - Blocks) \div 2 = k + 1
    BY <1>1
  <2> HIDE DEF a, b
  <2>3. Part(s, a) = Bytes("hdr", s[k + 1], HeaderSize)
    BY <2>1 DEF Part
  <2>4. Part(s, b) = Bytes("dat", k + 1, s[k + 1])
    BY <2>2 DEF Part
  <2>5. QED BY <2>3, <2>4 DEF a, b
<1>4. ASSUME NEW i \in 1 .. Count(s) PROVE Part(s, i) \in Seq(Byte)
  <2>1. i \in Nat
    BY <1>1
  <2>2. CASE i <= Blocks
    <3>1. i \in 1 .. Blocks
      BY <1>1, <2>2
    <3>2. PreambleSizes[i] \in Nat
      BY <3>1, PreambleFacts DEF Blocks
    <3>3. Bytes("pre", i, PreambleSizes[i]) \in Seq(Byte)
      BY <2>1, <3>2, BytesType
    <3>4. QED BY <1>2, <3>1, <3>3
  <2>3. CASE ~(i <= Blocks)
    <3> DEFINE k == (i - Blocks - 1) \div 2
    <3>1. k \in Nat /\ (i = Blocks + 2 * k + 1 \/ i = Blocks + 2 * k + 2)
      BY <1>1, <2>1, <2>3
    <3> HIDE DEF k
    <3>2. k + 1 \in 1 .. Len(s) /\ k + 1 \in Nat
      BY <1>1, <3>1
    <3>3. s[k + 1] \in Nat /\ HeaderSize \in Nat
      BY <3>2, LengthsAreNat, HeaderIsSome
    <3>4. Bytes("hdr", s[k + 1], HeaderSize) \in Seq(Byte)
          /\ Bytes("dat", k + 1, s[k + 1]) \in Seq(Byte)
      BY <3>2, <3>3, BytesType
    <3>5. QED BY <1>3, <3>1, <3>4
  <2>4. QED BY <2>2, <2>3
<1>5. QED BY <1>1, <1>2, <1>3, <1>4

\* The lengths of the parts are those of the reads.
LEMMA PartLengths ==
    ASSUME NEW s \in Seq(Lengths)
    PROVE  /\ \A i \in 1 .. Blocks : Need(s, i) = PreambleSizes[i]
           /\ \A k \in 0 .. Len(s) : Need(s, Blocks + 2 * k + 1) = HeaderSize
           /\ \A k \in Nat : k < Len(s) => Need(s, Blocks + 2 * k + 2) = s[k + 1]
<1>1. /\ Count(s) \in Nat /\ Blocks \in Nat /\ Len(s) \in Nat
      /\ Blocks >= 1 /\ Count(s) = Blocks + 2 * Len(s)
      /\ \A i \in 1 .. Blocks : Part(s, i) = Bytes("pre", i, PreambleSizes[i])
      /\ \A k \in Nat : /\ Part(s, Blocks + 2 * k + 1) = Bytes("hdr", s[k + 1], HeaderSize)
                        /\ Part(s, Blocks + 2 * k + 2) = Bytes("dat", k + 1, s[k + 1])
  BY PartFacts
<1>2. ASSUME NEW i \in 1 .. Blocks PROVE Need(s, i) = PreambleSizes[i]
  <2>1. i \in Nat /\ i <= Count(s) /\ PreambleSizes[i] \in Nat
    BY <1>1, PreambleFacts DEF Blocks
  <2>2. Len(Bytes("pre", i, PreambleSizes[i])) = PreambleSizes[i]
    BY <2>1, BytesType
  <2>3. QED BY <1>1, <2>1, <2>2 DEF Need
<1>3. ASSUME NEW k \in 0 .. Len(s) PROVE Need(s, Blocks + 2 * k + 1) = HeaderSize
  <2>1. CASE k = Len(s)
    <3>1. ~(Blocks + 2 * k + 1 <= Count(s))
      BY <1>1, <2>1
    <3>2. QED BY <3>1 DEF Need
  <2>2. CASE k # Len(s)
    <3>1. k + 1 \in 1 .. Len(s) /\ k \in Nat /\ Blocks + 2 * k + 1 <= Count(s)
      BY <1>1, <2>2
    <3>2. s[k + 1] \in Nat /\ HeaderSize \in Nat
      BY <3>1, LengthsAreNat, HeaderIsSome
    <3>3. Len(Bytes("hdr", s[k + 1], HeaderSize)) = HeaderSize
      BY <3>2, BytesType
    <3>4. QED BY <1>1, <3>1, <3>3 DEF Need
  <2>3. QED BY <2>1, <2>2
<1>4. ASSUME NEW k \in Nat, k < Len(s) PROVE Need(s, Blocks + 2 * k + 2) = s[k + 1]
  <2>1. k + 1 \in 1 .. Len(s) /\ k + 1 \in Nat /\ Blocks + 2 * k + 2 <= Count(s)
    BY <1>1, <1>4
  <2>2. s[k + 1] \in Nat
    BY <2>1, LengthsAreNat
  <2>3. Len(Bytes("dat", k + 1, s[k + 1])) = s[k + 1]
    BY <2>1, <2>2, BytesType
  <2>4. QED BY <1>1, <2>1, <2>3 DEF Need
<1>5. QED BY <1>2, <1>3, <1>4

\* The stream from the j-th part on is that part, and the stream after it.
LEMMA RemainingFront ==
    ASSUME NEW s \in Seq(Lengths), NEW j \in 1 .. Count(s)
    PROVE  FlattenSeq(Remaining(s, j)) = Part(s, j) \o FlattenSeq(Remaining(s, j + 1))
<1>1. Count(s) \in Nat /\ \A i \in 1 .. Count(s) : Part(s, i) \in Seq(Byte)
  BY PartFacts
<1>2. j \in Nat /\ j >= 1 /\ j <= Count(s)
  BY <1>1
<1> DEFINE x == Part(s, j)
           n == Count(s) - j
           r == Remaining(s, j + 1)
<1>3. x \in Seq(Byte)
  BY <1>1
<1>4. n \in Nat /\ r = [i \in 1 .. n |-> Part(s, j + i)] /\ Len(r) = n /\ r \in Seq(Seq(Byte))
  <2>1. n \in Nat /\ Count(s) - (j + 1) + 1 = n
    BY <1>1, <1>2
  <2>2. \A i \in 1 .. n : j + 1 + i - 1 = j + i /\ j + i \in 1 .. Count(s)
    BY <1>1, <1>2
  <2>3. r = [i \in 1 .. n |-> Part(s, j + i)]
    BY <2>1, <2>2 DEF Remaining
  <2>4. \A i \in 1 .. n : Part(s, j + i) \in Seq(Byte)
    BY <1>1, <2>2
  <2>5. QED BY <2>1, <2>3, <2>4
<1>5. Remaining(s, j) = <<x>> \o r
  <2> DEFINE l == Remaining(s, j)
             q == <<x>> \o r
  <2>1. l = [i \in 1 .. n + 1 |-> Part(s, j + i - 1)]
    BY DEF Remaining
  <2>2. \A i \in 1 .. n + 1 : j + i - 1 \in 1 .. Count(s)
    BY <1>1, <1>2
  <2>3. l \in Seq(Seq(Byte)) /\ Len(l) = n + 1
    <3>1. \A i \in 1 .. n + 1 : Part(s, j + i - 1) \in Seq(Byte)
      BY <1>1, <2>2
    <3>2. n + 1 \in Nat
      BY <1>4
    <3> HIDE DEF l, n
    <3>3. QED BY <2>1, <3>1, <3>2
  <2>4. <<x>> \in Seq(Seq(Byte)) /\ Len(<<x>>) = 1
    BY <1>3
  <2> HIDE DEF x, n, r, l
  <2>5. /\ q \in Seq(Seq(Byte)) /\ Len(q) = 1 + n
        /\ \A i \in 1 .. 1 + n : q[i] = IF i <= 1 THEN <<x>>[i] ELSE r[i - 1]
    BY <1>4, <2>4, ConcatProperties
  <2> HIDE DEF q
  <2>6. ASSUME NEW i \in 1 .. n + 1 PROVE l[i] = q[i]
    <3>1. CASE i = 1
      <4>1. l[1] = Part(s, j)
        BY <1>2, <1>4, <2>1, <3>1
      <4>2. q[1] = x
        BY <1>4, <2>5
      <4>3. QED BY <3>1, <4>1, <4>2 DEF x
    <3>2. CASE i # 1
      <4>1. i - 1 \in 1 .. n /\ i \in 1 .. 1 + n /\ ~(i <= 1) /\ j + (i - 1) = j + i - 1
        BY <1>2, <1>4, <3>2
      <4>2. q[i] = r[i - 1]
        BY <2>5, <4>1
      <4>3. r[i - 1] = Part(s, j + i - 1)
        BY <1>4, <4>1
      <4>4. QED BY <2>1, <4>2, <4>3
    <3>3. QED BY <3>1, <3>2
  <2>7. l = q
    BY <1>4, <2>3, <2>5, <2>6, SeqEqual
  <2>8. QED BY <2>7 DEF l, q
<1> HIDE DEF x, r
<1>6. FlattenSeq(<<x>> \o r) = x \o FlattenSeq(r)
  BY <1>3, <1>4, FlattenFront
<1>7. QED BY <1>5, <1>6 DEF x, r

\* What remains is a sequence of parts; after the last part nothing.
LEMMA RemainingType ==
    ASSUME NEW s \in Seq(Lengths), NEW j \in 1 .. Count(s) + 1
    PROVE  /\ Remaining(s, j) \in Seq(Seq(Byte))
           /\ FlattenSeq(Remaining(s, j)) \in Seq(Byte)
           /\ j = Count(s) + 1 => FlattenSeq(Remaining(s, j)) = <<>>
<1>1. Count(s) \in Nat /\ \A i \in 1 .. Count(s) : Part(s, i) \in Seq(Byte)
  BY PartFacts
<1> DEFINE n == Count(s) - j + 1
<1>2. n \in Nat /\ \A i \in 1 .. n : j + i - 1 \in 1 .. Count(s)
  BY <1>1
<1>3. Remaining(s, j) = [i \in 1 .. n |-> Part(s, j + i - 1)]
  BY DEF Remaining
<1> HIDE DEF n
<1>4. Remaining(s, j) \in Seq(Seq(Byte)) /\ Len(Remaining(s, j)) = n
  BY <1>1, <1>2, <1>3
<1>5. ASSUME j = Count(s) + 1 PROVE FlattenSeq(Remaining(s, j)) = <<>>
  <2>1. n = 0
    BY <1>1, <1>5 DEF n
  <2>2. Remaining(s, j) = <<>>
    BY <1>4, <2>1
  <2>3. QED BY <2>2, FlattenType
<1>6. FlattenSeq(Remaining(s, j)) \in Seq(Byte)
  BY <1>4, FlattenType
<1>7. QED BY <1>4, <1>5, <1>6

\* Two ways to cut the same bytes at the same place are the same.
LEMMA SameCut ==
    ASSUME NEW B, NEW a \in Seq(B), NEW x \in Seq(B), NEW b \in Seq(B), NEW y \in Seq(B),
           Len(a) = Len(b), a \o x = b \o y
    PROVE  a = b /\ x = y
<1>1. \A i \in 1 .. Len(a) : a[i] = b[i]
  <2>1. SUFFICES ASSUME NEW i \in 1 .. Len(a) PROVE a[i] = b[i]
    OBVIOUS
  <2>2. (a \o x)[i] = a[i]
    BY ConcatProperties
  <2>3. (b \o y)[i] = b[i]
    BY ConcatProperties
  <2>4. QED BY <2>2, <2>3
<1>2. a = b
  BY <1>1, SeqEqual
<1>3. a \o x = a \o y
  BY <1>2
<1>4. x = y
  BY <1>3, ConcatSimplifications
<1>5. QED BY <1>2, <1>4

-----------------------------------------------------------------------------
(* The order of the stream *)

\* The bytes received and not read, and those on their way.
Unread == FlattenSeq(chunks) \o wire

\* The number of the part that #readVideo() is reading: with `a` it awaits,
\* b blocks of the preamble begun and k frames emitted.
Place(a, b, k) ==
    IF a = "preamble" THEN b
    ELSE IF a = "header" THEN Blocks + 2 * k + 1
    ELSE Blocks + 2 * k + 2

\* A read that has resolved has brought its part, and what is unread follows it; a
\* pending read asks for the part that what is unread begins with.
Placed(j) ==
    IF due
    THEN j <= Count(sent) /\ resolved = Part(sent, j) /\ Precede(Unread, link, sent, j + 1)
    ELSE pending = Need(sent, j) /\ Precede(Unread, link, sent, j)

OrderInv ==
    /\ Len(emitted) <= Len(sent)
    /\ \A k \in 1 .. Len(emitted) : emitted[k] = Bytes("dat", k, sent[k])
    /\ awaits = "preamble" => emitted = <<>>
    /\ awaits = "payload" => Len(emitted) < Len(sent)
    /\ awaits # "nothing" => Placed(Place(awaits, block, Len(emitted)))

\* Either a read is pending and lacks bytes, or one has resolved and its
\* continuation is due, or the stream is closed.
TurnInv ==
    /\ closed <=> awaits = "nothing"
    /\ due => pending = NoRead /\ ~closed
    /\ pending # NoRead => buffered < pending
    /\ ~due /\ ~closed => pending # NoRead

\* When the device has ended the stream, all its frames have been emitted.
EndInv == error = "end" => link = "ended" /\ (block = 1 \/ Len(emitted) = Len(sent))

StreamInv == OrderInv /\ TurnInv /\ EndInv

\* Bytes taken off the front are those of the part, and the others follow it.
LEMMA TakenIsPart ==
    ASSUME NEW s \in Seq(Lengths), NEW l, NEW j \in 1 .. Count(s) + 1,
           NEW u, NEW o \in Seq(Byte), NEW r \in Seq(Byte),
           u = o \o r, Len(o) = Need(s, j), Precede(u, l, s, j)
    PROVE  j <= Count(s) /\ o = Part(s, j) /\ Precede(r, l, s, j + 1)
<1>1. PICK lost \in Seq(Byte) : /\ u \o lost = FlattenSeq(Remaining(s, j))
                                /\ lost # <<>> => l = "reset"
  BY DEF Precede
<1>2. (o \o r) \o lost = o \o (r \o lost) /\ r \o lost \in Seq(Byte)
  BY ConcatAssociative, ConcatProperties
<1>3. o \o (r \o lost) = FlattenSeq(Remaining(s, j))
  BY <1>1, <1>2
<1>4. Count(s) \in Nat /\ \A i \in 1 .. Count(s) : Part(s, i) \in Seq(Byte)
  BY PartFacts
<1>5. j <= Count(s)
  <2>1. SUFFICES ASSUME j = Count(s) + 1 PROVE FALSE
    BY <1>4
  <2>2. o \o (r \o lost) = <<>>
    BY <1>3, <2>1, RemainingType
  <2>3. o = <<>>
    BY <1>2, <2>2, ConcatEqualIffEmpty
  <2>4. Need(s, j) \in Nat \ {0}
    BY <1>4, <2>1, HeaderIsSome DEF Need
  <2>5. QED BY <2>3, <2>4
<1>6. j \in 1 .. Count(s) /\ j + 1 \in 1 .. Count(s) + 1
  BY <1>4, <1>5
<1> DEFINE p == Part(s, j)
           f == FlattenSeq(Remaining(s, j + 1))
           x == r \o lost
<1>7. p \in Seq(Byte) /\ f \in Seq(Byte) /\ FlattenSeq(Remaining(s, j)) = p \o f
  BY <1>4, <1>6, RemainingFront, RemainingType
<1>8. Len(o) = Len(p)
  BY <1>5 DEF Need
<1>9. x \in Seq(Byte) /\ o \o x = p \o f
  BY <1>2, <1>3, <1>7
<1> HIDE DEF p, f, x
<1>10. o = p /\ x = f
  BY <1>7, <1>8, <1>9, SameCut
<1>11. Precede(r, l, s, j + 1)
  BY <1>1, <1>10 DEF Precede, x, f
<1>12. QED BY <1>5, <1>10, <1>11 DEF p

\* Where a place is.
LEMMA Places ==
    ASSUME TypeOK, OrderInv, awaits # "nothing"
    PROVE  /\ Place(awaits, block, Len(emitted)) \in 1 .. Count(sent) + 1
           /\ Place(awaits, block, Len(emitted)) = Count(sent) + 1
                => awaits = "header" /\ Len(emitted) = Len(sent)
<1>1. /\ Count(sent) \in Nat /\ Blocks \in Nat /\ Len(sent) \in Nat
      /\ Blocks >= 1 /\ Count(sent) = Blocks + 2 * Len(sent)
  <2>1. sent \in Seq(Lengths)
    BY DEF TypeOK
  <2>2. QED BY <2>1, PartFacts
<1>2. block \in 1 .. Blocks /\ Len(emitted) \in Nat /\ Len(emitted) <= Len(sent)
  BY DEF TypeOK, OrderInv, Blocks
<1>3. CASE awaits = "preamble"
  BY <1>1, <1>2, <1>3 DEF Place
<1>4. CASE awaits = "header"
  BY <1>1, <1>2, <1>4 DEF Place
<1>5. CASE awaits = "payload"
  <2>1. Len(emitted) < Len(sent)
    BY <1>5 DEF OrderInv
  <2>2. QED BY <1>1, <1>2, <1>5, <2>1 DEF Place
<1>6. QED BY <1>3, <1>4, <1>5 DEF TypeOK

\* read() of the part that is next.
LEMMA ReadPlaces ==
    ASSUME TypeOK, NEW j \in 1 .. Count(sent) + 1, UNCHANGED <<wire, link, sent>>,
           Precede(Unread, link, sent, j), Answered(Need(sent, j)) \/ Waiting(Need(sent, j))
    PROVE  Placed(j)'
<1>1. sent \in Seq(Lengths) /\ wire \in Seq(Byte) /\ FlattenSeq(chunks) \in Seq(Byte)
  BY FlattenType DEF TypeOK
<1>2. CASE Answered(Need(sent, j))
  <2> DEFINE o == resolved'
             f == FlattenSeq(chunks')
             r == f \o wire
  <2>1. /\ due' = TRUE /\ o \in Seq(Byte) /\ Len(o) = Need(sent, j) /\ f \in Seq(Byte)
        /\ o \o f = FlattenSeq(chunks)
    BY <1>2, FlattenType DEF Answered
  <2>2. r \in Seq(Byte) /\ Unread' = r
    BY <1>1, <2>1, ConcatProperties DEF Unread
  <2>3. Unread = o \o r
    <3> HIDE DEF o, f
    <3>1. o \in Seq(Byte) /\ f \in Seq(Byte) /\ wire \in Seq(Byte)
      BY <1>1, <2>1
    <3>2. (o \o f) \o wire = o \o (f \o wire)
      BY ONLY <3>1, ConcatAssociative
    <3>3. QED BY <2>1, <3>2 DEF Unread
  <2> HIDE DEF o, f, r
  <2>4. j <= Count(sent) /\ o = Part(sent, j) /\ Precede(r, link, sent, j + 1)
    BY <1>1, <2>1, <2>2, <2>3, TakenIsPart
  <2>5. link' = link /\ sent' = sent
    OBVIOUS
  <2>6. QED BY <2>1, <2>2, <2>4, <2>5 DEF Placed, o
<1>3. CASE Waiting(Need(sent, j))
  <2>1. due' = FALSE /\ pending' = Need(sent, j) /\ chunks' = chunks
    BY <1>3 DEF Waiting
  <2>2. Unread' = Unread /\ link' = link /\ sent' = sent
    BY <2>1 DEF Unread
  <2>3. QED BY <2>1, <2>2 DEF Placed
<1>4. QED BY <1>2, <1>3

\* The 'data' handler: the chunk goes from the wire to the buffer, and #settle()
\* takes from the front.
LEMMA DataPlaces ==
    ASSUME TypeOK, OrderInv, TurnInv, NEW n \in 1 .. MaxChunk, Data(n)
    PROVE  OrderInv' /\ TurnInv'
<1> DEFINE w == SubSeq(wire, 1, n)
           all == Append(chunks, w)
           size == buffered + n
<1>0. PICK j : j = Place(awaits, block, Len(emitted))
  OBVIOUS
<1>1. /\ n \in Nat /\ n <= Len(wire) /\ ~closed
      /\ wire' = SubSeq(wire, n + 1, Len(wire))
      /\ UNCHANGED <<link, sent, error, awaits, block, emitted, closed>>
  BY ReaderAssumption DEF Data
<1>2. /\ wire \in Seq(Byte) /\ chunks \in Seq(Seq(Byte)) /\ sent \in Seq(Lengths)
      /\ FlattenSeq(chunks) \in Seq(Byte) /\ buffered = Len(FlattenSeq(chunks))
      /\ buffered \in Nat /\ pending \in Nat
  BY FlattenType DEF TypeOK
<1>3. w \in Seq(Byte) /\ Len(w) = n /\ wire' \in Seq(Byte) /\ w \o wire' = wire
  BY <1>1, <1>2, WireSplits
<1>4. IF Settles(size)
      THEN TakeFrom(all, size, pending) /\ pending' = NoRead
      ELSE chunks' = all /\ buffered' = size /\ UNCHANGED <<pending, due, resolved>>
  BY DEF Data
<1>5. awaits # "nothing" /\ (due => pending = NoRead) /\ (~due => pending # NoRead)
      /\ (pending # NoRead => buffered < pending)
  BY <1>1 DEF TurnInv
<1>6. j \in 1 .. Count(sent) + 1 /\ Placed(j)
  BY <1>0, <1>5, Places DEF OrderInv
<1> HIDE DEF w
<1>7. all \in Seq(Seq(Byte)) /\ FlattenSeq(all) = FlattenSeq(chunks) \o w
  BY <1>2, <1>3, FlattenAppend, SMTT(30)
<1>8. size = Len(FlattenSeq(all)) /\ size \in Nat
  <2>1. Len(FlattenSeq(chunks) \o w) = Len(FlattenSeq(chunks)) + Len(w)
    BY <1>2, <1>3, ConcatProperties
  <2>2. QED BY <1>1, <1>2, <1>3, <1>7, <2>1
<1>9. Unread = FlattenSeq(all) \o wire' /\ FlattenSeq(all) \in Seq(Byte)
  <2> DEFINE f == FlattenSeq(chunks)
             v == wire'
  <2>1. f \in Seq(Byte) /\ w \in Seq(Byte) /\ v \in Seq(Byte)
    BY <1>2, <1>3
  <2> HIDE DEF f, v
  <2>2. (f \o w) \o v = f \o (w \o v)
    BY ONLY <2>1, ConcatAssociative
  <2>3. FlattenSeq(all) \o wire' = (f \o w) \o v /\ Unread = f \o (w \o v)
    BY <1>3, <1>7 DEF Unread, f, v
  <2>4. QED BY <1>7, <2>2, <2>3, FlattenType
<1> HIDE DEF all, size
<1>10. Placed(j)' /\ TurnInv'
  <2>1. CASE Settles(size)
    <3>1. TakeFrom(all, size, pending) /\ pending' = NoRead
      BY <1>4, <2>1
    <3>2. pending <= size /\ pending # NoRead /\ ~due
      BY <1>2, <1>5, <1>8, <2>1 DEF Settles
    <3> DEFINE o == resolved'
               f == FlattenSeq(chunks')
               v == wire'
               r == f \o v
    <3>3. /\ chunks' \in Seq(Seq(Byte)) /\ o \in Seq(Byte) /\ due' = TRUE
          /\ Len(o) = pending /\ o \o f = FlattenSeq(all)
      BY <1>2, <1>7, <1>8, <3>1, <3>2, TakeFromSplits
    <3>4. f \in Seq(Byte) /\ v \in Seq(Byte) /\ r \in Seq(Byte)
      BY <1>3, <3>3, FlattenType, ConcatProperties
    <3>5. Unread' = r
      BY DEF Unread
    <3>6. pending = Need(sent, j) /\ Precede(Unread, link, sent, j)
      BY <1>6, <3>2 DEF Placed
    <3>7. Unread = o \o r
      <4> HIDE DEF o, f, v
      <4>1. o \in Seq(Byte) /\ f \in Seq(Byte) /\ v \in Seq(Byte)
        BY <3>3, <3>4
      <4>2. (o \o f) \o v = o \o (f \o v)
        BY ONLY <4>1, ConcatAssociative
      <4>3. QED BY <1>9, <3>3, <4>2 DEF v
    <3> HIDE DEF o, f, v, r
    <3>8. j <= Count(sent) /\ o = Part(sent, j) /\ Precede(r, link, sent, j + 1)
      BY <1>2, <1>6, <3>3, <3>4, <3>6, <3>7, TakenIsPart
    <3>9. link' = link /\ sent' = sent
      BY <1>1
    <3>10. Placed(j)'
      BY <3>3, <3>5, <3>8, <3>9 DEF Placed, o
    <3>11. TurnInv'
      BY <1>1, <1>5, <3>1, <3>3 DEF TurnInv
    <3>12. QED BY <3>10, <3>11
  <2>2. CASE ~Settles(size)
    <3>1. chunks' = all /\ buffered' = size /\ UNCHANGED <<pending, due, resolved>>
      BY <1>4, <2>2
    <3>2. Unread' = Unread
      BY <1>9, <3>1 DEF Unread
    <3>3. link' = link /\ sent' = sent /\ pending' = pending /\ due' = due
          /\ resolved' = resolved
      BY <1>1, <3>1
    <3>4. Placed(j)'
      BY <1>6, <3>2, <3>3 DEF Placed
    <3>5. pending # NoRead => size < pending
      BY <1>2, <1>8, <2>2 DEF Settles
    <3>6. TurnInv'
      BY <1>1, <3>1, <3>5 DEF TurnInv
    <3>7. QED BY <3>4, <3>6
  <2>3. QED BY <2>1, <2>2
<1>11. OrderInv'
  <2>1. Placed(Place(awaits, block, Len(emitted)))'
    <3>1. Place(awaits', block', Len(emitted')) = j
      BY <1>0, <1>1
    <3>2. QED BY <1>10, <3>1 DEF Placed
  <2>2. QED BY <1>1, <2>1 DEF OrderInv
<1>12. QED BY <1>10, <1>11

\* #readVideo()'s continuations: the value goes where the stream says, and the next
\* read() asks for the next part.
LEMMA ConsumePlaces ==
    ASSUME TypeOK, OrderInv, TurnInv, EndInv, Consume
    PROVE  StreamInv'
<1> DEFINE k == Len(emitted)
<1>0. PICK j : j = Place(awaits, block, k)
  OBVIOUS
<1>1. due /\ UNCHANGED <<wire, link, sent, error>>
  BY DEF Consume, socketVars
<1>2. awaits # "nothing" /\ ~closed /\ pending = NoRead
  BY <1>1 DEF TurnInv
<1>3. j \in 1 .. Count(sent) /\ resolved = Part(sent, j) /\ Precede(Unread, link, sent, j + 1)
  BY <1>0, <1>1, <1>2, Places DEF OrderInv, Placed
<1>4. /\ sent \in Seq(Lengths) /\ emitted \in Seq(Seq(Byte)) /\ resolved \in Seq(Byte)
      /\ block \in 1 .. Blocks /\ k \in Nat /\ k <= Len(sent) /\ Len(sent) \in Nat
      /\ \A i \in 1 .. k : emitted[i] = Bytes("dat", i, sent[i])
  BY DEF TypeOK, OrderInv, Blocks
<1>5. /\ Count(sent) \in Nat /\ Blocks \in Nat /\ Blocks >= 1
      /\ Count(sent) = Blocks + 2 * Len(sent)
      /\ \A i \in Nat : /\ Part(sent, Blocks + 2 * i + 1) = Bytes("hdr", sent[i + 1], HeaderSize)
                        /\ Part(sent, Blocks + 2 * i + 2) = Bytes("dat", i + 1, sent[i + 1])
  BY <1>4, PartFacts
<1>6. /\ \A i \in 1 .. Blocks : Need(sent, i) = PreambleSizes[i]
      /\ \A i \in 0 .. Len(sent) : Need(sent, Blocks + 2 * i + 1) = HeaderSize
      /\ \A i \in Nat : i < Len(sent) => Need(sent, Blocks + 2 * i + 2) = sent[i + 1]
  BY <1>4, PartLengths
<1> HIDE DEF k
<1>7. ASSUME NEW need \in Nat, Read(need), need = Need(sent, j + 1),
             awaits' # "nothing", closed' = closed
      PROVE  Placed(j + 1)' /\ TurnInv'
  <2>1. Answered(need) \/ Waiting(need)
    BY <1>7, ReadAnswersOrWaits
  <2>2. j + 1 \in 1 .. Count(sent) + 1
    BY <1>3, <1>5
  <2>3. Answered(Need(sent, j + 1)) \/ Waiting(Need(sent, j + 1))
    BY <1>7, <2>1
  <2>4. UNCHANGED <<wire, link, sent>>
    BY <1>1
  <2>5. Placed(j + 1)'
    BY <1>3, <2>2, <2>3, <2>4, ReadPlaces
  <2>6. TurnInv'
    <3>1. buffered \in Nat
      BY FlattenType DEF TypeOK
    <3>2. CASE Answered(need)
      BY <1>2, <1>7, <3>2 DEF Answered, TurnInv
    <3>3. CASE Waiting(need)
      BY <1>2, <1>7, <3>1, <3>3 DEF Waiting, TurnInv, NoRead
    <3>4. QED BY <2>1, <3>2, <3>3
  <2>7. QED BY <2>5, <2>6
<1>8. CASE /\ awaits = "preamble" /\ block < Len(PreambleSizes) /\ error = "none"
           /\ block' = block + 1 /\ Read(PreambleSizes[block + 1])
           /\ UNCHANGED <<awaits, emitted, closed>>
  <2>1. j = block /\ block + 1 \in 1 .. Blocks
    BY <1>0, <1>4, <1>5, <1>8 DEF Place, Blocks
  <2>2. PreambleSizes[block + 1] = Need(sent, j + 1) /\ PreambleSizes[block + 1] \in Nat
    BY <1>6, <2>1, PreambleFacts DEF Blocks
  <2>3. Placed(j + 1)' /\ TurnInv'
    BY <1>2, <1>7, <1>8, <2>2
  <2>4. Place(awaits', block', Len(emitted')) = j + 1
    BY <1>8, <2>1 DEF Place
  <2>5. Placed(Place(awaits, block, Len(emitted)))'
    BY <2>3, <2>4 DEF Placed
  <2>6. OrderInv'
    BY <1>1, <1>8, <2>5 DEF OrderInv
  <2>7. EndInv'
    BY <1>1, <1>8 DEF EndInv
  <2>8. QED BY <2>3, <2>6, <2>7 DEF StreamInv
<1>9. CASE /\ awaits = "preamble" /\ block = Len(PreambleSizes) /\ error = "none"
           /\ awaits' = "header" /\ Read(HeaderSize) /\ UNCHANGED <<block, emitted, closed>>
  <2>1. emitted = <<>> /\ k = 0
    BY <1>9 DEF OrderInv, k
  <2>2. j = Blocks /\ j + 1 = Blocks + 2 * k + 1 /\ k \in 0 .. Len(sent)
    BY <1>0, <1>4, <1>5, <1>9, <2>1 DEF Place, Blocks
  <2>3. HeaderSize = Need(sent, j + 1) /\ HeaderSize \in Nat
    BY <1>6, <2>2, HeaderIsSome
  <2>4. Placed(j + 1)' /\ TurnInv'
    BY <1>7, <1>9, <2>3
  <2>5. Place(awaits', block', Len(emitted')) = j + 1
    BY <1>9, <2>2 DEF Place, k
  <2>6. Placed(Place(awaits, block, Len(emitted)))'
    BY <2>4, <2>5 DEF Placed
  <2>7. OrderInv'
    BY <1>1, <1>9, <2>6 DEF OrderInv
  <2>8. EndInv'
    BY <1>1, <1>9 DEF EndInv
  <2>9. QED BY <2>4, <2>7, <2>8 DEF StreamInv
<1>10. CASE /\ awaits = "header" /\ ~Implausible(resolved[1][2]) /\ error = "none"
            /\ awaits' = "payload" /\ Read(resolved[1][2])
            /\ UNCHANGED <<block, emitted, closed>>
  <2>1. j = Blocks + 2 * k + 1 /\ k < Len(sent) /\ j + 1 = Blocks + 2 * k + 2
    <3>1. j = Blocks + 2 * k + 1
      BY <1>0, <1>10 DEF Place
    <3>2. j <= Blocks + 2 * Len(sent) /\ Blocks \in Nat /\ k \in Nat /\ Len(sent) \in Nat
      BY <1>3, <1>4, <1>5
    <3> HIDE DEF Blocks
    <3>3. k < Len(sent) /\ j + 1 = Blocks + 2 * k + 2
      BY <3>1, <3>2
    <3>4. QED BY <3>1, <3>3
  <2>2. resolved = Bytes("hdr", sent[k + 1], HeaderSize)
    BY <1>3, <1>4, <1>5, <2>1
  <2>3. resolved[1][2] = sent[k + 1]
    BY <2>2, HeaderIsSome DEF Bytes
  <2>4. Need(sent, j + 1) = sent[k + 1] /\ sent[k + 1] \in Nat
    <3>1. k + 1 \in 1 .. Len(sent)
      BY <1>4, <2>1
    <3>2. QED BY <1>4, <1>6, <2>1, <3>1, LengthsAreNat
  <2>5. Placed(j + 1)' /\ TurnInv'
    BY <1>7, <1>10, <2>3, <2>4
  <2>6. Place(awaits', block', Len(emitted')) = j + 1
    BY <1>10, <2>1 DEF Place, k
  <2>7. Placed(Place(awaits, block, Len(emitted)))'
    BY <2>5, <2>6 DEF Placed
  <2>8. OrderInv'
    BY <1>1, <1>10, <2>1, <2>7 DEF OrderInv, k
  <2>9. EndInv'
    BY <1>1, <1>10 DEF EndInv
  <2>10. QED BY <2>5, <2>8, <2>9 DEF StreamInv
<1>11. CASE /\ awaits = "payload" /\ error = "none" /\ emitted' = Append(emitted, resolved)
            /\ awaits' = "header" /\ Read(HeaderSize) /\ UNCHANGED <<block, closed>>
  <2>1. k < Len(sent)
    BY <1>11 DEF OrderInv, k
  <2>2. j = Blocks + 2 * k + 2 /\ j + 1 = Blocks + 2 * (k + 1) + 1 /\ k + 1 \in 0 .. Len(sent)
    BY <1>0, <1>4, <1>5, <1>11, <2>1 DEF Place
  <2>3. resolved = Bytes("dat", k + 1, sent[k + 1])
    BY <1>3, <1>4, <1>5, <2>2
  <2>4. HeaderSize = Need(sent, j + 1) /\ HeaderSize \in Nat
    BY <1>6, <2>2, HeaderIsSome
  <2>5. Placed(j + 1)' /\ TurnInv'
    BY <1>7, <1>11, <2>4
  <2>6. /\ Len(emitted') = k + 1
        /\ \A i \in 1 .. k : emitted'[i] = emitted[i]
        /\ emitted'[k + 1] = resolved
    BY <1>4, <1>11, AppendProperties DEF k
  <2>7. Place(awaits', block', Len(emitted')) = j + 1
    BY <1>11, <2>2, <2>6 DEF Place
  <2>8. Placed(Place(awaits, block, Len(emitted)))'
    BY <2>5, <2>7 DEF Placed
  <2>9. \A i \in 1 .. Len(emitted') : emitted'[i] = Bytes("dat", i, sent'[i])
    <3>1. SUFFICES ASSUME NEW i \in 1 .. k + 1 PROVE emitted'[i] = Bytes("dat", i, sent[i])
      BY <1>1, <2>6
    <3>2. CASE i = k + 1
      BY <2>3, <2>6, <3>2
    <3>3. CASE i # k + 1
      <4>1. i \in 1 .. k
        BY <1>4, <3>3
      <4>2. QED BY <1>4, <2>6, <4>1
    <3>4. QED BY <3>2, <3>3
  <2>10. OrderInv'
    <3>1. Len(emitted') <= Len(sent')
      BY <1>1, <1>4, <2>1, <2>6
    <3>2. QED BY <1>11, <2>8, <2>9, <3>1 DEF OrderInv
  <2>11. EndInv'
    BY <1>1, <1>11 DEF EndInv
  <2>12. QED BY <2>5, <2>10, <2>11 DEF StreamInv
<1>12. CASE /\ awaits' = "nothing" /\ closed' = TRUE /\ due' = FALSE
            /\ UNCHANGED <<block, emitted, chunks, buffered, pending, paused, resolved>>
  <2>1. OrderInv'
    BY <1>1, <1>12 DEF OrderInv
  <2>2. TurnInv'
    BY <1>2, <1>12 DEF TurnInv
  <2>3. EndInv'
    BY <1>1, <1>12 DEF EndInv
  <2>4. QED BY <2>1, <2>2, <2>3 DEF StreamInv
<1>13. QED BY <1>8, <1>9, <1>10, <1>11, <1>12 DEF Consume

\* #fail(): a stream that the device has ended has either been emitted in full, or
\* its 'end' came in the turn of the first read; the bytes of a part yet to be read
\* would have settled the pending read.
LEMMA FailPlaces ==
    ASSUME TypeOK, StreamInv, NEW event, Fail(event),
           event = "end" => link = "ended" /\ wire = <<>>
    PROVE  StreamInv'
<1>1. /\ ~closed /\ error' = event /\ pending' = NoRead /\ closed' = ~due
      /\ awaits' = IF due THEN awaits ELSE "nothing"
      /\ UNCHANGED <<wire, link, sent, chunks, buffered, paused, due, resolved, block, emitted>>
      /\ due => block = 1
  BY DEF Fail, InTurn, socketVars
<1>2. awaits # "nothing"
  BY <1>1 DEF StreamInv, TurnInv
<1>3. OrderInv'
  <2>1. CASE due
    <3>1. Placed(Place(awaits, block, Len(emitted)))
      BY <1>2 DEF StreamInv, OrderInv
    <3>2. Placed(Place(awaits, block, Len(emitted)))'
      BY <1>1, <2>1, <3>1 DEF Placed, Unread
    <3>3. QED BY <1>1, <2>1, <3>2 DEF StreamInv, OrderInv
  <2>2. CASE ~due
    BY <1>1, <2>2 DEF StreamInv, OrderInv
  <2>3. QED BY <2>1, <2>2
<1>4. TurnInv'
  <2>1. CASE due
    <3>1. closed' = FALSE /\ awaits' = awaits
      BY <1>1, <2>1
    <3>2. QED BY <1>1, <1>2, <2>1, <3>1 DEF TurnInv
  <2>2. CASE ~due
    <3>1. closed' = TRUE /\ awaits' = "nothing" /\ ~due'
      BY <1>1, <2>2
    <3>2. QED BY <1>1, <3>1 DEF TurnInv
  <2>3. QED BY <2>1, <2>2
<1>5. EndInv'
  <2>1. SUFFICES ASSUME event = "end", ~due PROVE link = "ended" /\ Len(emitted) = Len(sent)
    BY <1>1 DEF EndInv
  <2>2. PICK j : j = Place(awaits, block, Len(emitted))
    OBVIOUS
  <2>3. /\ link = "ended" /\ wire = <<>>
        /\ pending = Need(sent, j) /\ buffered < pending
        /\ Precede(Unread, link, sent, j) /\ j \in 1 .. Count(sent) + 1
    BY <1>1, <1>2, <2>1, <2>2, Places DEF StreamInv, OrderInv, TurnInv, Placed
  <2>4. /\ sent \in Seq(Lengths) /\ FlattenSeq(chunks) \in Seq(Byte)
        /\ buffered = Len(FlattenSeq(chunks))
    BY FlattenType DEF TypeOK
  <2>5. FlattenSeq(chunks) = FlattenSeq(Remaining(sent, j))
    <3>1. PICK lost \in Seq(Byte) : /\ Unread \o lost = FlattenSeq(Remaining(sent, j))
                                    /\ lost # <<>> => link = "reset"
      BY <2>3 DEF Precede
    <3>2. lost = <<>>
      BY <2>3, <3>1
    <3>3. FlattenSeq(chunks) \o <<>> = FlattenSeq(chunks)
      BY <2>4, ConcatEmptySeq
    <3>4. QED BY <2>3, <3>1, <3>2, <3>3 DEF Unread
  <2>6. j = Count(sent) + 1
    <3>1. Count(sent) \in Nat /\ \A i \in 1 .. Count(sent) : Part(sent, i) \in Seq(Byte)
      BY <2>4, PartFacts
    <3>2. SUFFICES ASSUME j \in 1 .. Count(sent) PROVE FALSE
      BY <2>3, <3>1
    <3> DEFINE p == Part(sent, j)
               f == FlattenSeq(Remaining(sent, j + 1))
    <3>3. p \in Seq(Byte) /\ f \in Seq(Byte) /\ FlattenSeq(chunks) = p \o f
      <4>1. j + 1 \in 1 .. Count(sent) + 1
        BY <3>1, <3>2
      <4>2. QED BY <2>4, <2>5, <3>1, <3>2, <4>1, RemainingFront, RemainingType
    <3>4. pending = Len(p)
      BY <2>3, <3>1, <3>2 DEF Need
    <3> HIDE DEF p, f
    <3>5. Len(p \o f) = Len(p) + Len(f) /\ Len(p) \in Nat /\ Len(f) \in Nat
      BY <3>3, ConcatProperties
    <3>6. QED BY <2>3, <2>4, <3>3, <3>4, <3>5
  <2>7. QED BY <1>2, <2>2, <2>3, <2>6, Places DEF StreamInv
<1>6. QED BY <1>3, <1>4, <1>5 DEF StreamInv

\* A frame more leaves the parts before it as they are.
LEMMA PartKeeps ==
    ASSUME NEW s \in Seq(Lengths), NEW len \in Lengths
    PROVE  /\ Append(s, len) \in Seq(Lengths)
           /\ Count(Append(s, len)) = Count(s) + 2
           /\ \A i \in 1 .. Count(s) : Part(Append(s, len), i) = Part(s, i)
<1> DEFINE t == Append(s, len)
<1>1. /\ t \in Seq(Lengths) /\ Len(t) = Len(s) + 1 /\ Len(s) \in Nat
      /\ \A i \in 1 .. Len(s) : t[i] = s[i]
  BY AppendProperties
<1>2. /\ Count(s) \in Nat /\ Blocks \in Nat
      /\ Count(s) = Blocks + 2 * Len(s)
      /\ \A i \in 1 .. Blocks : Part(s, i) = Bytes("pre", i, PreambleSizes[i])
      /\ \A k \in Nat : /\ Part(s, Blocks + 2 * k + 1) = Bytes("hdr", s[k + 1], HeaderSize)
                        /\ Part(s, Blocks + 2 * k + 2) = Bytes("dat", k + 1, s[k + 1])
  BY PartFacts
<1> HIDE DEF t
<1>3. /\ Count(t) = Blocks + 2 * Len(t)
      /\ \A i \in 1 .. Blocks : Part(t, i) = Bytes("pre", i, PreambleSizes[i])
      /\ \A k \in Nat : /\ Part(t, Blocks + 2 * k + 1) = Bytes("hdr", t[k + 1], HeaderSize)
                        /\ Part(t, Blocks + 2 * k + 2) = Bytes("dat", k + 1, t[k + 1])
  BY <1>1, PartFacts
<1>4. ASSUME NEW i \in 1 .. Count(s) PROVE Part(t, i) = Part(s, i)
  <2>1. CASE i <= Blocks
    <3>1. i \in 1 .. Blocks
      BY <1>2, <2>1
    <3>2. QED BY <1>2, <1>3, <3>1
  <2>2. CASE ~(i <= Blocks)
    <3> DEFINE k == (i - Blocks - 1) \div 2
    <3>1. k \in Nat /\ (i = Blocks + 2 * k + 1 \/ i = Blocks + 2 * k + 2)
      BY <1>2, <2>2
    <3>2. k + 1 \in 1 .. Len(s)
      BY <1>1, <1>2, <2>2
    <3> HIDE DEF k
    <3>3. t[k + 1] = s[k + 1]
      BY <1>1, <3>2
    <3>4. QED BY <1>2, <1>3, <3>1, <3>3
  <2>3. QED BY <2>1, <2>2
<1>5. Count(t) = Count(s) + 2
  BY <1>1, <1>2, <1>3
<1>6. QED BY <1>1, <1>4, <1>5 DEF t

\* A frame more adds its header and its payload at the end of the stream.
LEMMA FrameExtends ==
    ASSUME NEW s \in Seq(Lengths), NEW len \in Lengths, NEW j \in 1 .. Count(s) + 1
    PROVE  /\ Bytes("hdr", len, HeaderSize) \in Seq(Byte)
           /\ Bytes("dat", Len(s) + 1, len) \in Seq(Byte)
           /\ FlattenSeq(Remaining(Append(s, len), j))
                = (FlattenSeq(Remaining(s, j)) \o Bytes("hdr", len, HeaderSize))
                    \o Bytes("dat", Len(s) + 1, len)
<1> DEFINE t == Append(s, len)
           h == Bytes("hdr", len, HeaderSize)
           d == Bytes("dat", Len(s) + 1, len)
           r == Remaining(s, j)
           n == Count(s) - j + 1
           q == Append(Append(r, h), d)
<1>1. /\ Count(s) \in Nat /\ Blocks \in Nat /\ Len(s) \in Nat
      /\ Count(s) = Blocks + 2 * Len(s)
  BY PartFacts
<1>2. /\ t \in Seq(Lengths) /\ Count(t) = Count(s) + 2
      /\ \A i \in 1 .. Count(s) : Part(t, i) = Part(s, i)
  BY PartKeeps
<1>3. t[Len(s) + 1] = len
  BY AppendProperties
<1>4. Part(t, Count(s) + 1) = h /\ Part(t, Count(s) + 2) = d
  BY <1>1, <1>2, <1>3, PartFacts
<1>5. h \in Seq(Byte) /\ d \in Seq(Byte)
  <2>1. len \in Nat /\ HeaderSize \in Nat /\ Len(s) + 1 \in Nat
    BY <1>1, ReaderAssumption, HeaderIsSome
  <2>2. QED BY <2>1, BytesType
<1>6. r \in Seq(Seq(Byte)) /\ Len(r) = n /\ n \in Nat
      /\ r = [i \in 1 .. n |-> Part(s, j + i - 1)]
  <2>1. r \in Seq(Seq(Byte)) /\ n \in Nat
    BY <1>1, RemainingType
  <2>2. r = [i \in 1 .. n |-> Part(s, j + i - 1)]
    BY DEF Remaining
  <2> HIDE DEF r, n
  <2>3. QED BY <2>1, <2>2
<1>7. Remaining(t, j) = [i \in 1 .. n + 2 |-> Part(t, j + i - 1)]
  <2>1. Count(t) - j + 1 = n + 2
    BY <1>1, <1>2
  <2>2. QED BY <2>1 DEF Remaining
<1>8. \A i \in 1 .. n : j + i - 1 \in 1 .. Count(s)
  BY <1>1
<1>9. j + (n + 1) - 1 = Count(s) + 1 /\ j + (n + 2) - 1 = Count(s) + 2
  BY <1>1
<1> HIDE DEF t, h, d, r, n, q
<1>10. Append(r, h) \in Seq(Seq(Byte))
  BY <1>5, <1>6
<1>11. Remaining(t, j) = q
  <2>1. /\ q \in Seq(Seq(Byte)) /\ Len(q) = n + 2
        /\ \A i \in 1 .. n : q[i] = r[i]
        /\ q[n + 1] = h /\ q[n + 2] = d
    <3>1. /\ Len(Append(r, h)) = n + 1
          /\ \A i \in 1 .. n : Append(r, h)[i] = r[i]
          /\ Append(r, h)[n + 1] = h
      BY <1>5, <1>6, AppendProperties
    <3>2. /\ q \in Seq(Seq(Byte)) /\ Len(q) = Len(Append(r, h)) + 1
          /\ \A i \in 1 .. Len(Append(r, h)) : q[i] = Append(r, h)[i]
          /\ q[Len(Append(r, h)) + 1] = d
      BY <1>5, <1>10, AppendProperties DEF q
    <3>3. QED BY <1>6, <3>1, <3>2
  <2>2. ASSUME NEW i \in 1 .. n + 2 PROVE Part(t, j + i - 1) = q[i]
    <3>1. CASE i \in 1 .. n
      <4>1. r[i] = Part(s, j + i - 1)
        BY <1>6, <3>1
      <4>2. QED BY <1>2, <1>8, <2>1, <3>1, <4>1
    <3>2. CASE i = n + 1
      BY <1>4, <1>9, <2>1, <3>2
    <3>3. CASE i = n + 2
      BY <1>4, <1>9, <2>1, <3>3
    <3>4. QED BY <1>6, <3>1, <3>2, <3>3
  <2>3. q = [i \in 1 .. n + 2 |-> q[i]]
    BY <1>6, <2>1
  <2>4. QED BY <1>7, <2>2, <2>3
<1>12. FlattenSeq(q) = (FlattenSeq(r) \o h) \o d
  <2>1. FlattenSeq(Append(r, h)) = FlattenSeq(r) \o h
    BY <1>5, <1>6, FlattenAppend
  <2>2. FlattenSeq(q) = FlattenSeq(Append(r, h)) \o d
    BY <1>5, <1>10, FlattenAppend DEF q
  <2>3. QED BY <2>1, <2>2
<1>13. QED BY <1>5, <1>11, <1>12 DEF t, h, d, r

\* What follows in the stream stays what is unread when a frame is sent.
LEMMA SendPrecedes ==
    ASSUME TypeOK, NEW len \in Lengths, SendFrame(len), NEW j \in 1 .. Count(sent) + 1,
           Precede(Unread, link, sent, j)
    PROVE  Precede(Unread', link, sent', j)
<1> DEFINE h == Bytes("hdr", len, HeaderSize)
           d == Bytes("dat", Len(sent) + 1, len)
           f == FlattenSeq(chunks)
           w == wire
<1>1. sent \in Seq(Lengths) /\ w \in Seq(Byte) /\ f \in Seq(Byte)
  BY FlattenType DEF TypeOK
<1>2. link = "open" /\ sent' = Append(sent, len) /\ wire' = (w \o h) \o d /\ chunks' = chunks
  BY DEF SendFrame
<1>3. /\ h \in Seq(Byte) /\ d \in Seq(Byte)
      /\ FlattenSeq(Remaining(sent', j)) = (FlattenSeq(Remaining(sent, j)) \o h) \o d
  BY <1>1, <1>2, FrameExtends
<1>4. FlattenSeq(Remaining(sent, j)) = f \o w
  <2>1. PICK lost \in Seq(Byte) : /\ Unread \o lost = FlattenSeq(Remaining(sent, j))
                                  /\ lost # <<>> => link = "reset"
    BY DEF Precede
  <2>2. lost = <<>>
    BY <1>2, <2>1
  <2>3. f \o w \in Seq(Byte) /\ (f \o w) \o <<>> = f \o w
    <3> HIDE DEF f, w
    <3>1. f \o w \in Seq(Byte)
      BY <1>1, ConcatProperties
    <3>2. QED BY <3>1, ConcatEmptySeq
  <2>4. QED BY <2>1, <2>2, <2>3 DEF Unread
<1>5. Unread' = f \o ((w \o h) \o d)
  BY <1>2 DEF Unread
<1> HIDE DEF h, d, f, w
<1>6. f \o ((w \o h) \o d) = ((f \o w) \o h) \o d
  <2>1. w \o h \in Seq(Byte)
    BY <1>1, <1>3, ConcatProperties
  <2>2. f \o ((w \o h) \o d) = (f \o (w \o h)) \o d
    <3>1. f \in Seq(Byte) /\ w \o h \in Seq(Byte) /\ d \in Seq(Byte)
      BY <1>1, <1>3, <2>1
    <3>2. PICK v : v = w \o h
      OBVIOUS
    <3>3. f \in Seq(Byte) /\ v \in Seq(Byte) /\ d \in Seq(Byte)
      BY <3>1, <3>2
    <3>4. f \o (v \o d) = (f \o v) \o d
      BY ONLY <3>3, ConcatAssociative
    <3>5. QED BY <3>2, <3>4
  <2>3. f \o (w \o h) = (f \o w) \o h
    <3>1. f \in Seq(Byte) /\ w \in Seq(Byte) /\ h \in Seq(Byte)
      BY <1>1, <1>3
    <3>2. QED BY ONLY <3>1, ConcatAssociative
  <2>4. QED BY <2>2, <2>3
<1>7. Unread' = FlattenSeq(Remaining(sent', j))
  BY <1>3, <1>4, <1>5, <1>6
<1>8. /\ FlattenSeq(Remaining(sent', j)) \o <<>> = FlattenSeq(Remaining(sent', j))
      /\ <<>> \in Seq(Byte)
  <2>1. sent' \in Seq(Lengths) /\ Count(sent') = Count(sent) + 2
    BY <1>1, <1>2, PartKeeps
  <2>2. j \in 1 .. Count(sent') + 1
    <3>1. Count(sent) \in Nat
      BY <1>1, PartFacts
    <3>2. QED BY <2>1, <3>1
  <2>3. FlattenSeq(Remaining(sent', j)) \in Seq(Byte)
    BY <2>1, <2>2, RemainingType
  <2>4. QED BY <2>3, ConcatEmptySeq
<1>9. QED BY <1>7, <1>8 DEF Precede

\* A frame is sent while the link is open: it comes after all the others.
LEMMA SendPlaces ==
    ASSUME TypeOK, StreamInv, NEW len \in Lengths, SendFrame(len)
    PROVE  StreamInv'
<1>1. /\ link = "open" /\ sent' = Append(sent, len)
      /\ UNCHANGED <<link, chunks, buffered, pending, paused, error, due, resolved,
                     awaits, block, emitted, closed>>
  BY DEF SendFrame
<1>2. sent \in Seq(Lengths) /\ Len(sent) \in Nat /\ Len(emitted) \in Nat
      /\ Len(emitted) <= Len(sent) /\ Count(sent) \in Nat
  BY PartFacts DEF TypeOK, StreamInv, OrderInv
<1>3. /\ sent' \in Seq(Lengths) /\ Len(sent') = Len(sent) + 1 /\ Count(sent') = Count(sent) + 2
      /\ \A i \in 1 .. Len(sent) : sent'[i] = sent[i]
      /\ \A i \in 1 .. Count(sent) : Part(sent', i) = Part(sent, i)
  BY <1>1, <1>2, PartKeeps, AppendProperties
<1>4. TurnInv'
  BY <1>1 DEF StreamInv, TurnInv
<1>5. EndInv'
  BY <1>1 DEF StreamInv, EndInv
<1>6. OrderInv'
  <2>1. \A k \in 1 .. Len(emitted') : emitted'[k] = Bytes("dat", k, sent'[k])
    BY <1>1, <1>2, <1>3 DEF StreamInv, OrderInv
  <2>2. ASSUME awaits # "nothing" PROVE Placed(Place(awaits, block, Len(emitted)))'
    <3>1. PICK j : j = Place(awaits, block, Len(emitted))
      OBVIOUS
    <3>2. j \in 1 .. Count(sent) + 1 /\ Placed(j)
          /\ (j = Count(sent) + 1 => awaits = "header" /\ Len(emitted) = Len(sent))
      BY <2>2, <3>1, Places DEF StreamInv, OrderInv
    <3>3. Place(awaits', block', Len(emitted')) = j
      BY <1>1, <3>1
    <3>4. CASE due
      <4>1. j <= Count(sent) /\ resolved = Part(sent, j) /\ Precede(Unread, link, sent, j + 1)
        BY <3>2, <3>4 DEF Placed
      <4>2. j \in 1 .. Count(sent) /\ j + 1 \in 1 .. Count(sent) + 1
        BY <1>2, <3>2, <4>1
      <4>3. Precede(Unread', link, sent', j + 1)
        BY <4>1, <4>2, SendPrecedes
      <4>4. j <= Count(sent') /\ resolved' = Part(sent', j) /\ due'
        BY <1>1, <1>2, <1>3, <3>4, <4>1, <4>2
      <4>5. QED BY <1>1, <3>3, <4>3, <4>4 DEF Placed
    <3>5. CASE ~due
      <4>1. pending = Need(sent, j) /\ Precede(Unread, link, sent, j)
        BY <3>2, <3>5 DEF Placed
      <4>2. Precede(Unread', link, sent', j)
        BY <3>2, <4>1, SendPrecedes
      <4>3. Need(sent', j) = Need(sent, j)
        <5>1. CASE j \in 1 .. Count(sent)
          BY <1>2, <1>3, <5>1 DEF Need
        <5>2. CASE j = Count(sent) + 1
          <6>1. j = Blocks + 2 * Len(sent) + 1 /\ Len(sent) \in 0 .. Len(sent)
                /\ Len(sent) \in 0 .. Len(sent')
            BY <1>2, <1>3, <5>2, PartFacts
          <6>2. Need(sent', j) = HeaderSize /\ Need(sent, j) = HeaderSize
            BY <1>2, <1>3, <6>1, PartLengths
          <6>3. QED BY <6>2
        <5>3. QED BY <1>2, <3>2, <5>1, <5>2
      <4>4. pending' = Need(sent', j) /\ ~due'
        BY <1>1, <3>5, <4>1, <4>3
      <4>5. QED BY <1>1, <3>3, <4>2, <4>4 DEF Placed
    <3>6. QED BY <3>4, <3>5
  <2>3. QED BY <1>1, <1>2, <1>3, <2>1, <2>2 DEF StreamInv, OrderInv
<1>7. QED BY <1>4, <1>5, <1>6 DEF StreamInv

\* The device ends its stream; a reset loses what is on its way.
LEMMA DeviceEndsPlaces ==
    ASSUME TypeOK, StreamInv, DeviceEnds
    PROVE  StreamInv'
<1>1. /\ link = "open"
      /\ \/ link' = "ended" /\ wire' = wire
         \/ link' = "reset" /\ wire' = <<>>
      /\ UNCHANGED <<sent, chunks, buffered, pending, paused, error, due, resolved,
                     awaits, block, emitted, closed>>
  BY DEF DeviceEnds
<1>2. TurnInv'
  BY <1>1 DEF StreamInv, TurnInv
<1>3. EndInv'
  BY <1>1 DEF StreamInv, EndInv
<1>4. ASSUME NEW j \in 1 .. Count(sent) + 1, Precede(Unread, link, sent, j)
      PROVE  Precede(Unread', link', sent, j)
  <2> DEFINE f == FlattenSeq(chunks)
  <2>1. wire \in Seq(Byte) /\ f \in Seq(Byte)
    BY FlattenType DEF TypeOK
  <2>2. PICK lost \in Seq(Byte) : /\ Unread \o lost = FlattenSeq(Remaining(sent, j))
                                  /\ lost # <<>> => link = "reset"
    BY <1>4 DEF Precede
  <2>3. lost = <<>>
    BY <1>1, <2>2
  <2>4. (f \o wire) \o <<>> = FlattenSeq(Remaining(sent, j))
    BY <2>2, <2>3 DEF Unread
  <2>5. CASE link' = "ended" /\ wire' = wire
    <3>1. Unread' = f \o wire
      BY <1>1, <2>5 DEF Unread
    <3>2. <<>> \in Seq(Byte)
      OBVIOUS
    <3>3. QED BY <2>4, <3>1, <3>2 DEF Precede
  <2>6. CASE link' = "reset" /\ wire' = <<>>
    <3> HIDE DEF f
    <3>1. f \o wire \in Seq(Byte)
      BY <2>1, ConcatProperties
    <3>2. (f \o wire) \o <<>> = f \o wire /\ f \o <<>> = f
      BY <2>1, <3>1, ConcatEmptySeq
    <3>3. Unread' = f
      BY <1>1, <2>6, <3>2 DEF Unread, f
    <3>4. Unread' \o wire = FlattenSeq(Remaining(sent, j))
      BY <2>4, <3>2, <3>3
    <3>5. QED BY <2>1, <2>6, <3>4 DEF Precede
  <2>7. QED BY <1>1, <2>5, <2>6
<1>5. OrderInv'
  <2>1. ASSUME awaits # "nothing" PROVE Placed(Place(awaits, block, Len(emitted)))'
    <3>1. PICK j : j = Place(awaits, block, Len(emitted))
      OBVIOUS
    <3>2. j \in 1 .. Count(sent) + 1 /\ Placed(j)
      BY <2>1, <3>1, Places DEF StreamInv, OrderInv
    <3>3. Place(awaits', block', Len(emitted')) = j
      BY <1>1, <3>1
    <3>4. CASE due
      <4>1. j <= Count(sent) /\ resolved = Part(sent, j) /\ Precede(Unread, link, sent, j + 1)
        BY <3>2, <3>4 DEF Placed
      <4>2. j + 1 \in 1 .. Count(sent) + 1
        <5>1. Count(sent) \in Nat
          BY PartFacts DEF TypeOK
        <5>2. QED BY <3>2, <4>1, <5>1
      <4>3. Precede(Unread', link', sent, j + 1)
        BY <1>4, <4>1, <4>2
      <4>4. QED BY <1>1, <3>3, <3>4, <4>1, <4>3 DEF Placed
    <3>5. CASE ~due
      <4>1. pending = Need(sent, j) /\ Precede(Unread, link, sent, j)
        BY <3>2, <3>5 DEF Placed
      <4>2. Precede(Unread', link', sent, j)
        BY <1>4, <3>2, <4>1
      <4>3. QED BY <1>1, <3>3, <3>5, <4>1, <4>2 DEF Placed
    <3>6. QED BY <3>4, <3>5
  <2>2. QED BY <1>1, <2>1 DEF StreamInv, OrderInv
<1>6. QED BY <1>2, <1>3, <1>5 DEF StreamInv

\* At the start the whole stream is the preamble, and its first block is awaited.
LEMMA InitStream == Init => StreamInv
<1> SUFFICES ASSUME Init PROVE StreamInv
  OBVIOUS
<1>1. /\ wire = Preamble /\ link = "open" /\ sent = <<>> /\ chunks = <<>> /\ buffered = 0
      /\ error = "none" /\ pending = PreambleSizes[1] /\ due = FALSE
      /\ awaits = "preamble" /\ block = 1 /\ emitted = <<>> /\ closed = FALSE
  BY DEF Init
<1>2. <<>> \in Seq(Lengths) /\ Len(<<>>) = 0
  OBVIOUS
<1>3. Blocks \in Nat /\ Blocks >= 1 /\ Count(<<>>) = Blocks
      /\ \A i \in 1 .. Blocks : Part(<<>>, i) = Bytes("pre", i, PreambleSizes[i])
  <2>1. \A s \in Seq(Lengths) :
            /\ Blocks \in Nat /\ Blocks >= 1 /\ Count(s) = Blocks + 2 * Len(s)
            /\ \A i \in 1 .. Blocks : Part(s, i) = Bytes("pre", i, PreambleSizes[i])
    BY PartFacts
  <2>2. /\ Blocks \in Nat /\ Blocks >= 1 /\ Count(<<>>) = Blocks + 2 * Len(<<>>)
        /\ \A i \in 1 .. Blocks : Part(<<>>, i) = Bytes("pre", i, PreambleSizes[i])
    BY <1>2, <2>1, Zenon
  <2>3. Count(<<>>) = Blocks
    BY <1>2, <2>2
  <2>4. QED BY <2>2, <2>3
<1>4. PreambleSizes[1] \in Nat \ {0} /\ Need(<<>>, 1) = PreambleSizes[1]
  <2>1. \A s \in Seq(Lengths) : \A i \in 1 .. Blocks : Need(s, i) = PreambleSizes[i]
    BY PartLengths
  <2>2. PreambleSizes[1] \in Nat \ {0}
    BY <1>3, ReaderAssumption DEF Blocks
  <2>3. 1 \in 1 .. Blocks
    BY <1>3
  <2>4. Need(<<>>, 1) = PreambleSizes[1]
    BY <1>2, <2>1, <2>3, Zenon
  <2>5. QED BY <2>2, <2>4
<1>5. Preamble = FlattenSeq(Remaining(<<>>, 1))
  <2>1. Count(<<>>) - 1 + 1 = Len(PreambleSizes)
    BY <1>3 DEF Blocks
  <2>2. \A i \in 1 .. Len(PreambleSizes) : Part(<<>>, 1 + i - 1) = Bytes("pre", i, PreambleSizes[i])
    <3>1. \A i \in 1 .. Len(PreambleSizes) : 1 + i - 1 = i
      BY <1>3 DEF Blocks
    <3>2. QED BY <1>3, <3>1 DEF Blocks
  <2>3. Remaining(<<>>, 1) = [i \in 1 .. Len(PreambleSizes) |-> Bytes("pre", i, PreambleSizes[i])]
    BY <2>1, <2>2 DEF Remaining
  <2>4. QED BY <2>3 DEF Preamble
<1>6. Precede(Unread, link, sent, 1)
  <2>1. FlattenSeq(Remaining(<<>>, 1)) \in Seq(Byte)
    <3>1. \A s \in Seq(Lengths) : \A j \in 1 .. Count(s) + 1 : FlattenSeq(Remaining(s, j)) \in Seq(Byte)
      BY RemainingType
    <3>2. 1 \in 1 .. Count(<<>>) + 1
      BY <1>3
    <3>3. QED BY <1>2, <3>1, <3>2, Zenon
  <2>2. wire \in Seq(Byte) /\ wire = FlattenSeq(Remaining(sent, 1))
    BY <1>1, <1>5, <2>1
  <2>3. FlattenSeq(chunks) = <<>>
    BY <1>1, FlattenType
  <2>4. <<>> \o wire = wire /\ wire \o <<>> = wire /\ <<>> \in Seq(Byte)
    BY <2>2, ConcatEmptySeq
  <2>5. QED BY <2>2, <2>3, <2>4 DEF Unread, Precede
<1>7. Placed(Place(awaits, block, Len(emitted)))
  <2>1. Place(awaits, block, Len(emitted)) = 1
    BY <1>1 DEF Place
  <2>2. QED BY <1>1, <1>4, <1>6, <2>1 DEF Placed
<1>8. OrderInv
  BY <1>1, <1>2, <1>7 DEF OrderInv
<1>9. TurnInv
  BY <1>1, <1>4 DEF TurnInv, NoRead
<1>10. EndInv
  BY <1>1 DEF EndInv
<1>11. QED BY <1>8, <1>9, <1>10 DEF StreamInv

\* Every step keeps the order of the stream.
LEMMA NextStream == TypeOK /\ StreamInv /\ [Next]_vars => StreamInv'
<1> SUFFICES ASSUME TypeOK, StreamInv, [Next]_vars PROVE StreamInv'
  OBVIOUS
<1>1. CASE \E n \in 1 .. MaxChunk : Data(n)
  <2>1. PICK n \in 1 .. MaxChunk : Data(n)
    BY <1>1
  <2>2. OrderInv' /\ TurnInv'
    BY <2>1, DataPlaces DEF StreamInv
  <2>3. UNCHANGED <<error, link, block, emitted, sent>>
    BY <2>1 DEF Data
  <2>4. QED BY <2>2, <2>3 DEF StreamInv, EndInv
<1>2. CASE SocketEnds
  BY <1>2, FailPlaces DEF SocketEnds
<1>3. CASE SocketResets
  BY <1>3, FailPlaces DEF SocketResets
<1>4. CASE ServerExits
  BY <1>4, FailPlaces DEF ServerExits
<1>5. CASE Consume
  BY <1>5, ConsumePlaces DEF StreamInv
<1>6. CASE \E len \in Lengths : SendFrame(len)
  BY <1>6, SendPlaces
<1>7. CASE DeviceEnds
  BY <1>7, DeviceEndsPlaces
<1>8. CASE UNCHANGED vars
  <2>1. UNCHANGED <<wire, link, sent, chunks, buffered, pending, error, due, resolved,
                    awaits, block, emitted, closed>>
    BY <1>8 DEF vars, socketVars
  <2>2. OrderInv'
    BY <2>1 DEF StreamInv, OrderInv, Placed, Unread
  <2>3. TurnInv' /\ EndInv'
    BY <2>1 DEF StreamInv, TurnInv, EndInv
  <2>4. QED BY <2>2, <2>3 DEF StreamInv
<1>9. QED BY <1>1, <1>2, <1>3, <1>4, <1>5, <1>6, <1>7, <1>8 DEF Next

\* Init => StreamInv, and every step keeps it.
LEMMA StreamHolds == Spec => [](TypeOK /\ StreamInv)
<1>1. Init => TypeOK /\ StreamInv
  BY InitType, InitStream
<1>2. (TypeOK /\ StreamInv) /\ [Next]_vars => (TypeOK /\ StreamInv)'
  BY NextType, NextStream
<1>3. QED BY <1>1, <1>2, PTL DEF Spec

\* The frames of the 'video' events are the first that the device has sent, in its
\* order and each whole, whatever the chunks, pauses, resets and limits.
THEOREM FramesComeWhole == Spec => []FramesIntact
<1>1. TypeOK /\ StreamInv => FramesIntact
  <2>1. SUFFICES ASSUME TypeOK, StreamInv PROVE FramesIntact
    OBVIOUS
  <2>2. DOMAIN emitted = 1 .. Len(emitted)
    BY <2>1 DEF TypeOK
  <2>3. /\ Len(emitted) <= Len(sent)
        /\ \A k \in 1 .. Len(emitted) : emitted[k] = Bytes("dat", k, sent[k])
    BY <2>1, Zenon DEF StreamInv, OrderInv
  <2>4. \A k \in DOMAIN emitted : emitted[k] = Payload(k)
    BY <2>2, <2>3, Zenon DEF Payload
  <2>5. QED BY <2>3, <2>4 DEF FramesIntact
<1>2. QED BY <1>1, StreamHolds, PTL

\* An 'end' after the first read finds all frames emitted: setting `error` cuts off
\* no frame that the buffer still holds.
THEOREM EndComesLast == Spec => []EndLosesNoFrame
<1>1. TypeOK /\ StreamInv => EndLosesNoFrame
  BY DEF TypeOK, StreamInv, EndInv, EndLosesNoFrame
<1>2. QED BY <1>1, StreamHolds, PTL

-----------------------------------------------------------------------------
(* Back-pressure *)

\* What a socket delivers at once is far below the pause mark (64 KB, 16 MB).
ChunksFit == MaxChunk <= PauseAbove

\* Either a read is pending and lacks bytes, or one has resolved and its
\* continuation is due, or the stream is closed; and the socket is paused only
\* under a long read, or after it.
ReaderInv ==
    /\ buffered \in Nat /\ pending \in Nat
    /\ block \in 1 .. Len(PreambleSizes)
    /\ due \in BOOLEAN /\ closed \in BOOLEAN /\ paused \in BOOLEAN
    /\ pending # NoRead => buffered < pending /\ ~closed
    /\ due => pending = NoRead /\ buffered <= PauseAbove
    /\ ~due /\ ~closed => pending # NoRead
    /\ due => ~closed
    /\ paused => ~due
    /\ paused => closed \/ pending > PauseAbove

\* The invariant holds at the start: the first read is pending.
LEMMA InitReader == Init => ReaderInv
<1> SUFFICES ASSUME Init PROVE ReaderInv
  OBVIOUS
<1>1. Len(PreambleSizes) \in Nat \ {0}
  <2>1. PreambleSizes \in Seq(Nat \ {0}) /\ PreambleSizes # <<>>
    BY ReaderAssumption
  <2>2. QED BY <2>1, EmptySeq
<1>2. PreambleSizes[1] \in Nat \ {0}
  BY <1>1, ReaderAssumption
<1>3. buffered = 0 /\ pending = PreambleSizes[1] /\ block = 1
  BY DEF Init
<1>4. due = FALSE /\ closed = FALSE /\ paused = FALSE
  BY DEF Init
<1>5. pending \in Nat \ {0} /\ buffered < pending
      /\ buffered \in Nat /\ block \in 1 .. Len(PreambleSizes)
  BY <1>1, <1>2, <1>3
<1>6. pending \in Nat /\ pending # NoRead
  BY <1>5 DEF NoRead
<1>7. QED BY <1>4, <1>5, <1>6, Zenon DEF ReaderInv

\* read(need) leaves a pending read that lacks bytes, or a continuation due; it
\* is called in a continuation only, when the socket flows.
LEMMA ReadKeeps ==
    ASSUME ReaderInv, due, NEW need \in Nat \ {0}, Read(need)
    PROVE  /\ buffered' \in Nat /\ pending' \in Nat
           /\ due' \in BOOLEAN
           /\ paused' = FALSE
           /\ pending' # NoRead => buffered' < pending'
           /\ due' => pending' = NoRead /\ buffered' <= PauseAbove
           /\ ~due' => pending' # NoRead
<1>1. /\ PauseAbove \in Nat /\ need \in Nat /\ need >= 1
      /\ buffered \in Nat /\ buffered <= PauseAbove /\ pending = 0 /\ ~paused
  BY ReaderAssumption DEF ReaderInv, NoRead
<1>2. paused = FALSE
  BY <1>1, Zenon DEF ReaderInv
<1>3. CASE buffered >= need
  <2>1. buffered' = buffered - need /\ due' = TRUE /\ pending' = pending
    BY <1>3 DEF Read, TakeFrom
  <2>2. paused' = FALSE
    <3>1. paused' = (paused /\ buffered - need >= ResumeBelow)
      BY <1>3 DEF Read
    <3>2. QED BY <1>2, <3>1, Zenon
  <2>3. QED BY <1>1, <1>3, <2>1, <2>2 DEF NoRead
<1>4. CASE ~(buffered >= need)
  <2>1. pending' = need /\ due' = FALSE /\ buffered' = buffered
    BY <1>4 DEF Read
  <2>2. paused' = FALSE
    <3>1. UNCHANGED paused
      BY <1>4 DEF Read
    <3>2. QED BY <1>2, <3>1, Zenon
  <2>3. pending' \in Nat /\ buffered' \in Nat /\ pending' # NoRead
        /\ buffered' < pending'
    BY <1>1, <1>4, <2>1 DEF NoRead
  <2>4. due' \in BOOLEAN /\ ~due'
    BY <2>1
  <2>5. QED BY <2>2, <2>3, <2>4, Zenon
<1>5. QED BY <1>3, <1>4

\* The 'data' handler keeps the invariant: what is left after a read has been
\* settled is less than the chunk that settled it, and a handler that pauses
\* leaves a read pending for more than is there.
LEMMA DataKeeps ==
    ASSUME ChunksFit, ReaderInv, NEW n \in 1 .. MaxChunk, Data(n)
    PROVE  ReaderInv'
<1> DEFINE size == buffered + n
<1>1. n \in Nat /\ n >= 1 /\ n <= PauseAbove /\ PauseAbove \in Nat
  BY ReaderAssumption DEF ChunksFit
<1>2. ~closed /\ closed' = closed /\ block' = block
  BY DEF Data
<1>3. size \in Nat /\ pending \in Nat
  BY <1>1 DEF ReaderInv
<1>4. CASE Settles(size)
  <2>1. buffered' = size - pending /\ due' = TRUE /\ pending' = NoRead
        /\ paused' = (size - pending > PauseAbove)
    BY <1>4 DEF Data, TakeFrom, Behind
  <2>2. size - pending < n /\ size - pending \in Nat
    BY <1>1, <1>4 DEF ReaderInv, Settles
  <2>3. paused' = FALSE
    <3>1. ~(size - pending > PauseAbove)
      BY <1>1, <2>2
    <3>2. (size - pending > PauseAbove) = FALSE
      BY <3>1
    <3>3. QED BY <2>1, <3>2
  <2>4. buffered' \in Nat /\ buffered' <= PauseAbove /\ pending' \in Nat
    BY <1>1, <2>1, <2>2 DEF NoRead
  <2>5. block' \in 1 .. Len(PreambleSizes) /\ closed' \in BOOLEAN /\ ~closed'
    BY <1>2 DEF ReaderInv
  <2>6. QED BY <2>1, <2>3, <2>4, <2>5, Zenon DEF ReaderInv
<1>5. CASE ~Settles(size)
  <2>1. buffered' = size /\ due' = due /\ pending' = pending
        /\ paused' = (size > PauseAbove)
    BY <1>5 DEF Data, Behind
  <2>2. pending # NoRead => size < pending
    BY <1>3, <1>5 DEF Settles
  <2>3. due => size <= PauseAbove
    BY DEF Data, InTurn
  <2>4. pending = NoRead => due
    BY <1>2 DEF ReaderInv
  <2>5. paused' \in BOOLEAN /\ (paused' <=> size > PauseAbove)
    <3>1. CASE size > PauseAbove
      <4>1. paused' = TRUE
        BY <2>1, <3>1
      <4>2. QED BY <3>1, <4>1
    <3>2. CASE ~(size > PauseAbove)
      <4>1. (size > PauseAbove) = FALSE
        BY <3>2
      <4>2. paused' = FALSE
        BY <2>1, <4>1
      <4>3. QED BY <3>2, <4>2
    <3>3. QED BY <3>1, <3>2
  <2>6. paused' => ~due'
    BY <1>1, <1>3, <2>1, <2>3, <2>5
  <2>7. paused' => pending' > PauseAbove
    BY <1>1, <1>3, <2>1, <2>2, <2>4, <2>5, <2>6
  <2>8. /\ buffered' \in Nat /\ pending' \in Nat
        /\ pending' # NoRead => buffered' < pending'
        /\ due' => pending' = NoRead /\ buffered' <= PauseAbove
    BY <1>3, <2>1, <2>2, <2>3 DEF ReaderInv
  <2>9. /\ block' \in 1 .. Len(PreambleSizes)
        /\ due' \in BOOLEAN /\ closed' \in BOOLEAN /\ ~closed'
        /\ ~due' => pending' # NoRead
    BY <1>2, <2>1 DEF ReaderInv
  <2>10. QED BY <2>5, <2>6, <2>7, <2>8, <2>9, Zenon DEF ReaderInv
<1>6. QED BY <1>4, <1>5

\* The continuations of #readVideo() keep it.
LEMMA ConsumeKeeps ==
    ASSUME ReaderInv, Consume
    PROVE  ReaderInv'
<1>1. MaxLength \in Nat /\ Len(PreambleSizes) \in Nat
        /\ \A i \in 1 .. Len(PreambleSizes) : PreambleSizes[i] \in Nat \ {0}
  BY ReaderAssumption
<1>2. due
  BY DEF Consume
<1>3. ~closed
  BY <1>2 DEF ReaderInv
<1>4. ASSUME NEW need \in Nat \ {0}, Read(need), UNCHANGED closed,
             block' \in 1 .. Len(PreambleSizes)
      PROVE  ReaderInv'
  <2>1. closed' \in BOOLEAN /\ ~closed'
    BY <1>3, <1>4 DEF ReaderInv
  <2>2. QED BY <1>2, <1>4, <2>1, ReadKeeps DEF ReaderInv
<1>5. CASE awaits = "preamble" /\ block < Len(PreambleSizes) /\ error = "none"
           /\ block' = block + 1 /\ Read(PreambleSizes[block + 1])
           /\ UNCHANGED <<awaits, emitted, closed>>
  <2>1. block + 1 \in 1 .. Len(PreambleSizes)
    BY <1>1, <1>5 DEF ReaderInv
  <2>2. PreambleSizes[block + 1] \in Nat \ {0}
    BY <1>1, <2>1
  <2>3. QED BY <1>4, <1>5, <2>1, <2>2
<1>6. CASE Read(HeaderSize) /\ UNCHANGED <<block, closed>>
  <2>1. HeaderSize \in Nat \ {0} /\ block' \in 1 .. Len(PreambleSizes)
    BY <1>6, HeaderIsSome DEF ReaderInv
  <2>2. QED BY <1>4, <1>6, <2>1
<1>7. CASE ~Implausible(resolved[1][2]) /\ Read(resolved[1][2])
           /\ UNCHANGED <<block, closed>>
  <2>1. resolved[1][2] \in Nat \ {0} /\ block' \in 1 .. Len(PreambleSizes)
    BY <1>1, <1>7 DEF Implausible, ReaderInv
  <2>2. QED BY <1>4, <1>7, <2>1
<1>8. CASE closed' = TRUE /\ due' = FALSE
           /\ UNCHANGED <<block, buffered, pending, paused>>
  <2>1. pending' = NoRead /\ paused' \in BOOLEAN
    BY <1>2, <1>8 DEF ReaderInv
  <2>2. QED BY <1>8, <2>1 DEF ReaderInv
<1>9. QED BY <1>5, <1>6, <1>7, <1>8 DEF Consume

\* Every step keeps the invariant.
LEMMA NextReader == ASSUME ChunksFit PROVE ReaderInv /\ [Next]_vars => ReaderInv'
<1> SUFFICES ASSUME ReaderInv, [Next]_vars PROVE ReaderInv'
  OBVIOUS
<1>1. CASE \E n \in 1 .. MaxChunk : Data(n)
  BY <1>1, DataKeeps
<1>2. CASE \E event \in {"end", "error", "close"} : Fail(event)
  <2>1. PICK event : Fail(event)
    BY <1>2
  <2>2. /\ pending' = NoRead /\ buffered' = buffered /\ UNCHANGED <<block, due, paused>>
        /\ closed' = ~due
    BY <2>1 DEF Fail
  <2>3. /\ closed' \in BOOLEAN /\ paused' \in BOOLEAN /\ due' \in BOOLEAN
        /\ (due' => ~closed') /\ (~due' => closed')
        /\ (paused' => ~due') /\ (paused' => closed')
    BY <2>2, Zenon DEF ReaderInv
  <2>4. /\ buffered' \in Nat /\ pending' \in Nat
        /\ block' \in 1 .. Len(PreambleSizes)
        /\ due' => buffered' <= PauseAbove
    BY <2>2 DEF ReaderInv, NoRead
  <2>5. QED BY <2>2, <2>3, <2>4, Zenon DEF ReaderInv
<1>3. CASE Consume
  BY <1>3, ConsumeKeeps
<1>4. CASE \E len \in Lengths : SendFrame(len)
  BY <1>4 DEF SendFrame, ReaderInv
<1>5. CASE DeviceEnds
  BY <1>5 DEF DeviceEnds, ReaderInv
<1>6. CASE UNCHANGED vars
  BY <1>6 DEF vars, ReaderInv
<1>7. QED
  BY <1>1, <1>2, <1>3, <1>4, <1>5, <1>6
     DEF Next, SocketEnds, SocketResets, ServerExits

\* StreamReader.read() never leaves its caller waiting on a socket that the
\* reader itself has paused, unless the caller wants more than the pause mark.
THEOREM ReadsAreNotStarved == ASSUME ChunksFit PROVE Spec => []NeverStarved
<1>1. Init => ReaderInv BY InitReader
<1>2. ReaderInv /\ [Next]_vars => ReaderInv' BY NextReader
<1>3. ReaderInv => NeverStarved
  <2>1. PauseAbove \in Nat
    BY ReaderAssumption
  <2>2. QED BY <2>1 DEF ReaderInv, NeverStarved
<1>4. QED BY <1>1, <1>2, <1>3, PTL DEF Spec

-----------------------------------------------------------------------------
(* What is buffered *)

\* 4 MB and 16 MB in the code.
MarksOrdered == ResumeBelow <= PauseAbove

\* A device that sends faster than #readVideo() reads fills the buffer up to the
\* pause mark and the chunk that crosses it.
BufferBounded == buffered <= PauseAbove + MaxChunk

\* While the socket flows, the buffer is below the mark.
FlowInv ==
    /\ buffered \in Nat /\ pending \in Nat /\ paused \in BOOLEAN
    /\ ~paused => buffered <= PauseAbove
    /\ BufferBounded

\* A read takes bytes away, and resumes the socket below the lower mark only.
LEMMA ReadFlows ==
    ASSUME MarksOrdered, FlowInv, NEW need \in Nat, Read(need)
    PROVE  FlowInv'
<1>1. PauseAbove \in Nat /\ ResumeBelow \in Nat /\ MaxChunk \in Nat
  BY ReaderAssumption
<1>2. CASE buffered >= need
  <2>1. buffered' = buffered - need /\ pending' = pending
    BY <1>2 DEF Read, TakeFrom
  <2>2. paused' = (paused /\ buffered - need >= ResumeBelow)
    BY <1>2 DEF Read
  <2>3. paused' \in BOOLEAN
    BY <2>2
  <2>4. ~paused' => ~paused \/ ~(buffered - need >= ResumeBelow)
    BY <2>2, Zenon
  <2>5. buffered \in Nat /\ buffered <= PauseAbove + MaxChunk
        /\ (~paused => buffered <= PauseAbove)
    BY DEF FlowInv, BufferBounded
  <2>6. ~paused' => buffered' <= PauseAbove
    BY <1>1, <2>1, <2>4, <2>5 DEF MarksOrdered
  <2>7. buffered' \in Nat /\ buffered' <= PauseAbove + MaxChunk
    BY <1>1, <1>2, <2>1, <2>5
  <2>8. pending' \in Nat
    BY <2>1 DEF FlowInv
  <2>9. QED BY <2>3, <2>6, <2>7, <2>8 DEF FlowInv, BufferBounded
<1>3. CASE ~(buffered >= need)
  <2>1. UNCHANGED <<buffered, paused>> /\ pending' \in Nat
    BY <1>3 DEF Read
  <2>2. QED BY <2>1 DEF FlowInv, BufferBounded
<1>4. QED BY <1>2, <1>3

\* The 'data' handler runs while the socket flows, and pauses it when what is
\* left, after a pending read has had its bytes, is above the mark.
LEMMA DataFlows == ASSUME FlowInv, NEW n \in 1 .. MaxChunk, Data(n) PROVE FlowInv'
<1> DEFINE size == buffered + n
           left == IF Settles(size) THEN size - pending ELSE size
<1>1. PauseAbove \in Nat /\ MaxChunk \in Nat /\ n \in Nat /\ n <= MaxChunk
  BY ReaderAssumption
<1>2. buffered \in Nat /\ pending \in Nat /\ buffered <= PauseAbove
  BY DEF FlowInv, Data
<1>3. left \in Nat /\ left <= PauseAbove + MaxChunk
  BY <1>1, <1>2 DEF Settles
<1>4. buffered' = left /\ paused' = (left > PauseAbove) /\ pending' \in Nat
  BY <1>2 DEF Data, TakeFrom, Behind, NoRead
<1>5. paused' \in BOOLEAN /\ (~paused' => ~(left > PauseAbove))
  <2> HIDE DEF left
  <2>1. (left > PauseAbove) \in BOOLEAN
    OBVIOUS
  <2>2. QED BY <1>4, <2>1, Zenon
<1>6. ~paused' => left <= PauseAbove
  BY <1>1, <1>3, <1>5
<1> HIDE DEF left
<1>7. QED BY <1>3, <1>4, <1>5, <1>6 DEF FlowInv, BufferBounded

LEMMA NextFlows == ASSUME MarksOrdered PROVE FlowInv /\ TypeOK /\ [Next]_vars => FlowInv'
<1> SUFFICES ASSUME FlowInv, TypeOK, [Next]_vars PROVE FlowInv'
  OBVIOUS
<1>0. ASSUME UNCHANGED <<buffered, paused>>, pending' \in Nat PROVE FlowInv'
  BY <1>0 DEF FlowInv, BufferBounded
<1>1. CASE \E n \in 1 .. MaxChunk : Data(n)
  BY <1>1, DataFlows
<1>2. ASSUME NEW event, Fail(event) PROVE FlowInv'
  BY <1>0, <1>2 DEF Fail, NoRead
<1>3. CASE Consume
  <2>1. \A i \in 1 .. Len(PreambleSizes) : PreambleSizes[i] \in Nat
    BY ReaderAssumption
  <2>2. Len(PreambleSizes) \in Nat /\ block \in 1 .. Len(PreambleSizes)
    BY ReaderAssumption DEF TypeOK
  <2>3. HeaderSize \in Nat
    BY HeaderIsSome
  <2>4. ~Implausible(resolved[1][2]) => resolved[1][2] \in Nat
    BY ReaderAssumption DEF Implausible
  <2>5. block < Len(PreambleSizes) => PreambleSizes[block + 1] \in Nat
    BY <2>1, <2>2
  <2>6. \/ \E need \in Nat : Read(need)
        \/ UNCHANGED <<buffered, pending, paused>>
    BY <1>3, <2>3, <2>4, <2>5 DEF Consume
  <2>7. pending \in Nat
    BY DEF FlowInv
  <2>8. QED BY <1>0, <2>6, <2>7, ReadFlows
<1>4. CASE \E len \in Lengths : SendFrame(len)
  BY <1>0, <1>4 DEF SendFrame, FlowInv
<1>5. CASE DeviceEnds \/ UNCHANGED vars
  BY <1>0, <1>5 DEF DeviceEnds, vars, FlowInv
<1>6. QED
  BY <1>1, <1>2, <1>3, <1>4, <1>5 DEF Next, SocketEnds, SocketResets, ServerExits

\* Back-pressure bounds the buffer whatever the device sends and however frames
\* and chunks lie, also under a read that is never satisfied.
THEOREM BufferStaysBounded == ASSUME MarksOrdered PROVE Spec => []BufferBounded
<1>1. Init => FlowInv
  <2>1. PauseAbove \in Nat /\ MaxChunk \in Nat
    BY ReaderAssumption
  <2>2. PreambleSizes[1] \in Nat
    BY PreambleFacts
  <2>3. SUFFICES ASSUME Init PROVE FlowInv
    OBVIOUS
  <2>4. buffered = 0 /\ paused = FALSE /\ pending = PreambleSizes[1]
    BY <2>3 DEF Init
  <2>5. buffered \in Nat /\ buffered <= PauseAbove /\ buffered <= PauseAbove + MaxChunk
        /\ pending \in Nat
    BY <2>1, <2>2, <2>4
  <2>6. paused \in BOOLEAN
    BY <2>4, Zenon
  <2>7. QED BY <2>5, <2>6, Zenon DEF FlowInv, BufferBounded
<1>2. FlowInv /\ TypeOK /\ [Next]_vars => FlowInv'
  BY NextFlows
<1>3. FlowInv => BufferBounded
  BY DEF FlowInv
<1>4. QED BY <1>1, <1>2, <1>3, CountIsThatOfTheChunks, PTL DEF Spec
=============================================================================
