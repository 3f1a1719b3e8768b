----------------------------- MODULE QueueLemmas -----------------------------
(***************************************************************************)
(* What a queue holds, that it holds nothing twice, and in what order it   *)
(* holds it, after one of the operations the models make on queues; the    *)
(* greatest element of a bounded set of numbers; induction, recursive      *)
(* functions, and where things are in a sequence put together from others. *)
(***************************************************************************)
EXTENDS Naturals, Sequences, SequencesExt, SequenceTheorems, WellFoundedInduction, TLAPS

LEMMA EmptyHolds == Range(<<>>) = {} /\ IsInjective(<<>>)
  BY DEF Range, IsInjective

LEMMA AppendHolds ==
    ASSUME NEW S, NEW s \in Seq(S), NEW x \in S
    PROVE  /\ Append(s, x) \in Seq(S)
           /\ Append(s, x) # <<>>
           /\ Range(Append(s, x)) = Range(s) \cup {x}
           /\ IsInjective(s) /\ x \notin Range(s) => IsInjective(Append(s, x))
<1> DEFINE u == Append(s, x)
<1>1. /\ Len(s) \in Nat /\ DOMAIN s = 1..Len(s)
      /\ u \in Seq(S) /\ DOMAIN u = 1..(Len(s) + 1) /\ u # <<>>
      /\ \A i \in 1..Len(s) : u[i] = s[i]
      /\ u[Len(s) + 1] = x
  BY AppendProperties, LenProperties
<1>2. \A i \in DOMAIN u : i \in DOMAIN s \/ i = Len(s) + 1
  BY <1>1
<1>3. \A i \in DOMAIN s : i \in DOMAIN u /\ u[i] = s[i]
  BY <1>1
<1>4. Len(s) + 1 \in DOMAIN u
  BY <1>1
<1> HIDE DEF u
<1>5. Range(u) = Range(s) \cup {x}
  BY <1>1, <1>2, <1>3, <1>4 DEF Range
<1>6. ASSUME IsInjective(s), x \notin Range(s) PROVE IsInjective(u)
  <2> SUFFICES ASSUME NEW i \in DOMAIN u, NEW j \in DOMAIN u, u[i] = u[j] PROVE i = j
    BY DEF IsInjective
  <2> QED
    BY <1>1, <1>2, <1>3, <1>6 DEF IsInjective, Range
<1> QED
  BY <1>1, <1>5, <1>6 DEF u

LEMMA TailHolds ==
    ASSUME NEW S, NEW s \in Seq(S), s # <<>>
    PROVE  /\ Head(s) \in S /\ Head(s) \in Range(s)
           /\ Tail(s) \in Seq(S)
           /\ Range(s) = Range(Tail(s)) \cup {Head(s)}
           /\ IsInjective(s) => IsInjective(Tail(s)) /\ Head(s) \notin Range(Tail(s))
<1> DEFINE u == Tail(s)
<1>1. /\ Len(s) \in Nat \ {0} /\ DOMAIN s = 1..Len(s)
      /\ u \in Seq(S) /\ DOMAIN u = 1..(Len(s) - 1)
      /\ \A i \in DOMAIN u : u[i] = s[i + 1]
      /\ Head(s) \in S /\ Head(s) = s[1]
  <2>1. /\ Len(s) \in Nat \ {0} /\ DOMAIN s = 1..Len(s)
        /\ u \in Seq(S) /\ Len(u) = Len(s) - 1 /\ \A i \in 1..Len(u) : u[i] = s[i + 1]
        /\ Head(s) \in S
    BY EmptySeq, LenProperties, HeadTailProperties
  <2>2. DOMAIN u = 1..Len(u)
    BY <2>1, LenProperties
  <2> QED
    BY <2>1, <2>2
<1>2. \A i \in DOMAIN u : i + 1 \in DOMAIN s /\ i + 1 # 1
  BY <1>1
<1>3. \A i \in DOMAIN s : i = 1 \/ \E j \in DOMAIN u : i = j + 1
  <2> SUFFICES ASSUME NEW i \in DOMAIN s, i # 1 PROVE \E j \in DOMAIN u : i = j + 1
    OBVIOUS
  <2>1. i - 1 \in DOMAIN u /\ i = (i - 1) + 1
    BY <1>1
  <2> QED
    BY <2>1
<1>4. 1 \in DOMAIN s
  BY <1>1
<1> HIDE DEF u
<1>5. Range(s) = Range(u) \cup {Head(s)} /\ Head(s) \in Range(s)
  BY <1>1, <1>2, <1>3, <1>4 DEF Range
<1>6. ASSUME IsInjective(s) PROVE IsInjective(u) /\ Head(s) \notin Range(u)
  <2>1. ASSUME NEW i \in DOMAIN u, NEW j \in DOMAIN u, u[i] = u[j] PROVE i = j
    <3>1. i + 1 = j + 1
      BY <1>1, <1>2, <1>6, <2>1 DEF IsInjective
    <3> QED
      BY <1>1, <3>1
  <2>2. Head(s) \notin Range(u)
    BY <1>1, <1>2, <1>4, <1>6 DEF IsInjective, Range
  <2> QED
    BY <2>1, <2>2 DEF IsInjective
<1> QED
  BY <1>1, <1>5, <1>6 DEF u

LEMMA ConcatHolds ==
    ASSUME NEW S, NEW s \in Seq(S), NEW q \in Seq(S)
    PROVE  /\ s \o q \in Seq(S)
           /\ Range(s \o q) = Range(s) \cup Range(q)
           /\ IsInjective(s \o q) <=>
                  IsInjective(s) /\ IsInjective(q) /\ Range(s) \cap Range(q) = {}
<1> DEFINE u == s \o q
           n == Len(s)
           m == Len(q)
<1>1. /\ n \in Nat /\ m \in Nat
      /\ DOMAIN s = 1..n /\ DOMAIN q = 1..m
      /\ u \in Seq(S) /\ DOMAIN u = 1..(n + m)
      /\ \A i \in 1..(n + m) : u[i] = IF i <= n THEN s[i] ELSE q[i - n]
  <2>1. /\ u \in Seq(S) /\ Len(u) = n + m
        /\ \A i \in 1..(n + m) : u[i] = IF i <= n THEN s[i] ELSE q[i - n]
    BY ConcatProperties
  <2> QED
    BY <2>1, LenProperties
<1> HIDE DEF u, n, m
<1>2. \A i \in DOMAIN s : i \in DOMAIN u /\ u[i] = s[i]
  BY <1>1
<1>3. \A i \in DOMAIN q : n + i \in DOMAIN u /\ u[n + i] = q[i]
  <2> SUFFICES ASSUME NEW i \in DOMAIN q PROVE n + i \in DOMAIN u /\ u[n + i] = q[i]
    OBVIOUS
  <2>1. n + i \in 1..(n + m) /\ ~(n + i <= n) /\ (n + i) - n = i
    BY <1>1
  <2> QED
    BY <1>1, <2>1
<1>4. \A i \in DOMAIN u : i \in DOMAIN s \/ \E j \in DOMAIN q : i = n + j
  <2> SUFFICES ASSUME NEW i \in DOMAIN u, i \notin DOMAIN s
               PROVE  \E j \in DOMAIN q : i = n + j
    OBVIOUS
  <2>1. i - n \in DOMAIN q /\ i = n + (i - n)
    BY <1>1
  <2> QED
    BY <2>1
<1>5. Range(u) = Range(s) \cup Range(q)
  BY <1>2, <1>3, <1>4 DEF Range
<1>6. \A i \in DOMAIN s, j \in DOMAIN q : i # n + j
  BY <1>1
<1>7. \A i, j \in DOMAIN q : n + i = n + j => i = j
  BY <1>1
<1>8. ASSUME IsInjective(u)
      PROVE  IsInjective(s) /\ IsInjective(q) /\ Range(s) \cap Range(q) = {}
  BY <1>2, <1>3, <1>6, <1>7, <1>8 DEF IsInjective, Range
<1>9. ASSUME IsInjective(s), IsInjective(q), Range(s) \cap Range(q) = {}
      PROVE  IsInjective(u)
  <2> SUFFICES ASSUME NEW i \in DOMAIN u, NEW j \in DOMAIN u, u[i] = u[j] PROVE i = j
    BY DEF IsInjective
  <2>1. CASE i \in DOMAIN s /\ j \in DOMAIN s
    BY <1>2, <1>9, <2>1 DEF IsInjective
  <2>2. ASSUME NEW k \in DOMAIN q, NEW l \in DOMAIN q, i = n + k, j = n + l PROVE i = j
    BY <1>3, <1>9, <2>2 DEF IsInjective
  <2>3. ASSUME NEW k \in DOMAIN s, NEW l \in DOMAIN q, u[k] = u[n + l] PROVE FALSE
    BY <1>2, <1>3, <1>9, <2>3 DEF Range
  <2> QED
    BY <1>4, <2>1, <2>2, <2>3
<1> QED
  BY <1>1, <1>5, <1>8, <1>9 DEF u

\* A queue of at most one element.
LEMMA SingleHolds ==
    ASSUME NEW x
    PROVE  Range(<<x>>) = {x} /\ IsInjective(<<x>>)
<1>1. DOMAIN <<x>> = {1} /\ <<x>>[1] = x
  OBVIOUS
<1> QED
  BY <1>1 DEF Range, IsInjective

LEMMA RemoveAtHolds ==
    ASSUME NEW S, NEW s \in Seq(S), NEW i \in DOMAIN s
    PROVE  /\ RemoveAt(s, i) \in Seq(S)
           /\ s[i] \in S /\ s[i] \in Range(s)
           /\ Range(s) = Range(RemoveAt(s, i)) \cup {s[i]}
           /\ IsInjective(s) =>
                  IsInjective(RemoveAt(s, i)) /\ s[i] \notin Range(RemoveAt(s, i))
<1> DEFINE p == SubSeq(s, 1, i - 1)
           q == SubSeq(s, i + 1, Len(s))
           r == p \o <<s[i]>>
<1>1. Len(s) \in Nat /\ i \in 1..Len(s) /\ DOMAIN s = 1..Len(s) /\ i \in Nat
  BY LenProperties
<1>2. \A j \in 1..Len(s) : s[j] \in S
  BY ElementOfSeq
<1>3. p \in Seq(S) /\ q \in Seq(S) /\ <<s[i]>> \in Seq(S)
  BY <1>1, <1>2, SubSeqProperties
<1>4. s = r \o q
  <2>1. SubSeq(s, 1, i) = r
    <3>1. 1 \in 1..Len(s) /\ i \in 1..Len(s)
      BY <1>1
    <3> QED
      BY <3>1, SubSeqRecursiveSecond
  <2>2. SubSeq(s, 1, i) \o q = SubSeq(s, 1, Len(s))
    <3>1. 1 \in 1..Len(s)+1 /\ i \in 1 - 1..Len(s) /\ Len(s) \in i..Len(s)
      BY <1>1
    <3> QED
      BY <3>1, ConcatAdjacentSubSeq
  <2> QED
    BY <2>1, <2>2, SubSeqFull
<1>5. RemoveAt(s, i) = p \o q
  BY DEF RemoveAt
<1> HIDE DEF p, q, r
<1>6. /\ r \in Seq(S) /\ Range(r) = Range(p) \cup {s[i]}
      /\ IsInjective(r) <=> IsInjective(p) /\ s[i] \notin Range(p)
  <2>1. /\ p \o <<s[i]>> \in Seq(S)
        /\ Range(p \o <<s[i]>>) = Range(p) \cup Range(<<s[i]>>)
        /\ IsInjective(p \o <<s[i]>>) <=> IsInjective(p) /\ IsInjective(<<s[i]>>)
                                         /\ Range(p) \cap Range(<<s[i]>>) = {}
    BY <1>3, ConcatHolds
  <2>2. Range(<<s[i]>>) = {s[i]} /\ IsInjective(<<s[i]>>)
    BY SingleHolds
  <2> QED
    BY <2>1, <2>2 DEF r
<1>7. /\ Range(s) = Range(r) \cup Range(q)
      /\ IsInjective(s) <=> IsInjective(r) /\ IsInjective(q) /\ Range(r) \cap Range(q) = {}
  BY <1>3, <1>4, <1>6, ConcatHolds
<1>8. /\ p \o q \in Seq(S) /\ Range(p \o q) = Range(p) \cup Range(q)
      /\ IsInjective(p \o q) <=> IsInjective(p) /\ IsInjective(q) /\ Range(p) \cap Range(q) = {}
  BY <1>3, ConcatHolds
<1> QED
  BY <1>1, <1>2, <1>5, <1>6, <1>7, <1>8

-----------------------------------------------------------------------------
\* Each element of the queue is in relation R to all those behind it.
Ordered(s, R) == \A i, j \in DOMAIN s : i < j => <<s[i], s[j]>> \in R

LEMMA LargerOrder ==
    ASSUME NEW s, NEW R, NEW Q, Ordered(s, R), R \subseteq Q
    PROVE  Ordered(s, Q)
  BY DEF Ordered

LEMMA EmptyOrdered == \A R : Ordered(<<>>, R)
  BY DEF Ordered

LEMMA AppendOrdered ==
    ASSUME NEW S, NEW s \in Seq(S), NEW x \in S, NEW R,
           Ordered(s, R), \A y \in Range(s) : <<y, x>> \in R
    PROVE  Ordered(Append(s, x), R)
<1> DEFINE u == Append(s, x)
<1>1. /\ Len(s) \in Nat /\ DOMAIN s = 1..Len(s) /\ DOMAIN u = 1..(Len(s) + 1)
      /\ \A i \in 1..Len(s) : u[i] = s[i]
      /\ u[Len(s) + 1] = x
  BY AppendProperties, LenProperties
<1> HIDE DEF u
<1> SUFFICES ASSUME NEW i \in DOMAIN u, NEW j \in DOMAIN u, i < j
             PROVE  <<u[i], u[j]>> \in R
  BY DEF Ordered, u
<1>2. i \in DOMAIN s /\ u[i] = s[i] /\ s[i] \in Range(s)
  BY <1>1 DEF Range
<1>3. CASE j \in DOMAIN s
  BY <1>1, <1>2, <1>3 DEF Ordered
<1>4. CASE j = Len(s) + 1
  BY <1>1, <1>2, <1>4
<1> QED
  BY <1>1, <1>3, <1>4

LEMMA TailOrdered ==
    ASSUME NEW S, NEW s \in Seq(S), s # <<>>, NEW R, Ordered(s, R)
    PROVE  Ordered(Tail(s), R) /\ \A y \in Range(Tail(s)) : <<Head(s), y>> \in R
<1> DEFINE u == Tail(s)
<1>1. /\ Len(s) \in Nat \ {0} /\ DOMAIN s = 1..Len(s)
      /\ DOMAIN u = 1..(Len(s) - 1)
      /\ \A i \in 1..(Len(s) - 1) : u[i] = s[i + 1]
      /\ Head(s) = s[1]
  <2>1. /\ Len(s) \in Nat \ {0} /\ DOMAIN s = 1..Len(s) /\ Head(s) = s[1]
        /\ u \in Seq(S) /\ Len(u) = Len(s) - 1 /\ \A i \in 1..Len(u) : u[i] = s[i + 1]
    BY EmptySeq, LenProperties, HeadTailProperties
  <2>2. DOMAIN u = 1..Len(u)
    BY <2>1, LenProperties
  <2> QED
    BY <2>1, <2>2
<1> HIDE DEF u
<1>2. \A i \in DOMAIN u : i + 1 \in DOMAIN s /\ 1 < i + 1
  BY <1>1
<1>3. \A i, j \in DOMAIN u : i < j => i + 1 < j + 1
  BY <1>1
<1>4. Ordered(u, R)
  BY <1>1, <1>2, <1>3 DEF Ordered
<1>5. ASSUME NEW y \in Range(u) PROVE <<Head(s), y>> \in R
  <2>1. PICK i \in DOMAIN u : y = u[i]
    BY DEF Range
  <2>2. 1 \in DOMAIN s
    BY <1>1
  <2> QED
    BY <1>1, <1>2, <2>1, <2>2 DEF Ordered
<1> QED
  BY <1>4, <1>5 DEF u

LEMMA RemoveAtOrdered ==
    ASSUME NEW S, NEW s \in Seq(S), NEW i \in DOMAIN s, NEW R, Ordered(s, R)
    PROVE  Ordered(RemoveAt(s, i), R)
<1> DEFINE p == SubSeq(s, 1, i - 1)
           q == SubSeq(s, i + 1, Len(s))
           u == RemoveAt(s, i)
           back(j) == IF j < i THEN j ELSE j + 1
<1>1. Len(s) \in Nat /\ DOMAIN s = 1..Len(s) /\ i \in 1..Len(s)
  BY LenProperties
<1>2. /\ p \in Seq(S) /\ Len(p) = i - 1 /\ \A j \in 1..(i - 1) : p[j] = s[j]
      /\ q \in Seq(S) /\ Len(q) = Len(s) - i
      /\ \A j \in 1..(Len(s) - i) : q[j] = s[i + j]
  <2>1. /\ \A j \in 1..(i - 1) : s[j] \in S
        /\ \A j \in (i + 1)..Len(s) : s[j] \in S
    BY <1>1, ElementOfSeq
  <2>2. /\ p \in Seq(S)
        /\ Len(p) = IF 1 <= i - 1 THEN i - 1 - 1 + 1 ELSE 0
        /\ \A j \in 1..(i - 1 - 1 + 1) : p[j] = s[1 + j - 1]
    BY <1>1, <2>1, SubSeqProperties
  <2>3. /\ q \in Seq(S)
        /\ Len(q) = IF i + 1 <= Len(s) THEN Len(s) - (i + 1) + 1 ELSE 0
        /\ \A j \in 1..(Len(s) - (i + 1) + 1) : q[j] = s[(i + 1) + j - 1]
    BY <1>1, <2>1, SubSeqProperties
  <2>4. ASSUME NEW j \in 1..(i - 1) PROVE p[j] = s[j]
    <3>1. j \in 1..(i - 1 - 1 + 1) /\ 1 + j - 1 = j
      BY <1>1
    <3> QED
      BY <2>2, <3>1
  <2>5. ASSUME NEW j \in 1..(Len(s) - i) PROVE q[j] = s[i + j]
    <3>1. j \in 1..(Len(s) - (i + 1) + 1) /\ (i + 1) + j - 1 = i + j
      BY <1>1
    <3> QED
      BY <2>3, <3>1
  <2> QED
    BY <1>1, <2>2, <2>3, <2>4, <2>5
<1>3. /\ u \in Seq(S) /\ Len(u) = Len(s) - 1
      /\ \A j \in 1..(Len(s) - 1) : u[j] = IF j <= i - 1 THEN p[j] ELSE q[j - (i - 1)]
  <2>1. /\ p \o q \in Seq(S) /\ Len(p \o q) = Len(p) + Len(q)
        /\ \A j \in 1..(Len(p) + Len(q)) :
              (p \o q)[j] = IF j <= Len(p) THEN p[j] ELSE q[j - Len(p)]
    BY <1>2, ConcatProperties
  <2>2. u = p \o q
    BY DEF RemoveAt
  <2>3. Len(p) + Len(q) = Len(s) - 1
    BY <1>1, <1>2, SMTT(30)
  <2> QED
    BY <1>2, <2>1, <2>2, <2>3
<1>4. DOMAIN u = 1..(Len(s) - 1)
  BY <1>3, LenProperties
<1> HIDE DEF p, q, u
<1>5. ASSUME NEW j \in DOMAIN u PROVE back(j) \in DOMAIN s /\ u[j] = s[back(j)]
  <2>1. CASE j < i
    <3>1. j \in 1..(i - 1) /\ j <= i - 1 /\ j \in 1..Len(s)
      BY <1>1, <1>4, <2>1
    <3> QED
      BY <1>1, <1>2, <1>3, <1>4, <2>1, <3>1
  <2>2. CASE ~(j < i)
    <3>1. /\ j - (i - 1) \in 1..(Len(s) - i) /\ ~(j <= i - 1)
          /\ i + (j - (i - 1)) = j + 1 /\ j + 1 \in 1..Len(s)
      BY <1>1, <1>4, <2>2
    <3> QED
      BY <1>1, <1>2, <1>3, <1>4, <2>2, <3>1
  <2> QED
    BY <2>1, <2>2
<1>6. \A j, k \in DOMAIN u : j < k => back(j) < back(k)
  BY <1>1, <1>4
<1> HIDE DEF back
<1>7. Ordered(u, R)
  BY <1>5, <1>6 DEF Ordered
<1> QED
  BY <1>7 DEF u

-----------------------------------------------------------------------------
\* Items that stand for a request, in a queue that has no request twice.
ReqsOf(X) == {x.req : x \in X}
Differ(I) == {p \in I \X I : p[1].req # p[2].req}

LEMMA AppendDiffers ==
    ASSUME NEW I, NEW q \in Seq(I), NEW x \in I
    PROVE  /\ ReqsOf(Range(Append(q, x))) = ReqsOf(Range(q)) \cup {x.req}
           /\ Ordered(q, Differ(I)) /\ x.req \notin ReqsOf(Range(q))
                  => Ordered(Append(q, x), Differ(I))
<1>1. Range(Append(q, x)) = Range(q) \cup {x}
  BY AppendHolds
<1>2. ASSUME Ordered(q, Differ(I)), x.req \notin ReqsOf(Range(q))
      PROVE  Ordered(Append(q, x), Differ(I))
  <2>1. \A y \in Range(q) : y \in I /\ y.req # x.req
    <3>1. \A i \in 1..Len(q) : q[i] \in I
      BY ElementOfSeq
    <3>2. DOMAIN q = 1..Len(q)
      BY LenProperties
    <3> QED
      BY <1>2, <3>1, <3>2 DEF Range, ReqsOf
  <2>2. \A y \in Range(q) : <<y, x>> \in Differ(I)
    BY <2>1 DEF Differ
  <2> QED
    BY <1>2, <2>2, AppendOrdered
<1> QED
  BY <1>1, <1>2 DEF ReqsOf

LEMMA TailDiffers ==
    ASSUME NEW I, NEW q \in Seq(I), q # <<>>
    PROVE  /\ ReqsOf(Range(q)) = ReqsOf(Range(Tail(q))) \cup {Head(q).req}
           /\ Ordered(q, Differ(I)) =>
                  /\ Ordered(Tail(q), Differ(I))
                  /\ Head(q).req \notin ReqsOf(Range(Tail(q)))
<1>1. Range(q) = Range(Tail(q)) \cup {Head(q)}
  BY TailHolds
<1>2. ASSUME Ordered(q, Differ(I))
      PROVE  Ordered(Tail(q), Differ(I)) /\ Head(q).req \notin ReqsOf(Range(Tail(q)))
  <2>1. Ordered(Tail(q), Differ(I)) /\ \A y \in Range(Tail(q)) : <<Head(q), y>> \in Differ(I)
    BY <1>2, TailOrdered
  <2> QED
    BY <2>1 DEF Differ, ReqsOf
<1> QED
  BY <1>1, <1>2 DEF ReqsOf

-----------------------------------------------------------------------------
\* A set of numbers up to n has a greatest element.
LEMMA MaxIsGreatest ==
    ASSUME NEW n \in Nat, NEW T, T \subseteq 0..n, T # {}
    PROVE  Max(T) \in T /\ \A x \in T : x <= Max(T)
<1> DEFINE Above == {k \in Nat : \A x \in T : x <= k}
<1>1. \E k \in Above : \A y \in Above : ~(y < k)
  <2>1. Above \subseteq Nat /\ n \in Above
    OBVIOUS
  <2>2. \E k \in Above : \A y \in Above : ~(<<y, k>> \in OpToRel(<, Nat))
    BY <2>1, NatLessThanWellFounded, WFMin
  <2>3. \A y, k \in Nat : y < k => <<y, k>> \in OpToRel(<, Nat)
    BY DEF OpToRel
  <2> QED
    BY <2>1, <2>2, <2>3
<1>2. PICK k \in Above : \A y \in Above : ~(y < k)
  BY <1>1
<1>3. k \in T
  <2> SUFFICES ASSUME k \notin T PROVE FALSE
    OBVIOUS
  <2>1. \A x \in T : x \in Nat /\ x < k
    BY <1>2
  <2>2. k \in Nat \ {0}
    <3>1. PICK x \in T : TRUE
      OBVIOUS
    <3>2. x \in Nat /\ x < k /\ k \in Nat
      BY <1>2, <2>1
    <3> QED
      BY <3>2
  <2>3. k - 1 \in Nat /\ k - 1 < k /\ \A x \in T : x <= k - 1
    BY <2>1, <2>2
  <2>4. k - 1 \in Above
    BY <2>3
  <2> QED
    BY <1>2, <2>3, <2>4
<1>4. \A x \in T : k >= x
  BY <1>2
<1> HIDE DEF Above
<1> QED
  BY <1>3, <1>4 DEF Max

-----------------------------------------------------------------------------
(* Induction and recursion.  The library's theorems on both take an operator as a
   parameter; these take a set, the set of the numbers a formula holds of, and a
   function, the step of the recursion. *)

\* What holds of 0 and of each next number holds of all.
LEMMA Induct ==
    ASSUME NEW N \in Nat, NEW P, 0 \in P, \A n \in 0..(N - 1) : n \in P => n + 1 \in P
    PROVE  0..N \subseteq P
<1> SUFFICES ASSUME ~(0..N \subseteq P) PROVE FALSE
  OBVIOUS
<1> DEFINE Out == {n \in Nat : n <= N /\ n \notin P}
<1>1. \E n \in Out : \A m \in Out : ~(m < n)
  <2>1. Out # {} /\ Out \subseteq Nat
    OBVIOUS
  <2>2. \E n \in Out : \A m \in Out : ~(<<m, n>> \in OpToRel(<, Nat))
    BY <2>1, NatLessThanWellFounded, WFMin
  <2>3. \A m, n \in Nat : m < n => <<m, n>> \in OpToRel(<, Nat)
    BY DEF OpToRel
  <2> QED
    BY <2>1, <2>2, <2>3
<1>2. PICK n \in Out : \A m \in Out : ~(m < n)
  BY <1>1
<1>3. n \in Nat \ {0} /\ n <= N /\ n \notin P
  BY <1>2
<1>4. n - 1 \in 0..(N - 1) /\ n - 1 \in Nat /\ n - 1 < n /\ (n - 1) + 1 = n /\ n - 1 <= N
  BY <1>3
<1>5. n - 1 \in P
  BY <1>2, <1>4
<1> QED
  BY <1>3, <1>4, <1>5

\* f is computed from base, one step after the other.
Recurs(f, base, step, N) == f[0] = base /\ \A n \in 1..N : f[n] = step[<<n, f[n - 1]>>]

\* There is such a function.
LEMMA Recursion ==
    ASSUME NEW S, NEW base \in S, NEW N \in Nat, NEW step \in [(1..N) \X S -> S]
    PROVE  \E f \in [0..N -> S] : Recurs(f, base, step, N)
<1> DEFINE Good(f, k) == f[0] = base /\ \A n \in 1..k : f[n] = step[<<n, f[n - 1]>>]
           P == {k \in 0..N : \E f \in [0..k -> S] : Good(f, k)}
<1>1. 0 \in P
  <2> DEFINE f == [n \in 0..0 |-> base]
  <2>1. f \in [0..0 -> S] /\ Good(f, 0)
    OBVIOUS
  <2> HIDE DEF f, Good
  <2> QED
    BY <2>1
<1>2. ASSUME NEW k \in 0..(N - 1), k \in P PROVE k + 1 \in P
  <2>1. PICK f \in [0..k -> S] : Good(f, k)
    BY <1>2
  <2> DEFINE g == [n \in 0..(k + 1) |-> IF n <= k THEN f[n] ELSE step[<<k + 1, f[k]>>]]
  <2>2. f[k] \in S /\ step[<<k + 1, f[k]>>] \in S
    <3>1. k \in 0..k /\ k + 1 \in 1..N
      OBVIOUS
    <3> QED
      BY <3>1
  <2>3. g \in [0..(k + 1) -> S]
    BY <2>2
  <2>4. g[0] = base
    BY <2>1
  <2>5. ASSUME NEW n \in 1..(k + 1) PROVE g[n] = step[<<n, g[n - 1]>>]
    <3>1. n \in 0..(k + 1) /\ n - 1 \in 0..(k + 1) /\ n - 1 <= k /\ g[n - 1] = f[n - 1]
      OBVIOUS
    <3>2. CASE n <= k
      BY <2>1, <3>1, <3>2
    <3>3. CASE n = k + 1
      <4>1. n - 1 = k /\ ~(n <= k)
        BY <3>3
      <4> QED
        BY <3>1, <3>3, <4>1
    <3> QED
      BY <3>2, <3>3
  <2> HIDE DEF g
  <2> QED
    BY <2>3, <2>4, <2>5
<1> HIDE DEF P
<1>3. 0..N \subseteq P
  BY <1>1, <1>2, Induct
<1> HIDE DEF Good
<1>4. \E f \in [0..N -> S] : Good(f, N)
  BY <1>3 DEF P
<1> QED
  BY <1>4 DEF Good, Recurs

-----------------------------------------------------------------------------
\* FlattenSeq appends one sequence after the other.
LEMMA FlattenIs ==
    ASSUME NEW S, NEW ss \in Seq(Seq(S))
    PROVE  \E f \in [0..Len(ss) -> Seq(S)] :
               /\ f[0] = <<>>
               /\ \A n \in 1..Len(ss) : f[n] = f[n - 1] \o ss[n]
               /\ FlattenSeq(ss) = f[Len(ss)]
<1> DEFINE N == Len(ss)
           T == Seq(S)
           step == [p \in (1..N) \X T |-> p[2] \o ss[p[1]]]
<1>1. N \in Nat /\ \A n \in 1..N : ss[n] \in T
  BY LenProperties, ElementOfSeq
<1>2. <<>> \in T /\ step \in [(1..N) \X T -> T]
  <2>1. \A n \in 1..N : \A t \in T : t \o ss[n] \in T
    BY <1>1, ConcatProperties
  <2> HIDE DEF T, N
  <2> QED
    BY <2>1, EmptySeq DEF T
<1>3. PICK f \in [0..N -> T] : Recurs(f, <<>>, step, N)
  <2> HIDE DEF step, T, N
  <2> QED
    BY <1>1, <1>2, Recursion
<1>4. ASSUME NEW n \in 1..N PROVE f[n] = f[n - 1] \o ss[n]
  <2>1. n - 1 \in 0..N
    BY <1>1
  <2>2. f[n - 1] \in T
    <3> HIDE DEF T, N
    <3> QED
      BY <2>1
  <2>3. f[n] = step[<<n, f[n - 1]>>]
    <3> HIDE DEF step, T, N
    <3> QED
      BY <1>3 DEF Recurs
  <2> HIDE DEF T, N
  <2> QED
    BY <2>2, <2>3
<1>5. FlattenSeq(ss) = f[N]
  <2>1. CASE N = 0
    <3>1. ss = <<>>
      BY <2>1, EmptySeq
    <3> QED
      BY <1>3, <2>1, <3>1 DEF FlattenSeq, Recurs
  <2>2. CASE N # 0
    <3> DEFINE Solves(h) == h = [i \in 1..N |-> IF i = 1 THEN ss[i] ELSE h[i - 1] \o ss[i]]
               g == [i \in 1..N |-> f[i]]
               h == CHOOSE h : Solves(h)
    <3>1. FlattenSeq(ss) = h[N]
      BY <2>2 DEF FlattenSeq
    <3>2. ASSUME NEW i \in 1..N
          PROVE  g[i] = IF i = 1 THEN ss[i] ELSE g[i - 1] \o ss[i]
      <4>1. CASE i = 1
        <5>1. i - 1 = 0 /\ ss[i] \in Seq(S) /\ f[0] = <<>>
          BY <1>1, <1>3, <4>1 DEF Recurs
        <5>2. f[i] = <<>> \o ss[i]
          BY <1>4, <5>1
        <5> QED
          BY <4>1, <5>1, <5>2, ConcatEmptySeq
      <4>2. CASE i # 1
        <5>1. i - 1 \in 1..N
          BY <1>1, <4>2
        <5> QED
          BY <1>4, <4>2, <5>1
      <4> QED
        BY <4>1, <4>2
    <3>3. Solves(g)
      BY <3>2
    <3>4. Solves(h)
      <4> HIDE DEF Solves, g
      <4> QED
        BY <3>3
    <3> HIDE DEF h
    <3>5. ASSUME NEW i \in 1..N
          PROVE  h[i] = IF i = 1 THEN ss[i] ELSE h[i - 1] \o ss[i]
      BY <3>4
    <3> DEFINE P == {n \in 0..N : n = 0 \/ h[n] = g[n]}
    <3>6. 0 \in P
      BY <1>1
    <3> HIDE DEF Solves, g
    <3>7. ASSUME NEW n \in 0..(N - 1), n \in P PROVE n + 1 \in P
      <4> DEFINE i == n + 1
      <4>1. i \in 1..N /\ i - 1 = n /\ i \in 0..N
        BY <1>1
      <4>2. i = 1 \/ h[n] = g[n]
        BY <3>7
      <4> HIDE DEF i
      <4>3. h[i] = g[i]
        BY <3>2, <3>5, <4>1, <4>2
      <4> QED
        BY <4>1, <4>3 DEF i
    <3>8. 0..N \subseteq P
      <4> HIDE DEF P, N
      <4> QED
        BY <1>1, <3>6, <3>7, Induct
    <3> QED
      <4>1. N \in P /\ N \in 1..N
        BY <1>1, <2>2, <3>8
      <4> QED
        BY <2>2, <3>1, <4>1 DEF g
  <2> QED
    BY <2>1, <2>2
<1> HIDE DEF step
<1> QED
  BY <1>3, <1>4, <1>5 DEF Recurs

\* Where the elements of each sequence are once they are all put together.
LEMMA FlattenLayout ==
    ASSUME NEW S, NEW ss \in Seq(Seq(S))
    PROVE  /\ FlattenSeq(ss) \in Seq(S)
           /\ \E off \in [0..Len(ss) -> Nat] :
                 /\ off[0] = 0
                 /\ \A k \in 1..Len(ss) : off[k] = off[k - 1] + Len(ss[k])
                 /\ Len(FlattenSeq(ss)) = off[Len(ss)]
                 /\ \A k \in 0..Len(ss) : off[k] <= off[Len(ss)]
                 /\ \A k \in 1..Len(ss) : \A i \in 1..Len(ss[k]) :
                       FlattenSeq(ss)[off[k - 1] + i] = ss[k][i]
<1> DEFINE N == Len(ss)
           T == Seq(S)
<1>1. N \in Nat /\ \A n \in 1..N : ss[n] \in Seq(S)
  BY LenProperties, ElementOfSeq
<1>2. PICK f \in [0..N -> T] :
          /\ f[0] = <<>>
          /\ \A n \in 1..N : f[n] = f[n - 1] \o ss[n]
          /\ FlattenSeq(ss) = f[N]
  BY FlattenIs
<1> DEFINE off == [k \in 0..N |-> Len(f[k])]
<1>3. \A k \in 0..N : f[k] \in Seq(S) /\ Len(f[k]) \in Nat
  BY <1>2, LenProperties
<1>4. ASSUME NEW k \in 1..N
      PROVE  /\ k - 1 \in 0..N /\ k \in 0..N
             /\ Len(f[k]) = Len(f[k - 1]) + Len(ss[k])
             /\ \A i \in 1..Len(f[k - 1]) : f[k][i] = f[k - 1][i]
             /\ \A i \in 1..Len(ss[k]) : f[k][Len(f[k - 1]) + i] = ss[k][i]
             /\ Len(ss[k]) \in Nat
  <2>1. k - 1 \in 0..N /\ k \in 0..N
    BY <1>1
  <2> DEFINE a == f[k - 1]
             b == ss[k]
  <2>2. a \in Seq(S) /\ b \in Seq(S) /\ f[k] = a \o b
    BY <1>1, <1>2, <1>3, <2>1
  <2> HIDE DEF a, b
  <2>3. Len(a) \in Nat /\ Len(b) \in Nat
    BY <2>2, LenProperties
  <2>4. /\ Len(a \o b) = Len(a) + Len(b)
        /\ \A i \in 1..(Len(a) + Len(b)) :
              (a \o b)[i] = IF i <= Len(a) THEN a[i] ELSE b[i - Len(a)]
    BY <2>2, ConcatProperties
  <2>5. \A i \in 1..Len(a) : (a \o b)[i] = a[i]
    BY <2>3, <2>4
  <2>6. ASSUME NEW i \in 1..Len(b) PROVE (a \o b)[Len(a) + i] = b[i]
    <3>1. Len(a) + i \in 1..(Len(a) + Len(b)) /\ ~(Len(a) + i <= Len(a))
          /\ (Len(a) + i) - Len(a) = i
      BY <2>3
    <3> QED
      BY <2>4, <3>1
  <2> QED
    BY <2>1, <2>2, <2>3, <2>4, <2>5, <2>6 DEF a, b
<1> DEFINE Within(k, n) == /\ Len(f[k]) <= Len(f[n])
                           /\ \A i \in 1..Len(f[k]) : f[n][i] = f[k][i]
           P == {n \in 0..N : \A k \in 0..n : Within(k, n)}
<1>5. 0 \in P
  BY <1>1, <1>3
<1>6. ASSUME NEW n \in 0..(N - 1), n \in P PROVE n + 1 \in P
  <2>1. n + 1 \in 1..N /\ (n + 1) - 1 = n /\ n \in 0..N /\ n + 1 \in 0..N
    BY <1>1
  <2>2. /\ Len(f[n + 1]) = Len(f[n]) + Len(ss[n + 1]) /\ Len(ss[n + 1]) \in Nat
        /\ \A i \in 1..Len(f[n]) : f[n + 1][i] = f[n][i]
    <3> DEFINE m == n + 1
    <3>1. m \in 1..N /\ m - 1 = n
      BY <2>1
    <3> HIDE DEF m
    <3>2. /\ Len(f[m]) = Len(f[m - 1]) + Len(ss[m]) /\ Len(ss[m]) \in Nat
          /\ \A i \in 1..Len(f[m - 1]) : f[m][i] = f[m - 1][i]
      BY <1>4, <3>1
    <3> QED
      BY <3>1, <3>2 DEF m
  <2>3. ASSUME NEW k \in 0..(n + 1) PROVE Within(k, n + 1)
    <3>1. CASE k = n + 1
      BY <1>3, <2>1, <3>1
    <3>2. CASE k # n + 1
      <4>1. k \in 0..n /\ k \in 0..N
        BY <1>1, <3>2
      <4>2. Within(k, n)
        BY <1>6, <4>1
      <4>3. Len(f[k]) \in Nat /\ Len(f[n]) \in Nat
        BY <1>3, <2>1, <4>1
      <4>4. Len(f[k]) <= Len(f[n + 1])
        <5> DEFINE a == Len(f[k])
                   b == Len(f[n])
                   c == Len(ss[n + 1])
        <5>1. a \in Nat /\ b \in Nat /\ c \in Nat /\ a <= b
          BY <2>2, <4>2, <4>3
        <5> HIDE DEF a, b, c
        <5>2. a <= b + c
          BY <5>1
        <5> QED
          BY <2>2, <5>2 DEF a, b, c
      <4>5. ASSUME NEW i \in 1..Len(f[k]) PROVE f[n + 1][i] = f[k][i]
        <5>1. i \in 1..Len(f[n])
          BY <4>2, <4>3
        <5> QED
          BY <2>2, <4>2, <5>1
      <4> QED
        BY <4>4, <4>5
    <3> QED
      BY <3>1, <3>2
  <2> HIDE DEF Within
  <2> QED
    BY <2>1, <2>3
<1>7. \A n \in 0..N : n \in P
  <2> HIDE DEF P, N
  <2> QED
    BY <1>1, <1>5, <1>6, Induct
<1>8. \A k \in 0..N : Within(k, N)
  <2> HIDE DEF Within
  <2> QED
    BY <1>1, <1>7
<1> HIDE DEF P
<1>9. off \in [0..N -> Nat] /\ off[0] = 0 /\ off[N] = Len(FlattenSeq(ss))
  BY <1>1, <1>2, <1>3, EmptySeq
<1>10. ASSUME NEW k \in 1..N
       PROVE  /\ off[k] = off[k - 1] + Len(ss[k])
              /\ \A i \in 1..Len(ss[k]) : FlattenSeq(ss)[off[k - 1] + i] = ss[k][i]
  <2>1. off[k] = Len(f[k]) /\ off[k - 1] = Len(f[k - 1])
    BY <1>4
  <2>2. ASSUME NEW i \in 1..Len(ss[k]) PROVE f[N][Len(f[k - 1]) + i] = ss[k][i]
    <3>1. Len(f[k - 1]) + i \in 1..Len(f[k])
      <4> DEFINE a == Len(f[k - 1])
                 b == Len(ss[k])
      <4>1. a \in Nat /\ b \in Nat /\ i \in 1..b /\ Len(f[k]) = a + b
        BY <1>3, <1>4
      <4> HIDE DEF a, b
      <4> QED
        BY <4>1 DEF a
    <3>2. f[N][Len(f[k - 1]) + i] = f[k][Len(f[k - 1]) + i]
      BY <1>4, <1>8, <3>1
    <3> QED
      BY <1>4, <3>2
  <2> QED
    BY <1>2, <1>4, <2>1, <2>2
<1>11. \A k \in 0..N : off[k] <= off[N]
  BY <1>1, <1>8
<1>12. FlattenSeq(ss) \in Seq(S)
  BY <1>1, <1>2
<1> HIDE DEF off
<1> QED
  BY <1>9, <1>10, <1>11, <1>12
=============================================================================
