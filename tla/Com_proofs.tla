----------------------------- MODULE Com_proofs -----------------------------
(***************************************************************************)
(* Com for any CPUs, faults and number of datagrams: type correctness,     *)
(* KnownGaps, Backlog, and that it implements a pipe.                      *)
(***************************************************************************)
EXTENDS Com, SequenceTheorems, FiniteSetTheorems, WellFoundedInduction, TLAPS

(* Type correctness.  No CPU has more work items than datagrams have arrived, and
   a worker that holds a datagram has one in com->msg. *)

Numbered ==
    /\ \A c \in Cpus : items[c] <= arrived
    /\ late <= arrived
    /\ \A c \in Cpus : at[c] # "idle" => msg \in Datagrams

LEMMA TypeInit == Init => TypeOK /\ Numbered
<1> SUFFICES ASSUME Init PROVE TypeOK /\ Numbered
  OBVIOUS
<1>1. MaxDatagrams \in Nat /\ 0 \in 0..MaxDatagrams
  BY ComAssumption
<1>2. rx \in Seq(Datagrams) /\ handled \in Seq(Datagrams) /\ swallowed \in Seq(Datagrams)
  BY EmptySeq DEF Init
<1>3. mixed \in BOOLEAN
  BY DEF Init
<1>4. items \in [Cpus -> 0..MaxDatagrams] /\ at \in [Cpus -> {"idle", "filling", "received", "filled"}]
  BY <1>1 DEF Init
<1> QED
  BY <1>1, <1>2, <1>3, <1>4 DEF Init, TypeOK, Numbered

\* The steps of com_init and com_close, and com_send.
LEMMA TypeOwner ==
  ASSUME TypeOK, Numbered, Owner \/ Send \/ DestroyQueue
  PROVE  TypeOK' /\ Numbered'
<1>1. UNCHANGED <<role, arrived, noise, items, at, msg, handled, late, mixed, swallowed>>
  BY DEF Owner, AllocFails, OpenSocket, OpenFails, SetState, CreateQueue, CloseSocket, Free,
         Send, DestroyQueue, fields, socket, workers, history
<1>2. rx' = rx \/ rx' = <<>>
  BY DEF Owner, AllocFails, OpenSocket, OpenFails, SetState, CreateQueue, CloseSocket, Free,
         Send, DestroyQueue, socket
<1>3. /\ owner' \in {"start", "socket", "state", "open", "drained", "released",
                     "failed", "closed"}
      /\ state' \in {"unset", "set", "null"}
      /\ wq' \in {"unset", "up", "destroyed"}
      /\ sock' \in {"none", "open", "reachable", "released"}
      /\ bad' \in {"none", "state", "wq", "com"}
  BY DEF TypeOK, Owner, AllocFails, OpenSocket, OpenFails, SetState, CreateQueue, CloseSocket,
         Free, Send, DestroyQueue, fields, socket
<1>4. rx' \in Seq(Datagrams)
  BY <1>2, EmptySeq DEF TypeOK
<1>5. mixed' \in BOOLEAN
  BY <1>1 DEF TypeOK
<1> QED
  BY <1>1, <1>3, <1>4, <1>5 DEF TypeOK, Numbered, Datagrams

\* A datagram is given the next number, and at most one item.
LEMMA TypeArrive ==
  ASSUME TypeOK, Numbered, NEW c \in Cpus, Arrive(c)
  PROVE  TypeOK' /\ Numbered'
<1>1. /\ MaxDatagrams \in Nat /\ arrived \in Nat
      /\ arrived' = arrived + 1 /\ arrived' \in Datagrams
  BY ComAssumption DEF Arrive, TypeOK, Datagrams
<1>2. UNCHANGED <<fields, owner, sock, at, msg, handled, mixed, swallowed>>
  BY DEF Arrive
<1>3. rx' \in Seq(Datagrams)
  <2>1. rx' = Append(rx, arrived')
    BY DEF Arrive
  <2> QED
    BY <1>1, <2>1, AppendProperties DEF TypeOK
<1>4. noise' \subseteq Datagrams
  <2>1. noise' = noise \/ noise' = noise \cup {arrived'}
    BY DEF Arrive
  <2> QED
    BY <1>1, <2>1 DEF TypeOK
<1>5. /\ items' = items \/ items' = [items EXCEPT ![c] = @ + 1]
      /\ late' = late \/ late' = late + 1
      /\ bad' \in {"none", "state", "wq", "com"}
  BY DEF Arrive, QueueItem, TypeOK
<1>6. /\ items' \in [Cpus -> 0..MaxDatagrams]
      /\ \A d \in Cpus : items'[d] <= arrived'
  <2>1. items \in [Cpus -> Nat] /\ \A d \in Cpus : items[d] <= arrived
    BY ComAssumption DEF TypeOK, Numbered
  <2>2. arrived + 1 <= MaxDatagrams
    BY <1>1 DEF Datagrams
  <2>3. items' \in [Cpus -> Nat] /\ \A d \in Cpus : items'[d] <= arrived + 1
    <3>1. CASE items' = items
      BY <1>1, <2>1, <3>1
    <3>2. CASE items' = [items EXCEPT ![c] = @ + 1]
      BY <1>1, <2>1, <3>2
    <3> QED
      BY <1>5, <3>1, <3>2
  <2>4. \A d \in Cpus : items'[d] \in 0..MaxDatagrams
    BY <1>1, <2>2, <2>3
  <2> QED
    BY <1>1, <2>3, <2>4
<1>7. late' \in 0..MaxDatagrams /\ late' <= arrived'
  BY <1>1, <1>5 DEF TypeOK, Numbered, Datagrams
<1>8. mixed' \in BOOLEAN
  BY <1>2 DEF TypeOK
<1>9. arrived' \in 0..MaxDatagrams
  BY <1>1 DEF Datagrams
<1> QED
  BY <1>2, <1>3, <1>4, <1>5, <1>6, <1>7, <1>8, <1>9 DEF TypeOK, Numbered, Datagrams, fields

\* A worker.
LEMMA TypeWorker ==
  ASSUME TypeOK, Numbered, NEW c \in Cpus, Worker(c)
  PROVE  TypeOK' /\ Numbered'
<1>1. UNCHANGED <<fields, owner, sock, arrived, noise, late>>
  BY DEF Worker, Receive, Fill, Handle, socket, history
<1>2. bad' \in {"none", "state", "wq", "com"}
  BY DEF Worker, Receive, Fill, Handle, TypeOK, history
<1>3. mixed' \in BOOLEAN
  BY DEF Worker, Receive, Fill, Handle, TypeOK, history
<1>4. CASE Receive(c)
  <2>1. /\ items[c] \in Nat \ {0} /\ items[c] - 1 <= arrived
        /\ items' = [items EXCEPT ![c] = items[c] - 1]
        /\ UNCHANGED <<handled, swallowed>>
    BY <1>4, ComAssumption DEF Receive, TypeOK, Numbered
  <2>2. /\ items' \in [Cpus -> 0..MaxDatagrams]
        /\ \A d \in Cpus : items'[d] <= arrived
    BY <2>1, ComAssumption DEF TypeOK, Numbered
  <2>3. CASE rx = <<>>
    <3>1. UNCHANGED <<at, rx, msg>>
      BY <1>4, <2>3 DEF Receive
    <3> QED
      BY <1>1, <1>2, <1>3, <2>1, <2>2, <3>1 DEF TypeOK, Numbered, Datagrams, fields
  <2>4. CASE rx # <<>>
    <3>1. /\ \E a \in {"received", "filling"} : at' = [at EXCEPT ![c] = a]
          /\ rx' = Tail(rx) /\ msg' = Head(rx)
      BY <1>4, <2>4 DEF Receive
    <3>2. rx' \in Seq(Datagrams) /\ msg' \in Datagrams
      <4>1. rx \in Seq(Datagrams)
        BY DEF TypeOK
      <4>2. Tail(rx) \in Seq(Datagrams) /\ Head(rx) \in Datagrams
        BY <2>4, <4>1, HeadTailProperties
      <4> QED
        BY <3>1, <4>2
    <3>3. msg' \in 0..MaxDatagrams
      BY <3>2, ComAssumption DEF Datagrams
    <3>4. at' \in [Cpus -> {"idle", "filling", "received", "filled"}]
      BY <3>1 DEF TypeOK
    <3> QED
      BY <1>1, <1>2, <1>3, <2>1, <2>2, <3>2, <3>3, <3>4 DEF TypeOK, Numbered, Datagrams, fields
  <2> QED
    BY <2>3, <2>4
<1>5. CASE Handle(c)
  <2>1. /\ at[c] # "idle" /\ at' = [at EXCEPT ![c] = "idle"]
        /\ UNCHANGED <<items, rx, msg, swallowed>>
        /\ handled' = handled \/ handled' = Append(handled, msg)
    BY <1>5 DEF Handle, socket, history
  <2>2. msg \in Datagrams
    BY <2>1 DEF Numbered
  <2>3. handled' \in Seq(Datagrams)
    <3>1. handled \in Seq(Datagrams)
      BY DEF TypeOK
    <3>2. Append(handled, msg) \in Seq(Datagrams)
      BY <2>2, <3>1, AppendProperties
    <3> QED
      BY <2>1, <3>1, <3>2
  <2>4. at' \in [Cpus -> {"idle", "filling", "received", "filled"}]
    BY <2>1 DEF TypeOK
  <2> QED
    BY <1>1, <1>2, <1>3, <2>1, <2>2, <2>3, <2>4 DEF TypeOK, Numbered, Datagrams, fields
<1>6. CASE Fill(c)
  <2>1. at[c] # "idle" /\ UNCHANGED <<items, msg, handled>>
    BY <1>6 DEF Fill
  <2>2. at' \in [Cpus -> {"idle", "filling", "received", "filled"}]
    <3>1. at' = at \/ \E a \in {"idle", "filled"} : at' = [at EXCEPT ![c] = a]
      BY <1>6 DEF Fill
    <3> QED
      BY <3>1 DEF TypeOK
  <2>3. rx' \in Seq(Datagrams) /\ swallowed' \in Seq(Datagrams)
    <3>1. rx \in Seq(Datagrams) /\ swallowed \in Seq(Datagrams)
      BY DEF TypeOK
    <3>2. CASE rx = <<>>
      BY <1>6, <3>1, <3>2 DEF Fill
    <3>3. CASE rx # <<>>
      <4>1. Tail(rx) \in Seq(Datagrams) /\ Head(rx) \in Datagrams
        BY <3>1, <3>3, HeadTailProperties
      <4>2. Append(swallowed, Head(rx)) \in Seq(Datagrams)
        BY <3>1, <4>1, AppendProperties
      <4> QED
        BY <1>6, <3>3, <4>1, <4>2 DEF Fill
    <3> QED
      BY <3>2, <3>3
  <2>4. msg \in Datagrams
    BY <2>1 DEF Numbered
  <2> QED
    BY <1>1, <1>2, <1>3, <2>1, <2>2, <2>3, <2>4 DEF TypeOK, Numbered, Datagrams, fields
<1> QED
  BY <1>4, <1>5, <1>6 DEF Worker

\* Every field of a com, every work item and every message stays in its type, for
\* any CPUs, faults and number of datagrams (com.h:12-24, com.c:104-147).
THEOREM TypeCorrect == Spec => []TypeOK
<1>1. TypeOK /\ Numbered /\ [Next]_vars => TypeOK' /\ Numbered'
  <2>1. ASSUME TypeOK, Numbered, Next PROVE TypeOK' /\ Numbered'
    BY <2>1, TypeOwner, TypeArrive, TypeWorker DEF Next
  <2>2. ASSUME TypeOK, Numbered, UNCHANGED vars PROVE TypeOK' /\ Numbered'
    <3>1. mixed' \in BOOLEAN
      BY <2>2 DEF vars, history, TypeOK
    <3> QED
      BY <2>2, <3>1 DEF vars, fields, socket, workers, history, TypeOK, Numbered, Datagrams
  <2> QED
    BY <2>1, <2>2
<1> QED
  BY TypeInit, <1>1, PTL DEF Spec

-----------------------------------------------------------------------------
(* KnownGaps.  The induction needs what com_init and com_close have established
   at each of their steps, and that nothing is left for the workers but while the
   com is open: datagrams that come before or after queue nothing. *)

Types ==
    /\ items \in [Cpus -> Nat]
    /\ at \in [Cpus -> {"idle", "filling", "received", "filled"}]
    /\ role \in {"server", "client"}
    /\ owner \in {"start", "socket", "state", "open", "drained", "released",
                  "failed", "closed"}

Before == {"start", "socket", "failed"}

\* what is set at each step of the owner
Pieces ==
    /\ state = "unset" <=> owner \in Before
    /\ wq = "up" <=> owner = "open"
    /\ sock \in {"none", "open", "reachable", "released"}
    /\ sock = "reachable" => owner \in {"socket", "state", "open", "drained"}
    /\ sock = "reachable" /\ owner \in {"socket", "state"} => role = "server"

OnlyWhileOpen == owner # "open" => Drained

Inv ==
    /\ Types
    /\ KnownGaps
    /\ bad = "none" => Pieces /\ OnlyWhileOpen

LEMMA InvInit == Init => Inv
  BY DEF Init, Inv, Types, KnownGaps, Pieces, OnlyWhileOpen, Drained, Before

\* The steps of com_init and com_close, and com_send, leave the workers alone.
LEMMA InvOwner ==
  ASSUME Inv, bad = "none", Owner \/ Send \/ DestroyQueue
  PROVE  Inv'
<1> USE DEF Inv, Types, KnownGaps, Pieces, OnlyWhileOpen, Drained, Before, fields, socket, workers
<1>1. CASE AllocFails
  BY <1>1 DEF AllocFails
<1>2. CASE OpenSocket
  BY <1>2 DEF OpenSocket
<1>3. CASE OpenFails
  BY <1>3 DEF OpenFails
<1>4. CASE SetState
  BY <1>4 DEF SetState
<1>5. CASE CreateQueue
  BY <1>5 DEF CreateQueue
<1>6. CASE CloseSocket
  BY <1>6 DEF CloseSocket
<1>7. CASE Free
  BY <1>7 DEF Free
<1>8. CASE Send
  BY <1>8 DEF Send
<1>9. CASE DestroyQueue
  BY <1>9 DEF DestroyQueue
<1> QED
  BY <1>1, <1>2, <1>3, <1>4, <1>5, <1>6, <1>7, <1>8, <1>9 DEF Owner

\* A datagram queues an item while the com is open; otherwise it falls into a gap.
LEMMA InvArrive ==
  ASSUME Inv, bad = "none", NEW c \in Cpus, Arrive(c)
  PROVE  Inv'
<1>1. sock = "reachable" /\ UNCHANGED <<fields, owner, sock, at>>
  BY DEF Arrive
<1>2. CASE state = "unset"
  <2>1. bad' = "state" /\ UNCHANGED items
    BY <1>2 DEF Arrive
  <2> QED
    BY <1>1, <1>2, <2>1 DEF Inv, Types, KnownGaps, Pieces, Before, fields
<1>3. CASE state # "unset" /\ wq # "up"
  <2>1. bad' = "wq" /\ UNCHANGED items
    BY <1>3 DEF Arrive
  <2> QED
    BY <1>1, <1>3, <2>1 DEF Inv, Types, KnownGaps, Pieces, Before, fields
<1>4. CASE state # "unset" /\ wq = "up"
  <2>1. QueueItem(c) /\ bad' = "none"
    BY <1>4 DEF Arrive
  <2>2. items' \in [Cpus -> Nat]
    BY <2>1 DEF QueueItem, Inv, Types
  <2> QED
    BY <1>1, <1>4, <2>1, <2>2 DEF Inv, Types, KnownGaps, Pieces, OnlyWhileOpen, Before, fields
<1> QED
  BY <1>2, <1>3, <1>4

\* A worker that has something to do runs while the com is open.
LEMMA InvWorker ==
  ASSUME Inv, bad = "none", NEW c \in Cpus, Worker(c)
  PROVE  Inv'
<1>1. owner = "open" /\ UNCHANGED <<fields, owner, sock>>
  BY DEF Worker, Receive, Fill, Handle, Inv, OnlyWhileOpen, Drained, Types, socket
<1>2. bad' = "none"
  BY <1>1 DEF Worker, Receive, Fill, Handle
<1>3. items' \in [Cpus -> Nat] /\ at' \in [Cpus -> {"idle", "filling", "received", "filled"}]
  <2>1. CASE Receive(c)
    <3>1. /\ items[c] > 0 /\ items' = [items EXCEPT ![c] = @ - 1]
          /\ at' = at \/ \E a \in {"received", "filling"} : at' = [at EXCEPT ![c] = a]
      BY <2>1 DEF Receive
    <3> QED
      BY <3>1 DEF Inv, Types
  <2>2. CASE Fill(c)
    <3>1. /\ items' = items
          /\ at' = at \/ \E a \in {"idle", "filled"} : at' = [at EXCEPT ![c] = a]
      BY <2>2 DEF Fill
    <3> QED
      BY <3>1 DEF Inv, Types
  <2>3. CASE Handle(c)
    <3>1. items' = items /\ at' = [at EXCEPT ![c] = "idle"]
      BY <2>3 DEF Handle
    <3> QED
      BY <3>1 DEF Inv, Types
  <2> QED
    BY <2>1, <2>2, <2>3 DEF Worker
<1> QED
  BY <1>1, <1>2, <1>3 DEF Inv, Types, KnownGaps, Pieces, OnlyWhileOpen, Before, fields

LEMMA InvNext == Inv /\ [Next]_vars => Inv'
<1>1. ASSUME Inv, Next PROVE Inv'
  BY <1>1, InvOwner, InvArrive, InvWorker DEF Next
<1>2. ASSUME Inv, UNCHANGED vars PROVE Inv'
  BY <1>2 DEF vars, fields, socket, workers, Inv, Types, KnownGaps, Pieces,
              OnlyWhileOpen, Drained, Before
<1> QED
  BY <1>1, <1>2

\* For any CPUs, faults and bounds: com_init and com_close use nothing that is
\* missing or freed but in the gaps KnownGaps lists (com.c:118, 125, 132-134, 143),
\* and neither the workers nor the callback outlive the com_t.
THEOREM GapsAreKnown == Spec => []KnownGaps
<1>1. Inv => KnownGaps
  BY DEF Inv
<1> QED
  BY InvInit, InvNext, <1>1, PTL DEF Spec

-----------------------------------------------------------------------------
(* Backlog.  Its sum is a fold, a function that calls itself on smaller and
   smaller sets of CPUs.  The proof counts instead: each CPU has as many units as
   it has items, and the sum is the number of units of all CPUs, because the two
   satisfy the same equation, which has one solution on a finite set. *)

SumOver(f) == FoldFunction(+, 0, f)

\* the units of the elements of s
Units(f, s) == {p \in s \X Nat : p[2] < f[p[1]]}

\* what the fold takes first, and what it makes of the total w of the rest
First(s) == CHOOSE x \in s : TRUE
TotalOf(f, w, s) == IF s = {} THEN 0 ELSE f[First(s)] + w[s \ {First(s)}]

\* There are finitely many units; one element has as many as its value, and those of
\* a set are those of one element and those of the others.
LEMMA UnitsAreFinite ==
    ASSUME NEW S, IsFiniteSet(S), NEW M \in Nat, NEW f \in [S -> 0..M], NEW s \in SUBSET S
    PROVE  IsFiniteSet(Units(f, s)) /\ Cardinality(Units(f, s)) \in Nat
<1>1. IsFiniteSet(s) /\ IsFiniteSet(0..M)
  BY FS_Subset, FS_Interval
<1>2. IsFiniteSet(s \X (0..M))
  BY <1>1, FS_Product
<1>3. Units(f, s) \subseteq s \X (0..M)
  BY DEF Units
<1> QED
  BY <1>2, <1>3, FS_Subset, FS_CardinalityType

LEMMA UnitsOfOne ==
    ASSUME NEW x, NEW n \in Nat
    PROVE  IsFiniteSet({x} \X {k \in Nat : k < n}) /\ Cardinality({x} \X {k \in Nat : k < n}) = n
<1>1. {k \in Nat : k < n} = 0..(n - 1)
  OBVIOUS
<1>2. IsFiniteSet(0..(n - 1)) /\ Cardinality(0..(n - 1)) = n
  BY FS_Interval
<1>3. IsFiniteSet({x}) /\ Cardinality({x}) = 1
  BY FS_Singleton
<1> QED
  BY <1>1, <1>2, <1>3, FS_Product, SMTT(30)

LEMMA UnitsSplit ==
    ASSUME NEW S, IsFiniteSet(S), NEW M \in Nat, NEW f \in [S -> 0..M],
           NEW s \in SUBSET S, NEW x \in s
    PROVE  Cardinality(Units(f, s)) = f[x] + Cardinality(Units(f, s \ {x}))
<1> DEFINE one == {x} \X {k \in Nat : k < f[x]}
           rest == Units(f, s \ {x})
<1>1. f[x] \in Nat
  OBVIOUS
<1>2. IsFiniteSet(one) /\ Cardinality(one) = f[x]
  BY <1>1, UnitsOfOne
<1>3. IsFiniteSet(rest) /\ Cardinality(rest) \in Nat
  <2>1. s \ {x} \in SUBSET S
    OBVIOUS
  <2> QED
    BY <2>1, UnitsAreFinite
<1>4. Units(f, s) = one \cup rest
  BY DEF Units
<1>5. one \cap rest = {}
  BY DEF Units
<1> HIDE DEF one, rest
<1>6. Cardinality(one \cup rest) = Cardinality(one) + Cardinality(rest) - Cardinality({})
  BY <1>2, <1>3, <1>5, FS_Union
<1> QED
  BY <1>1, <1>2, <1>3, <1>4, <1>6, FS_EmptySet DEF rest

\* w gives each subset its total.  On a finite set there is one such w: of a smallest
\* subset on which two differed they would agree on all but one element.
Totals(f, w, S) == \A s \in SUBSET S : w[s] = TotalOf(f, w, s)

LEMMA TotalIsUnique ==
    ASSUME NEW S, IsFiniteSet(S), NEW f, NEW v, NEW w, Totals(f, v, S), Totals(f, w, S)
    PROVE  \A s \in SUBSET S : v[s] = w[s]
<1> DEFINE Differ == {s \in SUBSET S : v[s] # w[s]}
<1> SUFFICES ASSUME Differ # {} PROVE FALSE
  OBVIOUS
<1>1. PICK s \in Differ : \A t \in Differ : <<t, s>> \notin StrictSubsetOrdering(S)
  <2>1. FiniteSubsetsOf(S) = SUBSET S
    BY FS_FiniteSubsetsOfFinite
  <2>2. IsWellFoundedOn(StrictSubsetOrdering(S), FiniteSubsetsOf(S))
    BY FS_StrictSubsetOrderingWellFounded
  <2>3. Differ \subseteq FiniteSubsetsOf(S)
    BY <2>1
  <2> HIDE DEF Differ
  <2> QED
    BY <2>2, <2>3, WFMin
<1> DEFINE t == s \ {First(s)}
<1>2. s # {}
  BY DEF TotalOf, Totals
<1>3. First(s) \in s
  BY <1>2 DEF First
<1>4. <<t, s>> \in StrictSubsetOrdering(S)
  BY <1>3 DEF StrictSubsetOrdering
<1>5. v[t] = w[t]
  BY <1>1, <1>4
<1>6. v[s] = w[s]
  BY <1>2, <1>5 DEF TotalOf, Totals
<1> QED
  BY <1>6

\* The fold is the number of units.
LEMMA SumIsCount ==
    ASSUME NEW S, IsFiniteSet(S), NEW M \in Nat, NEW f \in [S -> 0..M]
    PROVE  SumOver(f) = Cardinality(Units(f, S))
<1> DEFINE Sums(w) == w = [s \in SUBSET S |-> TotalOf(f, w, s)]
           count == [s \in SUBSET S |-> Cardinality(Units(f, s))]
<1>1. SumOver(f) = (CHOOSE w : Sums(w))[S]
  BY DEF SumOver, TotalOf, First, FoldFunction, FoldFunctionOnSet, MapThenFoldSet
<1>2. ASSUME NEW s \in SUBSET S PROVE count[s] = TotalOf(f, count, s)
  <2>1. CASE s = {}
    <3>1. Units(f, s) = {}
      BY <2>1 DEF Units
    <3> QED
      BY <2>1, <3>1, FS_EmptySet DEF TotalOf
  <2>2. CASE s # {}
    <3>1. First(s) \in s
      BY <2>2 DEF First
    <3>2. s \ {First(s)} \in SUBSET S
      OBVIOUS
    <3> QED
      BY <2>2, <3>1, <3>2, UnitsSplit DEF TotalOf
  <2> QED
    BY <2>1, <2>2
<1>3. Sums(count)
  BY <1>2
<1> DEFINE w == CHOOSE w : Sums(w)
<1>4. Sums(w)
  <2> HIDE DEF Sums, count
  <2> QED
    BY <1>3
<1>5. Totals(f, w, S)
  <2> HIDE DEF w
  <2> QED
    BY <1>4 DEF Totals
<1>6. Totals(f, count, S)
  <2> HIDE DEF count
  <2> QED
    BY <1>2 DEF Totals
<1> HIDE DEF count, w
<1>7. w[S] = count[S]
  <2> HIDE DEF Sums
  <2>1. \A s \in SUBSET S : w[s] = count[s]
    BY <1>5, <1>6, TotalIsUnique
  <2> QED
    BY <2>1
<1> QED
  BY <1>1, <1>7 DEF count, w

\* Zeroes have the sum zero, and one unit more makes the sum one more.
LEMMA SumOfNone ==
    ASSUME NEW S, IsFiniteSet(S)
    PROVE  SumOver([x \in S |-> 0]) = 0
<1> DEFINE f == [x \in S |-> 0]
<1>1. f \in [S -> 0..0] /\ 0 \in Nat
  OBVIOUS
<1>2. Units(f, S) = {}
  BY DEF Units
<1> HIDE DEF f
<1> QED
  BY <1>1, <1>2, SumIsCount, FS_EmptySet DEF f

LEMMA SumOfOneMore ==
    ASSUME NEW S, IsFiniteSet(S), NEW M \in Nat, NEW f \in [S -> 0..M], NEW g \in [S -> 0..M],
           NEW c \in S, g = [f EXCEPT ![c] = f[c] + 1]
    PROVE  /\ SumOver(f) \in Nat
           /\ SumOver(g) = SumOver(f) + 1
<1> DEFINE unit == <<c, f[c]>>
<1>1. Units(g, S) = Units(f, S) \cup {unit} /\ unit \notin Units(f, S)
  BY DEF Units
<1>2. IsFiniteSet(Units(f, S)) /\ Cardinality(Units(f, S)) \in Nat
  BY UnitsAreFinite
<1> HIDE DEF unit
<1>3. Cardinality(Units(g, S)) = Cardinality(Units(f, S)) + 1
  BY <1>1, <1>2, FS_AddElement
<1> QED
  BY <1>2, <1>3, SumIsCount

Items == SumOver(items)

\* Until datagrams can come, the workers have nothing to do; from then on Backlog
\* holds; and the socket is released once the workqueue is gone.
Counted ==
    /\ sock = "reachable" =>
           Len(rx) <= Items + late /\ Items + late <= Len(rx) + Len(swallowed)
    /\ sock \in {"none", "open"} =>
           /\ rx = <<>> /\ late = 0 /\ items = [c \in Cpus |-> 0]
           /\ \A c \in Cpus : at[c] = "idle"
    /\ sock = "released" => owner \in {"released", "closed"}

BInv ==
    /\ TypeOK /\ Numbered
    /\ Inv
    /\ bad = "none" => Counted

LEMMA NoItems == SumOver([c \in Cpus |-> 0]) = 0
  BY SumOfNone, ComAssumption

LEMMA ItemsOneMore ==
    \A f, g \in [Cpus -> 0..MaxDatagrams] : \A c \in Cpus :
        g = [f EXCEPT ![c] = f[c] + 1] => SumOver(f) \in Nat /\ SumOver(g) = SumOver(f) + 1
  BY SumOfOneMore, ComAssumption

LEMMA CountedInit == Init => Counted
  BY DEF Init, Counted

\* The steps of com_init and com_close, and com_send.
LEMMA CountedOwner ==
  ASSUME BInv, bad = "none", Owner \/ Send \/ DestroyQueue, bad' = "none"
  PROVE  Counted'
<1>1. Counted /\ UNCHANGED <<items, at, late, swallowed>>
  BY DEF BInv, Owner, AllocFails, OpenSocket, OpenFails, SetState, CreateQueue, CloseSocket,
         Free, Send, DestroyQueue, workers, history
<1>2. Items' = Items
  BY <1>1 DEF Items
<1>3. CASE AllocFails \/ OpenFails \/ SetState \/ CreateQueue \/ DestroyQueue \/ Free
  <2>1. UNCHANGED <<sock, rx>>
    BY <1>3 DEF AllocFails, OpenFails, SetState, CreateQueue, DestroyQueue, Free, socket
  <2>2. owner \in {"released", "closed"} => owner' \in {"released", "closed"}
    BY <1>3 DEF AllocFails, OpenFails, SetState, CreateQueue, DestroyQueue, Free
  <2> QED
    BY <1>1, <1>2, <2>1, <2>2 DEF Counted
<1>4. CASE OpenSocket \/ Send
  <2>1. rx' = rx /\ owner' \in {owner, "socket"}
    BY <1>4 DEF OpenSocket, Send
  <2>2. sock' \in {"open", "reachable"} /\ sock # "released"
    BY <1>1, <1>4 DEF OpenSocket, Send, Counted, BInv, TypeOK
  <2>3. CASE sock = "reachable"
    <3>1. sock' = "reachable"
      BY <1>4, <2>3 DEF OpenSocket, Send, BInv, Inv, Pieces
    <3> QED
      BY <1>1, <1>2, <2>1, <2>3, <3>1 DEF Counted
  <2>4. CASE sock \in {"none", "open"}
    <3>1. /\ rx = <<>> /\ late = 0 /\ Items = 0 /\ items = [c \in Cpus |-> 0]
          /\ \A c \in Cpus : at[c] = "idle"
      BY <1>1, <2>4, NoItems DEF Counted, Items
    <3>2. Len(rx) <= Items + late /\ Items + late <= Len(rx) + Len(swallowed)
      <4>1. Len(rx) = 0
        BY <3>1
      <4>2. Len(swallowed) \in Nat
        BY LenProperties DEF BInv, TypeOK
      <4> QED
        BY <3>1, <4>1, <4>2
    <3> QED
      BY <1>1, <1>2, <2>1, <2>2, <3>1, <3>2 DEF Counted
  <2> QED
    BY <2>2, <2>3, <2>4 DEF BInv, TypeOK
<1>5. CASE CloseSocket
  <2>1. sock' = "released" /\ owner' = "released"
    BY <1>5 DEF CloseSocket
  <2> QED
    BY <2>1 DEF Counted
<1> QED
  BY <1>3, <1>4, <1>5 DEF Owner

\* A datagram is given an item, or one that could not be allocated.
LEMMA CountedArrive ==
  ASSUME BInv, bad = "none", NEW c \in Cpus, Arrive(c), bad' = "none", TypeOK'
  PROVE  Counted'
<1>1. /\ sock = "reachable" /\ sock' = "reachable" /\ swallowed' = swallowed
      /\ Len(rx) <= Items + late /\ Items + late <= Len(rx) + Len(swallowed)
      /\ QueueItem(c)
  BY DEF Arrive, BInv, Counted
<1>2. Len(rx) \in Nat /\ Len(rx') = Len(rx) + 1
  <2>1. rx \in Seq(Datagrams) /\ arrived' \in Datagrams /\ rx' = Append(rx, arrived')
    BY ComAssumption DEF BInv, TypeOK, Arrive, Datagrams
  <2> QED
    BY <2>1, AppendProperties, LenProperties
<1>3. /\ late \in Nat /\ Len(swallowed) \in Nat
      /\ items \in [Cpus -> 0..MaxDatagrams] /\ items' \in [Cpus -> 0..MaxDatagrams]
  BY ComAssumption, LenProperties DEF BInv, TypeOK
<1>4. Items \in Nat
  BY <1>3, ComAssumption, SumIsCount, UnitsAreFinite DEF Items
<1>5. \/ late' = late /\ Items' = Items + 1
      \/ late' = late + 1 /\ Items' = Items
  <2>1. CASE items' = [items EXCEPT ![c] = @ + 1] /\ late' = late
    <3>1. items' = [items EXCEPT ![c] = items[c] + 1]
      BY <2>1
    <3> QED
      BY <1>3, <2>1, <3>1, ItemsOneMore DEF Items
  <2>2. CASE late' = late + 1 /\ items' = items
    BY <2>2 DEF Items
  <2> QED
    BY <1>1, <2>1, <2>2 DEF QueueItem
<1>6. Items' + late' = Items + late + 1
  BY <1>3, <1>4, <1>5
<1>7. Len(rx') <= Items' + late' /\ Items' + late' <= Len(rx') + Len(swallowed')
  BY <1>1, <1>2, <1>3, <1>4, <1>6
<1> QED
  BY <1>1, <1>7 DEF Counted

\* A worker that has something to do runs while the socket is reachable: otherwise
\* there are no items, and nothing was received.
LEMMA WorksWhileReachable ==
  ASSUME BInv, bad = "none", NEW c \in Cpus, items[c] > 0 \/ at[c] # "idle"
  PROVE  sock = "reachable"
<1>1. owner = "open"
  <2>1. items[c] \in Nat
    BY ComAssumption DEF BInv, TypeOK
  <2> QED
    BY <2>1 DEF BInv, Inv, OnlyWhileOpen, Drained
<1>2. sock \notin {"none", "open"}
  BY DEF BInv, Counted
<1>3. sock # "released" /\ sock \in {"none", "open", "reachable", "released"}
  BY <1>1 DEF BInv, Counted, TypeOK
<1> QED
  BY <1>2, <1>3

\* An item that is taken up removes a datagram, if there is one.
LEMMA CountedReceive ==
  ASSUME BInv, bad = "none", NEW c \in Cpus, Receive(c), TypeOK'
  PROVE  Counted'
<1>1. Counted /\ UNCHANGED <<sock, owner, late, swallowed>>
  BY DEF BInv, Receive
<1>2. /\ late \in Nat /\ Len(swallowed) \in Nat
      /\ items \in [Cpus -> 0..MaxDatagrams] /\ items' \in [Cpus -> 0..MaxDatagrams]
  BY ComAssumption, LenProperties DEF BInv, TypeOK
<1>3. items[c] > 0 /\ items = [items' EXCEPT ![c] = items'[c] + 1]
  <2>1. items[c] \in Nat /\ items[c] > 0 /\ items' = [items EXCEPT ![c] = items[c] - 1]
    BY <1>2 DEF Receive
  <2>2. items'[c] = items[c] - 1 /\ \A d \in Cpus \ {c} : items'[d] = items[d]
    BY <1>2, <2>1
  <2>3. items'[c] + 1 = items[c]
    BY <2>1, <2>2
  <2>4. \A d \in Cpus : items[d] = [items' EXCEPT ![c] = items'[c] + 1][d]
    BY <1>2, <2>2, <2>3
  <2> QED
    BY <1>2, <2>1, <2>4
<1>4. PICK n \in Nat : Items' = n /\ Items = n + 1
  BY <1>2, <1>3, ItemsOneMore DEF Items
<1>5. sock = "reachable"
  BY <1>3, WorksWhileReachable
<1>6. Len(rx) <= Items + late /\ Items + late <= Len(rx) + Len(swallowed)
  BY <1>1, <1>5 DEF Counted
<1>7. \/ Len(rx) = 0 /\ rx' = rx
      \/ Len(rx) \in Nat \ {0} /\ Len(rx') = Len(rx) - 1
  <2>1. CASE rx = <<>>
    BY <2>1 DEF Receive
  <2>2. CASE rx # <<>>
    <3>1. rx' = Tail(rx)
      BY <2>2 DEF Receive
    <3>2. rx \in Seq(Datagrams)
      BY DEF BInv, TypeOK
    <3>3. Len(Tail(rx)) = Len(rx) - 1 /\ Len(rx) \in Nat \ {0}
      BY <2>2, <3>2, HeadTailProperties, EmptySeq, LenProperties
    <3> QED
      BY <3>1, <3>3
  <2> QED
    BY <2>1, <2>2
<1>8. Len(rx') <= Items' + late' /\ Items' + late' <= Len(rx') + Len(swallowed')
  BY <1>1, <1>2, <1>4, <1>6, <1>7
<1> QED
  BY <1>1, <1>5, <1>8 DEF Counted

\* A datagram that is swallowed leaves its item behind.
LEMMA CountedFill ==
  ASSUME BInv, bad = "none", NEW c \in Cpus, Fill(c), TypeOK'
  PROVE  Counted'
<1>1. Counted /\ UNCHANGED <<sock, owner, late, items>>
  BY DEF BInv, Fill
<1>2. Items' = Items
  BY <1>1 DEF Items
<1>3. CASE rx = <<>>
  <2>1. UNCHANGED <<rx, swallowed>>
    BY <1>3 DEF Fill
  <2>2. sock = "reachable"
    BY WorksWhileReachable DEF Fill
  <2> QED
    BY <1>1, <1>2, <2>1, <2>2 DEF Counted
<1>4. CASE rx # <<>>
  <2>1. /\ rx \in Seq(Datagrams) /\ swallowed \in Seq(Datagrams)
        /\ late \in Nat /\ items \in [Cpus -> 0..MaxDatagrams]
    BY ComAssumption DEF BInv, TypeOK
  <2>2. rx' = Tail(rx) /\ swallowed' = Append(swallowed, Head(rx)) /\ Head(rx) \in Datagrams
    BY <1>4, <2>1, HeadTailProperties DEF Fill
  <2>3. /\ Len(rx) \in Nat \ {0} /\ Len(rx') = Len(rx) - 1
        /\ Len(swallowed) \in Nat /\ Len(swallowed') = Len(swallowed) + 1
    BY <1>4, <2>1, <2>2, HeadTailProperties, AppendProperties, EmptySeq, LenProperties
  <2>4. Items \in Nat
    BY <2>1, ComAssumption, SumIsCount, UnitsAreFinite DEF Items
  <2>5. sock = "reachable"
    BY WorksWhileReachable DEF Fill
  <2>6. Len(rx) <= Items + late /\ Items + late <= Len(rx) + Len(swallowed)
    BY <1>1, <2>5 DEF Counted
  <2>7. Len(rx') <= Items' + late' /\ Items' + late' <= Len(rx') + Len(swallowed')
    BY <1>1, <1>2, <2>1, <2>3, <2>4, <2>6
  <2> QED
    BY <1>1, <2>5, <2>7 DEF Counted
<1> QED
  BY <1>3, <1>4

LEMMA CountedWorker ==
  ASSUME BInv, bad = "none", NEW c \in Cpus, Worker(c), TypeOK'
  PROVE  Counted'
<1>1. CASE Handle(c)
  <2>1. sock = "reachable"
    BY <1>1, WorksWhileReachable DEF Handle
  <2> QED
    BY <1>1, <2>1 DEF Handle, Counted, Items, socket, history, BInv
<1> QED
  BY <1>1, CountedReceive, CountedFill DEF Worker

\* As long as nothing missing was used, one datagram waits in a reachable socket for
\* each work item and for each that could not be allocated, but for those that
\* udp_recv swallowed (com_udp.c:303), for any finite set of CPUs, any faults and
\* number of datagrams: a failed allocation in wq_recv (com.c:73) leaves every later
\* message one late, for good.
THEOREM BacklogIsCounted == Spec => []Backlog
<1>1. Init => BInv
  BY TypeInit, InvInit, CountedInit DEF BInv
<1>2. BInv /\ [Next]_vars => BInv'
  <2>1. ASSUME BInv, Next PROVE BInv'
    <3>1. TypeOK' /\ Numbered'
      BY <2>1, TypeOwner, TypeArrive, TypeWorker DEF Next, BInv
    <3>2. Inv'
      BY <2>1, InvNext DEF BInv
    <3>3. bad' = "none" => Counted'
      BY <2>1, <3>1, CountedOwner, CountedArrive, CountedWorker DEF Next
    <3> QED
      BY <3>1, <3>2, <3>3 DEF BInv
  <2>2. ASSUME BInv, UNCHANGED vars PROVE BInv'
    <3>1. mixed' \in BOOLEAN
      BY <2>2 DEF vars, history, BInv, TypeOK
    <3>2. TypeOK' /\ Numbered'
      BY <2>2, <3>1 DEF vars, fields, socket, workers, history, BInv, TypeOK, Numbered, Datagrams
    <3>3. Inv'
      BY <2>2, InvNext DEF BInv
    <3>4. bad' = "none" => Counted'
      BY <2>2 DEF vars, socket, workers, history, BInv, Counted, Items
    <3> QED
      BY <3>2, <3>3, <3>4 DEF BInv
  <2> QED
    BY <2>1, <2>2
<1>3. BInv => Backlog
  BY DEF BInv, Counted, Backlog, Items, SumOver
<1> QED
  BY <1>1, <1>2, <1>3, PTL DEF Spec

-----------------------------------------------------------------------------
(* A com implements the pipe as long as no two workers receive at once.

   The datagram a worker holds is the oldest of the pipe.  A step of com_init or
   com_close is a stutter of the pipe, but for the release of the socket, which
   loses what waits in it: that it loses no datagram a worker holds is Inv. *)

\* what the mapping needs: one worker holds a datagram, unless two have mixed
Numbers ==
    /\ rx \in Seq(Nat) /\ handled \in Seq(Nat)
    /\ arrived \in Nat /\ msg \in Nat
OneHolds == mixed \/ \A c, d \in Cpus : at[c] # "idle" /\ at[d] # "idle" => c = d

PInv == Inv /\ Numbers /\ OneHolds

LEMMA NumbersNext ==
  ASSUME Numbers, Next
  PROVE  Numbers'
<1> USE DEF Numbers
<1>1. CASE AllocFails \/ OpenSocket \/ OpenFails \/ SetState \/ CreateQueue \/ Free \/ Send
           \/ DestroyQueue
  BY <1>1 DEF AllocFails, OpenSocket, OpenFails, SetState, CreateQueue, Free, Send,
              DestroyQueue, fields, socket, workers
<1>2. CASE CloseSocket
  BY <1>2, EmptySeq DEF CloseSocket, workers
<1>3. ASSUME NEW c \in Cpus, Arrive(c) PROVE Numbers'
  BY <1>3, AppendProperties DEF Arrive
<1>4. ASSUME NEW c \in Cpus, Receive(c) PROVE Numbers'
  BY <1>4, HeadTailProperties, ZenonT(40) DEF Receive
<1>5. ASSUME NEW c \in Cpus, Handle(c) PROVE Numbers'
  <2>1. /\ UNCHANGED <<rx, arrived, msg>>
        /\ handled' = handled \/ handled' = Append(handled, msg)
    BY <1>5 DEF Handle, socket
  <2>2. Append(handled, msg) \in Seq(Nat)
    BY AppendProperties
  <2>3. handled' \in Seq(Nat)
    BY <2>1, <2>2
  <2> QED
    BY <2>1, <2>3
<1>6. ASSUME NEW c \in Cpus, Fill(c) PROVE Numbers'
  BY <1>6, HeadTailProperties DEF Fill
<1> QED
  BY <1>1, <1>2, <1>3, <1>4, <1>5, <1>6 DEF Next, Owner, Worker

LEMMA OneHoldsNext ==
  ASSUME Types, OneHolds, Next
  PROVE  OneHolds'
<1> USE DEF OneHolds
<1>1. CASE Owner \/ Send \/ DestroyQueue
  BY <1>1 DEF Owner, AllocFails, OpenSocket, OpenFails, SetState, CreateQueue, CloseSocket,
              Free, Send, DestroyQueue, workers, history
<1>2. ASSUME NEW c \in Cpus, Arrive(c) PROVE OneHolds'
  BY <1>2 DEF Arrive
<1>3. ASSUME NEW c \in Cpus, Receive(c) PROVE OneHolds'
  <2>1. \A d \in Cpus \ {c} : at'[d] = at[d]
    BY <1>3 DEF Receive, Types
  <2>2. mixed' = (mixed \/ \E d \in Cpus \ {c} : at[d] # "idle")
    BY <1>3 DEF Receive
  <2> QED
    BY <2>1, <2>2 DEF Types
<1>4. ASSUME NEW c \in Cpus, Handle(c) PROVE OneHolds'
  BY <1>4 DEF Handle, Types, history
<1>5. ASSUME NEW c \in Cpus, Fill(c) PROVE OneHolds'
  <2>1. at[c] # "idle" /\ mixed' = mixed /\ \A d \in Cpus \ {c} : at'[d] = at[d]
    BY <1>5 DEF Fill, Types
  <2> QED
    BY <2>1
<1> QED
  BY <1>1, <1>2, <1>3, <1>4, <1>5 DEF Next, Worker

-----------------------------------------------------------------------------
(* The steps, seen as steps of the pipe *)

PipeStep == [mixed' \/ APipe!PipeNext]_(APipe!pipeVars)

LEMMA NobodyHolds ==
  ASSUME Numbers, \A c \in Cpus : at[c] = "idle"
  PROVE  Held \o rx = rx
<1>1. Held = <<>>
  BY DEF Held
<1> QED
  BY <1>1, ConcatEmptySeq DEF Numbers

LEMMA SomebodyHolds ==
  ASSUME NEW c \in Cpus, at[c] # "idle"
  PROVE  Held = <<msg>>
  BY DEF Held

\* A datagram is put into the pipe.
LEMMA ArriveStep ==
  ASSUME PInv, NEW c \in Cpus, Arrive(c)
  PROVE  APipe!Put
<1> DEFINE n == arrived + 1
<1>1. arrived' = n /\ rx' = Append(rx, n) /\ UNCHANGED <<at, msg, handled>>
  BY DEF Arrive
<1>2. Held' = Held
  BY <1>1 DEF Held
<1>3. Held \in Seq(Nat) /\ n \in Nat
  BY EmptySeq DEF Held, PInv, Numbers
<1>4. Held \o Append(rx, n) = Append(Held \o rx, n)
  <2> HIDE DEF n
  <2>1. rx \in Seq(Nat) /\ <<n>> \in Seq(Nat) /\ Held \o rx \in Seq(Nat)
    BY <1>3, ConcatProperties DEF PInv, Numbers
  <2>2. Append(rx, n) = rx \o <<n>> /\ Append(Held \o rx, n) = (Held \o rx) \o <<n>>
    BY <1>3, <2>1, AppendIsConcat
  <2>3. (Held \o rx) \o <<n>> = Held \o (rx \o <<n>>)
    BY <1>3, <2>1, ConcatAssociative, SMTT(30)
  <2> QED
    BY <2>2, <2>3
<1> QED
  BY <1>1, <1>2, <1>4 DEF APipe!Put

\* A datagram that a worker takes stays in the pipe, the oldest one.
LEMMA ReceiveStep ==
  ASSUME PInv, ~mixed', NEW c \in Cpus, Receive(c)
  PROVE  UNCHANGED APipe!pipeVars
<1>1. UNCHANGED <<arrived, handled>>
  BY DEF Receive
<1>2. CASE rx = <<>>
  <2>1. UNCHANGED <<at, rx, msg>>
    BY <1>2 DEF Receive
  <2> QED
    BY <1>1, <2>1 DEF APipe!pipeVars, Held
<1>3. CASE rx # <<>>
  <2>1. /\ \E a \in {"received", "filling"} : at' = [at EXCEPT ![c] = a]
        /\ rx' = Tail(rx) /\ msg' = Head(rx)
    BY <1>3 DEF Receive
  <2>2. \A d \in Cpus : at[d] = "idle"
    BY DEF Receive
  <2>3. Held \o rx = rx
    BY <2>2, NobodyHolds DEF PInv
  <2>4. Held' = <<Head(rx)>>
    BY <2>1 DEF Held, PInv, Inv, Types
  <2>5. <<Head(rx)>> \o Tail(rx) = rx
    <3>1. rx \in Seq(Nat) /\ Len(rx) \in Nat \ {0}
      BY <1>3, EmptySeq DEF PInv, Numbers
    <3>2. Head(rx) = rx[1] /\ Tail(rx) = SubSeq(rx, 2, Len(rx))
      BY <1>3, <3>1, TailIsSubSeq
    <3>3. SubSeq(rx, 1, Len(rx)) = <<rx[1]>> \o SubSeq(rx, 2, Len(rx))
      BY <3>1, SubSeqRecursiveFirst
    <3> QED
      BY <3>1, <3>2, <3>3, SubSeqFull
  <2> QED
    BY <1>1, <2>1, <2>3, <2>4, <2>5 DEF APipe!pipeVars
<1> QED
  BY <1>2, <1>3

\* A sequence without its second element.
LEMMA WithoutSecond ==
  ASSUME NEW m \in Nat, NEW r \in Seq(Nat), r # <<>>, NEW t, t = <<m>> \o r
  PROVE  SubSeq(t, 1, 1) \o SubSeq(t, 3, Len(t)) = <<m>> \o Tail(r)
<1> DEFINE h == <<m>>
<1>1. h \in Seq(Nat) /\ Len(h) = 1
  OBVIOUS
<1> HIDE DEF h
<1>2. t = h \o r /\ Len(r) \in Nat \ {0} /\ Len(t) = Len(r) + 1
  BY <1>1, EmptySeq, LenProperties, ConcatProperties DEF h
<1>3. SubSeq(t, 1, 1) = h
  <2>1. 1 \in 1..Len(h) /\ Len(h) \in 1..Len(h)
    BY <1>1
  <2>2. SubSeq(h \o r, 1, Len(h)) = SubSeq(h, 1, Len(h))
    BY <1>1, <2>1, SubSeqOfConcat1
  <2>3. SubSeq(h, 1, Len(h)) = h
    BY <1>1, SubSeqFull
  <2>4. SubSeq(t, 1, 1) = SubSeq(h \o r, 1, Len(h))
    BY <1>1, <1>2
  <2> QED
    BY <2>2, <2>3, <2>4
<1>4. SubSeq(t, 3, Len(t)) = Tail(r)
  <2>1. Tail(r) = SubSeq(r, 2, Len(r))
    BY TailIsSubSeq
  <2>2. CASE Len(r) = 1
    BY <1>2, <2>1, <2>2, SubSeqEmpty
  <2>3. CASE Len(r) # 1
    <3>1. 3 \in Len(h) + 1 .. Len(h) + Len(r) /\ Len(t) \in Len(h) + 1 .. Len(h) + Len(r)
      BY <1>1, <1>2, <2>3
    <3>2. SubSeq(h \o r, 3, Len(t)) = SubSeq(r, 3 - Len(h), Len(t) - Len(h))
      BY <1>1, <3>1, SubSeqOfConcat2
    <3>3. 3 - Len(h) = 2 /\ Len(t) - Len(h) = Len(r)
      BY <1>1, <1>2
    <3> QED
      BY <1>2, <2>1, <3>2, <3>3
  <2> QED
    BY <2>2, <2>3
<1> QED
  BY <1>3, <1>4 DEF h

\* A datagram that is swallowed is lost, and so is the beginning of a message that
\* nothing follows.
LEMMA FillStep ==
  ASSUME PInv, ~mixed', NEW c \in Cpus, Fill(c)
  PROVE  APipe!PipeNext
<1> DEFINE t == Held \o rx
<1>1. UNCHANGED <<arrived, handled, msg, mixed>>
  BY DEF Fill
<1>2. t = <<msg>> \o rx
  BY SomebodyHolds DEF Fill
<1>3. rx \in Seq(Nat) /\ msg \in Nat /\ <<msg>> \in Seq(Nat)
  BY DEF PInv, Numbers
<1> HIDE DEF t
<1>4. t \in Seq(Nat) /\ Len(t) = Len(rx) + 1 /\ Len(rx) \in Nat
  BY <1>2, <1>3, ConcatProperties, LenProperties
<1>5. CASE rx = <<>>
  <2>1. rx' = rx /\ at' = [at EXCEPT ![c] = "idle"]
    BY <1>5 DEF Fill
  <2>2. \A d \in Cpus : at'[d] = "idle"
    BY <1>1, <2>1 DEF Fill, PInv, Inv, Types, OneHolds
  <2>3. Held' \o rx' = <<>>
    <3>1. Held' = <<>>
      BY <2>2 DEF Held
    <3> QED
      BY <1>5, <2>1, <3>1, EmptySeq, ConcatEmptySeq
  <2>4. Len(t) = 1
    BY <1>4, <1>5
  <2>5. SubSeq(t, 1, 1 - 1) \o SubSeq(t, 1 + 1, Len(t)) = <<>>
    <3>1. SubSeq(t, 1, 1 - 1) = <<>> /\ SubSeq(t, 1 + 1, Len(t)) = <<>>
      BY <2>4, SubSeqEmpty
    <3> QED
      BY <3>1, EmptySeq, ConcatEmptySeq
  <2>6. APipe!Lose(1, 1) /\ 1 \in DOMAIN t
    BY <1>1, <1>4, <2>3, <2>4, <2>5 DEF APipe!Lose, t
  <2> QED
    BY <2>6 DEF APipe!PipeNext, t
<1>6. CASE rx # <<>>
  <2>1. rx' = Tail(rx) /\ at'[c] # "idle"
    BY <1>6 DEF Fill, PInv, Inv, Types
  <2>2. Held' = <<msg>>
    BY <1>1, <2>1 DEF Held
  <2>3. Len(rx) \in Nat \ {0}
    BY <1>3, <1>6, EmptySeq
  <2>4. SubSeq(t, 1, 1) \o SubSeq(t, 3, Len(t)) = Held' \o rx'
    BY <1>2, <1>3, <1>6, <2>1, <2>2, WithoutSecond
  <2>5. 2 - 1 = 1 /\ 2 + 1 = 3
    OBVIOUS
  <2>6. SubSeq(t, 1, 2 - 1) \o SubSeq(t, 2 + 1, Len(t)) = Held' \o rx'
    BY <2>4, <2>5
  <2>7. APipe!Lose(2, 2)
    BY <1>1, <2>6 DEF APipe!Lose, t
  <2>8. 2 \in DOMAIN t
    BY <1>4, <2>3
  <2> QED
    BY <2>7, <2>8 DEF APipe!PipeNext, t
<1> QED
  BY <1>5, <1>6

\* A datagram that is handled comes out of the pipe; one that is not a message
\* is lost.
LEMMA HandleStep ==
  ASSUME PInv, ~mixed', NEW c \in Cpus, Handle(c)
  PROVE  APipe!PipeNext
<1> DEFINE t == Held \o rx
<1>1. UNCHANGED <<arrived, rx>>
  BY DEF Handle, socket
<1>2. t = <<msg>> \o rx
  BY SomebodyHolds DEF Handle
<1>3. Held' \o rx' = rx
  <2>1. \A d \in Cpus : at'[d] = "idle"
    BY DEF Handle, PInv, Inv, Types, OneHolds, history
  <2>2. Held' = <<>>
    BY <2>1 DEF Held
  <2> QED
    BY <1>1, <2>2, ConcatEmptySeq DEF PInv, Numbers
<1>4. rx \in Seq(Nat) /\ msg \in Nat
  BY DEF PInv, Numbers
<1> HIDE DEF t
<1>5. t \in Seq(Nat) /\ Len(t) = Len(rx) + 1 /\ Len(rx) \in Nat /\ t[1] = msg
  BY <1>2, <1>4, ConcatProperties, LenProperties
<1>6. t # <<>>
  BY <1>5, EmptySeq
<1>7. Head(t) = msg
  BY <1>5, <1>6
<1>8. SubSeq(t, 2, Len(t)) = rx
  <2>1. CASE rx = <<>>
    BY <1>5, <2>1, SubSeqEmpty
  <2>2. CASE rx # <<>>
    <3>1. Len(rx) \in Nat \ {0}
      BY <1>4, <2>2, EmptySeq
    <3>2. SubSeq(<<msg>> \o rx, 2, Len(rx) + 1) = SubSeq(rx, 1, Len(rx))
      BY <1>4, <3>1, SubSeqOfConcat2
    <3> QED
      BY <1>2, <1>4, <1>5, <3>2, SubSeqFull
  <2> QED
    BY <2>1, <2>2
<1>9. CASE handled' = handled
  <2>1. handled' = handled
    BY <1>9
  <2>2. SubSeq(t, 1, 1 - 1) \o SubSeq(t, 1 + 1, Len(t)) = rx
    BY <1>4, <1>8, SubSeqEmpty, ConcatEmptySeq
  <2>3. APipe!Lose(1, 1)
    BY <1>1, <1>3, <2>1, <2>2 DEF APipe!Lose, t
  <2>4. 1 \in DOMAIN t
    BY <1>5
  <2> QED
    BY <2>3, <2>4 DEF APipe!PipeNext, t
<1>10. CASE handled' = Append(handled, msg)
  <2>1. handled' = Append(handled, msg)
    BY <1>10
  <2>2. Tail(t) = rx
    BY <1>5, <1>6, <1>8, TailIsSubSeq
  <2>3. APipe!Get
    BY <1>1, <1>3, <1>6, <1>7, <2>1, <2>2 DEF APipe!Get, t
  <2> QED
    BY <2>3 DEF APipe!PipeNext
<1> QED
  BY <1>9, <1>10 DEF Handle

\* The release of the socket loses all the pipe holds.
LEMMA CloseStep ==
  ASSUME PInv, bad = "none", CloseSocket
  PROVE  APipe!PipeNext \/ UNCHANGED APipe!pipeVars
<1>1. UNCHANGED <<arrived, at, msg, handled>> /\ (rx' = rx \/ rx' = <<>>)
  BY DEF CloseSocket, workers
<1>2. \A c \in Cpus : at[c] = "idle"
  BY DEF CloseSocket, PInv, Inv, OnlyWhileOpen, Drained
<1>3. Held \o rx = rx /\ Held' = <<>>
  <2>1. Held' = <<>>
    BY <1>1, <1>2 DEF Held
  <2> QED
    BY <1>2, <2>1, NobodyHolds DEF PInv
<1>4. rx \in Seq(Nat)
  BY DEF PInv, Numbers
<1>5. CASE rx' = rx
  <2>1. Held' \o rx' = rx
    BY <1>3, <1>4, <1>5, ConcatEmptySeq
  <2> QED
    BY <1>1, <1>3, <2>1 DEF APipe!pipeVars
<1>6. CASE rx' # rx
  <2>1. rx' = <<>> /\ rx # <<>>
    BY <1>1, <1>6
  <2>2. Len(rx) \in Nat \ {0}
    BY <1>4, <2>1, EmptySeq
  <2>3. Held' \o rx' = <<>>
    BY <1>3, <2>1, EmptySeq, ConcatEmptySeq
  <2>4. SubSeq(rx, 1, 1 - 1) \o SubSeq(rx, Len(rx) + 1, Len(rx)) = <<>>
    <3>1. SubSeq(rx, 1, 1 - 1) = <<>> /\ SubSeq(rx, Len(rx) + 1, Len(rx)) = <<>>
      BY <2>2, SubSeqEmpty
    <3> QED
      BY <3>1, EmptySeq, ConcatEmptySeq
  <2>5. APipe!Lose(1, Len(rx))
    BY <1>1, <1>3, <2>3, <2>4 DEF APipe!Lose
  <2>6. 1 \in DOMAIN rx /\ Len(rx) \in DOMAIN rx /\ 1 <= Len(rx)
    BY <1>4, <2>2
  <2> QED
    BY <1>3, <2>5, <2>6 DEF APipe!PipeNext
<1> QED
  BY <1>5, <1>6

LEMMA NextIsPipe ==
  ASSUME PInv, Next
  PROVE  PipeStep
<1> SUFFICES ASSUME ~mixed'
             PROVE  APipe!PipeNext \/ UNCHANGED APipe!pipeVars
  BY DEF PipeStep
<1>1. CASE AllocFails \/ OpenSocket \/ OpenFails \/ SetState \/ CreateQueue \/ Free \/ Send
           \/ DestroyQueue
  <2>1. UNCHANGED <<rx, arrived, at, msg, handled>>
    BY <1>1 DEF AllocFails, OpenSocket, OpenFails, SetState, CreateQueue, Free, Send,
                DestroyQueue, socket, workers
  <2> QED
    BY <2>1 DEF APipe!pipeVars, Held
<1>2. CASE CloseSocket
  BY <1>2, CloseStep DEF Next
<1>3. ASSUME NEW c \in Cpus, Arrive(c) PROVE APipe!PipeNext
  BY <1>3, ArriveStep DEF APipe!PipeNext
<1>4. ASSUME NEW c \in Cpus, Receive(c) PROVE UNCHANGED APipe!pipeVars
  BY <1>4, ReceiveStep
<1>5. ASSUME NEW c \in Cpus, Handle(c) PROVE APipe!PipeNext
  BY <1>5, HandleStep
<1>6. ASSUME NEW c \in Cpus, Fill(c) PROVE APipe!PipeNext
  BY <1>6, FillStep
<1> QED
  BY <1>1, <1>2, <1>3, <1>4, <1>5, <1>6 DEF Next, Owner, Worker

-----------------------------------------------------------------------------
LEMMA PInvInductive == Spec => []PInv
<1>1. Init => PInv
  <2>1. Init => Numbers
    BY EmptySeq DEF Init, Numbers
  <2>2. Init => OneHolds
    BY DEF Init, OneHolds
  <2> QED
    BY InvInit, <2>1, <2>2 DEF PInv
<1>2. PInv /\ [Next]_vars => PInv'
  <2>1. ASSUME PInv, Next PROVE PInv'
    BY <2>1, InvNext, NumbersNext, OneHoldsNext DEF PInv, Inv
  <2>2. ASSUME PInv, UNCHANGED vars PROVE PInv'
    BY <2>2, InvNext DEF PInv, Numbers, OneHolds, vars, socket, workers, history
  <2> QED
    BY <2>1, <2>2
<1> QED
  BY <1>1, <1>2, PTL DEF Spec

\* A com hands on messages as a pipe does, for any CPUs, faults and number of
\* datagrams, but for steps after which two workers have received at once: the
\* shared com->msg (com.c:50) is all that stands between com_recv and this.
THEOREM ImplementsPipe == Spec => ComIsPipe
<1>1. Init => APipe!PipeInit
  <2> SUFFICES ASSUME Init PROVE APipe!PipeInit
    OBVIOUS
  <2>1. arrived = 0 /\ handled = <<>> /\ rx = <<>> /\ Held = <<>>
    BY DEF Init, Held
  <2> QED
    BY <2>1, EmptySeq, ConcatEmptySeq DEF APipe!PipeInit
<1>2. PInv /\ [Next]_vars => PipeStep
  <2>1. UNCHANGED vars => PipeStep
    BY DEF PipeStep, vars, fields, socket, workers, APipe!pipeVars, Held
  <2> QED
    BY <2>1, NextIsPipe
<1> QED
  BY <1>1, <1>2, PInvInductive, PTL DEF Spec, ComIsPipe, PipeStep
=============================================================================
