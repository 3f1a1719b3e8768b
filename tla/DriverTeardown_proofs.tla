------------------------ MODULE DriverTeardown_proofs ------------------------
(***************************************************************************)
(* Freeing a driver endpoint, for any number of requests, with or without  *)
(* a com worker beside.                                                    *)
(*                                                                         *)
(* As in GadgetTeardown_proofs the requests that exist are divided among   *)
(* the places that hold them (Partition).  Here nothing keeps a worker     *)
(* from submitting an URB after the loop of the teardown has passed, so    *)
(* that what is stopped (Stopped) is known only while no URB was late.     *)
(***************************************************************************)
EXTENDS DriverTeardown, QueueLemmas

(***************************************************************************)
(* The workqueue, without the status of its items                          *)
(***************************************************************************)

Reqs(q) == [i \in DOMAIN q |-> q[i].req]

LEMMA ReqsHolds ==
    ASSUME NEW q \in Seq(Items)
    PROVE  /\ Reqs(q) \in Seq(Requests)
           /\ Len(Reqs(q)) = Len(q)
           /\ \A i \in 1..Len(q) : Reqs(q)[i] = q[i].req
<1>1. Len(q) \in Nat /\ DOMAIN q = 1..Len(q) /\ \A i \in 1..Len(q) : q[i] \in Items
  BY LenProperties, ElementOfSeq
<1>2. Reqs(q) \in [1..Len(q) -> Requests]
  BY <1>1 DEF Reqs, Items
<1>3. Reqs(q) \in Seq(Requests)
  BY <1>1, <1>2, SeqDef
<1>4. Len(Reqs(q)) = Len(q)
  BY <1>1, <1>2, <1>3, LenProperties
<1> QED
  BY <1>1, <1>3, <1>4 DEF Reqs

LEMMA ReqsEmpty == Reqs(<<>>) = <<>>
  BY DEF Reqs

LEMMA ReqsAppend ==
    ASSUME NEW q \in Seq(Items), NEW r \in Requests, NEW s \in {"ok", "EPIPE", "error"}
    PROVE  /\ Append(q, Item(r, s)) \in Seq(Items)
           /\ Reqs(Append(q, Item(r, s))) = Append(Reqs(q), r)
<1> DEFINE x == Item(r, s)
<1>1. x \in Items /\ x.req = r
  BY DEF Item, Items
<1> HIDE DEF x
<1>2. /\ Append(q, x) \in Seq(Items) /\ Len(Append(q, x)) = Len(q) + 1
      /\ \A i \in 1..Len(q) : Append(q, x)[i] = q[i]
      /\ Append(q, x)[Len(q) + 1] = x
  BY <1>1, AppendProperties
<1>3. /\ Len(Append(Reqs(q), r)) = Len(q) + 1
      /\ Append(Reqs(q), r) \in Seq(Requests)
      /\ \A i \in 1..Len(q) : Append(Reqs(q), r)[i] = q[i].req
      /\ Append(Reqs(q), r)[Len(q) + 1] = r
  BY ReqsHolds, AppendProperties
<1>4. /\ Reqs(Append(q, x)) \in Seq(Requests) /\ Len(Reqs(Append(q, x))) = Len(q) + 1
      /\ \A i \in 1..(Len(q) + 1) : Reqs(Append(q, x))[i] = Append(q, x)[i].req
  BY <1>2, ReqsHolds
<1>5. \A i \in 1..(Len(q) + 1) : Reqs(Append(q, x))[i] = Append(Reqs(q), r)[i]
  <2> SUFFICES ASSUME NEW i \in 1..(Len(q) + 1)
               PROVE  Reqs(Append(q, x))[i] = Append(Reqs(q), r)[i]
    OBVIOUS
  <2>1. Len(q) \in Nat
    BY LenProperties
  <2>2. i \in 1..Len(q) \/ i = Len(q) + 1
    BY <2>1
  <2> QED
    BY <1>1, <1>2, <1>3, <1>4, <2>2
<1>6. Reqs(Append(q, x)) = Append(Reqs(q), r)
  BY <1>3, <1>4, <1>5, SeqEqual
<1> QED
  BY <1>2, <1>6 DEF x

LEMMA ReqsTail ==
    ASSUME NEW q \in Seq(Items), q # <<>>
    PROVE  /\ Tail(q) \in Seq(Items)
           /\ Reqs(q) # <<>>
           /\ Reqs(Tail(q)) = Tail(Reqs(q))
           /\ Head(q).req = Head(Reqs(q))
<1>1. /\ Tail(q) \in Seq(Items) /\ Len(Tail(q)) = Len(q) - 1 /\ Len(q) \in Nat \ {0}
      /\ \A i \in 1..Len(Tail(q)) : Tail(q)[i] = q[i + 1]
      /\ Head(q) = q[1]
  BY HeadTailProperties, EmptySeq, LenProperties
<1>2. Reqs(q) \in Seq(Requests) /\ Len(Reqs(q)) = Len(q) /\ Reqs(q) # <<>>
      /\ \A i \in 1..Len(q) : Reqs(q)[i] = q[i].req
  BY <1>1, ReqsHolds, EmptySeq
<1>3. /\ Tail(Reqs(q)) \in Seq(Requests) /\ Len(Tail(Reqs(q))) = Len(q) - 1
      /\ \A i \in 1..(Len(q) - 1) : Tail(Reqs(q))[i] = Reqs(q)[i + 1]
      /\ Head(Reqs(q)) = Reqs(q)[1]
  <2> DEFINE p == Reqs(q)
  <2>1. p \in Seq(Requests) /\ p # <<>> /\ Len(p) = Len(q)
    BY <1>2
  <2>2. /\ Tail(p) \in Seq(Requests) /\ Len(Tail(p)) = Len(p) - 1
        /\ \A i \in 1..Len(Tail(p)) : Tail(p)[i] = p[i + 1]
        /\ Head(p) = p[1]
    <3> HIDE DEF p
    <3> QED
      BY <2>1, HeadTailProperties
  <2> QED
    BY <2>1, <2>2
<1>4. /\ Reqs(Tail(q)) \in Seq(Requests) /\ Len(Reqs(Tail(q))) = Len(q) - 1
      /\ \A i \in 1..(Len(q) - 1) : Reqs(Tail(q))[i] = Tail(q)[i].req
  BY <1>1, ReqsHolds
<1>5. \A i \in 1..(Len(q) - 1) : Reqs(Tail(q))[i] = Tail(Reqs(q))[i]
  BY <1>1, <1>2, <1>3, <1>4
<1>6. Reqs(Tail(q)) = Tail(Reqs(q))
  <2>1. Len(Reqs(Tail(q))) = Len(Tail(Reqs(q)))
    BY <1>3, <1>4
  <2>2. \A i \in 1..Len(Reqs(Tail(q))) : Reqs(Tail(q))[i] = Tail(Reqs(q))[i]
    BY <1>4, <1>5
  <2> HIDE DEF Reqs
  <2> QED
    BY <1>3, <1>4, <2>1, <2>2, SeqEqual
<1>7. Head(q).req = Head(Reqs(q))
  <2>1. 1 \in 1..Len(q)
    BY <1>1
  <2> QED
    BY <1>1, <1>2, <1>3, <2>1
<1> QED
  BY <1>1, <1>2, <1>6, <1>7

-----------------------------------------------------------------------------
(* The inductive invariant *)

LEMMA MaxOfRequests ==
    ASSUME NEW T, T \subseteq Requests
    PROVE  /\ Max(T \cup {None}) \in Requests \cup {None}
           /\ Max(T \cup {None}) \in T \cup {None}
           /\ \A x \in T : x <= Max(T \cup {None})
<1>1. T \cup {None} \subseteq 0..MaxReqs /\ T \cup {None} # {} /\ MaxReqs \in Nat
  BY MaxReqsAssumption DEF Requests, None
<1>2. Max(T \cup {None}) \in T \cup {None} /\ \A x \in T \cup {None} : x <= Max(T \cup {None})
  BY <1>1, MaxIsGreatest
<1> QED
  BY <1>2

\* TypeOK, variable by variable, the flags apart.
Flags ==
    /\ beside \in BOOLEAN /\ listed \in BOOLEAN /\ desc \in BOOLEAN
    /\ ep \in BOOLEAN /\ late \in BOOLEAN

Typed ==
    /\ kind \in {"bulk_in", "int_in", "out"}
    /\ reqlist \subseteq Requests
    /\ urbs \in Seq(Requests) /\ work \in Seq(Items)
    /\ used \in 0..MaxReqs
    /\ t \in {"start", "unlinked", "kill", "advance", "free_desc", "flush",
              "free_ep", "done"}
    /\ w \in {"idle", "fill", "submit", "release"}
    /\ c \in {"idle", "found", "submit"}
    /\ cur \in Requests \cup {None} /\ nxt \in Requests \cup {None}
    /\ wreq \in Requests \cup {None} /\ wnew \in Requests \cup {None}
    /\ cnew \in Requests \cup {None}
    /\ bad \in {"none", "cursor", "desc", "ep", "double"}

LEMMA TypedIsTypeOK == Flags /\ Typed <=> TypeOK
  BY DEF Flags, Typed, TypeOK

\* The request the worker works on, the one it submits and the one the com
\* worker submits.
Mine   == IF w = "idle" THEN {} ELSE {wreq}
New    == IF w = "submit" THEN {wnew} ELSE {}
Coming == IF c = "submit" THEN {cnew} ELSE {}

\* A request is numbered when it is allocated.
Fresh == reqlist \subseteq 1..used

\* Each request that exists is held once.
Partition ==
    /\ reqlist = Range(urbs) \cup Range(Reqs(work)) \cup Mine \cup New \cup Coming
    /\ IsInjective(urbs) /\ IsInjective(Reqs(work))
    /\ Range(urbs) \cap Range(Reqs(work)) = {}
    /\ (Range(urbs) \cup Range(Reqs(work))) \cap (Mine \cup New \cup Coming) = {}
    /\ Mine \cap New = {} /\ Mine \cap Coming = {} /\ New \cap Coming = {}

Phases ==
    /\ ep <=> t # "done"
    /\ listed <=> t = "start"
    /\ ~beside /\ t # "start" => c = "idle"

\* What the teardown thread has already stopped, unless an URB was late: the URBs
\* its cursors have passed, then all of them, then the workqueue.
Stopped ==
    ~late =>
        /\ t = "kill" => \A r \in Range(urbs) : r = cur \/ r <= nxt
        /\ t = "advance" => \A r \in Range(urbs) : r <= nxt
        /\ t \in {"free_desc", "flush", "free_ep", "done"} => urbs = <<>>
        /\ t \in {"free_ep", "done"} => work = <<>> /\ w = "idle"

Verdict == (bad = "ep" => late \/ beside) /\ bad # "double"

IInv == Flags /\ Typed /\ Fresh /\ Partition /\ Phases /\ Stopped /\ Verdict

-----------------------------------------------------------------------------
(* It holds at the start *)

LEMMA FlagsInit == Init => Flags
  BY Zenon DEF Init, Flags

LEMMA TypedInit == Init => Typed
<1> SUFFICES ASSUME Init PROVE Typed
  OBVIOUS
<1>1. used \in 0..MaxReqs /\ reqlist \subseteq Requests /\ None \in Requests \cup {None}
  <2>1. used \in {0, 1} /\ reqlist = 1..used
    BY DEF Init
  <2>2. used \in Nat /\ used <= MaxReqs /\ MaxReqs \in Nat
    BY <2>1, MaxReqsAssumption
  <2> QED
    BY <2>1, <2>2 DEF Requests
<1>2. urbs \in Seq(Requests) /\ work \in Seq(Items)
  <2>1. 1 \in Requests
    BY MaxReqsAssumption DEF Requests
  <2>2. <<1>> \in Seq(Requests) /\ <<>> \in Seq(Requests) /\ <<>> \in Seq(Items)
    BY <2>1
  <2> QED
    BY <2>2 DEF Init
<1> QED
  BY <1>1, <1>2 DEF Init, Typed

LEMMA Starts == Init => IInv
<1> SUFFICES ASSUME Init PROVE IInv
  OBVIOUS
<1>1. Flags /\ Typed
  BY FlagsInit, TypedInit
<1>2. Fresh
  BY DEF Init, Fresh
<1>3. Partition
  <2>1. Range(Reqs(work)) = {} /\ IsInjective(Reqs(work))
    BY EmptyHolds, ReqsEmpty DEF Init
  <2>2. Range(urbs) = reqlist /\ IsInjective(urbs)
    <3>1. CASE kind # "out"
      BY <3>1, SingleHolds DEF Init
    <3>2. CASE kind = "out"
      BY <3>2, EmptyHolds DEF Init
    <3> QED
      BY <3>1, <3>2
  <2>3. Mine = {} /\ New = {} /\ Coming = {}
    BY DEF Init, Mine, New, Coming
  <2> QED
    BY <2>1, <2>2, <2>3 DEF Partition
<1>4. Phases /\ Stopped /\ Verdict
  BY DEF Init, Phases, Stopped, Verdict
<1> QED
  BY <1>1, <1>2, <1>3, <1>4 DEF IInv

-----------------------------------------------------------------------------
(* Each step keeps it *)

\* The requests the threads hold are requests.
LEMMA HeldTyped ==
    ASSUME IInv
    PROVE  /\ w # "idle" => wreq \in Requests /\ wreq \in reqlist
           /\ w = "submit" => wnew \in Requests /\ wnew \in reqlist
           /\ c = "submit" => cnew \in Requests /\ cnew \in reqlist
<1>1. Mine \cup New \cup Coming \subseteq reqlist /\ reqlist \subseteq Requests
  BY DEF IInv, Typed, Partition
<1> QED
  BY <1>1 DEF Mine, New, Coming

\* A new request is one of those there may be.
LEMMA AllocTyped ==
    ASSUME Typed, Alloc
    PROVE  /\ used' \in 0..MaxReqs /\ used' \in Requests
           /\ reqlist' \subseteq Requests
           /\ used' = used + 1
  BY MaxReqsAssumption DEF Typed, Alloc, Requests

LEMMA SubmitTyped ==
    ASSUME Typed, NEW r \in Requests, Submit(r)
    PROVE  urbs' \in Seq(Requests) /\ reqlist' \subseteq Requests
<1>1. Append(urbs, r) \in Seq(Requests)
  BY AppendHolds DEF Typed
<1> QED
  BY <1>1 DEF Typed, Submit

LEMMA FlagsStep == IInv /\ [Next]_vars => Flags'
<1> SUFFICES ASSUME IInv, [Next]_vars PROVE Flags'
  OBVIOUS
<1>0. Flags
  BY DEF IInv
<1> USE DEF memory, lists
<1>1. CASE Unlink
  BY Zenon, <1>0, <1>1 DEF Unlink, Flags
<1>2. CASE FreeDesc
  BY Zenon, <1>0, <1>2 DEF FreeDesc, Flags
<1>3. CASE FreeEp
  BY Zenon, <1>0, <1>3 DEF FreeEp, Flags
<1>4. CASE UNCHANGED memory /\ late' = late
  BY Zenon, <1>0, <1>4 DEF Flags
<1>5. CASE WorkSubmit
  BY Zenon, <1>0, <1>5 DEF WorkSubmit, Submit, Flags
<1>6. CASE ComSubmit
  BY Zenon, <1>0, <1>6 DEF ComSubmit, Submit, Flags
<1> QED
  BY <1>1, <1>2, <1>3, <1>4, <1>5, <1>6
     DEF Next, TeardownThread, FirstRequest, Kill, Advance, Flush, Complete,
         Worker, Work, WorkFill, WorkRelease, ComWorker, ComFind, ComFill, vars

LEMMA TypedStep == IInv /\ [Next]_vars => Typed'
<1> SUFFICES ASSUME IInv, [Next]_vars PROVE Typed'
  OBVIOUS
<1> USE DEF memory, lists, thread, worker, com
<1>0. Typed
  BY DEF IInv
<1>1. CASE Unlink
  BY <1>0, <1>1 DEF Unlink, Typed
<1>2. CASE FirstRequest
  <2>1. \A T \in SUBSET Requests : Max(T \cup {None}) \in Requests \cup {None}
    BY MaxOfRequests
  <2>2. First \in Requests \cup {None} /\ After(First) \in Requests \cup {None}
    BY <1>0, <2>1 DEF First, After, Typed
  <2> QED
    BY <1>0, <1>2, <2>2 DEF FirstRequest, Typed
<1>3. CASE Kill
  <2>1. urbs' \in Seq(Requests)
    BY <1>0, <1>3, RemoveAtHolds DEF Kill, Typed
  <2>2. work' \in Seq(Items)
    <3>1. cur \in reqlist => Append(work, Item(cur, "error")) \in Seq(Items)
      BY <1>0, ReqsAppend DEF Typed
    <3> QED
      BY <1>0, <1>3, <3>1 DEF Kill, Typed
  <2> QED
    BY <1>0, <1>3, <2>1, <2>2 DEF Kill, Typed
<1>4. CASE Advance
  <2>1. \A T \in SUBSET Requests : Max(T \cup {None}) \in Requests \cup {None}
    BY MaxOfRequests
  <2>2. After(nxt) \in Requests \cup {None}
    BY <1>0, <2>1 DEF After, Typed
  <2> QED
    BY <1>0, <1>4, <2>2 DEF Advance, Typed
<1>5. CASE FreeDesc
  BY <1>0, <1>5 DEF FreeDesc, Typed
<1>6. CASE Flush
  BY <1>0, <1>6 DEF Flush, Typed
<1>7. CASE FreeEp
  BY <1>0, <1>7 DEF FreeEp, Typed
<1>8. ASSUME NEW status \in {"ok", "EPIPE", "error"}, Complete(status) PROVE Typed'
  <2>1. Head(urbs) \in Requests /\ Tail(urbs) \in Seq(Requests)
    BY <1>0, <1>8, TailHolds DEF Complete, Typed
  <2>2. Append(work, Item(Head(urbs), status)) \in Seq(Items)
    BY <1>0, <2>1, ReqsAppend DEF Typed
  <2>3. urbs' \in Seq(Requests) /\ work' \in Seq(Items) /\ bad' \in {bad, "ep"}
        /\ UNCHANGED <<kind, reqlist, used, thread, worker, com>>
    BY <1>0, <1>8, <2>1, <2>2 DEF Complete, Typed
  <2> QED
    BY <1>0, <2>3 DEF Typed
<1>9. CASE Work
  <2>1. Head(work) \in Items /\ Tail(work) \in Seq(Items)
    BY <1>0, <1>9, TailHolds DEF Work, Typed
  <2>2. Head(work).req \in Requests
    BY <2>1 DEF Items
  <2> QED
    BY <1>0, <1>9, <2>1, <2>2 DEF Work, Typed
<1>10. CASE WorkFill
  BY <1>0, <1>10, AllocTyped DEF WorkFill, Typed
<1>11. CASE WorkSubmit
  <2>1. urbs' \in Seq(Requests) /\ reqlist' \subseteq Requests
    BY <1>0, <1>11, HeldTyped, SubmitTyped DEF WorkSubmit
  <2> QED
    BY <1>0, <1>11, <2>1 DEF WorkSubmit, Typed
<1>12. CASE WorkRelease
  BY <1>0, <1>12 DEF WorkRelease, Typed
<1>13. CASE ComFind
  BY <1>0, <1>13 DEF ComFind, Typed
<1>14. CASE ComFill
  BY <1>0, <1>14, AllocTyped DEF ComFill, Typed
<1>15. CASE ComSubmit
  <2>1. urbs' \in Seq(Requests) /\ reqlist' \subseteq Requests
    BY <1>0, <1>15, HeldTyped, SubmitTyped DEF ComSubmit, Typed
  <2> QED
    BY <1>0, <1>15, <2>1 DEF ComSubmit, Typed
<1>16. CASE UNCHANGED vars
  BY <1>0, <1>16 DEF vars, Typed
<1> QED
  BY <1>1, <1>2, <1>3, <1>4, <1>5, <1>6, <1>7, <1>8, <1>9, <1>10, <1>11, <1>12,
     <1>13, <1>14, <1>15, <1>16
     DEF Next, TeardownThread, Worker, ComWorker

LEMMA FreshStep == IInv /\ [Next]_vars => Fresh'
<1> SUFFICES ASSUME IInv, [Next]_vars PROVE Fresh'
  OBVIOUS
<1>1. used \in Nat /\ reqlist \subseteq 1..used
  BY DEF IInv, Typed, Fresh
<1>2. \/ used' = used /\ reqlist' \subseteq reqlist
      \/ used' = used + 1 /\ reqlist' = reqlist \cup {used + 1}
  <2> USE DEF memory, lists, thread, worker, com
  <2>1. CASE TeardownThread
    BY <2>1 DEF TeardownThread, Unlink, FirstRequest, Kill, Advance, FreeDesc, Flush, FreeEp
  <2>2. CASE \E status \in {"ok", "EPIPE", "error"} : Complete(status)
    BY <2>2 DEF Complete
  <2>3. CASE Worker
    BY <2>3 DEF Worker, Work, WorkFill, WorkSubmit, WorkRelease, Alloc, Submit
  <2>4. CASE ComWorker
    BY <2>4 DEF ComWorker, ComFind, ComFill, ComSubmit, Alloc, Submit
  <2>5. CASE UNCHANGED vars
    BY <2>5 DEF vars
  <2> QED
    BY <2>1, <2>2, <2>3, <2>4, <2>5 DEF Next
<1>3. CASE used' = used /\ reqlist' \subseteq reqlist
  BY <1>1, <1>3 DEF Fresh
<1>4. CASE used' = used + 1 /\ reqlist' = reqlist \cup {used + 1}
  <2>1. 1..used \subseteq 1..(used + 1) /\ used + 1 \in 1..(used + 1)
    BY <1>1
  <2> QED
    BY <1>1, <1>4, <2>1 DEF Fresh
<1> QED
  BY <1>2, <1>3, <1>4

\* Where a request goes when it leaves the one place it was in.
LEMMA PartitionStep == IInv /\ [Next]_vars => Partition'
<1> SUFFICES ASSUME IInv, [Next]_vars PROVE Partition'
  OBVIOUS
<1>0. /\ urbs \in Seq(Requests) /\ work \in Seq(Items) /\ Reqs(work) \in Seq(Requests)
      /\ used \in Nat /\ reqlist \subseteq 1..used /\ reqlist \subseteq Requests
      /\ Partition
  BY ReqsHolds DEF IInv, Typed, Fresh
<1>a. UNCHANGED <<reqlist, urbs, work, worker, com>> => Partition'
  BY <1>0 DEF Partition, Mine, New, Coming, worker, com
<1>b. Alloc => reqlist' = reqlist \cup {used'} /\ used' \notin reqlist
  BY <1>0 DEF Alloc
<1>c. ASSUME NEW r \in Requests, Submit(r)
      PROVE  \/ /\ Range(urbs') = Range(urbs) \cup {r} /\ reqlist' = reqlist
                /\ r \notin Range(urbs) => IsInjective(urbs')
             \/ urbs' = urbs /\ reqlist' = reqlist \ {r}
  <2>1. /\ Range(Append(urbs, r)) = Range(urbs) \cup {r}
        /\ IsInjective(urbs) /\ r \notin Range(urbs) => IsInjective(Append(urbs, r))
    BY <1>0, AppendHolds
  <2>2. IsInjective(urbs)
    BY <1>0 DEF Partition
  <2> QED
    BY <1>c, <2>1, <2>2 DEF Submit
\* a completion moves request r to the workqueue
<1>d. ASSUME NEW r \in Requests, r \notin Range(Reqs(work)), NEW s \in {"ok", "EPIPE", "error"},
             work' = Append(work, Item(r, s))
      PROVE  Range(Reqs(work')) = Range(Reqs(work)) \cup {r} /\ IsInjective(Reqs(work'))
  <2>1. Reqs(work') = Append(Reqs(work), r)
    BY <1>0, <1>d, ReqsAppend
  <2>2. IsInjective(Reqs(work))
    BY <1>0 DEF Partition
  <2> QED
    BY <1>0, <1>d, <2>1, <2>2, AppendHolds
<1> USE DEF memory, lists, thread, worker, com
<1>1. CASE Unlink \/ FirstRequest \/ Advance \/ FreeDesc \/ Flush \/ FreeEp
  BY <1>a, <1>1 DEF Unlink, FirstRequest, Advance, FreeDesc, Flush, FreeEp
<1>2. CASE Kill
  <2>1. UNCHANGED <<reqlist, worker, com>>
    BY <1>2 DEF Kill
  <2>2. CASE UNCHANGED <<urbs, work>>
    BY <1>a, <2>1, <2>2
  <2>3. CASE \E i \in DOMAIN urbs : /\ urbs[i] = cur /\ urbs' = RemoveAt(urbs, i)
                                    /\ work' = Append(work, Item(cur, "error"))
    <3>1. /\ cur \in Requests /\ cur \in Range(urbs)
          /\ Range(urbs) = Range(urbs') \cup {cur} /\ cur \notin Range(urbs')
          /\ IsInjective(urbs')
      BY <1>0, <2>3, RemoveAtHolds DEF Partition
    <3>2. cur \notin Range(Reqs(work))
      BY <1>0, <3>1 DEF Partition
    <3>3. Range(Reqs(work')) = Range(Reqs(work)) \cup {cur} /\ IsInjective(Reqs(work'))
      BY <1>d, <2>3, <3>1, <3>2
    <3> QED
      BY <1>0, <2>1, <3>1, <3>3 DEF Partition, Mine, New, Coming
  <2> QED
    BY <1>2, <2>2, <2>3 DEF Kill
<1>3. ASSUME NEW status \in {"ok", "EPIPE", "error"}, Complete(status) PROVE Partition'
  <2>1. CASE ep
    <3>1. /\ Head(urbs) \in Requests /\ Head(urbs) \in Range(urbs)
          /\ Range(urbs) = Range(urbs') \cup {Head(urbs)}
          /\ IsInjective(urbs') /\ Head(urbs) \notin Range(urbs')
      <4>1. urbs # <<>> /\ urbs' = Tail(urbs) /\ IsInjective(urbs)
        BY <1>0, <1>3, <2>1 DEF Complete, Partition
      <4> QED
        BY <1>0, <4>1, TailHolds
    <3>2. Head(urbs) \notin Range(Reqs(work))
      BY <1>0, <3>1 DEF Partition
    <3>3. Range(Reqs(work')) = Range(Reqs(work)) \cup {Head(urbs)} /\ IsInjective(Reqs(work'))
      BY <1>d, <1>3, <2>1, <3>1, <3>2 DEF Complete
    <3>4. UNCHANGED <<reqlist, worker, com>>
      BY <1>3 DEF Complete
    <3> QED
      BY <1>0, <3>1, <3>3, <3>4 DEF Partition, Mine, New, Coming
  <2>2. CASE ~ep
    BY <1>a, <1>3, <2>2 DEF Complete
  <2> QED
    BY <2>1, <2>2
<1>4. CASE Work
  <2>1. Reqs(work') = Tail(Reqs(work)) /\ Reqs(work) # <<>> /\ wreq' = Head(Reqs(work))
    BY <1>0, <1>4, ReqsTail DEF Work
  <2>2. /\ Range(Reqs(work)) = Range(Reqs(work')) \cup {wreq'}
        /\ IsInjective(Reqs(work')) /\ wreq' \notin Range(Reqs(work'))
    BY <1>0, <2>1, TailHolds DEF Partition
  <2>3. /\ w = "idle" /\ w' \in {"fill", "release"}
        /\ UNCHANGED <<reqlist, urbs, c, cnew>>
    BY <1>4 DEF Work
  <2> QED
    BY <1>0, <2>2, <2>3 DEF Partition, Mine, New, Coming
<1>5. CASE WorkFill
  <2>1. UNCHANGED <<reqlist, urbs, work, wreq, com>> /\ w = "fill" /\ w' \in {"release", "fill"}
        => Partition'
    BY <1>0 DEF Partition, Mine, New, Coming
  <2>2. Alloc /\ UNCHANGED <<urbs, work, wreq, com>> /\ w = "fill" /\ w' = "submit" /\ wnew' = used'
        => Partition'
    BY <1>0, <1>b DEF Partition, Mine, New, Coming
  <2> QED
    BY <1>5, <2>1, <2>2 DEF WorkFill
<1>6. CASE WorkSubmit
  <2>1. wnew \in Requests /\ Submit(wnew) /\ w = "submit" /\ w' = "release"
        /\ UNCHANGED <<work, wreq, com>>
    BY <1>6, HeldTyped DEF WorkSubmit
  <2>2. wnew \notin Range(urbs)
    BY <1>0, <2>1 DEF Partition, New
  <2> QED
    BY <1>0, <1>c, <2>1, <2>2 DEF Partition, Mine, New, Coming
<1>7. CASE WorkRelease
  BY <1>0, <1>7 DEF WorkRelease, Partition, Mine, New, Coming
<1>8. CASE ComFind
  BY <1>0, <1>8 DEF ComFind, Partition, Mine, New, Coming
<1>9. CASE ComFill
  <2>1. UNCHANGED <<reqlist, urbs, work, worker>> /\ c = "found" /\ c' \in {"idle", "found"}
        => Partition'
    BY <1>0 DEF Partition, Mine, New, Coming
  <2>2. Alloc /\ UNCHANGED <<urbs, work, worker>> /\ c = "found" /\ c' = "submit" /\ cnew' = used'
        => Partition'
    BY <1>0, <1>b DEF Partition, Mine, New, Coming
  <2> QED
    BY <1>9, <2>1, <2>2 DEF ComFill
<1>10. CASE ComSubmit
  <2>1. CASE ep
    <3>1. cnew \in Requests /\ Submit(cnew) /\ c = "submit" /\ c' = "idle"
          /\ UNCHANGED <<work, worker>>
      BY <1>10, <2>1, HeldTyped DEF ComSubmit
    <3>2. cnew \notin Range(urbs)
      BY <1>0, <3>1 DEF Partition, Coming
    <3> QED
      BY <1>0, <1>c, <3>1, <3>2 DEF Partition, Mine, New, Coming
  <2>2. CASE ~ep
    BY <1>a, <1>10, <2>2 DEF ComSubmit
  <2> QED
    BY <2>1, <2>2
<1>11. CASE UNCHANGED vars
  BY <1>a, <1>11 DEF vars
<1> QED
  BY <1>1, <1>2, <1>3, <1>4, <1>5, <1>6, <1>7, <1>8, <1>9, <1>10, <1>11
     DEF Next, TeardownThread, Worker, ComWorker

LEMMA PhasesStep == IInv /\ [Next]_vars => Phases'
<1> SUFFICES ASSUME IInv, [Next]_vars PROVE Phases'
  OBVIOUS
<1>0. Flags /\ Typed /\ Phases
  BY DEF IInv
<1> USE DEF memory, lists, thread, worker, com
<1>1. CASE Unlink
  BY <1>0, <1>1 DEF Unlink, Phases
<1>2. CASE FirstRequest \/ Kill \/ Advance \/ FreeDesc \/ Flush
  <2>1. /\ t \in {"unlinked", "kill", "advance", "free_desc", "flush"}
        /\ t' \in {"kill", "advance", "free_desc", "flush", "free_ep"}
        /\ UNCHANGED <<listed, ep, beside, c>>
    BY <1>2 DEF FirstRequest, Kill, Advance, FreeDesc, Flush
  <2> QED
    BY <1>0, <2>1 DEF Phases
<1>3. CASE FreeEp
  BY <1>0, <1>3 DEF FreeEp, Phases
<1>4. CASE \/ \E status \in {"ok", "EPIPE", "error"} : Complete(status)
           \/ Worker \/ UNCHANGED vars
  <2>1. UNCHANGED <<listed, ep, beside, t, c>>
    BY <1>4 DEF Complete, Worker, Work, WorkFill, WorkSubmit, WorkRelease, vars
  <2> QED
    BY <1>0, <2>1 DEF Phases
<1>5. CASE ComWorker
  <2>1. UNCHANGED <<listed, ep, beside, t>> /\ (listed \/ c # "idle")
    BY <1>5 DEF ComWorker, ComFind, ComFill, ComSubmit
  <2> QED
    BY <1>0, <2>1 DEF Phases
<1> QED
  BY <1>1, <1>2, <1>3, <1>4, <1>5 DEF Next, TeardownThread

\* Once unlinked, an URB that is submitted is late; without one the URBs only
\* become fewer, and the cursors go through the requests from the newest to the
\* oldest.
LEMMA StoppedStep == IInv /\ [Next]_vars => Stopped'
<1> SUFFICES ASSUME IInv, [Next]_vars, ~late' PROVE Stopped'
  BY DEF Stopped
<1>0. Flags /\ Typed /\ Phases /\ Stopped /\ Partition
  BY DEF IInv
<1>a. /\ urbs \in Seq(Requests) /\ Range(urbs) \subseteq reqlist
      /\ reqlist \subseteq Requests /\ IsInjective(urbs)
      /\ \A r \in Requests : r \in Nat /\ r > None
  BY <1>0, MaxReqsAssumption DEF Typed, Partition, Requests, None
<1>b. \A T \in SUBSET Requests : Max(T \cup {None}) \in T \cup {None}
                                 /\ \A x \in T : x <= Max(T \cup {None})
  BY MaxOfRequests
<1>c. \A p \in reqlist : \A r \in Range(urbs) : r <= p => r = p \/ r <= After(p)
  <2> SUFFICES ASSUME NEW p \in reqlist, NEW r \in Range(urbs), r <= p, r # p
               PROVE  r <= After(p)
    OBVIOUS
  <2>1. r \in {q \in reqlist : q < p}
    BY <1>a
  <2>2. {q \in reqlist : q < p} \subseteq Requests
    BY <1>a
  <2> QED
    BY <1>b, <2>1, <2>2 DEF After
<1>d. urbs # <<>> => \E r \in Range(urbs) : r \in Requests
  BY <1>a, TailHolds
<1>e. ~late
  <2> USE DEF memory, lists
  <2>1. late' = late \/ (WorkSubmit \/ ComSubmit)
    BY DEF Next, TeardownThread, Unlink, FirstRequest, Kill, Advance, FreeDesc, Flush,
           FreeEp, Complete, Worker, Work, WorkFill, WorkRelease, ComWorker, ComFind,
           ComFill, vars
  <2>2. WorkSubmit \/ ComSubmit => (late' <=> late) \/ (late' <=> (late \/ ~listed))
    BY DEF WorkSubmit, ComSubmit, Submit
  <2> QED
    BY <2>1, <2>2
<1> USE DEF memory, lists, thread, worker, com
<1>1. CASE Unlink
  BY <1>1 DEF Unlink, Stopped
<1>2. CASE FirstRequest
  <2>1. CASE reqlist = {}
    BY <1>2, <1>a, <1>d, <2>1 DEF FirstRequest, Stopped
  <2>2. CASE reqlist # {}
    <3>1. First \in reqlist /\ \A r \in Range(urbs) : r <= First
      <4>1. First \in reqlist \cup {None} /\ \A x \in reqlist : x <= First
        BY <1>a, <1>b DEF First
      <4>2. First # None
        <5>1. PICK x \in reqlist : x <= First
          BY <2>2, <4>1
        <5> QED
          BY <1>a, <5>1 DEF None
      <4> QED
        BY <1>a, <4>1, <4>2
    <3>2. t' = "kill" /\ cur' = First /\ nxt' = After(First) /\ urbs' = urbs
      BY <1>2, <2>2 DEF FirstRequest
    <3> QED
      BY <1>c, <3>1, <3>2 DEF Stopped
  <2> QED
    BY <2>1, <2>2
<1>3. CASE Kill
  <2>1. CASE cur \in reqlist
    <3>1. t = "kill" /\ t' = "advance" /\ nxt' = nxt
      BY <1>3, <2>1 DEF Kill
    <3>2. Range(urbs') \subseteq Range(urbs) /\ cur \notin Range(urbs')
      BY <1>3, <1>a, <2>1, RemoveAtHolds DEF Kill
    <3> QED
      BY <1>0, <1>e, <3>1, <3>2 DEF Stopped
  <2>2. CASE cur \notin reqlist
    BY <1>0, <1>3, <1>e, <2>2 DEF Kill, Stopped
  <2> QED
    BY <2>1, <2>2
<1>4. CASE Advance
  <2>0. t = "advance" /\ urbs' = urbs /\ \A r \in Range(urbs) : r <= nxt
    BY <1>0, <1>4, <1>e DEF Advance, Stopped
  <2>1. CASE nxt = None
    <3>1. urbs = <<>>
      BY <1>a, <1>d, <2>0, <2>1 DEF Requests, None
    <3> QED
      BY <1>4, <2>0, <2>1, <3>1 DEF Advance, Stopped
  <2>2. CASE nxt # None /\ nxt \in reqlist
    <3>1. t' = "kill" /\ cur' = nxt /\ nxt' = After(nxt)
      BY <1>4, <2>2 DEF Advance
    <3> QED
      BY <1>c, <2>0, <2>2, <3>1 DEF Stopped
  <2>3. CASE nxt # None /\ nxt \notin reqlist
    BY <1>4, <2>0, <2>3 DEF Advance, Stopped
  <2> QED
    BY <2>1, <2>2, <2>3
<1>5. CASE FreeDesc \/ Flush \/ FreeEp
  <2>1. t \in {"free_desc", "flush", "free_ep"} /\ urbs' = urbs /\ work' = work /\ w' = w
        /\ t' \in {"flush", "free_ep", "done"}
    BY <1>5 DEF FreeDesc, Flush, FreeEp
  <2>2. t' \in {"free_ep", "done"} => work = <<>> /\ w = "idle"
    BY <1>0, <1>5, <1>e DEF FreeDesc, Flush, FreeEp, Stopped
  <2>3. ~late' => ~late /\ urbs' = <<>>
    BY <1>0, <1>e, <2>1 DEF Stopped
  <2>4. w' = w /\ work' = work /\ t' \notin {"kill", "advance"}
    BY <2>1
  <2> QED
    BY <2>2, <2>3, <2>4 DEF Stopped
<1>6. ASSUME NEW status \in {"ok", "EPIPE", "error"}, Complete(status) PROVE Stopped'
  <2>1. urbs # <<>> /\ UNCHANGED <<t, cur, nxt, w>>
    BY <1>6 DEF Complete
  <2>2. t \notin {"free_desc", "flush", "free_ep", "done"}
    BY <1>0, <1>e, <2>1 DEF Stopped
  <2>3. Range(urbs') \subseteq Range(urbs)
    <3>1. urbs' = Tail(urbs) \/ urbs' = urbs
      BY <1>6 DEF Complete
    <3>2. Range(Tail(urbs)) \subseteq Range(urbs)
      BY <1>a, <2>1, TailHolds
    <3> QED
      BY <3>1, <3>2
  <2> QED
    BY <1>0, <1>e, <2>1, <2>2, <2>3 DEF Stopped
<1>7. CASE Worker
  <2>1. UNCHANGED <<t, cur, nxt>> /\ (work # <<>> \/ w # "idle")
    BY <1>7 DEF Worker, Work, WorkFill, WorkSubmit, WorkRelease
  <2>2. urbs' = urbs \/ t = "start"
    <3>1. WorkSubmit => urbs' = urbs \/ (late' <=> (late \/ ~listed))
      BY DEF WorkSubmit, Submit
    <3> QED
      BY <1>0, <1>7, <3>1 DEF Worker, Work, WorkFill, WorkRelease, Phases
  <2> QED
    BY <1>0, <1>e, <2>1, <2>2 DEF Stopped
<1>8. CASE ComWorker
  <2>1. UNCHANGED <<t, cur, nxt, work, w>>
    BY <1>8 DEF ComWorker, ComFind, ComFill, ComSubmit
  <2>2. urbs' = urbs \/ t = "start"
    <3>1. ComSubmit => urbs' = urbs \/ (late' <=> (late \/ ~listed))
      BY DEF ComSubmit, Submit
    <3> QED
      BY <1>0, <1>8, <3>1 DEF ComWorker, ComFind, ComFill, Phases
  <2> QED
    BY <1>0, <1>e, <2>1, <2>2 DEF Stopped
<1>9. CASE UNCHANGED vars
  BY <1>0, <1>9, <1>e DEF vars, Stopped
<1> QED
  BY <1>1, <1>2, <1>3, <1>4, <1>5, <1>6, <1>7, <1>8, <1>9 DEF Next, TeardownThread

LEMMA VerdictStep == IInv /\ [Next]_vars => Verdict'
<1> SUFFICES ASSUME IInv, [Next]_vars PROVE Verdict'
  OBVIOUS
<1>0. Flags /\ Typed /\ Phases /\ Stopped /\ Partition /\ Verdict
  BY DEF IInv
<1> USE DEF memory, lists, thread, worker, com
<1>1. CASE TeardownThread \/ Work \/ WorkFill \/ ComFind \/ UNCHANGED vars
  <2>1. UNCHANGED <<beside, late>> /\ bad' \in {bad, "cursor", "desc"}
    BY <1>1 DEF TeardownThread, Unlink, FirstRequest, Kill, Advance, FreeDesc, Flush,
                FreeEp, Work, WorkFill, ComFind, vars
  <2> QED
    BY <1>0, <2>1 DEF Verdict
<1>2. ASSUME NEW status \in {"ok", "EPIPE", "error"}, Complete(status) PROVE Verdict'
  <2>1. urbs # <<>> /\ UNCHANGED <<beside, late>> /\ bad' \in {bad, "ep"} /\ (bad' # bad => ~ep)
    BY <1>2 DEF Complete
  <2>2. ~ep => late
    BY <1>0, <2>1 DEF Phases, Stopped
  <2> QED
    BY <1>0, <2>1, <2>2 DEF Verdict
<1>3. CASE WorkSubmit
  <2>1. beside' = beside /\ bad' = bad
    BY <1>3 DEF WorkSubmit
  <2>2. late => late'
    BY <1>3 DEF WorkSubmit, Submit
  <2> QED
    BY <1>0, <2>1, <2>2 DEF Verdict
<1>4. CASE WorkRelease
  <2>1. w = "release" /\ UNCHANGED <<beside, late>>
    BY <1>4 DEF WorkRelease
  <2>2. ~ep => late
    BY <1>0, <2>1 DEF Phases, Stopped
  <2>3. wreq \in reqlist
    BY <2>1, HeldTyped
  <2> QED
    BY <1>0, <1>4, <2>1, <2>2, <2>3 DEF WorkRelease, Verdict
<1>5. CASE ComFill \/ ComSubmit
  <2>1. /\ c # "idle" /\ beside' = beside /\ (late => late')
        /\ bad' \in {bad, "ep", "desc"} /\ (bad' # bad /\ bad' = "ep" => ~ep)
    BY <1>5 DEF ComFill, ComSubmit, Submit
  <2>2. ~ep => beside
    BY <1>0, <2>1 DEF Phases
  <2> QED
    BY <1>0, <2>1, <2>2 DEF Verdict
<1> QED
  BY <1>1, <1>2, <1>3, <1>4, <1>5 DEF Next, Worker, ComWorker

\* The invariant is kept by every behaviour.
THEOREM Invariant == Spec => []IInv
<1>1. Init => IInv
  BY Starts
<1>2. IInv /\ [Next]_vars => IInv'
  BY FlagsStep, TypedStep, FreshStep, PartitionStep, PhasesStep, StoppedStep, VerdictStep
     DEF IInv
<1> QED
  BY <1>1, <1>2, PTL DEF Spec

-----------------------------------------------------------------------------
(* What follows from it *)

\* Every variable keeps to its type; the bound on the requests is that of the
\* allocation (alloc_driver_request, driver.c:279-325).
THEOREM Types == Spec => []TypeOK
<1>1. IInv => TypeOK
  BY TypedIsTypeOK DEF IInv
<1> QED
  BY <1>1, Invariant, PTL

\* When free_driver_endpoint has killed the URBs, flushed the workqueue and freed
\* the endpoint (driver.c:249-266), only a request submitted after the endpoint was
\* unlinked, or one of a com worker that runs beside, is left.
THEOREM OnlyTheLateSurvive == Spec => []OnlyLateOnesSurvive
<1>1. IInv => OnlyLateOnesSurvive
  <2> SUFFICES ASSUME IInv, ~ep, ~late, ~beside PROVE NoRequests
    BY DEF OnlyLateOnesSurvive
  <2>1. urbs = <<>> /\ work = <<>> /\ w = "idle" /\ c = "idle"
    BY DEF IInv, Phases, Stopped
  <2>2. Range(urbs) = {} /\ Range(Reqs(work)) = {}
    BY <2>1, EmptyHolds, ReqsEmpty
  <2>3. reqlist = {}
    BY <2>1, <2>2 DEF IInv, Partition, Mine, New, Coming
  <2> QED
    BY <2>1, <2>3 DEF NoRequests
<1> QED
  BY <1>1, Invariant, PTL

\* The host controller, the workqueue and the threads hold exactly the requests
\* that exist, each once: none is leaked, none is freed twice (driver.c:327-337,
\* 508-571).
THEOREM OneOwnerEach == Spec => []OneOwner
<1>1. IInv => OneOwner
  <2> SUFFICES ASSUME IInv PROVE OneOwner
    OBVIOUS
  <2> DEFINE m == IF w = "idle" THEN <<>> ELSE <<wreq>>
             n == IF w = "submit" THEN <<wnew>> ELSE <<>>
             k == IF c = "submit" THEN <<cnew>> ELSE <<>>
  <2>1. /\ urbs \in Seq(Requests) /\ Queued \in Seq(Requests) /\ Queued = Reqs(work)
        /\ Partition /\ bad # "double"
    BY ReqsHolds DEF IInv, Typed, Verdict, Queued, Reqs
  <2>2. m \in Seq(Requests) /\ n \in Seq(Requests) /\ k \in Seq(Requests)
    BY HeldTyped
  <2>3. Range(m) = Mine /\ IsInjective(m)
    BY EmptyHolds, SingleHolds DEF Mine
  <2>4. Range(n) = New /\ IsInjective(n)
    BY EmptyHolds, SingleHolds DEF New
  <2>5. Range(k) = Coming /\ IsInjective(k)
    BY EmptyHolds, SingleHolds DEF Coming
  <2> DEFINE a == urbs \o Queued
             b == a \o m
             d == b \o n
             h == d \o k
  <2>6. Held = h
    BY DEF Held
  <2> HIDE DEF m, n, k
  <2>7. a \in Seq(Requests) /\ Range(a) = Range(urbs) \cup Range(Queued) /\ IsInjective(a)
    BY <2>1, ConcatHolds DEF Partition
  <2> HIDE DEF a
  <2>8. b \in Seq(Requests) /\ Range(b) = Range(a) \cup Mine /\ IsInjective(b)
    <3>1. Range(a) \cap Range(m) = {}
      BY <2>1, <2>3, <2>7 DEF Partition
    <3> QED
      BY <2>2, <2>3, <2>7, <3>1, ConcatHolds
  <2> HIDE DEF b
  <2>9. d \in Seq(Requests) /\ Range(d) = Range(b) \cup New /\ IsInjective(d)
    <3>1. Range(b) \cap Range(n) = {}
      BY <2>1, <2>4, <2>7, <2>8 DEF Partition
    <3> QED
      BY <2>2, <2>4, <2>8, <3>1, ConcatHolds
  <2> HIDE DEF d
  <2>10. Range(h) = Range(d) \cup Coming /\ IsInjective(h)
    <3>1. Range(d) \cap Range(k) = {}
      BY <2>1, <2>5, <2>7, <2>8, <2>9 DEF Partition
    <3> QED
      BY <2>2, <2>5, <2>9, <3>1, ConcatHolds
  <2> HIDE DEF h
  <2> QED
    BY <2>1, <2>6, <2>7, <2>8, <2>9, <2>10 DEF OneOwner, Partition
<1> QED
  BY <1>1, Invariant, PTL

\* The completions and the worker never read the endpoint after kfree unless an
\* URB was submitted late, and the com worker only where it runs beside the
\* teardown (driver.c:508-595).
THEOREM EndpointOutlivesItsUse == Spec => []EpAlive
<1>1. IInv => EpAlive
  BY DEF IInv, Verdict, EpAlive
<1> QED
  BY <1>1, Invariant, PTL
=============================================================================
