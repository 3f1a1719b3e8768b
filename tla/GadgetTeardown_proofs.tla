------------------------ MODULE GadgetTeardown_proofs ------------------------
(***************************************************************************)
(* Freeing a gadget endpoint, for any number of requests, with or without  *)
(* a kernel that preempts, a controller that aborts and a com worker       *)
(* beside.                                                                 *)
(*                                                                         *)
(* The requests that exist are divided among five places: the controller,  *)
(* the workqueue, the request of the worker, the one it submits and the    *)
(* one the com worker submits (Partition).  What the teardown has already  *)
(* stopped depends on how far it is (Phases).                              *)
(***************************************************************************)
EXTENDS GadgetTeardown, QueueLemmas

(***************************************************************************)
(* Types                                                                   *)
(***************************************************************************)

LEMMA MaxOfRequests ==
    ASSUME NEW T, T \subseteq Requests
    PROVE  /\ Max(T \cup {None}) \in Requests \cup {None}
           /\ Max(T \cup {None}) \in T \cup {None}
           /\ \A x \in T : x <= Max(T \cup {None})
<1>1. T \cup {None} \subseteq 0..MaxReqs /\ T \cup {None} # {} /\ MaxReqs \in Nat
  BY ConstantsAssumption DEF Requests, None
<1>2. Max(T \cup {None}) \in T \cup {None} /\ \A x \in T \cup {None} : x <= Max(T \cup {None})
  BY <1>1, MaxIsGreatest
<1> QED
  BY <1>2

\* TypeOK, variable by variable, the flags apart.
Flags ==
    /\ beside \in BOOLEAN /\ listed \in BOOLEAN /\ enabled \in BOOLEAN
    /\ desc \in BOOLEAN /\ ep \in BOOLEAN

Typed ==
    /\ dir \in {"IN", "OUT"}
    /\ reqlist \subseteq Requests
    /\ udc \in Seq(Requests) /\ work \in Seq(Requests)
    /\ used \in 0..MaxReqs
    /\ t \in {"start", "unlinked", "dequeue", "advance", "disable", "free_desc",
              "flush", "free_ep", "done"}
    /\ w \in {"idle", "fill", "queue", "release"}
    /\ c \in {"idle", "found", "queue"}
    /\ cur \in Requests \cup {None} /\ nxt \in Requests \cup {None}
    /\ wreq \in Requests \cup {None} /\ wnew \in Requests \cup {None}
    /\ cnew \in Requests \cup {None}
    /\ bad \in {"none", "cursor", "desc", "ep", "double"}

LEMMA TypedIsTypeOK == Flags /\ Typed <=> TypeOK
  BY DEF Flags, Typed, TypeOK

LEMMA FlagsInit == Init => Flags
  BY Zenon DEF Init, Flags

LEMMA TypedInit == Init => Typed
<1> SUFFICES ASSUME Init PROVE Typed
  OBVIOUS
<1>1. used \in 0..MaxReqs /\ reqlist \subseteq Requests /\ None \in Requests \cup {None}
  <2>1. used \in {0, 1} /\ reqlist = 1..used
    BY DEF Init
  <2>2. used \in Nat /\ used <= MaxReqs /\ MaxReqs \in Nat
    BY <2>1, ConstantsAssumption
  <2> QED
    BY <2>1, <2>2 DEF Requests
<1>2. udc \in Seq(Requests) /\ work \in Seq(Requests)
  <2>1. 1 \in Requests
    BY ConstantsAssumption DEF Requests
  <2>2. <<1>> \in Seq(Requests) /\ <<>> \in Seq(Requests)
    BY <2>1
  <2> QED
    BY <2>2 DEF Init
<1>3. /\ dir \in {"IN", "OUT"} /\ t = "start" /\ w = "idle" /\ c = "idle" /\ bad = "none"
      /\ cur = None /\ nxt = None /\ wreq = None /\ wnew = None /\ cnew = None
  BY DEF Init
<1> QED
  BY <1>1, <1>2, <1>3 DEF Typed

\* A new request is one of those there may be.
LEMMA AllocTyped ==
    ASSUME Typed, Alloc
    PROVE  /\ used' \in 0..MaxReqs /\ used' \in Requests
           /\ reqlist' \subseteq Requests
           /\ used' = used + 1
  BY ConstantsAssumption DEF Typed, Alloc, Requests

LEMMA QueueTyped ==
    ASSUME Typed, NEW r \in Requests, Queue(r)
    PROVE  udc' \in Seq(Requests) /\ reqlist' \subseteq Requests
<1>1. udc \in Seq(Requests) /\ reqlist \subseteq Requests
  BY DEF Typed
<1>2. Append(udc, r) \in Seq(Requests)
  BY <1>1, AppendHolds
<1>3. /\ udc' = Append(udc, r) \/ udc' = udc
      /\ reqlist' \subseteq reqlist
  BY DEF Queue
<1> QED
  BY <1>1, <1>2, <1>3

-----------------------------------------------------------------------------
(* The inductive invariant *)

\* The request the worker works on, the one it submits and the one the com
\* worker submits.
Mine   == IF w = "idle" THEN {} ELSE {wreq}
New    == IF w = "queue" THEN {wnew} ELSE {}
Coming == IF c = "queue" THEN {cnew} ELSE {}

\* A request is numbered when it is allocated.
Fresh == reqlist \subseteq 1..used

\* Each request that exists is held once.
Partition ==
    /\ reqlist = Range(udc) \cup Range(work) \cup Mine \cup New \cup Coming
    /\ IsInjective(udc) /\ IsInjective(work)
    /\ Range(udc) \cap Range(work) = {}
    /\ (Range(udc) \cup Range(work)) \cap (Mine \cup New \cup Coming) = {}
    /\ Mine \cap New = {} /\ Mine \cap Coming = {} /\ New \cap Coming = {}

\* What the teardown thread has already stopped.
Phases ==
    /\ ep <=> t # "done"
    /\ listed <=> t = "start"
    /\ t \in {"free_desc", "flush", "free_ep", "done"} => ~enabled /\ udc = <<>>
    /\ t \in {"free_ep", "done"} => work = <<>> /\ w = "idle"
    /\ ~beside /\ t # "start" => c = "idle"

Verdict == (bad = "ep" => beside) /\ bad # "double"

IInv == Flags /\ Typed /\ Fresh /\ Partition /\ Phases /\ Verdict

-----------------------------------------------------------------------------
(* It holds at the start *)

LEMMA Starts == Init => IInv
<1> SUFFICES ASSUME Init PROVE IInv
  OBVIOUS
<1>1. Flags /\ Typed
  BY FlagsInit, TypedInit
<1>2. Fresh
  BY DEF Init, Fresh
<1>3. Partition
  <2>1. Range(work) = {} /\ IsInjective(work)
    BY EmptyHolds DEF Init
  <2>2. Range(udc) = reqlist /\ IsInjective(udc)
    <3>1. CASE dir = "OUT"
      BY <3>1, SingleHolds DEF Init
    <3>2. CASE dir = "IN"
      BY <3>2, EmptyHolds DEF Init
    <3> QED
      BY <3>1, <3>2 DEF Init
  <2>3. Mine = {} /\ New = {} /\ Coming = {}
    BY DEF Init, Mine, New, Coming
  <2> QED
    BY <2>1, <2>2, <2>3 DEF Partition
<1>4. Phases /\ Verdict
  BY DEF Init, Phases, Verdict
<1> QED
  BY <1>1, <1>2, <1>3, <1>4 DEF IInv

-----------------------------------------------------------------------------
(* Each step keeps it *)

\* The requests the threads hold are requests.
LEMMA HeldTyped ==
    ASSUME IInv
    PROVE  /\ w # "idle" => wreq \in Requests /\ wreq \in reqlist
           /\ w = "queue" => wnew \in Requests /\ wnew \in reqlist
           /\ c = "queue" => cnew \in Requests /\ cnew \in reqlist
<1>1. Mine \cup New \cup Coming \subseteq reqlist /\ reqlist \subseteq Requests
  BY DEF IInv, Typed, Partition
<1> QED
  BY <1>1 DEF Mine, New, Coming

LEMMA FlagsStep == IInv /\ [Next]_vars => Flags'
<1> SUFFICES ASSUME IInv, [Next]_vars PROVE Flags'
  OBVIOUS
<1>0. Flags
  BY DEF IInv
<1> USE DEF memory
<1>1. CASE Unlink
  BY Zenon, <1>0, <1>1 DEF Unlink, Flags
<1>2. CASE Disable
  BY Zenon, <1>0, <1>2 DEF Disable, Flags
<1>3. CASE FreeDesc
  BY Zenon, <1>0, <1>3 DEF FreeDesc, Flags
<1>4. CASE FreeEp
  BY Zenon, <1>0, <1>4 DEF FreeEp, Flags
<1>5. CASE UNCHANGED memory
  BY Zenon, <1>0, <1>5 DEF Flags
<1> QED
  BY <1>1, <1>2, <1>3, <1>4, <1>5
     DEF Next, TeardownThread, FirstRequest, Dequeue, Advance, Flush, Complete, Abort,
         Worker, Work, WorkFill, WorkQueue, WorkRelease, ComWorker, ComFind, ComFill,
         ComQueue, vars

LEMMA TypedStep == IInv /\ [Next]_vars => Typed'
<1> SUFFICES ASSUME IInv, [Next]_vars PROVE Typed'
  OBVIOUS
<1> USE DEF memory, lists, thread, worker, com
<1>0. Typed
  BY DEF IInv
<1>1. CASE Unlink
  BY <1>0, <1>1 DEF Unlink, Typed
<1>2. CASE FirstRequest
  <2>1. \A T \in SUBSET Requests : Max(T \cup {None}) \in Requests \cup {None}
    BY MaxOfRequests
  <2>2. First \in Requests \cup {None} /\ After(First) \in Requests \cup {None}
    BY <1>0, <2>1 DEF First, After, Typed
  <2> QED
    BY <1>0, <1>2, <2>2 DEF FirstRequest, Typed
<1>3. CASE Dequeue
  <2>1. udc' \in Seq(Requests) /\ reqlist' \subseteq Requests
    BY <1>0, <1>3, RemoveAtHolds DEF Dequeue, Typed
  <2> QED
    BY <1>0, <1>3, <2>1 DEF Dequeue, Typed
<1>4. CASE Advance
  <2>1. \A T \in SUBSET Requests : Max(T \cup {None}) \in Requests \cup {None}
    BY MaxOfRequests
  <2>2. After(nxt) \in Requests \cup {None}
    BY <1>0, <2>1 DEF After, Typed
  <2> QED
    BY <1>0, <1>4, <2>2 DEF Advance, Typed
<1>5. CASE Disable
  BY <1>0, <1>5, EmptySeq DEF Disable, Typed
<1>6. CASE FreeDesc
  BY <1>0, <1>6 DEF FreeDesc, Typed
<1>7. CASE Flush
  BY <1>0, <1>7 DEF Flush, Typed
<1>8. CASE FreeEp
  BY <1>0, <1>8 DEF FreeEp, Typed
<1>9. CASE Complete
  <2>1. udc' \in Seq(Requests) /\ work' \in Seq(Requests)
    BY <1>0, <1>9, TailHolds, AppendHolds DEF Complete, Typed
  <2> QED
    BY <1>0, <1>9, <2>1 DEF Complete, Typed
<1>10. CASE Abort
  BY <1>0, <1>10, EmptySeq DEF Abort, Typed
<1>11. CASE Work
  <2>1. work' \in Seq(Requests) /\ wreq' \in Requests
    BY <1>0, <1>11, TailHolds DEF Work, Typed
  <2> QED
    BY <1>0, <1>11, <2>1 DEF Work, Typed
<1>12. CASE WorkFill
  BY <1>0, <1>12, AllocTyped DEF WorkFill, Typed
<1>13. CASE WorkQueue
  <2>1. udc' \in Seq(Requests) /\ reqlist' \subseteq Requests
    BY <1>0, <1>13, HeldTyped, QueueTyped DEF WorkQueue
  <2> QED
    BY <1>0, <1>13, <2>1 DEF WorkQueue, Typed
<1>14. CASE WorkRelease
  BY <1>0, <1>14 DEF WorkRelease, Typed
<1>15. CASE ComFind
  BY <1>0, <1>15 DEF ComFind, Typed
<1>16. CASE ComFill
  BY <1>0, <1>16, AllocTyped DEF ComFill, Typed
<1>17. CASE ComQueue
  <2>1. udc' \in Seq(Requests) /\ reqlist' \subseteq Requests
    BY <1>0, <1>17, HeldTyped, QueueTyped DEF ComQueue, Typed
  <2> QED
    BY <1>0, <1>17, <2>1 DEF ComQueue, Typed
<1>18. CASE UNCHANGED vars
  BY <1>0, <1>18 DEF vars, Typed
<1> QED
  BY <1>1, <1>2, <1>3, <1>4, <1>5, <1>6, <1>7, <1>8, <1>9, <1>10, <1>11, <1>12,
     <1>13, <1>14, <1>15, <1>16, <1>17, <1>18
     DEF Next, TeardownThread, Worker, ComWorker

LEMMA FreshStep == IInv /\ [Next]_vars => Fresh'
<1> SUFFICES ASSUME IInv, [Next]_vars PROVE Fresh'
  OBVIOUS
<1>1. used \in Nat /\ reqlist \subseteq 1..used
  BY DEF IInv, Typed, Fresh
<1>2. \/ used' = used /\ reqlist' \subseteq reqlist
      \/ used' = used + 1 /\ reqlist' = reqlist \cup {used + 1}
  <2> USE DEF memory, lists, thread, worker, com
  <2>1. CASE TeardownThread
    BY <2>1 DEF TeardownThread, Unlink, FirstRequest, Dequeue, Advance, Disable,
                FreeDesc, Flush, FreeEp
  <2>2. CASE Complete \/ Abort
    BY <2>2 DEF Complete, Abort
  <2>3. CASE Worker
    BY <2>3 DEF Worker, Work, WorkFill, WorkQueue, WorkRelease, Alloc, Queue
  <2>4. CASE ComWorker
    BY <2>4 DEF ComWorker, ComFind, ComFill, ComQueue, Alloc, Queue
  <2>5. CASE UNCHANGED vars
    BY <2>5 DEF vars
  <2> QED
    BY <2>1, <2>2, <2>3, <2>4, <2>5 DEF Next
<1>3. CASE used' = used /\ reqlist' \subseteq reqlist
  BY <1>1, <1>3 DEF Fresh
<1>4. CASE used' = used + 1 /\ reqlist' = reqlist \cup {used + 1}
  <2>1. 1..used \subseteq 1..(used + 1) /\ used + 1 \in 1..(used + 1)
    BY <1>1
  <2> QED
    BY <1>1, <1>4, <2>1 DEF Fresh
<1> QED
  BY <1>2, <1>3, <1>4

\* Where a request goes when it leaves the one place it was in.
LEMMA PartitionStep == IInv /\ [Next]_vars => Partition'
<1> SUFFICES ASSUME IInv, [Next]_vars PROVE Partition'
  OBVIOUS
<1>0. /\ udc \in Seq(Requests) /\ work \in Seq(Requests)
      /\ used \in Nat /\ reqlist \subseteq 1..used
      /\ Partition
  BY DEF IInv, Typed, Fresh
<1>a. UNCHANGED <<reqlist, udc, work, worker, com>> => Partition'
  BY <1>0 DEF Partition, Mine, New, Coming, worker, com
<1>b. Alloc => reqlist' = reqlist \cup {used'} /\ used' \notin reqlist
  BY <1>0 DEF Alloc
<1>c. ASSUME NEW r \in Requests, Queue(r)
      PROVE  \/ /\ Range(udc') = Range(udc) \cup {r} /\ reqlist' = reqlist
                /\ r \notin Range(udc) => IsInjective(udc')
             \/ udc' = udc /\ reqlist' = reqlist \ {r}
  <2>1. /\ Range(Append(udc, r)) = Range(udc) \cup {r}
        /\ IsInjective(udc) /\ r \notin Range(udc) => IsInjective(Append(udc, r))
    BY <1>0, AppendHolds
  <2>2. IsInjective(udc)
    BY <1>0 DEF Partition
  <2> QED
    BY <1>c, <2>1, <2>2 DEF Queue
<1> USE DEF memory, lists, thread, worker, com
<1>1. CASE Unlink \/ FirstRequest \/ Advance \/ FreeDesc \/ Flush \/ FreeEp
  BY <1>a, <1>1 DEF Unlink, FirstRequest, Advance, FreeDesc, Flush, FreeEp
<1>2. CASE Dequeue
  <2>1. \/ UNCHANGED <<reqlist, udc>>
        \/ /\ reqlist' = reqlist \ {cur} /\ cur \in Range(udc)
           /\ Range(udc) = Range(udc') \cup {cur} /\ cur \notin Range(udc')
           /\ IsInjective(udc')
    BY <1>0, <1>2, RemoveAtHolds DEF Dequeue, Partition
  <2>2. UNCHANGED <<work, worker, com>>
    BY <1>2 DEF Dequeue
  <2> QED
    BY <1>0, <2>1, <2>2 DEF Partition, Mine, New, Coming
<1>3. CASE Disable \/ Abort
  <2>1. Range(udc') = {} /\ IsInjective(udc')
    BY <1>3, EmptyHolds DEF Disable, Abort
  <2>2. reqlist' = reqlist \ Range(udc) /\ UNCHANGED <<work, worker, com>>
    BY <1>3 DEF Disable, Abort
  <2> QED
    BY <1>0, <2>1, <2>2 DEF Partition, Mine, New, Coming
<1>4. CASE Complete
  <2>1. /\ Head(udc) \in Requests /\ Head(udc) \in Range(udc)
        /\ Range(udc) = Range(udc') \cup {Head(udc)}
        /\ IsInjective(udc') /\ Head(udc) \notin Range(udc')
    BY <1>0, <1>4, TailHolds DEF Complete, Partition
  <2>2. Range(work') = Range(work) \cup {Head(udc)} /\ IsInjective(work')
    BY <1>0, <1>4, <2>1, AppendHolds DEF Complete, Partition
  <2>3. UNCHANGED <<reqlist, worker, com>>
    BY <1>4 DEF Complete
  <2> QED
    BY <1>0, <2>1, <2>2, <2>3 DEF Partition, Mine, New, Coming
<1>5. CASE Work
  <2>1. /\ Range(work) = Range(work') \cup {Head(work)}
        /\ IsInjective(work') /\ Head(work) \notin Range(work')
    BY <1>0, <1>5, TailHolds DEF Work, Partition
  <2>2. /\ w = "idle" /\ w' \in {"fill", "release"} /\ wreq' = Head(work)
        /\ UNCHANGED <<reqlist, udc, c, cnew>>
    BY <1>5 DEF Work
  <2> QED
    BY <1>0, <2>1, <2>2 DEF Partition, Mine, New, Coming
<1>6. CASE WorkFill
  <2>1. UNCHANGED <<reqlist, udc, work, wreq, com>> /\ w = "fill" /\ w' \in {"release", "fill"}
        => Partition'
    BY <1>0 DEF Partition, Mine, New, Coming
  <2>2. Alloc /\ UNCHANGED <<udc, work, wreq, com>> /\ w = "fill" /\ w' = "queue" /\ wnew' = used'
        => Partition'
    BY <1>0, <1>b DEF Partition, Mine, New, Coming
  <2> QED
    BY <1>6, <2>1, <2>2 DEF WorkFill
<1>7. CASE WorkQueue
  <2>1. wnew \in Requests /\ Queue(wnew) /\ w = "queue" /\ w' = "release"
        /\ UNCHANGED <<work, wreq, com>>
    BY <1>7, HeldTyped DEF WorkQueue
  <2>2. wnew \notin Range(udc)
    BY <1>0, <2>1 DEF Partition, New
  <2> QED
    BY <1>0, <1>c, <2>1, <2>2 DEF Partition, Mine, New, Coming
<1>8. CASE WorkRelease
  BY <1>0, <1>8 DEF WorkRelease, Partition, Mine, New, Coming
<1>9. CASE ComFind
  BY <1>0, <1>9 DEF ComFind, Partition, Mine, New, Coming
<1>10. CASE ComFill
  <2>1. UNCHANGED <<reqlist, udc, work, worker>> /\ c = "found" /\ c' \in {"idle", "found"}
        => Partition'
    BY <1>0 DEF Partition, Mine, New, Coming
  <2>2. Alloc /\ UNCHANGED <<udc, work, worker>> /\ c = "found" /\ c' = "queue" /\ cnew' = used'
        => Partition'
    BY <1>0, <1>b DEF Partition, Mine, New, Coming
  <2> QED
    BY <1>10, <2>1, <2>2 DEF ComFill
<1>11. CASE ComQueue
  <2>1. CASE ep
    <3>1. cnew \in Requests /\ Queue(cnew) /\ c = "queue" /\ c' = "idle"
          /\ UNCHANGED <<work, worker>>
      BY <1>11, <2>1, HeldTyped DEF ComQueue
    <3>2. cnew \notin Range(udc)
      BY <1>0, <3>1 DEF Partition, Coming
    <3> QED
      BY <1>0, <1>c, <3>1, <3>2 DEF Partition, Mine, New, Coming
  <2>2. CASE ~ep
    BY <1>a, <1>11, <2>2 DEF ComQueue
  <2> QED
    BY <2>1, <2>2
<1>12. CASE UNCHANGED vars
  BY <1>a, <1>12 DEF vars
<1> QED
  BY <1>1, <1>2, <1>3, <1>4, <1>5, <1>6, <1>7, <1>8, <1>9, <1>10, <1>11, <1>12
     DEF Next, TeardownThread, Worker, ComWorker

\* What is stopped stays stopped: a disabled endpoint takes no request, a flushed
\* workqueue gets none, and an unlinked endpoint is not found.
LEMMA PhasesStep == IInv /\ [Next]_vars => Phases'
<1> SUFFICES ASSUME IInv, [Next]_vars PROVE Phases'
  OBVIOUS
<1>0. Flags /\ Typed /\ Phases /\ Partition
  BY DEF IInv
<1> USE DEF memory, lists, thread, worker, com
<1>1. CASE Unlink
  BY <1>0, <1>1 DEF Unlink, Phases
<1>2. CASE FirstRequest \/ Dequeue \/ Advance
  <2>1. /\ t \in {"unlinked", "dequeue", "advance"}
        /\ t' \in {"dequeue", "advance", "disable"}
        /\ UNCHANGED <<listed, ep, beside, c>>
    BY <1>2 DEF FirstRequest, Dequeue, Advance
  <2> QED
    BY <1>0, <2>1 DEF Phases
<1>3. CASE Disable
  BY <1>0, <1>3 DEF Disable, Phases
<1>4. CASE FreeDesc
  BY <1>0, <1>4 DEF FreeDesc, Phases
<1>5. CASE Flush
  BY <1>0, <1>5 DEF Flush, Phases
<1>6. CASE FreeEp
  BY <1>0, <1>6 DEF FreeEp, Phases
<1>7. CASE Complete \/ Abort
  <2>1. udc # <<>> /\ UNCHANGED <<listed, ep, beside, t, c>>
    BY <1>7 DEF Complete, Abort
  <2>2. t \notin {"free_desc", "flush", "free_ep", "done"}
    BY <1>0, <2>1 DEF Phases
  <2> QED
    BY <1>0, <2>1, <2>2 DEF Phases
<1>8. CASE Worker
  <2>1. UNCHANGED <<listed, ep, beside, enabled, t, c>>
    BY <1>8 DEF Worker, Work, WorkFill, WorkQueue, WorkRelease
  <2>2. work # <<>> \/ w # "idle"
    BY <1>8 DEF Worker, Work, WorkFill, WorkQueue, WorkRelease
  <2>3. udc' = udc \/ enabled
    BY <1>8 DEF Worker, Work, WorkFill, WorkQueue, WorkRelease, Queue
  <2> QED
    BY <1>0, <2>1, <2>2, <2>3 DEF Phases
<1>9. CASE ComWorker
  <2>1. UNCHANGED <<listed, ep, beside, enabled, t, work, w>>
    BY <1>9 DEF ComWorker, ComFind, ComFill, ComQueue
  <2>2. listed \/ c # "idle"
    BY <1>9 DEF ComWorker, ComFind, ComFill, ComQueue
  <2>3. udc' = udc \/ enabled
    BY <1>9 DEF ComWorker, ComFind, ComFill, ComQueue, Queue
  <2> QED
    BY <1>0, <2>1, <2>2, <2>3 DEF Phases
<1>10. CASE UNCHANGED vars
  BY <1>0, <1>10 DEF vars, Phases
<1> QED
  BY <1>1, <1>2, <1>3, <1>4, <1>5, <1>6, <1>7, <1>8, <1>9, <1>10
     DEF Next, TeardownThread

LEMMA VerdictStep == IInv /\ [Next]_vars => Verdict'
<1> SUFFICES ASSUME IInv, [Next]_vars PROVE Verdict'
  OBVIOUS
<1>0. Typed /\ Phases /\ Partition /\ Verdict
  BY DEF IInv
<1> USE DEF memory, lists, thread, worker, com
<1>1. CASE TeardownThread \/ Complete \/ Abort \/ Work \/ WorkFill \/ WorkQueue \/ ComFind
  <2>1. UNCHANGED beside /\ bad' \in {bad, "cursor", "desc"}
    BY <1>1 DEF TeardownThread, Unlink, FirstRequest, Dequeue, Advance, Disable, FreeDesc,
                Flush, FreeEp, Complete, Abort, Work, WorkFill, WorkQueue, ComFind
  <2> QED
    BY <1>0, <2>1 DEF Verdict
<1>2. CASE WorkRelease
  <2>1. w = "release" /\ UNCHANGED beside
    BY <1>2 DEF WorkRelease
  <2>2. ep
    BY <1>0, <2>1 DEF Phases, Typed
  <2>3. wreq \in reqlist
    BY <2>1, HeldTyped
  <2> QED
    BY <1>0, <1>2, <2>1, <2>2, <2>3 DEF WorkRelease, Verdict
<1>3. CASE ComFill \/ ComQueue
  <2>1. c # "idle" /\ UNCHANGED beside /\ bad' \in {bad, "ep"} /\ (bad' # bad => ~ep)
    BY <1>3 DEF ComFill, ComQueue
  <2>2. ~ep => beside
    BY <1>0, <2>1 DEF Phases
  <2> QED
    BY <1>0, <2>1, <2>2 DEF Verdict
<1>4. CASE UNCHANGED vars
  BY <1>0, <1>4 DEF vars, Verdict
<1> QED
  BY <1>1, <1>2, <1>3, <1>4 DEF Next, Worker, ComWorker

\* The invariant is kept by every behaviour.
THEOREM Invariant == Spec => []IInv
<1>1. Init => IInv
  BY Starts
<1>2. IInv /\ [Next]_vars => IInv'
  BY FlagsStep, TypedStep, FreshStep, PartitionStep, PhasesStep, VerdictStep DEF IInv
<1> QED
  BY <1>1, <1>2, PTL DEF Spec

-----------------------------------------------------------------------------
(* What follows from it *)

\* Every variable keeps to its type; the bound on the requests is that of the
\* allocation (alloc_gadget_request, gadget.c:424-458).
THEOREM Types == Spec => []TypeOK
<1>1. IInv => TypeOK
  BY TypedIsTypeOK DEF IInv
<1> QED
  BY <1>1, Invariant, PTL

\* When free_gadget_endpoint has freed the endpoint no request of it is left on
\* the controller, in the workqueue or with the worker (gadget.c:240-265),
\* whatever preempts, aborts or fails, unless a com worker runs beside it.
THEOREM NoneOutlivesTheEndpoint == Spec => []RequestsDieFirst
<1>1. IInv => RequestsDieFirst
  <2> SUFFICES ASSUME IInv, ~ep, ~beside
               PROVE  reqlist = {} /\ udc = <<>> /\ work = <<>> /\ w = "idle"
    BY DEF RequestsDieFirst
  <2>1. udc = <<>> /\ work = <<>> /\ w = "idle" /\ c = "idle"
    BY DEF IInv, Phases
  <2>2. Range(udc) = {} /\ Range(work) = {}
    BY <2>1, EmptyHolds
  <2>3. reqlist = {}
    BY <2>1, <2>2 DEF IInv, Partition, Mine, New, Coming
  <2> QED
    BY <2>1, <2>3
<1> QED
  BY <1>1, Invariant, PTL

\* The controller, the workqueue and the threads hold exactly the requests that
\* exist, each once: none is leaked, none is freed twice (gadget.c:460-515).
THEOREM OneOwnerEach == Spec => []OneOwner
<1>1. IInv => OneOwner
  <2> SUFFICES ASSUME IInv PROVE OneOwner
    OBVIOUS
  <2> DEFINE m == IF w = "idle" THEN <<>> ELSE <<wreq>>
             n == IF w = "queue" THEN <<wnew>> ELSE <<>>
             k == IF c = "queue" THEN <<cnew>> ELSE <<>>
  <2>1. udc \in Seq(Requests) /\ work \in Seq(Requests) /\ Partition /\ bad # "double"
    BY DEF IInv, Typed, Verdict
  <2>2. m \in Seq(Requests) /\ n \in Seq(Requests) /\ k \in Seq(Requests)
    BY HeldTyped
  <2>3. Range(m) = Mine /\ IsInjective(m)
    BY EmptyHolds, SingleHolds DEF Mine
  <2>4. Range(n) = New /\ IsInjective(n)
    BY EmptyHolds, SingleHolds DEF New
  <2>5. Range(k) = Coming /\ IsInjective(k)
    BY EmptyHolds, SingleHolds DEF Coming
  <2> DEFINE a == udc \o work
             b == a \o m
             d == b \o n
             h == d \o k
  <2>6. Held = h
    BY DEF Held
  <2> HIDE DEF m, n, k
  <2>7. a \in Seq(Requests) /\ Range(a) = Range(udc) \cup Range(work) /\ IsInjective(a)
    BY <2>1, ConcatHolds DEF Partition
  <2> HIDE DEF a
  <2>8. b \in Seq(Requests) /\ Range(b) = Range(a) \cup Mine /\ IsInjective(b)
    <3>1. Range(a) \cap Range(m) = {}
      BY <2>1, <2>3, <2>7 DEF Partition
    <3> QED
      BY <2>2, <2>3, <2>7, <3>1, ConcatHolds
  <2> HIDE DEF b
  <2>9. d \in Seq(Requests) /\ Range(d) = Range(b) \cup New /\ IsInjective(d)
    <3>1. Range(b) \cap Range(n) = {}
      BY <2>1, <2>4, <2>7, <2>8 DEF Partition
    <3> QED
      BY <2>2, <2>4, <2>8, <3>1, ConcatHolds
  <2> HIDE DEF d
  <2>10. Range(h) = Range(d) \cup Coming /\ IsInjective(h)
    <3>1. Range(d) \cap Range(k) = {}
      BY <2>1, <2>5, <2>7, <2>8, <2>9 DEF Partition
    <3> QED
      BY <2>2, <2>5, <2>9, <3>1, ConcatHolds
  <2> HIDE DEF h
  <2> QED
    BY <2>1, <2>6, <2>7, <2>8, <2>9, <2>10 DEF OneOwner, Partition
<1> QED
  BY <1>1, Invariant, PTL

\* The worker and the completions never read the endpoint after kfree: only a
\* com worker that found it before it was unlinked does (gadget.c:517-534), and
\* only where it runs beside the teardown.
THEOREM EndpointOutlivesItsUse == Spec => []EpAlive
<1>1. IInv => EpAlive
  BY DEF IInv, Verdict, EpAlive
<1> QED
  BY <1>1, Invariant, PTL

-----------------------------------------------------------------------------
(* The loop of the teardown thread *)

\* Where nothing else frees a request, the loop holds requests that exist.
Cursors ==
    /\ t = "dequeue" => cur \in reqlist /\ nxt # cur
    /\ t \in {"dequeue", "advance"} => nxt \in reqlist \cup {None}
    /\ bad # "cursor"

LEMMA CursorsStep ==
    ASSUME ~Preemptible, ~Aborts
    PROVE  IInv /\ Cursors /\ [Next]_vars => Cursors'
<1> SUFFICES ASSUME IInv, Cursors, [Next]_vars PROVE Cursors'
  OBVIOUS
<1>0. Typed /\ reqlist \subseteq Requests /\ None \notin Requests
  BY DEF IInv, Typed, Requests, None
<1>a. \A T \in SUBSET Requests : Max(T \cup {None}) \in T \cup {None}
                                 /\ \A x \in T : x <= Max(T \cup {None})
  BY MaxOfRequests
<1>b. \A r \in reqlist : After(r) \in reqlist \cup {None} /\ After(r) # r
  <2> SUFFICES ASSUME NEW r \in reqlist
               PROVE  After(r) \in reqlist \cup {None} /\ After(r) # r
    OBVIOUS
  <2>1. After(r) \in {q \in reqlist : q < r} \cup {None}
    BY <1>0, <1>a DEF After
  <2> QED
    BY <1>0, <2>1 DEF Requests, None
<1>c. reqlist # {} => First \in reqlist
  <2> SUFFICES ASSUME NEW q \in reqlist PROVE First \in reqlist
    OBVIOUS
  <2>1. First \in reqlist \cup {None} /\ q <= First
    BY <1>0, <1>a DEF First
  <2> QED
    BY <1>0, <2>1 DEF Requests, None
<1> USE DEF memory, lists, thread, worker, com
<1>1. CASE FirstRequest
  BY <1>1, <1>b, <1>c DEF FirstRequest, Cursors
<1>2. CASE Dequeue
  BY <1>2 DEF Dequeue, Cursors
<1>3. CASE Advance
  BY <1>3, <1>b DEF Advance, Cursors
<1>4. CASE Complete
  BY <1>4 DEF Complete, Cursors
<1>5. CASE Unlink \/ Disable \/ FreeDesc \/ Flush \/ FreeEp
  BY <1>5 DEF Unlink, Disable, FreeDesc, Flush, FreeEp, Cursors
<1>6. CASE Abort
  BY <1>6 DEF Abort
<1>7. CASE Worker \/ ComWorker
  <2>1. t' = t
    BY <1>7 DEF Worker, Work, WorkFill, WorkQueue, WorkRelease, ComWorker, ComFind,
                ComFill, ComQueue
  <2>2. MayRun /\ bad' # "cursor"
    BY <1>7 DEF Worker, Work, WorkFill, WorkQueue, WorkRelease, ComWorker, ComFind,
                ComFill, ComQueue, Cursors
  <2> QED
    BY <2>1, <2>2 DEF MayRun, Cursors
<1>8. CASE UNCHANGED vars
  BY <1>8 DEF vars, Cursors
<1> QED
  BY <1>1, <1>2, <1>3, <1>4, <1>5, <1>6, <1>7, <1>8 DEF Next, TeardownThread

\* What the comment at gadget.c:246-247 hopes for is true of a kernel that does
\* not preempt the teardown and a controller that aborts nothing by itself: there
\* the safe iteration never holds a freed request.
THEOREM SafeIterationSuffices ==
    ASSUME ~Preemptible, ~Aborts
    PROVE  Spec => []CursorAlive
<1>1. Init => IInv /\ Cursors
  BY Starts DEF Init, Cursors
<1>2. IInv /\ [Next]_vars => IInv'
  BY FlagsStep, TypedStep, FreshStep, PartitionStep, PhasesStep, VerdictStep DEF IInv
<1>3. IInv /\ Cursors /\ [Next]_vars => Cursors'
  BY CursorsStep
<1>4. Cursors => CursorAlive
  BY DEF Cursors, CursorAlive
<1> QED
  BY <1>1, <1>2, <1>3, <1>4, PTL DEF Spec
=============================================================================
