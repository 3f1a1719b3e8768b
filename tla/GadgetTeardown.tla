---------------------------- MODULE GadgetTeardown ----------------------------
(***************************************************************************)
(* free_gadget_endpoint (gadget.c:231-266) while everything else goes on:  *)
(* the teardown thread against the worker of the endpoint's workqueue, the *)
(* interrupt of the USB device controller and the com worker.  There is no *)
(* lock; each step is what one thread does between two points where        *)
(* another can see the difference.                                         *)
(*                                                                         *)
(* The subject is memory: which thread may touch a request, the endpoint   *)
(* or its descriptor after another has freed it.  A step that touches      *)
(* freed memory records it in "bad" and ends the behaviour, for what the   *)
(* kernel does next is undefined.                                          *)
(***************************************************************************)
EXTENDS Naturals, Sequences, SequencesExt

CONSTANTS MaxReqs,     \* bound: requests ever allocated; then kmalloc fails
          Preemptible, \* may the kernel preempt the teardown thread
          Aborts       \* may the controller abort requests by itself

ASSUME ConstantsAssumption ==
    /\ MaxReqs \in Nat \ {0}
    /\ Preemptible \in BOOLEAN /\ Aborts \in BOOLEAN

VARIABLES
    dir,     \* direction of the endpoint
    beside,  \* does the com worker run beside the teardown thread (the worker
             \* of ep0 tears down on SET_INTERFACE), or is it the teardown
             \* thread (management, CTRL replies)
    listed,  \* is the endpoint in gadget_state.eplist
    enabled, \* is the hardware endpoint enabled
    desc,    \* is ep->desc allocated
    ep,      \* is the gadget_endpoint_t allocated
    reqlist, \* ep->reqlist: the requests not freed; a new one is put in front, so
             \* that the list is this set, newest first
    udc,     \* requests queued on the controller, oldest first
    work,    \* requests in ep->wq, oldest first
    used,    \* number of requests allocated so far; they are 1..used
    t, cur, nxt, \* teardown thread: position, cursors req and tmp of its loop
    w, wreq, wnew, \* worker: position, its request, the one it submits
    c, cnew, \* com worker: position, the request it submits
    bad      \* the first use of freed memory: "none", "cursor", "desc", "ep",
             \* "double" (a request freed twice)

memory  == <<dir, beside, listed, enabled, desc, ep>>
lists   == <<reqlist, udc, work, used>>
thread  == <<t, cur, nxt>>
worker  == <<w, wreq, wnew>>
com     == <<c, cnew>>
vars    == <<memory, lists, thread, worker, com, bad>>

None == 0  \* no request; as a cursor, the head of the list
Requests == 1..MaxReqs

TypeOK ==
    /\ dir \in {"IN", "OUT"}
    /\ {beside, listed, enabled, desc, ep} \subseteq BOOLEAN
    /\ reqlist \subseteq Requests
    /\ {udc, work} \subseteq Seq(Requests)
    /\ used \in 0..MaxReqs
    /\ t \in {"start", "unlinked", "dequeue", "advance", "disable", "free_desc",
              "flush", "free_ep", "done"}
    /\ w \in {"idle", "fill", "queue", "release"}
    /\ c \in {"idle", "found", "queue"}
    /\ {cur, nxt, wreq, wnew, cnew} \subseteq Requests \cup {None}
    /\ bad \in {"none", "cursor", "desc", "ep", "double"}

\* An endpoint that has just been enabled: an OUT one listens.
Init ==
    /\ dir \in {"IN", "OUT"}
    /\ beside \in BOOLEAN
    /\ listed = TRUE /\ enabled = TRUE /\ desc = TRUE /\ ep = TRUE
    /\ used = IF dir = "OUT" THEN 1 ELSE 0
    /\ reqlist = 1..used
    /\ udc = IF dir = "OUT" THEN <<1>> ELSE <<>>
    /\ work = <<>>
    /\ t = "start" /\ w = "idle" /\ c = "idle"
    /\ cur = None /\ nxt = None /\ wreq = None /\ wnew = None /\ cnew = None
    /\ bad = "none"

-----------------------------------------------------------------------------
(* Helpers *)

\* the first request of ep->reqlist, and the one after r
First    == Max(reqlist \cup {None})
After(r) == Max({q \in reqlist : q < r} \cup {None})

\* the worker and the com worker run when the teardown thread lets them
MayRun == Preemptible \/ t \in {"start", "flush", "done"}

\* alloc_gadget_request: the new request is in front of the list
Alloc ==
    /\ used < MaxReqs
    /\ used' = used + 1
    /\ reqlist' = reqlist \cup {used'}

\* Mutant: a request that cannot be queued is not freed.
Queue_Leaks(r) ==
    \/ /\ enabled
       /\ udc' = Append(udc, r)
       /\ UNCHANGED reqlist
    \/ UNCHANGED <<udc, reqlist>>

\* endpoint_queue of request r; on failure the caller frees it
Queue(r) ==
    \/ /\ enabled
       /\ udc' = Append(udc, r)
       /\ UNCHANGED reqlist
    \/ /\ reqlist' = reqlist \ {r}
       /\ UNCHANGED udc

-----------------------------------------------------------------------------
(* The teardown thread: free_gadget_endpoint, then free_endpoint *)

Unlink ==
    /\ t = "start"
    /\ beside \/ c = "idle"
    /\ listed' = FALSE
    /\ t' = "unlinked"
    /\ UNCHANGED <<dir, beside, enabled, desc, ep, lists, cur, nxt, worker, com, bad>>

\* list_for_each_entry_safe: req is the first request, tmp the next one
FirstRequest ==
    /\ t = "unlinked"
    /\ IF reqlist = {}
       THEN t' = "disable" /\ UNCHANGED <<cur, nxt>>
       ELSE t' = "dequeue" /\ cur' = First /\ nxt' = After(First)
    /\ UNCHANGED <<memory, lists, worker, com, bad>>

\* usb_ep_dequeue: a queued request is completed and thereby freed; another one
\* is left alone
Dequeue ==
    /\ t = "dequeue"
    /\ IF cur \in reqlist
       THEN /\ t' = "advance"
            /\ \/ \E i \in DOMAIN udc : /\ udc[i] = cur
                                        /\ udc' = RemoveAt(udc, i)
                                        /\ reqlist' = reqlist \ {cur}
               \/ cur \notin Range(udc) /\ UNCHANGED <<reqlist, udc>>
            /\ UNCHANGED bad
       ELSE bad' = "cursor" /\ UNCHANGED <<t, reqlist, udc>>
    /\ UNCHANGED <<memory, work, used, cur, nxt, worker, com>>

\* req = tmp, tmp = tmp->next
Advance ==
    /\ t = "advance"
    /\ IF nxt = None
       THEN t' = "disable" /\ UNCHANGED <<cur, nxt, bad>>
       ELSE IF nxt \in reqlist
       THEN t' = "dequeue" /\ cur' = nxt /\ nxt' = After(nxt) /\ UNCHANGED bad
       ELSE bad' = "cursor" /\ UNCHANGED thread
    /\ UNCHANGED <<memory, lists, worker, com>>

\* Mutant: the requests still queued are not given back.
Disable_KeepsRequests ==
    /\ t = "disable"
    /\ t' = "free_desc"
    /\ enabled' = FALSE
    /\ UNCHANGED <<dir, beside, listed, desc, ep, lists, cur, nxt, worker, com, bad>>

\* usb_ep_disable: what is still queued completes with an error, so is freed
Disable ==
    /\ t = "disable"
    /\ t' = "free_desc"
    /\ enabled' = FALSE
    /\ reqlist' = reqlist \ Range(udc)
    /\ udc' = <<>>
    /\ UNCHANGED <<dir, beside, listed, desc, ep, work, used, cur, nxt, worker, com, bad>>

\* free_endpoint frees the descriptor first,
FreeDesc ==
    /\ t = "free_desc"
    /\ t' = "flush"
    /\ desc' = FALSE
    /\ UNCHANGED <<dir, beside, listed, enabled, ep, lists, cur, nxt, worker, com, bad>>

\* Mutant: the workqueue is not flushed.
Flush_LeftOut ==
    /\ t = "flush"
    /\ t' = "free_ep"
    /\ UNCHANGED <<memory, lists, cur, nxt, worker, com, bad>>

\* then waits for the workqueue,
Flush ==
    /\ t = "flush"
    /\ work = <<>> /\ w = "idle"
    /\ t' = "free_ep"
    /\ UNCHANGED <<memory, lists, cur, nxt, worker, com, bad>>

\* and its caller frees the endpoint.
FreeEp ==
    /\ t = "free_ep"
    /\ t' = "done"
    /\ ep' = FALSE
    /\ UNCHANGED <<dir, beside, listed, enabled, desc, lists, cur, nxt, worker, com, bad>>

TeardownThread ==
    \/ Unlink \/ FirstRequest \/ Dequeue \/ Advance \/ Disable \/ FreeDesc
    \/ Flush \/ FreeEp

-----------------------------------------------------------------------------
(* The interrupt of the controller: gadget_recv_usb *)

\* a request completes: its work item is queued
Complete ==
    /\ udc # <<>>
    /\ udc' = Tail(udc)
    /\ work' = Append(work, Head(udc))
    /\ UNCHANGED <<memory, reqlist, used, thread, worker, com, bad>>

\* the controller drops every request, as some do when the host goes away: each
\* completes with an error and is freed
Abort ==
    /\ Aborts
    /\ udc # <<>>
    /\ udc' = <<>>
    /\ reqlist' = reqlist \ Range(udc)
    /\ UNCHANGED <<memory, work, used, thread, worker, com, bad>>

-----------------------------------------------------------------------------
(* The worker of ep->wq: recv *)

\* ep_gadget_recv_usb sends to userland; an OUT endpoint then listens again,
\* unless the send failed
Work ==
    /\ w = "idle" /\ work # <<>> /\ MayRun
    /\ wreq' = Head(work)
    /\ work' = Tail(work)
    /\ \/ dir = "OUT" /\ w' = "fill"
       \/ w' = "release"
    /\ UNCHANGED <<memory, reqlist, udc, used, thread, wnew, com, bad>>

\* Mutant: the result of ep_fill_request is not checked.
WorkFill_Unchecked ==
    /\ w = "fill" /\ MayRun
    /\ IF desc
       THEN /\ \/ Alloc /\ wnew' = used'
               \/ wnew' = None /\ UNCHANGED <<reqlist, used>>
            /\ w' = "queue" /\ UNCHANGED bad
       ELSE bad' = "desc" /\ UNCHANGED <<reqlist, used, w, wnew>>
    /\ UNCHANGED <<memory, udc, work, thread, wreq, com>>

\* ep_fill_request reads ep->desc and allocates
WorkFill ==
    /\ w = "fill" /\ MayRun
    /\ IF desc
       THEN /\ \/ Alloc /\ w' = "queue" /\ wnew' = used'
               \/ w' = "release" /\ UNCHANGED <<reqlist, used, wnew>>
            /\ UNCHANGED bad
       ELSE bad' = "desc" /\ UNCHANGED <<reqlist, used, w, wnew>>
    /\ UNCHANGED <<memory, udc, work, thread, wreq, com>>

\* Mutant: the worker tries until the endpoint takes the request.
WorkQueue_Retries ==
    /\ w = "queue" /\ MayRun
    /\ enabled
    /\ udc' = Append(udc, wnew)
    /\ w' = "release"
    /\ UNCHANGED <<memory, reqlist, work, used, thread, wreq, wnew, com, bad>>

WorkQueue ==
    /\ w = "queue" /\ MayRun
    /\ Queue(wnew)
    /\ w' = "release"
    /\ UNCHANGED <<memory, work, used, thread, wreq, wnew, com, bad>>

\* ops->free_request; it reads the endpoint
WorkRelease ==
    /\ w = "release" /\ MayRun
    /\ w' = "idle"
    /\ reqlist' = reqlist \ {wreq}
    /\ bad' = IF ~ep THEN "ep" ELSE IF wreq \notin reqlist THEN "double" ELSE bad
    /\ UNCHANGED <<memory, udc, work, used, thread, wreq, wnew, com>>

Worker == Work \/ WorkFill \/ WorkQueue \/ WorkRelease

-----------------------------------------------------------------------------
(* The com worker: gadget_recv_userland_usb, DATA for an IN endpoint *)

ComFind ==
    /\ c = "idle" /\ dir = "IN" /\ listed /\ MayRun
    /\ used < MaxReqs
    /\ c' = "found"
    /\ UNCHANGED <<memory, lists, thread, worker, cnew, bad>>

ComFill ==
    /\ c = "found" /\ MayRun
    /\ IF ep
       THEN /\ \/ Alloc /\ c' = "queue" /\ cnew' = used'
               \/ c' = "idle" /\ UNCHANGED <<reqlist, used, cnew>>
            /\ UNCHANGED bad
       ELSE bad' = "ep" /\ UNCHANGED <<reqlist, used, com>>
    /\ UNCHANGED <<memory, udc, work, thread, worker>>

ComQueue ==
    /\ c = "queue" /\ MayRun
    /\ IF ep
       THEN Queue(cnew) /\ c' = "idle" /\ UNCHANGED bad
       ELSE bad' = "ep" /\ UNCHANGED <<reqlist, udc, c>>
    /\ UNCHANGED <<memory, work, used, thread, worker, cnew>>

ComWorker == ComFind \/ ComFill \/ ComQueue

-----------------------------------------------------------------------------
Next ==
    /\ bad = "none"
    /\ TeardownThread \/ Complete \/ Abort \/ Worker \/ ComWorker

Spec == Init /\ [][Next]_vars

(* The scheduler runs every thread that can run. *)
Fairness ==
    /\ WF_vars(bad = "none" /\ TeardownThread)
    /\ WF_vars(bad = "none" /\ Worker)
    /\ WF_vars(bad = "none" /\ ComWorker)

FairSpec == Spec /\ Fairness

-----------------------------------------------------------------------------
(* Properties *)

\* The purpose of dequeuing, disabling and flushing before kfree(ep): when the
\* endpoint is freed no request of it exists anywhere, but one that a com
\* worker running beside the teardown is about to queue.
RequestsDieFirst ==
    ~ep /\ ~beside => reqlist = {} /\ udc = <<>> /\ work = <<>> /\ w = "idle"

\* No request is leaked, freed twice or freed behind the back of its owner: the
\* controller, the workqueue and the threads hold the requests that exist, each
\* request is held once.
Held == udc \o work \o (IF w = "idle" THEN <<>> ELSE <<wreq>>)
            \o (IF w = "queue" THEN <<wnew>> ELSE <<>>)
            \o (IF c = "queue" THEN <<cnew>> ELSE <<>>)
OneOwner ==
    /\ Range(Held) = reqlist /\ IsInjective(Held)
    /\ bad # "double"

\* The endpoint is freed after its last use: only a com worker that runs beside
\* the teardown uses it longer.
EpAlive == bad = "ep" => beside

\* free_gadget_endpoint ends: nothing it waits for waits for it.
TeardownEnds == t # "start" ~> (t = "done" \/ bad # "none")

\* "Safe has to be used, because usb_ep_dequeue will call completion handler /
\* That will delete request from list" (gadget.c:246-247): with the safe
\* iteration the loop never holds a request that was freed.
CursorAlive == bad # "cursor"

\* "So a race can occcur, and ep could be freed" (gadget.c:500-502) is why the
\* completion frees a failed request itself.  A request that succeeded is left to
\* the workqueue, and free_endpoint (common.c:86-94) flushes it for the same
\* reason: its worker must never read what the teardown has freed.
DescAlive == bad # "desc"
=============================================================================
