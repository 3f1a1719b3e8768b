---------------------------- MODULE DriverTeardown ----------------------------
(***************************************************************************)
(* free_driver_endpoint (driver.c:249-266) while everything else goes on:  *)
(* the teardown thread against the worker of the endpoint's workqueue, the *)
(* host controller and the com worker.  Compared with GadgetTeardown, an   *)
(* URB that fails or is killed is not freed by its completion but by the   *)
(* worker, and nothing stops the endpoint from taking new URBs.            *)
(*                                                                         *)
(* A step that touches freed memory records it in "bad" and ends the       *)
(* behaviour, for what the kernel does next is undefined.                  *)
(***************************************************************************)
EXTENDS Naturals, Sequences, SequencesExt

CONSTANT MaxReqs \* bound: requests ever allocated; then kmalloc fails

ASSUME MaxReqsAssumption == MaxReqs \in Nat \ {0}

VARIABLES
    kind,    \* the endpoint: "bulk_in", "int_in" or "out" (bulk)
    beside,  \* does the com worker run beside the teardown thread (the worker
             \* of ep0 and the USB core tear down), or is it the teardown
             \* thread (SET_INTERFACE, management)
    listed,  \* is the endpoint in driver_state.eplist
    desc,    \* is ep->desc allocated
    ep,      \* is the driver_endpoint_t allocated
    reqlist, \* ep->reqlist: the requests not freed; a new one is put in front, so
             \* that the list is this set, newest first
    urbs,    \* requests whose URB is submitted, oldest first
    work,    \* requests in ep->wq with the status of their URB, oldest first
    used,    \* number of requests allocated so far; they are 1..used
    t, cur, nxt, \* teardown thread: position, cursors req and tmp of its loop
    w, wreq, wnew, \* worker: position, its request, the one it submits
    c, cnew, \* com worker: position, the request it submits
    late,    \* history: an URB was submitted after the endpoint was unlinked
    bad      \* the first use of freed memory: "none", "cursor", "desc", "ep",
             \* "double" (a request freed twice)

memory  == <<kind, beside, listed, desc, ep>>
lists   == <<reqlist, urbs, work, used, late>>
thread  == <<t, cur, nxt>>
worker  == <<w, wreq, wnew>>
com     == <<c, cnew>>
vars    == <<memory, lists, thread, worker, com, bad>>

None == 0  \* no request; as a cursor, the head of the list
Requests == 1..MaxReqs
Item(r, status) == [req |-> r, status |-> status]
Items == [req : Requests, status : {"ok", "EPIPE", "error"}]

TypeOK ==
    /\ kind \in {"bulk_in", "int_in", "out"}
    /\ {beside, listed, desc, ep, late} \subseteq BOOLEAN
    /\ reqlist \subseteq Requests
    /\ urbs \in Seq(Requests)
    /\ work \in Seq(Items)
    /\ used \in 0..MaxReqs
    /\ t \in {"start", "unlinked", "kill", "advance", "free_desc", "flush",
              "free_ep", "done"}
    /\ w \in {"idle", "fill", "submit", "release"}
    /\ c \in {"idle", "found", "submit"}
    /\ {cur, nxt, wreq, wnew, cnew} \subseteq Requests \cup {None}
    /\ bad \in {"none", "cursor", "desc", "ep", "double"}

\* An endpoint that has just been enabled: an IN one is polled.
Init ==
    /\ kind \in {"bulk_in", "int_in", "out"}
    /\ beside \in BOOLEAN
    /\ listed = TRUE /\ desc = TRUE /\ ep = TRUE
    /\ used = IF kind = "out" THEN 0 ELSE 1
    /\ reqlist = 1..used
    /\ urbs = IF kind = "out" THEN <<>> ELSE <<1>>
    /\ work = <<>>
    /\ t = "start" /\ w = "idle" /\ c = "idle"
    /\ cur = None /\ nxt = None /\ wreq = None /\ wnew = None /\ cnew = None
    /\ late = FALSE
    /\ bad = "none"

-----------------------------------------------------------------------------
(* Helpers *)

\* the first request of ep->reqlist, and the one after r
First    == Max(reqlist \cup {None})
After(r) == Max({q \in reqlist : q < r} \cup {None})

\* alloc_driver_request: the new request is in front of the list
Alloc ==
    /\ used < MaxReqs
    /\ used' = used + 1
    /\ reqlist' = reqlist \cup {used'}

\* Mutant: a request whose URB is not submitted is not freed.
Submit_Leaks(r) ==
    \/ urbs' = Append(urbs, r) /\ late' = (late \/ ~listed) /\ UNCHANGED reqlist
    \/ UNCHANGED <<urbs, reqlist, late>>

\* urb_submit of request r; on failure the caller frees it
Submit(r) ==
    \/ urbs' = Append(urbs, r) /\ late' = (late \/ ~listed) /\ UNCHANGED reqlist
    \/ reqlist' = reqlist \ {r} /\ UNCHANGED <<urbs, late>>

-----------------------------------------------------------------------------
(* The teardown thread: free_driver_endpoint, then free_endpoint *)

Unlink ==
    /\ t = "start"
    /\ beside \/ c = "idle"
    /\ listed' = FALSE
    /\ t' = "unlinked"
    /\ UNCHANGED <<kind, beside, desc, ep, lists, cur, nxt, worker, com, bad>>

\* list_for_each_entry_safe: req is the first request, tmp the next one
FirstRequest ==
    /\ t = "unlinked"
    /\ IF reqlist = {}
       THEN t' = "free_desc" /\ UNCHANGED <<cur, nxt>>
       ELSE t' = "kill" /\ cur' = First /\ nxt' = After(First)
    /\ UNCHANGED <<memory, lists, worker, com, bad>>

\* Mutant: the URBs are left to complete by themselves.
Kill_Leaves ==
    /\ t = "kill"
    /\ t' = IF cur \in reqlist THEN "advance" ELSE t
    /\ bad' = IF cur \in reqlist THEN bad ELSE "cursor"
    /\ UNCHANGED <<memory, lists, cur, nxt, worker, com>>

\* cancel_driver_request: usb_kill_urb returns when the completion has queued
\* the request on the workqueue; one that is not submitted is left alone
Kill ==
    /\ t = "kill"
    /\ IF cur \in reqlist
       THEN /\ t' = "advance"
            /\ \/ \E i \in DOMAIN urbs : /\ urbs[i] = cur
                                         /\ urbs' = RemoveAt(urbs, i)
                                         /\ work' = Append(work, Item(cur, "error"))
               \/ cur \notin Range(urbs) /\ UNCHANGED <<urbs, work>>
            /\ UNCHANGED bad
       ELSE bad' = "cursor" /\ UNCHANGED <<t, urbs, work>>
    /\ UNCHANGED <<memory, reqlist, used, late, cur, nxt, worker, com>>

\* req = tmp, tmp = tmp->next
Advance ==
    /\ t = "advance"
    /\ IF nxt = None
       THEN t' = "free_desc" /\ UNCHANGED <<cur, nxt, bad>>
       ELSE IF nxt \in reqlist
       THEN t' = "kill" /\ cur' = nxt /\ nxt' = After(nxt) /\ UNCHANGED bad
       ELSE bad' = "cursor" /\ UNCHANGED thread
    /\ UNCHANGED <<memory, lists, worker, com>>

\* free_endpoint frees the descriptor first,
FreeDesc ==
    /\ t = "free_desc"
    /\ t' = "flush"
    /\ desc' = FALSE
    /\ UNCHANGED <<kind, beside, listed, ep, lists, cur, nxt, worker, com, bad>>

\* Mutant: the workqueue is not flushed.
Flush_LeftOut ==
    /\ t = "flush"
    /\ t' = "free_ep"
    /\ UNCHANGED <<memory, lists, cur, nxt, worker, com, bad>>

\* Mutant: the flush waits until the request list is empty.
Flush_ForRequests ==
    /\ t = "flush"
    /\ reqlist = {}
    /\ t' = "free_ep"
    /\ UNCHANGED <<memory, lists, cur, nxt, worker, com, bad>>

\* then waits for the workqueue,
Flush ==
    /\ t = "flush"
    /\ work = <<>> /\ w = "idle"
    /\ t' = "free_ep"
    /\ UNCHANGED <<memory, lists, cur, nxt, worker, com, bad>>

\* and its caller frees the endpoint.
FreeEp ==
    /\ t = "free_ep"
    /\ t' = "done"
    /\ ep' = FALSE
    /\ UNCHANGED <<kind, beside, listed, desc, lists, cur, nxt, worker, com, bad>>

TeardownThread ==
    Unlink \/ FirstRequest \/ Kill \/ Advance \/ FreeDesc \/ Flush \/ FreeEp

-----------------------------------------------------------------------------
(* The host controller: driver_recv_usb *)

\* an URB completes, whatever its status: its work item is queued on the
\* workqueue of the endpoint
Complete(status) ==
    /\ urbs # <<>>
    /\ IF ep
       THEN /\ urbs' = Tail(urbs)
            /\ work' = Append(work, Item(Head(urbs), status))
            /\ UNCHANGED bad
       ELSE bad' = "ep" /\ UNCHANGED <<urbs, work>>
    /\ UNCHANGED <<memory, reqlist, used, late, thread, worker, com>>

-----------------------------------------------------------------------------
(* The worker of ep->wq: recv *)

\* an IN endpoint that stalled is polled again; otherwise data is sent to
\* userland, an error ignored
Work ==
    /\ w = "idle" /\ work # <<>>
    /\ wreq' = Head(work).req
    /\ work' = Tail(work)
    /\ w' = IF Head(work).status = "EPIPE" /\ kind # "out" THEN "fill" ELSE "release"
    /\ UNCHANGED <<memory, reqlist, urbs, used, late, thread, wnew, com, bad>>

\* Mutant: the result of the allocation is not checked.
WorkFill_Unchecked ==
    /\ w = "fill"
    /\ IF kind = "int_in" /\ ~desc
       THEN bad' = "desc" /\ UNCHANGED <<reqlist, used, w, wnew>>
       ELSE /\ \/ Alloc /\ wnew' = used'
               \/ wnew' = None /\ UNCHANGED <<reqlist, used>>
            /\ w' = "submit" /\ UNCHANGED bad
    /\ UNCHANGED <<memory, urbs, work, late, thread, wreq, com>>

\* send_usb(ep, NULL): the request of an interrupt endpoint is filled from
\* ep->desc
WorkFill ==
    /\ w = "fill"
    /\ IF kind = "int_in" /\ ~desc
       THEN bad' = "desc" /\ UNCHANGED <<reqlist, used, w, wnew>>
       ELSE /\ \/ Alloc /\ w' = "submit" /\ wnew' = used'
               \/ w' = "release" /\ UNCHANGED <<reqlist, used, wnew>>
            /\ UNCHANGED bad
    /\ UNCHANGED <<memory, urbs, work, late, thread, wreq, com>>

WorkSubmit ==
    /\ w = "submit"
    /\ Submit(wnew)
    /\ w' = "release"
    /\ UNCHANGED <<memory, work, used, thread, wreq, wnew, com, bad>>

\* ops->free_request; it reads the endpoint
WorkRelease ==
    /\ w = "release"
    /\ w' = "idle"
    /\ reqlist' = reqlist \ {wreq}
    /\ bad' = IF ~ep THEN "ep" ELSE IF wreq \notin reqlist THEN "double" ELSE bad
    /\ UNCHANGED <<memory, urbs, work, used, late, thread, wreq, wnew, com>>

Worker == Work \/ WorkFill \/ WorkSubmit \/ WorkRelease

-----------------------------------------------------------------------------
(* The com worker: driver_recv_userland_usb, an ACK for an IN endpoint or *)
(* DATA for an OUT one *)

ComFind ==
    /\ c = "idle" /\ listed
    /\ used < MaxReqs
    /\ c' = "found"
    /\ UNCHANGED <<memory, lists, thread, worker, cnew, bad>>

ComFill ==
    /\ c = "found"
    /\ IF ~ep \/ (kind = "int_in" /\ ~desc)
       THEN /\ bad' = IF ~ep THEN "ep" ELSE "desc"
            /\ UNCHANGED <<reqlist, used, com>>
       ELSE /\ \/ Alloc /\ c' = "submit" /\ cnew' = used'
               \/ c' = "idle" /\ UNCHANGED <<reqlist, used, cnew>>
            /\ UNCHANGED bad
    /\ UNCHANGED <<memory, urbs, work, late, thread, worker>>

ComSubmit ==
    /\ c = "submit"
    /\ IF ep
       THEN Submit(cnew) /\ c' = "idle" /\ UNCHANGED bad
       ELSE bad' = "ep" /\ UNCHANGED <<reqlist, urbs, late, c>>
    /\ UNCHANGED <<memory, work, used, thread, worker, cnew>>

ComWorker == ComFind \/ ComFill \/ ComSubmit

-----------------------------------------------------------------------------
Next ==
    /\ bad = "none"
    /\ \/ TeardownThread \/ Worker \/ ComWorker
       \/ \E status \in {"ok", "EPIPE", "error"} : Complete(status)

Spec == Init /\ [][Next]_vars

(* The scheduler runs every thread that can run. *)
Fairness ==
    /\ WF_vars(bad = "none" /\ TeardownThread)
    /\ WF_vars(bad = "none" /\ Worker)
    /\ WF_vars(bad = "none" /\ ComWorker)

FairSpec == Spec /\ Fairness

-----------------------------------------------------------------------------
(* Properties *)

NoRequests == reqlist = {} /\ urbs = <<>> /\ work = <<>> /\ w = "idle"

\* "Cancel all requests, will be freed inside completion handler" (driver.c:258):
\* killing every URB and flushing the workqueue leaves no request behind when the
\* endpoint is freed, but one that was submitted after the endpoint was unlinked
\* (driver.c:532), or that the com worker is about to submit.
OnlyLateOnesSurvive == ~ep /\ ~late /\ ~beside => NoRequests

\* No request is leaked, freed twice or freed behind the back of its owner: the
\* controller, the workqueue and the threads hold the requests that exist, each
\* request is held once.
Queued == [i \in DOMAIN work |-> work[i].req]
Held == urbs \o Queued \o (IF w = "idle" THEN <<>> ELSE <<wreq>>)
             \o (IF w = "submit" THEN <<wnew>> ELSE <<>>)
             \o (IF c = "submit" THEN <<cnew>> ELSE <<>>)
OneOwner ==
    /\ Range(Held) = reqlist /\ IsInjective(Held)
    /\ bad # "double"

\* The endpoint is freed after its last use: only a late submission and a com
\* worker that runs beside the teardown use it longer.
EpAlive == bad = "ep" => late \/ beside

\* free_driver_endpoint ends: nothing it waits for waits for it.
TeardownEnds == t # "start" ~> (t = "done" \/ bad # "none")
=============================================================================
