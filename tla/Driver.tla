------------------------------- MODULE Driver -------------------------------
(***************************************************************************)
(* The driver half (driver.c) on its bulk and interrupt endpoints; the     *)
(* isochronous ones are not supported (README:5).  It polls each IN        *)
(* endpoint of the real device with one URB, sends what it reads to        *)
(* userland, and polls again only when the ACK for it comes back from the  *)
(* gadget; it writes OUT data to the device as it comes.  The device is    *)
(* the environment.                                                        *)
(*                                                                         *)
(* An action is a whole callback: an URB completion, a work item of the    *)
(* endpoint's workqueue, a message handled by the com worker, or a step of *)
(* the thread that enables and frees endpoints.  The interleavings inside  *)
(* free_driver_endpoint are the subject of DriverTeardown.                 *)
(*                                                                         *)
(* A work item that only frees its request (an URB killed or failed, OUT   *)
(* data written) changes nothing else and is left out.                     *)
(***************************************************************************)
EXTENDS Userland

CONSTANTS MaxData,     \* bound: payloads per endpoint
          MaxEnables   \* bound: times an endpoint is enabled, on each half

ASSUME BoundAssumption == MaxData \in Nat /\ MaxEnables \in Nat

Eps == InEps \cup OutEps

VARIABLES
    dEp,       \* state of the driver_endpoint_t of each endpoint:
               \*   "absent"  none
               \*   "added"   in eplist, its first IN URB not yet submitted
               \*   "present" in eplist
               \*   "dying"   free_driver_endpoint waits in flush_workqueue
    enables,   \* [Eps -> Nat] times the driver has added the endpoint
    poll,      \* [InEps -> Nat] IN URBs submitted to the device
    dWork,     \* [InEps -> Seq(Nat)] IN data in the endpoint's workqueue
    again,     \* [InEps -> Nat] work items that will only resubmit
    taken,     \* [InEps -> Nat] payloads the device has handed over
    outUrb,    \* [OutEps -> Seq(Nat)] OUT URBs submitted to the device
    accepted   \* [OutEps -> Seq(Nat)] payloads the device has received

driverVars == <<dEp, enables, poll, dWork, again, taken, outUrb, accepted>>

DriverTypeOK ==
    /\ dEp \in [Eps -> {"absent", "added", "present", "dying"}]
    /\ enables \in [Eps -> Nat]
    /\ poll \in [InEps -> Nat]
    /\ dWork \in [InEps -> Seq(Nat)]
    /\ again \in [InEps -> Nat]
    /\ taken \in [InEps -> Nat]
    /\ outUrb \in [OutEps -> Seq(Nat)]
    /\ accepted \in [OutEps -> Seq(Nat)]

DriverInit ==
    /\ dEp = [e \in Eps |-> "absent"]
    /\ enables = [e \in Eps |-> 0]
    /\ poll = [e \in InEps |-> 0]
    /\ dWork = [e \in InEps |-> <<>>]
    /\ again = [e \in InEps |-> 0]
    /\ taken = [e \in InEps |-> 0]
    /\ outUrb = [e \in OutEps |-> <<>>]
    /\ accepted = [e \in OutEps |-> <<>>]

-----------------------------------------------------------------------------
(* Helpers *)

\* find_driver_endpoint finds the endpoint
Listed(e) == dEp[e] \in {"added", "present"}

\* send_usb(ep, NULL): submit an IN URB, or free the request
Poll(e) ==
    \/ poll' = [poll EXCEPT ![e] = @ + 1]
    \/ Fault("submit") /\ UNCHANGED poll

\* send_usb(ep, msg): submit an OUT URB, or free the request
Write(e, d) ==
    \/ outUrb' = [outUrb EXCEPT ![e] = Append(@, d)]
    \/ Fault("submit") /\ UNCHANGED outUrb

-----------------------------------------------------------------------------
(* The thread that configures the device *)

\* enable_driver_interface, first half of an iteration: the endpoint is
\* allocated and linked; messages can find it from here on.
AddEndpoint(e) ==
    /\ dEp[e] = "absent"
    /\ enables[e] < MaxEnables
    /\ dEp' = [dEp EXCEPT ![e] = IF e \in InEps THEN "added" ELSE "present"]
    /\ enables' = [enables EXCEPT ![e] = @ + 1]
    /\ UNCHANGED <<poll, dWork, again, taken, outUrb, accepted, userlandVars>>

\* ... and second half: the first URB of an IN endpoint.  When it cannot be
\* submitted the endpoint stays in eplist.
FirstPoll(e) ==
    /\ dEp[e] = "added"
    /\ dEp' = [dEp EXCEPT ![e] = "present"]
    /\ Poll(e)
    /\ UNCHANGED <<enables, dWork, again, taken, outUrb, accepted, userlandVars>>

\* free_driver_endpoint up to the flush: out of eplist, every URB killed.
UnlinkEndpoint(e) ==
    /\ dEp[e] = "present"
    /\ dEp' = [dEp EXCEPT ![e] = "dying"]
    /\ IF e \in InEps THEN poll' = [poll EXCEPT ![e] = 0] /\ UNCHANGED outUrb
                      ELSE outUrb' = [outUrb EXCEPT ![e] = <<>>] /\ UNCHANGED poll
    /\ UNCHANGED <<enables, dWork, again, taken, accepted, userlandVars>>

\* free_endpoint: the workqueue is drained, the endpoint freed.  An URB that a
\* stall resubmitted during the flush is orphaned with it: what its completion
\* does to the freed endpoint is the subject of DriverTeardown.
FreeEndpoint(e) ==
    /\ dEp[e] = "dying"
    /\ e \in InEps => dWork[e] = <<>> /\ again[e] = 0
    /\ dEp' = [dEp EXCEPT ![e] = "absent"]
    /\ poll' = IF e \in InEps THEN [poll EXCEPT ![e] = 0] ELSE poll
    /\ UNCHANGED <<enables, dWork, again, taken, outUrb, accepted, userlandVars>>

-----------------------------------------------------------------------------
(* URB completions: driver_recv_usb queues the request on the workqueue *)

\* Mutant: a completion is taken for data whether or not an URB was submitted.
CompleteIn_Unasked(e) ==
    /\ taken[e] < MaxData
    /\ poll' = [poll EXCEPT ![e] = @ - 1]
    /\ taken' = [taken EXCEPT ![e] = @ + 1]
    /\ dWork' = [dWork EXCEPT ![e] = Append(@, taken'[e])]
    /\ UNCHANGED <<dEp, enables, again, outUrb, accepted, userlandVars>>

\* the device answers a poll with its next payload
CompleteIn(e) ==
    /\ poll[e] > 0
    /\ taken[e] < MaxData
    /\ poll' = [poll EXCEPT ![e] = @ - 1]
    /\ taken' = [taken EXCEPT ![e] = @ + 1]
    /\ dWork' = [dWork EXCEPT ![e] = Append(@, taken'[e])]
    /\ UNCHANGED <<dEp, enables, again, outUrb, accepted, userlandVars>>

\* the device stalls the endpoint: -EPIPE
CompleteStall(e) ==
    /\ poll[e] > 0
    /\ Fault("stall")
    /\ poll' = [poll EXCEPT ![e] = @ - 1]
    /\ again' = [again EXCEPT ![e] = @ + 1]
    /\ UNCHANGED <<dEp, enables, dWork, taken, outUrb, accepted, userlandVars>>

\* any other status: the worker only frees the request
CompleteError(e) ==
    /\ Fault("urb_error")
    /\ \/ /\ e \in InEps
          /\ poll[e] > 0
          /\ poll' = [poll EXCEPT ![e] = @ - 1]
          /\ UNCHANGED outUrb
       \/ /\ e \in OutEps
          /\ outUrb[e] # <<>>
          /\ outUrb' = [outUrb EXCEPT ![e] = Tail(@)]
          /\ UNCHANGED poll
    /\ UNCHANGED <<dEp, enables, dWork, again, taken, accepted, userlandVars>>

\* the device takes the oldest OUT URB
CompleteOut(e) ==
    /\ outUrb[e] # <<>>
    /\ outUrb' = [outUrb EXCEPT ![e] = Tail(@)]
    /\ accepted' = [accepted EXCEPT ![e] = Append(@, Head(outUrb[e]))]
    /\ UNCHANGED <<dEp, enables, poll, dWork, again, taken, userlandVars>>

-----------------------------------------------------------------------------
(* recv, the work item of the endpoint's workqueue *)

\* Mutant: the endpoint is polled again at once, without waiting for the ACK.
WorkData_Polls(e) ==
    /\ dWork[e] # <<>>
    /\ dWork' = [dWork EXCEPT ![e] = Tail(@)]
    /\ SendData(e, Head(dWork[e]))
    /\ Poll(e)
    /\ UNCHANGED <<dEp, enables, again, taken, outUrb, accepted, acks, g2d>>

\* Mutant: when the send fails the endpoint is polled again.
WorkData_PollsOnFailure(e) ==
    /\ dWork[e] # <<>>
    /\ dWork' = [dWork EXCEPT ![e] = Tail(@)]
    /\ SendData(e, Head(dWork[e]))
    /\ IF d2g' = d2g THEN Poll(e) ELSE UNCHANGED poll
    /\ UNCHANGED <<dEp, enables, again, taken, outUrb, accepted, acks, g2d>>

\* Mutant: the request is freed without its data being sent.
WorkData_Frees(e) ==
    /\ dWork[e] # <<>>
    /\ dWork' = [dWork EXCEPT ![e] = Tail(@)]
    /\ UNCHANGED <<dEp, enables, poll, again, taken, outUrb, accepted, userlandVars>>

\* status 0 on IN: the data goes to userland, the endpoint is not polled again
WorkData(e) ==
    /\ dWork[e] # <<>>
    /\ dWork' = [dWork EXCEPT ![e] = Tail(@)]
    /\ SendData(e, Head(dWork[e]))
    /\ UNCHANGED <<dEp, enables, poll, again, taken, outUrb, accepted, acks, g2d>>

\* -EPIPE on IN: clear the halt and poll again
WorkAgain(e) ==
    /\ again[e] > 0
    /\ again' = [again EXCEPT ![e] = @ - 1]
    /\ Poll(e)
    /\ UNCHANGED <<dEp, enables, dWork, taken, outUrb, accepted, userlandVars>>

-----------------------------------------------------------------------------
(* driver_recv_userland, run by the com worker *)

\* an ACK polls its IN endpoint again; with no such endpoint it is dropped
RecvAck(e) ==
    /\ acks[e] > 0
    /\ acks' = [acks EXCEPT ![e] = @ - 1]
    /\ IF Listed(e) THEN Poll(e) ELSE UNCHANGED poll
    /\ UNCHANGED <<dEp, enables, dWork, again, taken, outUrb, accepted, d2g, g2d>>

\* Mutant: only an endpoint without a pending URB is written to.
RecvOut_Idle(e) ==
    /\ \E i \in DOMAIN g2d[e] :
          /\ Arrives(g2d[e], i)
          /\ g2d' = [g2d EXCEPT ![e] = RemoveAt(@, i)]
          /\ IF Listed(e) /\ outUrb[e] = <<>> THEN Write(e, g2d[e][i]) ELSE UNCHANGED outUrb
    /\ UNCHANGED <<dEp, enables, poll, dWork, again, taken, accepted, d2g, acks>>

\* DATA for an OUT endpoint is written; with no such endpoint it is dropped
RecvOut(e) ==
    /\ \E i \in DOMAIN g2d[e] :
          /\ Arrives(g2d[e], i)
          /\ g2d' = [g2d EXCEPT ![e] = RemoveAt(@, i)]
          /\ IF Listed(e) THEN Write(e, g2d[e][i]) ELSE UNCHANGED outUrb
    /\ UNCHANGED <<dEp, enables, poll, dWork, again, taken, accepted, d2g, acks>>
=============================================================================
