------------------------------- MODULE Gadget -------------------------------
(***************************************************************************)
(* The gadget half (gadget.c) on its non-control endpoints: IN data that   *)
(* comes from userland is queued for the host, and an ACK goes back when   *)
(* the host has read it; an OUT endpoint keeps one request listening, and  *)
(* what the host writes into it goes to userland.  The host and the USB    *)
(* device controller are the environment.                                  *)
(*                                                                         *)
(* An action is a whole callback, as in Driver.  The interleavings inside  *)
(* free_gadget_endpoint are the subject of GadgetTeardown.                 *)
(***************************************************************************)
EXTENDS Userland

CONSTANTS MaxSent,         \* bound: payloads the host writes per endpoint
          MaxGadgetEnables \* bound: times an endpoint is enabled

ASSUME GadgetBoundAssumption == MaxSent \in Nat /\ MaxGadgetEnables \in Nat

VARIABLES
    gEps,      \* [endpoint -> Seq(Nat)] its endpoint_t's in eplist, the newest
               \* first, each known by the enabling that created it
    dying,     \* [endpoint -> Nat] the one that waits in flush_workqueue, or 0
    powered,   \* [endpoint -> BOOLEAN] the hardware endpoint takes requests
    gEnables,  \* [endpoint -> Nat] times the gadget has enabled the endpoint
    inReq,     \* [InEps -> Seq(Nat)] IN requests queued for the host
    consumed,  \* [InEps -> Seq(Nat)] the endpoint_t of each completed IN request
               \* that waits in a workqueue
    read,      \* [InEps -> Seq(Nat)] payloads the host has read
    listen,    \* [OutEps -> Seq(Nat)] the endpoint_t of each OUT request queued
    gWork,     \* [OutEps -> Seq(Nat)] completed OUT requests in the workqueues
    sent       \* [OutEps -> Seq(Nat)] for each payload the host has written, the
               \* endpoint_t whose request took it

configVars == <<gEps, dying, powered, gEnables>>
gadgetVars == <<configVars, inReq, consumed, read, listen, gWork, sent>>

GadgetTypeOK ==
    /\ gEps \in [InEps \cup OutEps -> Seq(Nat)]
    /\ dying \in [InEps \cup OutEps -> Nat]
    /\ powered \in [InEps \cup OutEps -> BOOLEAN]
    /\ gEnables \in [InEps \cup OutEps -> Nat]
    /\ inReq \in [InEps -> Seq(Nat)]
    /\ consumed \in [InEps -> Seq(Nat)]
    /\ read \in [InEps -> Seq(Nat)]
    /\ listen \in [OutEps -> Seq(Nat)]
    /\ gWork \in [OutEps -> Seq(Nat)]
    /\ sent \in [OutEps -> Seq(Nat)]

GadgetInit ==
    /\ gEps = [e \in InEps \cup OutEps |-> <<>>]
    /\ dying = [e \in InEps \cup OutEps |-> 0]
    /\ powered = [e \in InEps \cup OutEps |-> FALSE]
    /\ gEnables = [e \in InEps \cup OutEps |-> 0]
    /\ inReq = [e \in InEps |-> <<>>]
    /\ consumed = [e \in InEps |-> <<>>]
    /\ read = [e \in InEps |-> <<>>]
    /\ listen = [e \in OutEps |-> <<>>]
    /\ gWork = [e \in OutEps |-> <<>>]
    /\ sent = [e \in OutEps |-> <<>>]

-----------------------------------------------------------------------------
(* The thread that configures the gadget; one at a time works on an endpoint *)

\* usb_ep_disable: every request queued at the hardware endpoint completes with
\* an error and is freed, whichever endpoint_t it belongs to; what listens
\* afterwards is queued.
Restart(e, queued) ==
    IF e \in InEps THEN inReq' = [inReq EXCEPT ![e] = <<>>] /\ UNCHANGED listen
                   ELSE listen' = [listen EXCEPT ![e] = queued] /\ UNCHANGED inReq

\* enable_interface, one iteration: a new endpoint_t over the hardware endpoint,
\* which is disabled and enabled again; an OUT endpoint starts to listen at once.
\* set_interface does not disable the setting that is already active, so an older
\* endpoint_t may still be there, with its workqueue.  A failure leaves none,
\* before the hardware endpoint was touched or after it was disabled.
EnableEndpoint(e) ==
    /\ gEps[e] = <<>> \/ Fault("reselect")
    /\ dying[e] = 0
    /\ gEnables[e] < MaxGadgetEnables
    /\ gEnables' = [gEnables EXCEPT ![e] = @ + 1]
    /\ \/ /\ gEps' = [gEps EXCEPT ![e] = <<gEnables[e] + 1>> \o @]
          /\ powered' = [powered EXCEPT ![e] = TRUE]
          /\ Restart(e, <<gEnables[e] + 1>>)
       \/ /\ Fault("submit")
          /\ powered' = [powered EXCEPT ![e] = FALSE]
          /\ Restart(e, <<>>)
          /\ UNCHANGED gEps
       \/ Fault("submit") /\ UNCHANGED <<gEps, powered, inReq, listen>>
    /\ UNCHANGED <<dying, consumed, read, gWork, sent, userlandVars>>

\* free_gadget_endpoint up to the flush, on the endpoint_t find_gadget_endpoint
\* meets first: out of eplist, every queued request dequeued (its completion
\* frees it), the hardware endpoint disabled.
DisableEndpoint(e) ==
    /\ gEps[e] # <<>>
    /\ dying[e] = 0
    /\ gEps' = [gEps EXCEPT ![e] = Tail(@)]
    /\ dying' = [dying EXCEPT ![e] = Head(gEps[e])]
    /\ powered' = [powered EXCEPT ![e] = FALSE]
    /\ Restart(e, <<>>)
    /\ UNCHANGED <<gEnables, consumed, read, gWork, sent, userlandVars>>

\* Mutant: the endpoint_t is given up without the flush; its items still run.
ReleaseEndpoint_NoFlush(e) ==
    /\ dying[e] # 0
    /\ dying' = [dying EXCEPT ![e] = 0]
    /\ UNCHANGED <<gEps, powered, gEnables, inReq, consumed, read, listen, gWork, sent,
                   userlandVars>>

\* free_endpoint: the workqueue is drained, the endpoint_t freed
ReleaseEndpoint(e) ==
    /\ dying[e] # 0
    /\ IF e \in InEps THEN \A i \in DOMAIN consumed[e] : consumed[e][i] # dying[e]
                      ELSE \A i \in DOMAIN gWork[e] : sent[e][gWork[e][i]] # dying[e]
    /\ dying' = [dying EXCEPT ![e] = 0]
    /\ UNCHANGED <<gEps, powered, gEnables, inReq, consumed, read, listen, gWork, sent,
                   userlandVars>>

-----------------------------------------------------------------------------
(* Request completions: gadget_recv_usb queues the request on the workqueue of
   its endpoint_t *)

\* the host reads the oldest IN request; they all belong to the newest endpoint_t
HostRead(e) ==
    /\ inReq[e] # <<>>
    /\ inReq' = [inReq EXCEPT ![e] = Tail(@)]
    /\ read' = [read EXCEPT ![e] = Append(@, Head(inReq[e]))]
    /\ consumed' = [consumed EXCEPT ![e] = Append(@, Head(gEps[e]))]
    /\ UNCHANGED <<configVars, listen, gWork, sent, userlandVars>>

\* Mutant: the completion itself queues the next request, before the worker.
HostWrite_Requeues(e) ==
    /\ listen[e] # <<>>
    /\ Len(sent[e]) < MaxSent
    /\ sent' = [sent EXCEPT ![e] = Append(@, Head(listen[e]))]
    /\ gWork' = [gWork EXCEPT ![e] = Append(@, Len(sent'[e]))]
    /\ UNCHANGED <<configVars, inReq, consumed, read, listen, userlandVars>>

\* the host writes its next payload into the oldest OUT request
HostWrite(e) ==
    /\ listen[e] # <<>>
    /\ Len(sent[e]) < MaxSent
    /\ listen' = [listen EXCEPT ![e] = Tail(@)]
    /\ sent' = [sent EXCEPT ![e] = Append(@, Head(listen[e]))]
    /\ gWork' = [gWork EXCEPT ![e] = Append(@, Len(sent[e]) + 1)]
    /\ UNCHANGED <<configVars, inReq, consumed, read, userlandVars>>

\* a request completes with an error, as when the host goes away: it is freed at
\* once, with no ACK and no new request
RequestError(e) ==
    /\ Fault("abort")
    /\ \/ /\ e \in InEps
          /\ inReq[e] # <<>>
          /\ inReq' = [inReq EXCEPT ![e] = Tail(@)]
          /\ UNCHANGED listen
       \/ /\ e \in OutEps
          /\ listen[e] # <<>>
          /\ listen' = [listen EXCEPT ![e] = Tail(@)]
          /\ UNCHANGED inReq
    /\ UNCHANGED <<configVars, consumed, read, gWork, sent, userlandVars>>

-----------------------------------------------------------------------------
(* recv, the work item of an endpoint_t's workqueue: ep_gadget_recv_usb *)

\* Mutant: the request is freed and no ACK sent.
WorkConsumed_Frees(e) ==
    /\ \E i \in DOMAIN consumed[e] : consumed' = [consumed EXCEPT ![e] = RemoveAt(@, i)]
    /\ UNCHANGED <<configVars, inReq, read, listen, gWork, sent, userlandVars>>

\* IN consumed by the host: an ACK goes to userland
WorkConsumed(e) ==
    /\ \E i \in DOMAIN consumed[e] : consumed' = [consumed EXCEPT ![e] = RemoveAt(@, i)]
    /\ SendAck(e)
    /\ UNCHANGED <<configVars, inReq, read, listen, gWork, sent, d2g, g2d>>

\* The i-th payload is the oldest of its workqueue.
OldestOfQueue(e, i) ==
    /\ i \in DOMAIN gWork[e]
    /\ \A j \in 1..(i - 1) : sent[e][gWork[e][j]] # sent[e][gWork[e][i]]

\* Mutant: the endpoint does not listen again.
WorkOut_Frees(e) ==
    /\ \E i \in DOMAIN gWork[e] :
          /\ OldestOfQueue(e, i)
          /\ gWork' = [gWork EXCEPT ![e] = RemoveAt(@, i)]
          /\ g2d' = [g2d EXCEPT ![e] = Append(@, gWork[e][i])]
    /\ UNCHANGED <<configVars, inReq, consumed, read, listen, sent, d2g, acks>>

\* OUT received: the data goes to userland and the same endpoint_t listens again;
\* a failed send returns before the resubmission, and a disabled hardware
\* endpoint takes no request.  The workers of two endpoint_t's are not ordered.
WorkOut(e) ==
    /\ \E i \in DOMAIN gWork[e] :
          /\ OldestOfQueue(e, i)
          /\ gWork' = [gWork EXCEPT ![e] = RemoveAt(@, i)]
          /\ \/ /\ g2d' = [g2d EXCEPT ![e] = Append(@, gWork[e][i])]
                /\ \/ /\ powered[e]
                      /\ listen' = [listen EXCEPT ![e] = Append(@, sent[e][gWork[e][i]])]
                   \/ (~powered[e] \/ Fault("submit")) /\ UNCHANGED listen
             \/ Fault("send") /\ UNCHANGED <<g2d, listen>>
    /\ UNCHANGED <<configVars, inReq, consumed, read, sent, d2g, acks>>

-----------------------------------------------------------------------------
(* gadget_recv_userland, run by the com worker *)

\* Mutant: the datagram is handled and left in the socket (MSG_PEEK).
RecvIn_Peeks(e) ==
    /\ \E i \in DOMAIN d2g[e] :
          /\ Arrives(d2g[e], i)
          /\ powered[e]
          /\ inReq' = [inReq EXCEPT ![e] = Append(@, d2g[e][i])]
    /\ UNCHANGED <<configVars, consumed, read, listen, gWork, sent, userlandVars>>

\* Mutant: the request is put in front of the ones already queued.
RecvIn_First(e) ==
    /\ \E i \in DOMAIN d2g[e] :
          /\ Arrives(d2g[e], i)
          /\ d2g' = [d2g EXCEPT ![e] = RemoveAt(@, i)]
          /\ \/ powered[e] /\ inReq' = [inReq EXCEPT ![e] = <<d2g[e][i]>> \o @]
             \/ (~powered[e] \/ Fault("submit")) /\ UNCHANGED inReq
    /\ UNCHANGED <<configVars, consumed, read, listen, gWork, sent, acks, g2d>>

\* DATA for an IN endpoint is queued for the host on the newest endpoint_t; with
\* none, or when it cannot be queued, it is dropped and nobody is told
RecvIn(e) ==
    /\ \E i \in DOMAIN d2g[e] :
          /\ Arrives(d2g[e], i)
          /\ d2g' = [d2g EXCEPT ![e] = RemoveAt(@, i)]
          /\ \/ powered[e] /\ inReq' = [inReq EXCEPT ![e] = Append(@, d2g[e][i])]
             \/ (~powered[e] \/ Fault("submit")) /\ UNCHANGED inReq
    /\ UNCHANGED <<configVars, consumed, read, listen, gWork, sent, acks, g2d>>
=============================================================================
