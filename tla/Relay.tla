-------------------------------- MODULE Relay --------------------------------
(***************************************************************************)
(* USBQ relaying one configuration of a device: Driver and Gadget joined   *)
(* by Userland, between a device and a host.                               *)
(*                                                                         *)
(*   device --URB--> Driver ==DATA==> Gadget --request--> host      (IN)   *)
(*                          <==ACK===                                      *)
(*   device <--URB-- Driver <==DATA== Gadget <--request-- host      (OUT)  *)
(*                                                                         *)
(* IN is stop-and-wait: the only credit that lets the driver poll again is *)
(* the ACK of what it read before.  OUT has no flow control.               *)
(*                                                                         *)
(* Both halves reconfigure endpoints on what the control relay tells them  *)
(* (SET_CONFIGURATION, SET_INTERFACE, reset).  That relay is module        *)
(* Control; here any order of reconfigurations is allowed, but two that    *)
(* the protocol settles unless a fault is allowed:                         *)
(*   - the gadget has its endpoint before the driver opens its own, and    *)
(*     keeps it as long as the driver uses it ("reread" lifts this);       *)
(*   - the host writes when the driver has the endpoint ("early").         *)
(***************************************************************************)
EXTENDS Driver, Gadget

vars == <<userlandVars, driverVars, gadgetVars>>

Init == UserlandInit /\ DriverInit /\ GadgetInit

-----------------------------------------------------------------------------
(* Reconfiguration *)

DriverConfigures(e) ==
    /\ \/ AddEndpoint(e) /\ (powered[e] \/ Fault("reread"))
       \/ e \in InEps /\ FirstPoll(e)
       \/ UnlinkEndpoint(e)
       \/ FreeEndpoint(e)
    /\ UNCHANGED gadgetVars

GadgetConfigures(e) ==
    /\ \/ EnableEndpoint(e)
       \/ DisableEndpoint(e) /\ (dEp[e] = "absent" \/ Fault("reread"))
       \/ ReleaseEndpoint(e)
    /\ UNCHANGED driverVars

(* The device and the host *)

DeviceStep(e) ==
    /\ \/ e \in InEps /\ CompleteIn(e)
       \/ e \in InEps /\ CompleteStall(e)
       \/ e \in OutEps /\ CompleteOut(e)
       \/ CompleteError(e)
    /\ UNCHANGED gadgetVars

HostStep(e) ==
    /\ \/ e \in InEps /\ HostRead(e)
       \/ e \in OutEps /\ HostWrite(e) /\ (dEp[e] = "present" \/ Fault("early"))
       \/ RequestError(e)
    /\ UNCHANGED driverVars

(* The workqueues of the endpoints and the com workers *)

DriverWorks(e) ==
    /\ \/ e \in InEps /\ WorkData(e)
       \/ e \in InEps /\ WorkAgain(e)
       \/ e \in InEps /\ RecvAck(e)
       \/ e \in OutEps /\ RecvOut(e)
    /\ UNCHANGED gadgetVars

GadgetWorks(e) ==
    /\ \/ e \in InEps /\ WorkConsumed(e)
       \/ e \in OutEps /\ WorkOut(e)
       \/ e \in InEps /\ RecvIn(e)
    /\ UNCHANGED driverVars

(* The path in between *)

Network(e) ==
    /\ \/ LoseData(e)
       \/ e \in InEps /\ LoseAck(e)
    /\ UNCHANGED <<driverVars, gadgetVars>>

Next == \E e \in Eps :
    \/ DriverConfigures(e) \/ GadgetConfigures(e)
    \/ DeviceStep(e) \/ HostStep(e)
    \/ DriverWorks(e) \/ GadgetWorks(e)
    \/ Network(e)

Spec == Init /\ [][Next]_vars

(* Workqueues run every item queued on them, each com worker handles every
   message, a thread that started to open or free an endpoint finishes, the
   device accepts OUT data and the host polls its IN endpoints.  Neither has
   to produce any. *)
Fairness ==
    /\ \A e \in InEps :
          /\ WF_vars(FirstPoll(e) /\ UNCHANGED gadgetVars)
          /\ WF_vars(WorkData(e) /\ UNCHANGED gadgetVars)
          /\ WF_vars(WorkAgain(e) /\ UNCHANGED gadgetVars)
          /\ WF_vars(RecvAck(e) /\ UNCHANGED gadgetVars)
          /\ WF_vars(WorkConsumed(e) /\ UNCHANGED driverVars)
          /\ WF_vars(RecvIn(e) /\ UNCHANGED driverVars)
          /\ WF_vars(HostRead(e) /\ UNCHANGED driverVars)
    /\ \A e \in OutEps :
          /\ WF_vars(RecvOut(e) /\ UNCHANGED gadgetVars)
          /\ WF_vars(CompleteOut(e) /\ UNCHANGED gadgetVars)
          /\ WF_vars(WorkOut(e) /\ UNCHANGED driverVars)

FairSpec == Spec /\ Fairness

-----------------------------------------------------------------------------
(* Safety *)

\* Every variable has its type.
TypeOK == UserlandTypeOK /\ DriverTypeOK /\ GadgetTypeOK

\* Where the credits of an IN endpoint can be: submitted URBs and work items of
\* the driver; DATA and ACK messages; requests of the gadget that wait for the
\* host or for its worker.
DriverCredit(e)   == poll[e] + again[e] + Len(dWork[e])
UserlandCredit(e) == Len(d2g[e]) + acks[e]
GadgetCredit(e)   == Len(inReq[e]) + Len(consumed[e])
Credit(e) == DriverCredit(e) + UserlandCredit(e) + GadgetCredit(e)

\* Flow control on IN: however messages are lost, delayed or reordered and
\* whatever either half reconfigures, the credits of an endpoint never exceed
\* the times the driver has opened it, one credit each (driver.c:696-704).
CreditBound == \A e \in InEps : Credit(e) <= enables[e]

\* Until the driver opens an IN endpoint again, what the host has read is
\* exactly what the device produced first, without a hole: a lost payload takes
\* the only credit with it, so nothing can follow it (driver.c:812-830).
NoGap == \A e \in InEps :
    enables[e] <= 1 => \A i \in DOMAIN read[e] : read[e][i] = i

\* The host reads nothing twice, not even across reconfigurations and reordered
\* datagrams, though no message is numbered (driver.c:812-830).
AtMostOnce == \A e \in InEps : IsInjective(read[e])

\* The endpoint_t's that wait for an OUT payload or for their worker to handle one.
Requests(e) == listen[e] \o [i \in DOMAIN gWork[e] |-> sent[e][gWork[e][i]]]

\* However the gadget reconfigures and whatever fails, an endpoint_t never has two
\* OUT requests, in the host's hands or in its workqueue, even when the host
\* selects the active setting again and the worker of the old endpoint_t submits
\* to the hardware endpoint of the new one (gadget.c:388-405, 900-917).
OneListener == \A e \in OutEps : IsInjective(Requests(e))

\* "Need to receive other OUT message, so resubmit" (gadget.c:913): as long as
\* an OUT endpoint is enabled its endpoint_t can receive the next OUT message, now
\* or when its worker is done.
StillListening == \A e \in OutEps :
    powered[e] => Head(gEps[e]) \in Range(Requests(e))

-----------------------------------------------------------------------------
(* Refinement: each direction of each endpoint is a lossy pipe *)

InPipe(e) == INSTANCE Pipe WITH put <- taken[e], got <- read[e],
                                transit <- inReq[e] \o d2g[e] \o dWork[e]

OutPipe(e) == INSTANCE Pipe WITH put <- Len(sent[e]), got <- accepted[e],
                                 transit <- outUrb[e] \o g2d[e] \o gWork[e]

\* An IN endpoint loses payloads but never repeats, invents or reorders one.
InIsPipe ==
    /\ \A e \in InEps : InPipe(e)!PipeInit
    /\ [][\A e \in InEps : [InPipe(e)!PipeNext]_(InPipe(e)!pipeVars)]_vars

\* The gadget has two endpoint_t's over one hardware endpoint, as after the host
\* selected the active setting again.
Twice(e) == Len(gEps[e]) >= 2 \/ (gEps[e] # <<>> /\ dying[e] # 0)

\* The same for an OUT endpoint, but that payloads overtake each other while two
\* endpoint_t's, hence two workqueues, share the hardware endpoint.  However often
\* the endpoint is disabled and enabled, one endpoint_t keeps the order, as
\* free_endpoint drains the workqueue first (gadget.c:388-405, common.c:86-94).
OutIsPipe ==
    /\ \A e \in OutEps : OutPipe(e)!PipeInit
    /\ [][\A e \in OutEps :
            [OutPipe(e)!PipeNext \/ (Twice(e) /\ OutPipe(e)!Overtake)]_(OutPipe(e)!pipeVars)]_vars

-----------------------------------------------------------------------------
(* Liveness *)

\* If only the device stalls, a payload on its way from the device is read by the host,
\* unless the gadget drops its endpoint meanwhile.
InDelivered == \A e \in InEps : \A n \in 1..MaxData :
    n \in Range(inReq[e] \o d2g[e] \o dWork[e])
        ~> (n \in Range(read[e]) \/ ~powered[e])

\* If only the device stalls, the driver keeps polling an IN endpoint as long as it has
\* it: the credit always comes back.
PollResumes == \A e \in InEps :
    dEp[e] = "present" ~> (poll[e] > 0 \/ dEp[e] # "present")

\* If only the device stalls, what the host has written reaches the device, unless the
\* driver drops its endpoint meanwhile.
OutDelivered == \A e \in OutEps : \A n \in 1..MaxSent :
    n \in Range(outUrb[e] \o g2d[e] \o gWork[e])
        ~> (n \in Range(accepted[e]) \/ dEp[e] # "present")
=============================================================================
