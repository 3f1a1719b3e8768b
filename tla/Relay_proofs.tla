----------------------------- MODULE Relay_proofs -----------------------------
(***************************************************************************)
(* For every set of endpoints, every set of faults and every bound: type   *)
(* correctness of Relay, that no endpoint_t has two OUT requests, that     *)
(* each direction of an endpoint is a lossy pipe, and, of the IN           *)
(* direction, flow control and order.                                      *)
(***************************************************************************)
EXTENDS Relay, QueueLemmas

(***************************************************************************)
(* Sequences of payloads                                                   *)
(***************************************************************************)

\* What a queue contains, and how long it is, after a payload is appended,
\* taken from the front, or taken from anywhere.
LEMMA SeqFacts ==
    ASSUME NEW s \in Seq(Nat)
    PROVE  /\ Len(s) \in Nat
           /\ \A d \in Nat : Append(s, d) \in Seq(Nat) /\ Len(Append(s, d)) = Len(s) + 1
           /\ s # <<>> => /\ Head(s) \in Nat
                          /\ Tail(s) \in Seq(Nat)
                          /\ Len(Tail(s)) = Len(s) - 1
           /\ \A i \in DOMAIN s : /\ s[i] \in Nat
                                  /\ RemoveAt(s, i) \in Seq(Nat)
                                  /\ Len(RemoveAt(s, i)) = Len(s) - 1
<1>1. Len(s) \in Nat /\ DOMAIN s = 1..Len(s)
  BY LenProperties
<1>2. \A d \in Nat : Append(s, d) \in Seq(Nat) /\ Len(Append(s, d)) = Len(s) + 1
  BY AppendProperties
<1>3. s # <<>> => Head(s) \in Nat /\ Tail(s) \in Seq(Nat) /\ Len(Tail(s)) = Len(s) - 1
  BY HeadTailProperties
<1>4. ASSUME NEW i \in DOMAIN s
      PROVE  s[i] \in Nat /\ RemoveAt(s, i) \in Seq(Nat) /\ Len(RemoveAt(s, i)) = Len(s) - 1
  <2>1. i \in 1..Len(s) /\ \A j \in 1..Len(s) : s[j] \in Nat
    BY <1>1, ElementOfSeq
  <2>2. SubSeq(s, 1, i-1) \in Seq(Nat) /\ Len(SubSeq(s, 1, i-1)) = i - 1
    BY <1>1, <2>1, SubSeqProperties
  <2>3. SubSeq(s, i+1, Len(s)) \in Seq(Nat) /\ Len(SubSeq(s, i+1, Len(s))) = Len(s) - i
    BY <1>1, <2>1, SubSeqProperties, SMTT(30)
  <2>4. /\ SubSeq(s, 1, i-1) \o SubSeq(s, i+1, Len(s)) \in Seq(Nat)
        /\ Len(SubSeq(s, 1, i-1) \o SubSeq(s, i+1, Len(s))) = (i - 1) + (Len(s) - i)
    BY <2>2, <2>3, ConcatProperties, SMTT(30)
  <2>5. RemoveAt(s, i) = SubSeq(s, 1, i-1) \o SubSeq(s, i+1, Len(s))
    BY DEF RemoveAt
  <2>6. (i - 1) + (Len(s) - i) = Len(s) - 1
    BY <1>1, <2>1
  <2> QED
    BY <2>1, <2>4, <2>5, <2>6
<1> QED
  BY <1>1, <1>2, <1>3, <1>4

(***************************************************************************)
(* Type correctness                                                        *)
(*                                                                         *)
(* It needs to be known that an IN request waits only at a hardware        *)
(* endpoint that is enabled, that such an endpoint has an endpoint_t, and  *)
(* that what waits in a workqueue is a payload the host has written.       *)
(***************************************************************************)

Placed ==
    /\ \A e \in Eps : powered[e] => gEps[e] # <<>>
    /\ \A e \in InEps : inReq[e] # <<>> => powered[e]
    /\ \A e \in OutEps : Range(gWork[e]) \subseteq 1..Len(sent[e])

\* nothing fails that would take a request away
Healthy == ~Fault("send") /\ ~Fault("submit") /\ ~Fault("abort")

\* What the worker of an endpoint does with the payload i.
WorkOutAt(e, i) ==
    /\ OldestOfQueue(e, i)
    /\ gWork' = [gWork EXCEPT ![e] = RemoveAt(@, i)]
    /\ g2d' = [g2d EXCEPT ![e] = Append(@, gWork[e][i])] \/ g2d' = g2d
    /\ \/ powered[e] /\ listen' = [listen EXCEPT ![e] = Append(@, sent[e][gWork[e][i]])]
       \/ (~powered[e] \/ ~Healthy) /\ listen' = listen

LEMMA WorkOutIs ==
    ASSUME NEW e \in OutEps, WorkOut(e)
    PROVE  \E i \in DOMAIN gWork[e] : WorkOutAt(e, i)
  BY DEF WorkOut, WorkOutAt, Healthy

\* A step of the thread that configures the driver half keeps the types.
LEMMA DriverConfiguresType ==
    ASSUME TypeOK, NEW e \in Eps, DriverConfigures(e)
    PROVE  TypeOK'
<1>1. ASSUME AddEndpoint(e), UNCHANGED gadgetVars PROVE TypeOK'
  <2>1. dEp' \in [Eps -> {"absent", "added", "present", "dying"}]
    BY <1>1 DEF AddEndpoint, TypeOK, DriverTypeOK, Eps
  <2>2. enables' \in [Eps -> Nat]
    BY <1>1 DEF AddEndpoint, TypeOK, DriverTypeOK, Eps
  <2> QED
    BY <1>1, <2>1, <2>2 DEF AddEndpoint, TypeOK, UserlandTypeOK, DriverTypeOK,
       GadgetTypeOK, userlandVars, driverVars, gadgetVars, configVars, Eps
<1>2. ASSUME e \in InEps, FirstPoll(e), UNCHANGED gadgetVars PROVE TypeOK'
  <2>1. dEp' \in [Eps -> {"absent", "added", "present", "dying"}]
    BY <1>2 DEF FirstPoll, Poll, TypeOK, DriverTypeOK, Eps
  <2>2. poll' \in [InEps -> Nat]
    <3>1. poll' = [poll EXCEPT ![e] = @ + 1] \/ poll' = poll
      BY <1>2 DEF FirstPoll, Poll
    <3>2. poll \in [InEps -> Nat] /\ [poll EXCEPT ![e] = @ + 1] \in [InEps -> Nat]
      BY <1>2 DEF TypeOK, DriverTypeOK, Eps
    <3> QED
      BY <3>1, <3>2
  <2> QED
    BY <1>2, <2>1, <2>2 DEF FirstPoll, Poll, TypeOK, UserlandTypeOK, DriverTypeOK,
       GadgetTypeOK, userlandVars, driverVars, gadgetVars, configVars, Eps
<1>3. ASSUME UnlinkEndpoint(e), UNCHANGED gadgetVars PROVE TypeOK'
  <2>1. dEp' \in [Eps -> {"absent", "added", "present", "dying"}]
    BY <1>3 DEF UnlinkEndpoint, TypeOK, DriverTypeOK, Eps
  <2>2. poll' \in [InEps -> Nat]
    BY <1>3 DEF UnlinkEndpoint, TypeOK, DriverTypeOK, Eps
  <2>3. outUrb' \in [OutEps -> Seq(Nat)]
    <3>1. outUrb' = [outUrb EXCEPT ![e] = <<>>] \/ outUrb' = outUrb
      BY <1>3 DEF UnlinkEndpoint
    <3>2. /\ outUrb \in [OutEps -> Seq(Nat)]
          /\ [outUrb EXCEPT ![e] = <<>>] \in [OutEps -> Seq(Nat)]
      BY <1>3, SeqFacts, EmptySeq DEF TypeOK, DriverTypeOK, Eps
    <3> QED
      BY <3>1, <3>2
  <2> QED
    BY <1>3, <2>1, <2>2, <2>3 DEF UnlinkEndpoint, TypeOK, UserlandTypeOK, DriverTypeOK,
       GadgetTypeOK, userlandVars, driverVars, gadgetVars, configVars, Eps
<1>4. ASSUME FreeEndpoint(e), UNCHANGED gadgetVars PROVE TypeOK'
  <2>1. dEp' \in [Eps -> {"absent", "added", "present", "dying"}]
    BY <1>4 DEF FreeEndpoint, TypeOK, DriverTypeOK, Eps
  <2>2. poll' \in [InEps -> Nat]
    BY <1>4 DEF FreeEndpoint, TypeOK, DriverTypeOK, Eps
  <2> QED
    BY <1>4, <2>1, <2>2 DEF FreeEndpoint, TypeOK, UserlandTypeOK, DriverTypeOK,
       GadgetTypeOK, userlandVars, driverVars, gadgetVars, configVars, Eps
<1> QED
  BY <1>1, <1>2, <1>3, <1>4 DEF DriverConfigures

\* What a restart of the hardware endpoint does to the requests.
LEMMA RestartType ==
    ASSUME TypeOK, NEW e \in Eps, NEW queued \in Seq(Nat), Restart(e, queued)
    PROVE  inReq' \in [InEps -> Seq(Nat)] /\ listen' \in [OutEps -> Seq(Nat)]
<1>1. inReq \in [InEps -> Seq(Nat)] /\ listen \in [OutEps -> Seq(Nat)]
  BY DEF TypeOK, GadgetTypeOK
<1>2. [inReq EXCEPT ![e] = <<>>] \in [InEps -> Seq(Nat)]
  BY <1>1, EmptySeq
<1>3. [listen EXCEPT ![e] = queued] \in [OutEps -> Seq(Nat)]
  BY <1>1
<1> QED
  BY <1>1, <1>2, <1>3 DEF Restart

\* A step of the thread that configures the gadget half keeps the types.
LEMMA GadgetConfiguresType ==
    ASSUME TypeOK, NEW e \in Eps, GadgetConfigures(e)
    PROVE  TypeOK'
<1>1. /\ gEps \in [Eps -> Seq(Nat)] /\ dying \in [Eps -> Nat]
      /\ powered \in [Eps -> BOOLEAN] /\ gEnables \in [Eps -> Nat]
      /\ inReq \in [InEps -> Seq(Nat)] /\ listen \in [OutEps -> Seq(Nat)]
      /\ gEps[e] \in Seq(Nat) /\ gEnables[e] \in Nat
  BY DEF TypeOK, GadgetTypeOK, Eps
<1>2. UNCHANGED <<consumed, read, gWork, sent, userlandVars, driverVars>>
  BY DEF GadgetConfigures, EnableEndpoint, DisableEndpoint, ReleaseEndpoint
<1>3. ASSUME EnableEndpoint(e) PROVE TypeOK'
  <2>1. gEnables' \in [Eps -> Nat] /\ dying' \in [Eps -> Nat]
    BY <1>1, <1>3 DEF EnableEndpoint
  <2>2. gEps' \in [Eps -> Seq(Nat)]
    <3>1. gEps' = [gEps EXCEPT ![e] = <<gEnables[e] + 1>> \o @] \/ gEps' = gEps
      BY <1>3 DEF EnableEndpoint
    <3>2. <<gEnables[e] + 1>> \in Seq(Nat)
      BY <1>1
    <3>3. <<gEnables[e] + 1>> \o gEps[e] \in Seq(Nat)
      BY <1>1, <3>2, ConcatProperties
    <3>4. [gEps EXCEPT ![e] = <<gEnables[e] + 1>> \o @] \in [Eps -> Seq(Nat)]
      BY <1>1, <3>3
    <3> QED
      BY <1>1, <3>1, <3>4
  <2>3. powered' \in [Eps -> BOOLEAN]
    <3>1. /\ [powered EXCEPT ![e] = TRUE] \in [Eps -> BOOLEAN]
          /\ [powered EXCEPT ![e] = FALSE] \in [Eps -> BOOLEAN]
      BY <1>1
    <3> QED
      BY <1>1, <1>3, <3>1 DEF EnableEndpoint
  <2>4. inReq' \in [InEps -> Seq(Nat)] /\ listen' \in [OutEps -> Seq(Nat)]
    <3>1. <<gEnables[e] + 1>> \in Seq(Nat) /\ <<>> \in Seq(Nat)
      BY <1>1, EmptySeq
    <3>2. \/ Restart(e, <<gEnables[e] + 1>>)
          \/ Restart(e, <<>>)
          \/ UNCHANGED <<inReq, listen>>
      BY <1>3 DEF EnableEndpoint
    <3> QED
      BY <1>1, <3>1, <3>2, RestartType
  <2> QED
    BY <1>2, <2>1, <2>2, <2>3, <2>4
       DEF TypeOK, UserlandTypeOK, DriverTypeOK, GadgetTypeOK, userlandVars, driverVars, Eps
<1>4. ASSUME DisableEndpoint(e) PROVE TypeOK'
  <2>1. Head(gEps[e]) \in Nat /\ Tail(gEps[e]) \in Seq(Nat) /\ gEnables' = gEnables
    BY <1>1, <1>4, SeqFacts DEF DisableEndpoint
  <2>2. gEps' \in [Eps -> Seq(Nat)] /\ dying' \in [Eps -> Nat] /\ powered' \in [Eps -> BOOLEAN]
    <3>1. /\ [gEps EXCEPT ![e] = Tail(@)] \in [Eps -> Seq(Nat)]
          /\ [dying EXCEPT ![e] = Head(gEps[e])] \in [Eps -> Nat]
          /\ [powered EXCEPT ![e] = FALSE] \in [Eps -> BOOLEAN]
      BY <1>1, <2>1
    <3> QED
      BY <1>4, <3>1 DEF DisableEndpoint
  <2>3. inReq' \in [InEps -> Seq(Nat)] /\ listen' \in [OutEps -> Seq(Nat)]
    <3>1. <<>> \in Seq(Nat) /\ Restart(e, <<>>)
      BY <1>4, EmptySeq DEF DisableEndpoint
    <3> QED
      BY <3>1, RestartType
  <2> QED
    BY <1>1, <1>2, <2>1, <2>2, <2>3
       DEF TypeOK, UserlandTypeOK, DriverTypeOK, GadgetTypeOK, userlandVars, driverVars, Eps
<1>5. ASSUME ReleaseEndpoint(e) PROVE TypeOK'
  <2>1. dying' \in [Eps -> Nat]
    BY <1>1, <1>5 DEF ReleaseEndpoint
  <2> QED
    BY <1>1, <1>2, <1>5, <2>1 DEF ReleaseEndpoint, TypeOK, UserlandTypeOK, DriverTypeOK,
       GadgetTypeOK, userlandVars, driverVars, Eps
<1> QED
  BY <1>3, <1>4, <1>5 DEF GadgetConfigures

\* A completion of an URB keeps the types.
LEMMA DeviceStepType ==
    ASSUME TypeOK, NEW e \in Eps, DeviceStep(e)
    PROVE  TypeOK'
<1>1. ASSUME e \in InEps, CompleteIn(e), UNCHANGED gadgetVars PROVE TypeOK'
  <2>1. poll' \in [InEps -> Nat]
    BY <1>1 DEF CompleteIn, TypeOK, DriverTypeOK, Eps
  <2>2. taken' \in [InEps -> Nat]
    BY <1>1 DEF CompleteIn, TypeOK, DriverTypeOK, Eps
  <2>3. dWork' \in [InEps -> Seq(Nat)]
    BY <1>1, SeqFacts DEF CompleteIn, TypeOK, DriverTypeOK, Eps
  <2> QED
    BY <1>1, <2>1, <2>2, <2>3 DEF CompleteIn, TypeOK, UserlandTypeOK, DriverTypeOK,
       GadgetTypeOK, userlandVars, driverVars, gadgetVars, configVars, Eps
<1>2. ASSUME e \in InEps, CompleteStall(e), UNCHANGED gadgetVars PROVE TypeOK'
  <2>1. poll' \in [InEps -> Nat]
    BY <1>2 DEF CompleteStall, TypeOK, DriverTypeOK, Eps
  <2>2. again' \in [InEps -> Nat]
    BY <1>2 DEF CompleteStall, TypeOK, DriverTypeOK, Eps
  <2> QED
    BY <1>2, <2>1, <2>2 DEF CompleteStall, TypeOK, UserlandTypeOK, DriverTypeOK,
       GadgetTypeOK, userlandVars, driverVars, gadgetVars, configVars, Eps
<1>3. ASSUME e \in OutEps, CompleteOut(e), UNCHANGED gadgetVars PROVE TypeOK'
  <2>1. outUrb' \in [OutEps -> Seq(Nat)]
    BY <1>3, SeqFacts DEF CompleteOut, TypeOK, DriverTypeOK, Eps
  <2>2. accepted' \in [OutEps -> Seq(Nat)]
    BY <1>3, SeqFacts DEF CompleteOut, TypeOK, DriverTypeOK, Eps
  <2> QED
    BY <1>3, <2>1, <2>2 DEF CompleteOut, TypeOK, UserlandTypeOK, DriverTypeOK,
       GadgetTypeOK, userlandVars, driverVars, gadgetVars, configVars, Eps
<1>4. ASSUME CompleteError(e), UNCHANGED gadgetVars PROVE TypeOK'
  <2>1. poll' \in [InEps -> Nat]
    <3>1. (e \in InEps /\ poll[e] > 0 /\ poll' = [poll EXCEPT ![e] = @ - 1]) \/ poll' = poll
      BY <1>4 DEF CompleteError
    <3>2. poll \in [InEps -> Nat]
      BY DEF TypeOK, DriverTypeOK
    <3>3. ASSUME e \in InEps, poll[e] > 0 PROVE [poll EXCEPT ![e] = @ - 1] \in [InEps -> Nat]
      BY <3>2, <3>3
    <3> QED
      BY <3>1, <3>2, <3>3
  <2>2. outUrb' \in [OutEps -> Seq(Nat)]
    <3>1. (e \in OutEps /\ outUrb[e] # <<>> /\ outUrb' = [outUrb EXCEPT ![e] = Tail(@)]) \/ outUrb' = outUrb
      BY <1>4 DEF CompleteError
    <3>2. outUrb \in [OutEps -> Seq(Nat)]
      BY DEF TypeOK, DriverTypeOK
    <3>3. ASSUME e \in OutEps, outUrb[e] # <<>> PROVE [outUrb EXCEPT ![e] = Tail(@)] \in [OutEps -> Seq(Nat)]
      BY <3>2, <3>3, SeqFacts
    <3> QED
      BY <3>1, <3>2, <3>3
  <2> QED
    BY <1>4, <2>1, <2>2 DEF CompleteError, TypeOK, UserlandTypeOK, DriverTypeOK,
       GadgetTypeOK, userlandVars, driverVars, gadgetVars, configVars, Eps
<1> QED
  BY <1>1, <1>2, <1>3, <1>4 DEF DeviceStep

\* A completion of a gadget request keeps the types; the host reads only from an
\* endpoint that is there.
LEMMA HostStepType ==
    ASSUME TypeOK, Placed, NEW e \in Eps, HostStep(e)
    PROVE  TypeOK'
<1>1. ASSUME e \in InEps, HostRead(e), UNCHANGED driverVars PROVE TypeOK'
  <2>1. inReq' \in [InEps -> Seq(Nat)]
    BY <1>1, SeqFacts DEF HostRead, TypeOK, GadgetTypeOK, Eps
  <2>2. read' \in [InEps -> Seq(Nat)]
    BY <1>1, SeqFacts DEF HostRead, TypeOK, GadgetTypeOK, Eps
  <2>3. consumed' \in [InEps -> Seq(Nat)]
    <3>1. gEps[e] \in Seq(Nat) /\ gEps[e] # <<>>
      BY <1>1 DEF HostRead, Placed, TypeOK, GadgetTypeOK, Eps
    <3>2. Head(gEps[e]) \in Nat
      BY <3>1, SeqFacts
    <3> QED
      BY <1>1, <3>2, SeqFacts DEF HostRead, TypeOK, GadgetTypeOK
  <2> QED
    BY <1>1, <2>1, <2>2, <2>3 DEF HostRead, TypeOK, UserlandTypeOK, DriverTypeOK,
       GadgetTypeOK, userlandVars, driverVars, gadgetVars, configVars, Eps
<1>2. ASSUME e \in OutEps, HostWrite(e), UNCHANGED driverVars PROVE TypeOK'
  <2>1. /\ listen \in [OutEps -> Seq(Nat)] /\ gWork \in [OutEps -> Seq(Nat)]
        /\ sent \in [OutEps -> Seq(Nat)]
        /\ Head(listen[e]) \in Nat /\ Tail(listen[e]) \in Seq(Nat) /\ Len(sent[e]) + 1 \in Nat
    BY <1>2, SeqFacts DEF HostWrite, TypeOK, GadgetTypeOK
  <2>2. listen' \in [OutEps -> Seq(Nat)]
    BY <1>2, <2>1 DEF HostWrite
  <2>3. sent' \in [OutEps -> Seq(Nat)]
    BY <1>2, <2>1, SeqFacts DEF HostWrite
  <2>4. gWork' \in [OutEps -> Seq(Nat)]
    BY <1>2, <2>1, SeqFacts DEF HostWrite
  <2> QED
    BY <1>2, <2>2, <2>3, <2>4 DEF HostWrite, TypeOK, UserlandTypeOK, DriverTypeOK,
       GadgetTypeOK, userlandVars, driverVars, gadgetVars, configVars, Eps
<1>3. ASSUME RequestError(e), UNCHANGED driverVars PROVE TypeOK'
  <2>1. inReq' \in [InEps -> Seq(Nat)]
    <3>1. \/ inReq' = inReq
          \/ e \in InEps /\ inReq[e] # <<>> /\ inReq' = [inReq EXCEPT ![e] = Tail(@)]
      BY <1>3 DEF RequestError
    <3>2. inReq \in [InEps -> Seq(Nat)]
      BY DEF TypeOK, GadgetTypeOK
    <3>3. ASSUME e \in InEps, inReq[e] # <<>>
          PROVE  [inReq EXCEPT ![e] = Tail(@)] \in [InEps -> Seq(Nat)]
      BY <3>2, <3>3, SeqFacts
    <3> QED
      BY <3>1, <3>2, <3>3
  <2>2. listen' \in [OutEps -> Seq(Nat)]
    <3>1. \/ listen' = listen
          \/ e \in OutEps /\ listen[e] # <<>> /\ listen' = [listen EXCEPT ![e] = Tail(@)]
      BY <1>3 DEF RequestError
    <3>2. listen \in [OutEps -> Seq(Nat)]
      BY DEF TypeOK, GadgetTypeOK
    <3>3. ASSUME e \in OutEps, listen[e] # <<>>
          PROVE  [listen EXCEPT ![e] = Tail(@)] \in [OutEps -> Seq(Nat)]
      BY <3>2, <3>3, SeqFacts
    <3> QED
      BY <3>1, <3>2, <3>3
  <2> QED
    BY <1>3, <2>1, <2>2 DEF RequestError, TypeOK, UserlandTypeOK, DriverTypeOK,
       GadgetTypeOK, userlandVars, driverVars, gadgetVars, configVars, Eps
<1> QED
  BY <1>1, <1>2, <1>3 DEF HostStep

\* A work item or a received message of the driver half keeps the types.
LEMMA DriverWorksType ==
    ASSUME TypeOK, NEW e \in Eps, DriverWorks(e)
    PROVE  TypeOK'
<1>1. ASSUME e \in InEps, WorkData(e), UNCHANGED gadgetVars PROVE TypeOK'
  <2>1. dWork' \in [InEps -> Seq(Nat)]
    BY <1>1, SeqFacts DEF WorkData, SendData, TypeOK, DriverTypeOK, Eps
  <2>2. d2g' \in [InEps -> Seq(Nat)]
    <3>1. d2g' = [d2g EXCEPT ![e] = Append(@, Head(dWork[e]))] \/ d2g' = d2g
      BY <1>1 DEF WorkData, SendData
    <3>2. d2g \in [InEps -> Seq(Nat)] /\ Head(dWork[e]) \in Nat
      BY <1>1, SeqFacts DEF WorkData, TypeOK, DriverTypeOK, GadgetTypeOK, UserlandTypeOK
    <3>3. [d2g EXCEPT ![e] = Append(@, Head(dWork[e]))] \in [InEps -> Seq(Nat)]
      BY <1>1, <3>2, SeqFacts
    <3> QED
      BY <3>1, <3>2, <3>3
  <2> QED
    BY <1>1, <2>1, <2>2 DEF WorkData, SendData, TypeOK, UserlandTypeOK, DriverTypeOK,
       GadgetTypeOK, userlandVars, driverVars, gadgetVars, configVars, Eps
<1>2. ASSUME e \in InEps, WorkAgain(e), UNCHANGED gadgetVars PROVE TypeOK'
  <2>1. again' \in [InEps -> Nat]
    BY <1>2 DEF WorkAgain, Poll, TypeOK, DriverTypeOK, Eps
  <2>2. poll' \in [InEps -> Nat]
    <3>1. poll' = [poll EXCEPT ![e] = @ + 1] \/ poll' = poll
      BY <1>2 DEF WorkAgain, Poll
    <3>2. poll \in [InEps -> Nat] /\ [poll EXCEPT ![e] = @ + 1] \in [InEps -> Nat]
      BY <1>2 DEF TypeOK, DriverTypeOK, Eps
    <3> QED
      BY <3>1, <3>2
  <2> QED
    BY <1>2, <2>1, <2>2 DEF WorkAgain, Poll, TypeOK, UserlandTypeOK, DriverTypeOK,
       GadgetTypeOK, userlandVars, driverVars, gadgetVars, configVars, Eps
<1>3. ASSUME e \in InEps, RecvAck(e), UNCHANGED gadgetVars PROVE TypeOK'
  <2>1. acks' \in [InEps -> Nat]
    BY <1>3 DEF RecvAck, Poll, TypeOK, UserlandTypeOK, Eps
  <2>2. poll' \in [InEps -> Nat]
    <3>1. poll' = [poll EXCEPT ![e] = @ + 1] \/ poll' = poll
      BY <1>3 DEF RecvAck, Poll
    <3>2. poll \in [InEps -> Nat] /\ [poll EXCEPT ![e] = @ + 1] \in [InEps -> Nat]
      BY <1>3 DEF TypeOK, DriverTypeOK, Eps
    <3> QED
      BY <3>1, <3>2
  <2> QED
    BY <1>3, <2>1, <2>2 DEF RecvAck, Poll, TypeOK, UserlandTypeOK, DriverTypeOK,
       GadgetTypeOK, userlandVars, driverVars, gadgetVars, configVars, Eps
<1>4. ASSUME e \in OutEps, RecvOut(e), UNCHANGED gadgetVars PROVE TypeOK'
  <2>1. g2d' \in [OutEps -> Seq(Nat)]
    BY <1>4, SeqFacts DEF RecvOut, Write, TypeOK, UserlandTypeOK, Eps
  <2>2. outUrb' \in [OutEps -> Seq(Nat)]
    <3>1. outUrb \in [OutEps -> Seq(Nat)]
      BY DEF TypeOK, DriverTypeOK
    <3>2. CASE outUrb' = outUrb
      BY <3>1, <3>2
    <3>3. ASSUME NEW i \in DOMAIN g2d[e], outUrb' = [outUrb EXCEPT ![e] = Append(@, g2d[e][i])]
          PROVE  outUrb' \in [OutEps -> Seq(Nat)]
      BY <1>4, <3>1, <3>3, SeqFacts DEF TypeOK, UserlandTypeOK, Eps
    <3> QED
      BY <1>4, <3>2, <3>3 DEF RecvOut, Write
  <2> QED
    BY <1>4, <2>1, <2>2 DEF RecvOut, Write, TypeOK, UserlandTypeOK, DriverTypeOK,
       GadgetTypeOK, userlandVars, driverVars, gadgetVars, configVars, Eps
<1> QED
  BY <1>1, <1>2, <1>3, <1>4 DEF DriverWorks

\* A work item or a received message of the gadget half keeps the types.
LEMMA GadgetWorksType ==
    ASSUME TypeOK, Placed, NEW e \in Eps, GadgetWorks(e)
    PROVE  TypeOK'
<1>1. ASSUME e \in InEps, WorkConsumed(e), UNCHANGED driverVars PROVE TypeOK'
  <2>1. consumed' \in [InEps -> Seq(Nat)]
    <3>1. consumed \in [InEps -> Seq(Nat)]
      BY DEF TypeOK, GadgetTypeOK
    <3>2. PICK i \in DOMAIN consumed[e] : consumed' = [consumed EXCEPT ![e] = RemoveAt(@, i)]
      BY <1>1 DEF WorkConsumed
    <3> QED
      BY <1>1, <3>1, <3>2, SeqFacts
  <2>2. acks' \in [InEps -> Nat]
    <3>1. acks' = [acks EXCEPT ![e] = @ + 1] \/ acks' = acks
      BY <1>1 DEF WorkConsumed, SendAck
    <3>2. acks \in [InEps -> Nat] /\ [acks EXCEPT ![e] = @ + 1] \in [InEps -> Nat]
      BY <1>1 DEF TypeOK, UserlandTypeOK, Eps
    <3> QED
      BY <3>1, <3>2
  <2> QED
    BY <1>1, <2>1, <2>2 DEF WorkConsumed, SendAck, TypeOK, UserlandTypeOK, DriverTypeOK,
       GadgetTypeOK, userlandVars, driverVars, gadgetVars, configVars, Eps
<1>2. ASSUME e \in OutEps, WorkOut(e), UNCHANGED driverVars PROVE TypeOK'
  <2>1. /\ gWork \in [OutEps -> Seq(Nat)] /\ g2d \in [OutEps -> Seq(Nat)]
        /\ listen \in [OutEps -> Seq(Nat)] /\ sent \in [OutEps -> Seq(Nat)]
    BY DEF TypeOK, UserlandTypeOK, GadgetTypeOK
  <2>2. PICK i \in DOMAIN gWork[e] : WorkOutAt(e, i)
    BY <1>2, WorkOutIs
  <2>3. gWork[e][i] \in Nat /\ RemoveAt(gWork[e], i) \in Seq(Nat)
    BY <1>2, <2>1, SeqFacts
  <2>4. gWork' \in [OutEps -> Seq(Nat)]
    BY <2>1, <2>2, <2>3 DEF WorkOutAt
  <2>5. g2d' \in [OutEps -> Seq(Nat)]
    <3>1. [g2d EXCEPT ![e] = Append(@, gWork[e][i])] \in [OutEps -> Seq(Nat)]
      BY <1>2, <2>1, <2>3, SeqFacts
    <3> QED
      BY <2>1, <2>2, <3>1 DEF WorkOutAt
  <2>6. listen' \in [OutEps -> Seq(Nat)]
    <3>1. CASE listen' = listen
      BY <2>1, <3>1
    <3>2. CASE listen' = [listen EXCEPT ![e] = Append(@, sent[e][gWork[e][i]])]
      <4>1. sent[e][gWork[e][i]] \in Nat
        <5>1. gWork[e][i] \in 1..Len(sent[e])
          BY <1>2, <2>2 DEF Placed, Range
        <5> QED
          BY <1>2, <2>1, <5>1, ElementOfSeq
      <4> QED
        BY <1>2, <2>1, <3>2, <4>1, SeqFacts
    <3> QED
      BY <2>2, <3>1, <3>2 DEF WorkOutAt
  <2> QED
    BY <1>2, <2>4, <2>5, <2>6 DEF WorkOut, TypeOK, UserlandTypeOK, DriverTypeOK,
       GadgetTypeOK, userlandVars, driverVars, gadgetVars, configVars, Eps
<1>3. ASSUME e \in InEps, RecvIn(e), UNCHANGED driverVars PROVE TypeOK'
  <2>1. d2g' \in [InEps -> Seq(Nat)]
    BY <1>3, SeqFacts DEF RecvIn, TypeOK, UserlandTypeOK, Eps
  <2>2. inReq' \in [InEps -> Seq(Nat)]
    <3>1. inReq \in [InEps -> Seq(Nat)]
      BY DEF TypeOK, GadgetTypeOK
    <3>2. CASE inReq' = inReq
      BY <3>1, <3>2
    <3>3. ASSUME NEW i \in DOMAIN d2g[e], inReq' = [inReq EXCEPT ![e] = Append(@, d2g[e][i])]
          PROVE  inReq' \in [InEps -> Seq(Nat)]
      BY <1>3, <3>1, <3>3, SeqFacts DEF TypeOK, UserlandTypeOK, Eps
    <3> QED
      BY <1>3, <3>2, <3>3 DEF RecvIn
  <2> QED
    BY <1>3, <2>1, <2>2 DEF RecvIn, TypeOK, UserlandTypeOK, DriverTypeOK, GadgetTypeOK,
       userlandVars, driverVars, gadgetVars, configVars, Eps
<1> QED
  BY <1>1, <1>2, <1>3 DEF GadgetWorks

\* A lost datagram keeps the types.
LEMMA NetworkType ==
    ASSUME TypeOK, NEW e \in Eps, Network(e)
    PROVE  TypeOK'
<1>1. ASSUME LoseData(e), UNCHANGED <<driverVars, gadgetVars>> PROVE TypeOK'
  <2>1. d2g' \in [InEps -> Seq(Nat)]
    <3>1. d2g \in [InEps -> Seq(Nat)]
      BY DEF TypeOK, UserlandTypeOK
    <3>2. CASE d2g' = d2g
      BY <3>1, <3>2
    <3>3. ASSUME NEW i \in DOMAIN d2g[e], d2g' = [d2g EXCEPT ![e] = RemoveAt(@, i)], e \in InEps
          PROVE  d2g' \in [InEps -> Seq(Nat)]
      BY <1>1, <3>1, <3>3, SeqFacts DEF TypeOK, UserlandTypeOK, Eps
    <3> QED
      BY <1>1, <3>2, <3>3 DEF LoseData
  <2>2. g2d' \in [OutEps -> Seq(Nat)]
    <3>1. g2d \in [OutEps -> Seq(Nat)]
      BY DEF TypeOK, UserlandTypeOK
    <3>2. CASE g2d' = g2d
      BY <3>1, <3>2
    <3>3. ASSUME NEW i \in DOMAIN g2d[e], g2d' = [g2d EXCEPT ![e] = RemoveAt(@, i)], e \in OutEps
          PROVE  g2d' \in [OutEps -> Seq(Nat)]
      BY <1>1, <3>1, <3>3, SeqFacts DEF TypeOK, UserlandTypeOK, Eps
    <3> QED
      BY <1>1, <3>2, <3>3 DEF LoseData
  <2> QED
    BY <1>1, <2>1, <2>2 DEF LoseData, TypeOK, UserlandTypeOK, DriverTypeOK, GadgetTypeOK,
       userlandVars, driverVars, gadgetVars, configVars, Eps
<1>2. ASSUME e \in InEps, LoseAck(e), UNCHANGED <<driverVars, gadgetVars>> PROVE TypeOK'
  <2>1. acks' \in [InEps -> Nat]
    BY <1>2 DEF LoseAck, TypeOK, UserlandTypeOK, Eps
  <2> QED
    BY <1>2, <2>1 DEF LoseAck, TypeOK, UserlandTypeOK, DriverTypeOK, GadgetTypeOK,
       userlandVars, driverVars, gadgetVars, configVars, Eps
<1> QED
  BY <1>1, <1>2 DEF Network

\* A step at an endpoint puts requests and payloads only where they may be.
LEMMA PlacedConfigured ==
    ASSUME TypeOK, Placed, NEW e \in Eps, GadgetConfigures(e)
    PROVE  Placed'
<1>1. /\ gEps \in [Eps -> Seq(Nat)] /\ powered \in [Eps -> BOOLEAN]
      /\ inReq \in [InEps -> Seq(Nat)] /\ gEnables[e] \in Nat
  BY DEF TypeOK, GadgetTypeOK, Eps
<1>2. UNCHANGED <<gWork, sent>>
  BY DEF GadgetConfigures, EnableEndpoint, DisableEndpoint, ReleaseEndpoint
<1>3. ASSUME NEW queued, Restart(e, queued), e \in InEps PROVE inReq'[e] = <<>>
  BY <1>1, <1>3 DEF Restart
<1>4. ASSUME NEW f \in InEps, f # e PROVE inReq'[f] = inReq[f]
  BY <1>1, <1>4 DEF GadgetConfigures, EnableEndpoint, DisableEndpoint, ReleaseEndpoint, Restart
<1>5. ASSUME NEW f \in Eps, f # e PROVE powered'[f] = powered[f] /\ gEps'[f] = gEps[f]
  BY <1>1, <1>5 DEF GadgetConfigures, EnableEndpoint, DisableEndpoint, ReleaseEndpoint
<1>6. \/ powered'[e] = TRUE /\ gEps'[e] # <<>>
      \/ powered'[e] = FALSE
      \/ powered'[e] = powered[e] /\ gEps'[e] = gEps[e]
  <2>1. CASE EnableEndpoint(e)
    <3>1. <<gEnables[e] + 1>> \o gEps[e] # <<>>
      <4>1. /\ <<gEnables[e] + 1>> \in Seq(Nat) /\ Len(<<gEnables[e] + 1>>) = 1
            /\ gEps[e] \in Seq(Nat) /\ Len(gEps[e]) \in Nat
        BY <1>1
      <4>2. Len(<<gEnables[e] + 1>> \o gEps[e]) = 1 + Len(gEps[e])
        BY <4>1, ConcatProperties
      <4> QED
        BY <4>1, <4>2
    <3>2. ASSUME gEps' = [gEps EXCEPT ![e] = <<gEnables[e] + 1>> \o @],
                 powered' = [powered EXCEPT ![e] = TRUE]
          PROVE  powered'[e] = TRUE /\ gEps'[e] # <<>>
      BY <1>1, <3>1, <3>2
    <3>3. ASSUME powered' = [powered EXCEPT ![e] = FALSE] PROVE powered'[e] = FALSE
      BY <1>1, <3>3
    <3> QED
      BY <2>1, <3>2, <3>3 DEF EnableEndpoint
  <2>2. CASE DisableEndpoint(e) \/ ReleaseEndpoint(e)
    BY <1>1, <2>2 DEF DisableEndpoint, ReleaseEndpoint
  <2> QED
    BY <2>1, <2>2 DEF GadgetConfigures
<1>7. e \in InEps => inReq'[e] = <<>> \/ (inReq'[e] = inReq[e] /\ powered'[e] = powered[e])
  BY <1>3 DEF GadgetConfigures, EnableEndpoint, DisableEndpoint, ReleaseEndpoint
<1> QED
  BY <1>2, <1>4, <1>5, <1>6, <1>7 DEF Placed, Eps

LEMMA PlacedHost ==
    ASSUME TypeOK, Placed, NEW e \in Eps, HostStep(e)
    PROVE  Placed'
<1>1. /\ inReq \in [InEps -> Seq(Nat)] /\ gWork \in [OutEps -> Seq(Nat)]
      /\ sent \in [OutEps -> Seq(Nat)] /\ listen \in [OutEps -> Seq(Nat)]
  BY DEF TypeOK, GadgetTypeOK
<1>2. gEps' = gEps /\ powered' = powered
  BY DEF HostStep, HostRead, HostWrite, RequestError, configVars
<1>3. ASSUME NEW f \in InEps, inReq'[f] # <<>> PROVE inReq[f] # <<>>
  BY <1>1, <1>3 DEF HostStep, HostRead, HostWrite, RequestError
<1>4. ASSUME NEW f \in OutEps PROVE Range(gWork'[f]) \subseteq 1..Len(sent'[f])
  <2>1. CASE gWork'[f] = gWork[f] /\ sent'[f] = sent[f]
    BY <2>1 DEF Placed
  <2>2. CASE HostWrite(f)
    <3>1. Head(listen[f]) \in Nat /\ Len(sent[f]) \in Nat
      BY <1>1, <2>2, SeqFacts DEF HostWrite
    <3>2. sent'[f] = Append(sent[f], Head(listen[f])) /\ gWork'[f] = Append(gWork[f], Len(sent[f]) + 1)
      BY <1>1, <2>2 DEF HostWrite
    <3>3. Len(sent'[f]) = Len(sent[f]) + 1
      BY <1>1, <3>1, <3>2, SeqFacts
    <3>4. Range(gWork'[f]) = Range(gWork[f]) \cup {Len(sent[f]) + 1}
      <4>1. gWork[f] \in Seq(Nat) /\ Len(sent[f]) + 1 \in Nat
        BY <1>1, <3>1
      <4>2. Range(Append(gWork[f], Len(sent[f]) + 1)) = Range(gWork[f]) \cup {Len(sent[f]) + 1}
        BY <4>1, AppendHolds
      <4> QED
        BY <3>2, <4>2
    <3>5. Range(gWork[f]) \subseteq 1..Len(sent[f])
      BY DEF Placed
    <3> QED
      BY <3>1, <3>3, <3>4, <3>5
  <2> QED
    BY <1>1, <2>1, <2>2 DEF HostStep, HostRead, HostWrite, RequestError
<1> QED
  BY <1>2, <1>3, <1>4 DEF Placed

LEMMA PlacedWorks ==
    ASSUME TypeOK, Placed, NEW e \in Eps, GadgetWorks(e)
    PROVE  Placed'
<1>1. /\ inReq \in [InEps -> Seq(Nat)] /\ gWork \in [OutEps -> Seq(Nat)]
  BY DEF TypeOK, GadgetTypeOK
<1>2. gEps' = gEps /\ powered' = powered /\ sent' = sent
  BY DEF GadgetWorks, WorkConsumed, WorkOut, RecvIn, configVars
<1>3. ASSUME NEW f \in InEps, inReq'[f] # <<>> PROVE inReq[f] # <<>> \/ powered[f]
  BY <1>1, <1>3 DEF GadgetWorks, WorkConsumed, WorkOut, RecvIn
<1>4. ASSUME NEW f \in OutEps PROVE Range(gWork'[f]) \subseteq Range(gWork[f])
  <2>1. CASE gWork'[f] = gWork[f]
    BY <2>1
  <2>2. CASE WorkOut(f)
    <3>1. PICK i \in DOMAIN gWork[f] : gWork' = [gWork EXCEPT ![f] = RemoveAt(@, i)]
      BY <2>2 DEF WorkOut
    <3>2. gWork'[f] = RemoveAt(gWork[f], i) /\ gWork[f] \in Seq(Nat)
      BY <1>1, <3>1
    <3> QED
      BY <3>2, RemoveAtHolds
  <2> QED
    BY <1>1, <2>1, <2>2 DEF GadgetWorks, WorkConsumed, WorkOut, RecvIn
<1> QED
  BY <1>2, <1>3, <1>4 DEF Placed

\* The initial state has the types.
LEMMA InitType == Init => TypeOK /\ Placed
<1> SUFFICES ASSUME Init PROVE TypeOK /\ Placed
  OBVIOUS
<1>1. TypeOK
  BY EmptySeq DEF Init, UserlandInit, DriverInit, GadgetInit,
                  TypeOK, UserlandTypeOK, DriverTypeOK, GadgetTypeOK, Eps
<1>2. Placed
  BY EmptyHolds DEF Init, GadgetInit, Placed, Eps
<1> QED
  BY <1>1, <1>2

\* Every step keeps the types.
LEMMA NextType == TypeOK /\ Placed /\ [Next]_vars => TypeOK' /\ Placed'
<1> SUFFICES ASSUME TypeOK, Placed, [Next]_vars PROVE TypeOK' /\ Placed'
  OBVIOUS
<1>1. ASSUME NEW e \in Eps,
             \/ DriverConfigures(e) \/ GadgetConfigures(e)
             \/ DeviceStep(e) \/ HostStep(e)
             \/ DriverWorks(e) \/ GadgetWorks(e)
             \/ Network(e)
      PROVE  TypeOK'
  BY <1>1, DriverConfiguresType, GadgetConfiguresType, DeviceStepType, HostStepType,
     DriverWorksType, GadgetWorksType, NetworkType
<1>2. CASE UNCHANGED vars
  BY <1>2 DEF vars, userlandVars, driverVars, gadgetVars, configVars, Placed,
              TypeOK, UserlandTypeOK, DriverTypeOK, GadgetTypeOK
<1>3. ASSUME UNCHANGED gadgetVars PROVE Placed'
  BY <1>3 DEF gadgetVars, configVars, Placed
<1>4. ASSUME NEW e \in Eps,
             \/ DriverConfigures(e) \/ GadgetConfigures(e)
             \/ DeviceStep(e) \/ HostStep(e)
             \/ DriverWorks(e) \/ GadgetWorks(e)
             \/ Network(e)
      PROVE  Placed'
  <2>1. CASE DriverConfigures(e) \/ DeviceStep(e) \/ DriverWorks(e) \/ Network(e)
    BY <1>3, <2>1 DEF DriverConfigures, DeviceStep, DriverWorks, Network
  <2> QED
    BY <1>4, <2>1, PlacedConfigured, PlacedHost, PlacedWorks
<1> QED
  BY <1>1, <1>2, <1>4 DEF Next

LEMMA PlacedAlways == Spec => [](TypeOK /\ Placed)
<1>1. Init => TypeOK /\ Placed
  BY InitType
<1>2. TypeOK /\ Placed /\ [Next]_vars => (TypeOK /\ Placed)'
  BY NextType
<1> QED
  BY <1>1, <1>2, PTL DEF Spec

\* Every variable of the relay keeps its type.
THEOREM TypeCorrect == Spec => []TypeOK
  BY PlacedAlways, PTL

-----------------------------------------------------------------------------
(* The OUT requests of the gadget: no endpoint_t ever has more than one, and the
   newest one has its request as long as the hardware endpoint is enabled, unless a
   send, a submission or a request fails.

   A request moves from the host's hands to its endpoint_t's workqueue and back, and
   back only while the hardware endpoint is enabled.  What else has to be known of
   an endpoint: requests belong to endpoint_t's that exist, those in the host's hands
   to ones in eplist; the one being freed has none there, as the hardware endpoint
   stays disabled until it is gone; enabling names a new one.

   The invariant is stated of the values of an endpoint's variables, so that each
   kind of step is a lemma about values: L the requests the host may fill, W the
   payloads in the workqueues, S who took each payload, n the times the endpoint
   was enabled, E the endpoint_t's in eplist, D the one being freed, P whether the
   hardware endpoint is enabled. *)

Sound(L, W, S, n, E, D, P) ==
    /\ L \in Seq(Nat) /\ W \in Seq(Nat) /\ S \in Seq(Nat) /\ E \in Seq(Nat)
    /\ n \in Nat /\ D \in Nat /\ P \in BOOLEAN
    /\ Range(L) \subseteq Range(E) /\ Range(E) \subseteq 1..n
    /\ Range(W) \subseteq 1..Len(S)
    /\ \A m \in Range(W) : S[m] \in 1..n /\ S[m] \in Range(E) \cup {D}
    /\ IsInjective(L) /\ IsInjective(W)
    /\ \A m, k \in Range(W) : S[m] = S[k] => m = k
    /\ \A m \in Range(W) : S[m] \notin Range(L)
    /\ ~P => L = <<>>
    /\ D # 0 => ~P
    /\ P => E # <<>>

\* The newest endpoint_t has its request.
Hears(L, W, S, E, P) == P => Head(E) \in Range(L) \cup {S[m] : m \in Range(W)}

Listening(o) ==
    /\ Sound(listen[o], gWork[o], sent[o], gEnables[o], gEps[o], dying[o], powered[o])
    /\ Healthy => Hears(listen[o], gWork[o], sent[o], gEps[o], powered[o])

\* enable_interface succeeds: a new endpoint_t, and only it listens.
LEMMA SoundEnable ==
    ASSUME NEW L, NEW W, NEW S, NEW n, NEW E, NEW P, Sound(L, W, S, n, E, 0, P)
    PROVE  /\ Sound(<<n + 1>>, W, S, n + 1, <<n + 1>> \o E, 0, TRUE)
           /\ Hears(<<n + 1>>, W, S, <<n + 1>> \o E, TRUE)
<1> DEFINE N == <<n + 1>>
           F == N \o E
<1>1. /\ N \in Seq(Nat) /\ Range(N) = {n + 1} /\ IsInjective(N)
      /\ E \in Seq(Nat) /\ n \in Nat
  BY SingleHolds DEF Sound
<1>2. F \in Seq(Nat) /\ Range(F) = {n + 1} \cup Range(E)
  <2> HIDE DEF N
  <2>1. N \o E \in Seq(Nat) /\ Range(N \o E) = Range(N) \cup Range(E)
    BY <1>1, ConcatHolds
  <2> QED
    BY <1>1, <2>1
<1>3. F # <<>> /\ Head(F) = n + 1
  <2>1. Len(N) = 1 /\ N[1] = n + 1 /\ Len(E) \in Nat
    BY <1>1
  <2>2. Len(F) = 1 + Len(E) /\ F[1] = n + 1
    <3> HIDE DEF N
    <3>1. /\ Len(N \o E) = Len(N) + Len(E)
          /\ \A i \in 1..Len(N) + Len(E) : (N \o E)[i] = IF i <= Len(N) THEN N[i] ELSE E[i - Len(N)]
      BY <1>1, ConcatProperties
    <3> QED
      BY <2>1, <3>1
  <2> HIDE DEF F
  <2> QED
    BY <1>2, <2>1, <2>2, EmptySeq
<1> HIDE DEF N, F
<1>4. Sound(N, W, S, n + 1, F, 0, TRUE)
  <2>1. \A m \in Range(W) : S[m] \in 1..(n + 1) /\ S[m] \in Range(F) /\ S[m] \notin Range(N)
    BY <1>1, <1>2 DEF Sound
  <2>2. Range(F) \subseteq 1..(n + 1) /\ Range(N) \subseteq Range(F)
    BY <1>1, <1>2 DEF Sound
  <2> QED
    BY <1>1, <1>2, <1>3, <2>1, <2>2 DEF Sound
<1> QED
  BY <1>1, <1>3, <1>4 DEF N, F, Hears

\* It fails: the hardware endpoint is as it was, or disabled.
LEMMA SoundRefuse ==
    ASSUME NEW L, NEW W, NEW S, NEW n, NEW E, NEW D, NEW P, Sound(L, W, S, n, E, D, P)
    PROVE  Sound(L, W, S, n + 1, E, D, P) /\ Sound(<<>>, W, S, n + 1, E, D, FALSE)
<1>1. n + 1 \in Nat /\ 1..n \subseteq 1..(n + 1)
  BY DEF Sound
<1>2. Sound(L, W, S, n + 1, E, D, P)
  BY <1>1 DEF Sound
<1>3. <<>> \in Seq(Nat) /\ Range(<<>>) = {} /\ IsInjective(<<>>)
  BY EmptyHolds, EmptySeq
<1> QED
  BY <1>2, <1>3 DEF Sound

\* free_gadget_endpoint: the newest endpoint_t leaves the list, nothing listens.
LEMMA SoundDisable ==
    ASSUME NEW L, NEW W, NEW S, NEW n, NEW E, NEW P, Sound(L, W, S, n, E, 0, P), E # <<>>
    PROVE  Sound(<<>>, W, S, n, Tail(E), Head(E), FALSE)
<1>1. /\ Head(E) \in Nat /\ Tail(E) \in Seq(Nat)
      /\ Range(E) = Range(Tail(E)) \cup {Head(E)}
  BY TailHolds DEF Sound
<1>2. <<>> \in Seq(Nat) /\ Range(<<>>) = {} /\ IsInjective(<<>>)
  BY EmptyHolds, EmptySeq
<1>3. \A m \in Range(W) : S[m] \in Range(Tail(E)) \cup {Head(E)}
  BY <1>1 DEF Sound
<1> QED
  BY <1>1, <1>2, <1>3 DEF Sound

\* free_endpoint: its workqueue was drained.
LEMMA SoundRelease ==
    ASSUME NEW L, NEW W, NEW S, NEW n, NEW E, NEW D, NEW P, Sound(L, W, S, n, E, D, P),
           \A i \in DOMAIN W : S[W[i]] # D
    PROVE  Sound(L, W, S, n, E, 0, P)
<1>1. \A m \in Range(W) : S[m] # D
  BY DEF Range
<1> QED
  BY <1>1 DEF Sound

\* The oldest request is filled, or it fails.
LEMMA SoundFill ==
    ASSUME NEW L, NEW W, NEW S, NEW n, NEW E, NEW D, NEW P, Sound(L, W, S, n, E, D, P), L # <<>>
    PROVE  LET V == Append(W, Len(S) + 1)
               T == Append(S, Head(L))
           IN  /\ Sound(Tail(L), V, T, n, E, D, P)
               /\ Hears(L, W, S, E, P) => Hears(Tail(L), V, T, E, P)
               /\ Sound(Tail(L), W, S, n, E, D, P)
<1> DEFINE k == Len(S) + 1
           V == Append(W, k)
           T == Append(S, Head(L))
           K == Tail(L)
<1>1. /\ L \in Seq(Nat) /\ W \in Seq(Nat) /\ S \in Seq(Nat) /\ Len(S) \in Nat /\ k \in Nat
  BY LenProperties DEF Sound
<1>2. /\ Head(L) \in Nat /\ Head(L) \in Range(L) /\ K \in Seq(Nat)
      /\ Range(L) = Range(K) \cup {Head(L)}
      /\ IsInjective(K) /\ Head(L) \notin Range(K)
  BY <1>1, TailHolds DEF Sound
<1>3. /\ V \in Seq(Nat) /\ Range(V) = Range(W) \cup {k}
      /\ k \notin Range(W) => IsInjective(V)
  BY <1>1, AppendHolds DEF Sound
<1>4. k \notin Range(W)
  BY <1>1 DEF Sound
<1>5. /\ T \in Seq(Nat) /\ Len(T) = k /\ T[k] = Head(L)
      /\ \A m \in 1..Len(S) : T[m] = S[m]
  BY <1>1, <1>2, AppendProperties
<1>6. \A m \in Range(W) : T[m] = S[m] /\ m \in 1..Len(S) /\ m # k
  BY <1>1, <1>5 DEF Sound
<1>7. P /\ E # <<>>
  BY DEF Sound
<1> HIDE DEF V, T, K, k
<1>8. Sound(K, V, T, n, E, D, P)
  <2>1. Range(V) \subseteq 1..Len(T)
    BY <1>1, <1>3, <1>5, <1>6 DEF k
  <2>2. \A m \in Range(V) : T[m] \in 1..n /\ T[m] \in Range(E) \cup {D}
    BY <1>2, <1>3, <1>5, <1>6 DEF Sound
  <2>3. \A m, j \in Range(V) : T[m] = T[j] => m = j
    BY <1>2, <1>3, <1>5, <1>6 DEF Sound
  <2>4. \A m \in Range(V) : T[m] \notin Range(K)
    BY <1>2, <1>3, <1>5, <1>6 DEF Sound
  <2> QED
    BY <1>2, <1>3, <1>4, <1>5, <1>7, <2>1, <2>2, <2>3, <2>4 DEF Sound
<1>9. Hears(L, W, S, E, P) => Hears(K, V, T, E, P)
  <2> SUFFICES ASSUME Head(E) \in Range(L) \cup {S[m] : m \in Range(W)}
               PROVE  Head(E) \in Range(K) \cup {T[m] : m \in Range(V)}
    BY <1>7 DEF Hears
  <2>1. CASE Head(E) \in Range(L)
    BY <1>2, <1>3, <1>5, <2>1
  <2>2. ASSUME NEW m \in Range(W), Head(E) = S[m] PROVE Head(E) \in {T[j] : j \in Range(V)}
    BY <1>3, <1>6, <2>2
  <2> QED
    BY <2>1, <2>2
<1>10. Sound(K, W, S, n, E, D, P)
  BY <1>2, <1>7 DEF Sound
<1> QED
  BY <1>8, <1>9, <1>10 DEF V, T, K, k

\* The worker is done with a payload: its endpoint_t listens again, or not.
LEMMA SoundWork ==
    ASSUME NEW L, NEW W, NEW S, NEW n, NEW E, NEW D, NEW P, Sound(L, W, S, n, E, D, P),
           NEW i \in DOMAIN W
    PROVE  LET V == RemoveAt(W, i)
               K == Append(L, S[W[i]])
           IN  /\ Sound(L, V, S, n, E, D, P)
               /\ P => Sound(K, V, S, n, E, D, P)
               /\ Hears(L, W, S, E, P) => Hears(K, V, S, E, P)
<1> DEFINE V == RemoveAt(W, i)
           s == S[W[i]]
           K == Append(L, s)
<1>1. /\ V \in Seq(Nat) /\ W[i] \in Nat /\ W[i] \in Range(W)
      /\ Range(W) = Range(V) \cup {W[i]}
      /\ IsInjective(V) /\ W[i] \notin Range(V)
  BY RemoveAtHolds DEF Sound
<1>2. /\ L \in Seq(Nat) /\ s \in 1..n /\ s \in Nat /\ s \in Range(E) \cup {D} /\ s \notin Range(L)
  <2>1. /\ L \in Seq(Nat) /\ n \in Nat
        /\ \A m \in Range(W) : S[m] \in 1..n /\ S[m] \in Range(E) \cup {D} /\ S[m] \notin Range(L)
    BY DEF Sound
  <2> QED
    BY <1>1, <2>1
<1>3. K \in Seq(Nat) /\ K # <<>> /\ Range(K) = Range(L) \cup {s} /\ IsInjective(K)
  <2>1. IsInjective(L)
    BY DEF Sound
  <2> HIDE DEF s
  <2> QED
    BY <1>2, <2>1, AppendHolds
<1>4. \A m \in Range(V) : S[m] # s
  BY <1>1 DEF Sound
<1> HIDE DEF V, K, s
<1>5. Sound(L, V, S, n, E, D, P)
  BY <1>1 DEF Sound
<1>6. ASSUME P PROVE Sound(K, V, S, n, E, D, P)
  <2>1. s \in Range(E)
    BY <1>2, <1>6 DEF Sound
  <2> QED
    BY <1>1, <1>3, <1>4, <1>5, <1>6, <2>1 DEF Sound
<1>7. Hears(L, W, S, E, P) => Hears(K, V, S, E, P)
  <2> SUFFICES ASSUME Head(E) \in Range(L) \cup {S[m] : m \in Range(W)}
               PROVE  Head(E) \in Range(K) \cup {S[m] : m \in Range(V)}
    BY DEF Hears
  <2> QED
    BY <1>1, <1>3 DEF s
<1> QED
  BY <1>5, <1>6, <1>7 DEF V, K, s

\* Payloads of two workqueues mean two endpoint_t's.
LEMMA TwoOwners ==
    ASSUME NEW L, NEW W, NEW S, NEW n, NEW E, NEW D, NEW P, Sound(L, W, S, n, E, D, P),
           NEW i \in DOMAIN W, NEW j \in DOMAIN W, S[W[i]] # S[W[j]]
    PROVE  Len(E) >= 2 \/ (E # <<>> /\ D # 0)
<1>1. /\ S[W[i]] \in 1..n /\ S[W[i]] \in Range(E) \cup {D}
      /\ S[W[j]] \in 1..n /\ S[W[j]] \in Range(E) \cup {D}
  BY DEF Sound, Range
<1>2. E \in Seq(Nat) /\ Len(E) \in Nat /\ DOMAIN E = 1..Len(E)
  BY LenProperties DEF Sound
<1>3. CASE Len(E) = 0
  <2>1. Range(E) = {}
    BY <1>2, <1>3 DEF Range
  <2> QED
    BY <1>1, <2>1
<1>4. CASE Len(E) = 1
  <2>1. Range(E) = {E[1]}
    BY <1>2, <1>4 DEF Range
  <2>2. D # 0
    <3>1. n \in Nat
      BY DEF Sound
    <3>2. SUFFICES ASSUME D = 0 PROVE FALSE
      OBVIOUS
    <3>3. 0 \notin 1..n
      BY <3>1
    <3>4. S[W[i]] = E[1] /\ S[W[j]] = E[1]
      BY <1>1, <2>1, <3>2, <3>3
    <3> QED
      BY <3>4
  <2>3. E # <<>>
    <3>1. Len(E) # 0
      BY <1>4
    <3> QED
      BY <3>1, EmptySeq
  <2> QED
    BY <2>2, <2>3
<1> QED
  BY <1>2, <1>3, <1>4

LEMMA ListeningInit == Init => \A o \in OutEps : Listening(o)
<1>1. <<>> \in Seq(Nat) /\ Range(<<>>) = {} /\ IsInjective(<<>>)
  BY EmptyHolds, EmptySeq
<1>2. Sound(<<>>, <<>>, <<>>, 0, <<>>, 0, FALSE)
  BY <1>1 DEF Sound
<1> QED
  BY <1>2 DEF Init, GadgetInit, Listening, Hears

\* Whatever does not touch the requests of an endpoint keeps what is said of them.
LEMMA ListeningUnchanged ==
    ASSUME NEW o \in OutEps, Listening(o),
           gEps'[o] = gEps[o], dying'[o] = dying[o], powered'[o] = powered[o],
           gEnables'[o] = gEnables[o], listen'[o] = listen[o], gWork'[o] = gWork[o],
           sent'[o] = sent[o]
    PROVE  Listening(o)'
  BY DEF Listening, Healthy, Fault

\* The thread that opens and frees the endpoints of the gadget.
LEMMA ListeningConfigured ==
    ASSUME TypeOK, NEW o \in OutEps, Listening(o), NEW e \in Eps, GadgetConfigures(e)
    PROVE  Listening(o)'
<1>1. /\ gEps \in [Eps -> Seq(Nat)] /\ dying \in [Eps -> Nat]
      /\ powered \in [Eps -> BOOLEAN] /\ gEnables \in [Eps -> Nat]
      /\ listen \in [OutEps -> Seq(Nat)]
      /\ o \in Eps /\ o \notin InEps
  BY EpsAssumption DEF TypeOK, GadgetTypeOK, Eps
<1>2. gWork' = gWork /\ sent' = sent
  BY DEF GadgetConfigures, EnableEndpoint, DisableEndpoint, ReleaseEndpoint
<1>3. CASE e # o
  <2>1. ASSUME NEW queued, Restart(e, queued) PROVE listen'[o] = listen[o]
    BY <1>1, <1>3, <2>1 DEF Restart
  <2>2. /\ gEps'[o] = gEps[o] /\ dying'[o] = dying[o] /\ powered'[o] = powered[o]
        /\ gEnables'[o] = gEnables[o] /\ listen'[o] = listen[o]
    BY <1>1, <1>3, <2>1 DEF GadgetConfigures, EnableEndpoint, DisableEndpoint, ReleaseEndpoint
  <2> QED
    BY <1>2, <2>2, ListeningUnchanged
<1>4. CASE e = o
  <2> DEFINE L == listen[o]
             W == gWork[o]
             S == sent[o]
             n == gEnables[o]
             E == gEps[o]
             D == dying[o]
             P == powered[o]
  <2>1. Sound(L, W, S, n, E, D, P)
    BY DEF Listening
  <2>2. ASSUME NEW queued, Restart(o, queued) PROVE listen'[o] = queued
    BY <1>1, <2>2 DEF Restart
  <2>3. CASE EnableEndpoint(o)
    <3>1. gEnables'[o] = n + 1 /\ dying'[o] = 0 /\ D = 0
      BY <1>1, <2>3 DEF EnableEndpoint
    <3>2. CASE /\ gEps' = [gEps EXCEPT ![o] = <<n + 1>> \o @]
               /\ powered' = [powered EXCEPT ![o] = TRUE] /\ Restart(o, <<n + 1>>)
      <4>1. gEps'[o] = <<n + 1>> \o E /\ powered'[o] = TRUE /\ listen'[o] = <<n + 1>>
        BY <1>1, <2>2, <3>2
      <4>2. /\ Sound(<<n + 1>>, W, S, n + 1, <<n + 1>> \o E, 0, TRUE)
            /\ Hears(<<n + 1>>, W, S, <<n + 1>> \o E, TRUE)
        <5> HIDE DEF L, W, S, n, E, D, P
        <5> QED
          BY <2>1, <3>1, SoundEnable
      <4> QED
        BY <1>2, <3>1, <4>1, <4>2 DEF Listening
    <3>3. CASE Fault("submit") /\ gEps' = gEps /\ powered' = [powered EXCEPT ![o] = FALSE] /\ Restart(o, <<>>)
      <4>1. gEps'[o] = E /\ powered'[o] = FALSE /\ listen'[o] = <<>>
        BY <1>1, <2>2, <3>3
      <4>2. Sound(<<>>, W, S, n + 1, E, D, FALSE)
        BY <2>1, SoundRefuse
      <4> QED
        BY <1>2, <3>1, <4>1, <4>2 DEF Listening, Hears
    <3>4. CASE Fault("submit") /\ UNCHANGED <<gEps, powered, inReq, listen>>
      <4>1. Sound(L, W, S, n + 1, E, D, P) /\ ~Healthy
        BY <2>1, <3>4, SoundRefuse DEF Healthy
      <4> QED
        BY <1>2, <3>1, <3>4, <4>1 DEF Listening, Healthy, Fault
    <3> QED
      BY <2>3, <3>2, <3>3, <3>4 DEF EnableEndpoint
  <2>4. CASE DisableEndpoint(o)
    <3>1. /\ gEps'[o] = Tail(E) /\ dying'[o] = Head(E) /\ powered'[o] = FALSE
          /\ listen'[o] = <<>> /\ gEnables'[o] = n /\ D = 0 /\ E # <<>>
      BY <1>1, <2>2, <2>4 DEF DisableEndpoint
    <3>2. Sound(<<>>, W, S, n, Tail(E), Head(E), FALSE)
      <4> HIDE DEF L, W, S, n, E, D, P
      <4> QED
        BY <2>1, <3>1, SoundDisable
    <3> QED
      BY <1>2, <3>1, <3>2 DEF Listening, Hears
  <2>5. CASE ReleaseEndpoint(o)
    <3>1. /\ \A i \in DOMAIN W : S[W[i]] # D
          /\ dying'[o] = 0
          /\ UNCHANGED <<gEps, powered, gEnables, listen>>
      BY <1>1, <2>5 DEF ReleaseEndpoint
    <3>2. Sound(L, W, S, n, E, 0, P)
      <4> HIDE DEF L, W, S, n, E, D, P
      <4> QED
        BY <2>1, <3>1, SoundRelease
    <3> QED
      BY <1>2, <3>1, <3>2 DEF Listening, Healthy, Fault
  <2> QED
    BY <1>4, <2>3, <2>4, <2>5 DEF GadgetConfigures
<1> QED
  BY <1>3, <1>4

\* The host: it fills a request, or the request fails.
LEMMA ListeningHost ==
    ASSUME TypeOK, NEW o \in OutEps, Listening(o), NEW e \in Eps, HostStep(e)
    PROVE  Listening(o)'
<1>1. /\ listen \in [OutEps -> Seq(Nat)] /\ gWork \in [OutEps -> Seq(Nat)]
      /\ sent \in [OutEps -> Seq(Nat)]
  BY DEF TypeOK, GadgetTypeOK
<1>2. UNCHANGED <<gEps, dying, powered, gEnables>>
  BY DEF HostStep, HostRead, HostWrite, RequestError, configVars
<1>3. CASE listen'[o] = listen[o] /\ gWork'[o] = gWork[o] /\ sent'[o] = sent[o]
  BY <1>2, <1>3, ListeningUnchanged
<1>4. CASE HostWrite(o)
  <2>1. /\ listen[o] # <<>> /\ listen'[o] = Tail(listen[o])
        /\ sent'[o] = Append(sent[o], Head(listen[o]))
        /\ gWork'[o] = Append(gWork[o], Len(sent[o]) + 1)
    BY <1>1, <1>4 DEF HostWrite
  <2> QED
    BY <1>2, <2>1, SoundFill DEF Listening, Healthy, Fault
<1>5. CASE RequestError(o)
  <2>1. /\ ~Healthy /\ gWork' = gWork /\ sent' = sent
        /\ \/ listen'[o] = listen[o]
           \/ listen[o] # <<>> /\ listen'[o] = Tail(listen[o])
    BY <1>1, <1>5 DEF RequestError, Healthy
  <2> QED
    BY <1>2, <1>3, <2>1, SoundFill DEF Listening, Healthy, Fault
<1> QED
  BY <1>1, <1>3, <1>4, <1>5 DEF HostStep, HostRead, HostWrite, RequestError

\* The worker of an endpoint: the endpoint listens again, or not.
LEMMA ListeningWork ==
    ASSUME TypeOK, NEW o \in OutEps, Listening(o), NEW e \in Eps, GadgetWorks(e)
    PROVE  Listening(o)'
<1>1. /\ listen \in [OutEps -> Seq(Nat)] /\ gWork \in [OutEps -> Seq(Nat)]
  BY DEF TypeOK, GadgetTypeOK
<1>2. UNCHANGED <<gEps, dying, powered, gEnables, sent>>
  BY DEF GadgetWorks, WorkConsumed, WorkOut, RecvIn, configVars
<1>3. CASE listen'[o] = listen[o] /\ gWork'[o] = gWork[o]
  BY <1>2, <1>3, ListeningUnchanged
<1>4. CASE WorkOut(o)
  <2>1. PICK i \in DOMAIN gWork[o] : WorkOutAt(o, i)
    BY <1>4, WorkOutIs
  <2>2. /\ gWork'[o] = RemoveAt(gWork[o], i)
        /\ \/ powered[o] /\ listen'[o] = Append(listen[o], sent[o][gWork[o][i]])
           \/ (~powered[o] \/ ~Healthy) /\ listen'[o] = listen[o]
    BY <1>1, <2>1 DEF WorkOutAt
  <2>3. CASE powered[o] /\ listen'[o] = Append(listen[o], sent[o][gWork[o][i]])
    <3> DEFINE L == listen[o]
               V == RemoveAt(gWork[o], i)
               K == Append(L, sent[o][gWork[o][i]])
    <3>1. Sound(L, gWork[o], sent[o], gEnables[o], gEps[o], dying[o], powered[o])
      BY DEF Listening
    <3>2. /\ Sound(K, V, sent[o], gEnables[o], gEps[o], dying[o], powered[o])
          /\ Hears(L, gWork[o], sent[o], gEps[o], powered[o])
                => Hears(K, V, sent[o], gEps[o], powered[o])
      BY <2>3, <3>1, SoundWork
    <3> QED
      BY <1>2, <2>2, <2>3, <3>2 DEF Listening, Healthy, Fault
  <2>4. CASE (~powered[o] \/ ~Healthy) /\ listen'[o] = listen[o]
    BY <1>2, <2>2, <2>4, SoundWork DEF Listening, Hears, Healthy, Fault
  <2> QED
    BY <2>2, <2>3, <2>4
<1> QED
  BY <1>1, <1>3, <1>4 DEF GadgetWorks, WorkConsumed, WorkOut, RecvIn

LEMMA ListeningAlways == Spec => [](\A o \in OutEps : Listening(o))
<1> DEFINE All == \A o \in OutEps : Listening(o)
<1>1. TypeOK /\ All /\ [Next]_vars => All'
  <2>1. SUFFICES ASSUME TypeOK, [Next]_vars, NEW o \in OutEps, Listening(o)
                 PROVE  Listening(o)'
    OBVIOUS
  <2>2. CASE UNCHANGED gadgetVars
    BY <2>1, <2>2, ListeningUnchanged DEF gadgetVars, configVars
  <2>3. ASSUME NEW e \in Eps, GadgetConfigures(e) \/ HostStep(e) \/ GadgetWorks(e)
        PROVE  Listening(o)'
    BY <2>1, <2>3, ListeningConfigured, ListeningHost, ListeningWork
  <2>4. ASSUME NEW e \in Eps, DriverConfigures(e) \/ DeviceStep(e) \/ DriverWorks(e) \/ Network(e)
        PROVE  UNCHANGED gadgetVars
    BY <2>4 DEF DriverConfigures, DeviceStep, DriverWorks, Network
  <2> QED
    BY <2>1, <2>2, <2>3, <2>4 DEF Next, vars
<1> QED
  BY ListeningInit, TypeCorrect, <1>1, PTL DEF Spec

\* The requests of an endpoint in one queue.
LEMMA RequestsOf ==
    ASSUME NEW o \in OutEps, Listening(o)
    PROVE  /\ Requests(o) \in Seq(Nat) /\ IsInjective(Requests(o))
           /\ Range(Requests(o)) = Range(listen[o]) \cup {sent[o][m] : m \in Range(gWork[o])}
<1> DEFINE L == listen[o]
           W == gWork[o]
           S == sent[o]
           Q == [i \in DOMAIN W |-> S[W[i]]]
<1>1. Sound(L, W, S, gEnables[o], gEps[o], dying[o], powered[o])
  BY DEF Listening
<1>2. /\ L \in Seq(Nat) /\ IsInjective(L)
      /\ \A i \in DOMAIN W : W[i] \in Range(W) /\ S[W[i]] \in Nat
      /\ \A i, j \in DOMAIN W : W[i] = W[j] => i = j
      /\ \A m, k \in Range(W) : S[m] = S[k] => m = k
      /\ \A m \in Range(W) : S[m] \notin Range(L)
  <2> HIDE DEF L, W, S
  <2> QED
    BY <1>1 DEF Sound, Range, IsInjective
<1>3. Q \in Seq(Nat) /\ DOMAIN Q = DOMAIN W /\ \A i \in DOMAIN W : Q[i] = S[W[i]]
  <2>1. W \in Seq(Nat)
    BY <1>1 DEF Sound
  <2>2. DOMAIN W = 1..Len(W) /\ Len(W) \in Nat
    BY <2>1, LenProperties
  <2>3. Q \in [1..Len(W) -> Nat]
    BY <1>2, <2>2
  <2>4. Q \in Seq(Nat)
    BY <2>2, <2>3, IsASeq
  <2> QED
    BY <2>4
<1> HIDE DEF L, W, S, Q
<1>4. Range(Q) = {S[m] : m \in Range(W)}
  BY <1>3 DEF Range
<1>5. IsInjective(Q)
  BY <1>2, <1>3 DEF IsInjective
<1>6. Range(L) \cap Range(Q) = {}
  BY <1>2, <1>4
<1>7. /\ L \o Q \in Seq(Nat) /\ Range(L \o Q) = Range(L) \cup Range(Q)
      /\ IsInjective(L \o Q)
  BY <1>2, <1>3, <1>5, <1>6, ConcatHolds
<1> QED
  BY <1>4, <1>7 DEF Requests, L, W, S, Q

\* For any endpoints, faults and bounds, and however often the active setting is
\* selected again: ep_gadget_recv_usb and enable_interface never give an endpoint_t
\* a second OUT request (gadget.c:342-405, 900-917).
THEOREM SingleListener == Spec => []OneListener
<1>1. (\A o \in OutEps : Listening(o)) => OneListener
  BY RequestsOf DEF OneListener
<1> QED
  BY ListeningAlways, <1>1, PTL

\* Only a failed send, submission or request can leave the newest endpoint_t of an
\* enabled OUT endpoint deaf (gadget.c:904): without these it always has its request,
\* whatever is lost or reordered on the way and however the endpoints are
\* reconfigured.
THEOREM ListensUnlessFault ==
    ASSUME ~Fault("send"), ~Fault("submit"), ~Fault("abort")
    PROVE  Spec => []StillListening
<1>1. (\A o \in OutEps : Listening(o)) => StillListening
  BY RequestsOf DEF Listening, Hears, StillListening, Healthy
<1> QED
  BY ListeningAlways, <1>1, PTL

(***************************************************************************)
(* Each direction of each endpoint implements the lossy pipe, as long as   *)
(* datagrams keep their order.                                             *)
(*                                                                         *)
(* A direction is three queues in a row: front, towards the receiver, the  *)
(* datagrams in the middle, and back; the pipe holds front \o middle \o    *)
(* back.  A step appends to the back, takes from the front, moves the      *)
(* first payload of a queue to the end of the one before it, or drops      *)
(* neighbouring payloads of one queue (Flows).                             *)
(***************************************************************************)

\* Concatenation as a function of its own, for the provers to take as it is.
Cat(x, y) == x \o y
Queue     == Seq(Nat)

LEMMA CatAssociative ==
    ASSUME NEW S, NEW x \in Seq(S), NEW y \in Seq(S), NEW z \in Seq(S)
    PROVE  Cat(Cat(x, y), z) = Cat(x, Cat(y, z))
  BY ConcatAssociative DEF Cat

LEMMA Monoid ==
    /\ <<>> \in Queue
    /\ \A x, y \in Queue : Cat(x, y) \in Queue
    /\ \A x, y, z \in Queue : Cat(Cat(x, y), z) = Cat(x, Cat(y, z))
    /\ \A x \in Queue : Cat(<<>>, x) = x
    /\ \A x \in Queue, d \in Nat : <<d>> \in Queue /\ Append(x, d) = Cat(x, <<d>>)
<1>1. <<>> \in Queue
  BY EmptySeq DEF Queue
<1>2. \A x, y \in Queue : Cat(x, y) \in Queue
  BY ConcatProperties DEF Cat, Queue
<1>3. \A x, y, z \in Queue : Cat(Cat(x, y), z) = Cat(x, Cat(y, z))
  BY CatAssociative, SMT DEF Queue
<1>4. \A x \in Queue : Cat(<<>>, x) = x
  BY ConcatEmptySeq DEF Cat, Queue
<1>5. \A d \in Nat : <<d>> \in Queue
  BY DEF Queue
<1>6. \A x \in Queue, d \in Nat : Append(x, d) = Cat(x, <<d>>)
  BY AppendIsConcat DEF Cat, Queue
<1> QED
  BY <1>1, <1>2, <1>3, <1>4, <1>5, <1>6

\* A queue around one of its payloads.
LEMMA Around ==
    ASSUME NEW s \in Seq(Nat), NEW i \in DOMAIN s
    PROVE  \E p, q \in Seq(Nat) :
              /\ s[i] \in Nat
              /\ s = (p \o <<s[i]>>) \o q
              /\ RemoveAt(s, i) = p \o q
              /\ i = 1 => p = <<>> /\ q = Tail(s) /\ s[i] = Head(s)
              /\ i # 1 => p # <<>>
<1> DEFINE p == SubSeq(s, 1, i - 1)
           q == SubSeq(s, i + 1, Len(s))
<1>1. Len(s) \in Nat /\ i \in 1..Len(s)
  BY LenProperties
<1>2. s # <<>> /\ 1 \in 1..Len(s) /\ i \in 1..Len(s)
      /\ i \in 0..Len(s) /\ Len(s) \in i..Len(s) /\ 1 \in 1..Len(s)+1
  BY <1>1, EmptySeq
<1>3. \A j \in 1..Len(s) : s[j] \in Nat
  BY ElementOfSeq
<1>4. p \in Seq(Nat) /\ q \in Seq(Nat)
  BY <1>1, <1>3, SubSeqProperties
<1>5. SubSeq(s, 1, i) = p \o <<s[i]>>
  BY <1>1, <1>2, SubSeqRecursiveSecond
<1>6. SubSeq(s, 1, i) \o q = SubSeq(s, 1, Len(s))
  <2>1. i \in 1 - 1..Len(s)
    BY <1>1
  <2> QED
    BY <1>2, <2>1, ConcatAdjacentSubSeq
<1>7. s = (p \o <<s[i]>>) \o q
  BY <1>5, <1>6, SubSeqFull
<1>8. RemoveAt(s, i) = p \o q
  BY DEF RemoveAt
<1>9. i = 1 => p = <<>> /\ q = Tail(s) /\ s[i] = Head(s)
  <2>1. SubSeq(s, 1, 0) = <<>>
    BY SubSeqEmpty
  <2>2. Tail(s) = SubSeq(s, 2, Len(s))
    BY <1>2, TailIsSubSeq
  <2>3. Head(s) = s[1]
    BY <1>2
  <2> QED
    BY <2>1, <2>2, <2>3
<1>10. i # 1 => p # <<>>
  <2>1. i # 1 => Len(p) = i - 1 /\ i - 1 # 0
    BY <1>1, <1>3, SubSeqProperties
  <2> QED
    BY <2>1, EmptySeq
<1> QED
  BY <1>1, <1>3, <1>4, <1>7, <1>8, <1>9, <1>10

\* A sequence put together from two or three: its parts.
LEMMA Reassociate ==
    ASSUME NEW x \in Seq(Nat), NEW y \in Seq(Nat), NEW z \in Seq(Nat)
    PROVE  (x \o y) \o z = x \o (y \o z)
<1>1. Cat(Cat(x, y), z) = Cat(x, Cat(y, z))
  BY CatAssociative, SMT
<1> QED
  BY <1>1 DEF Cat

LEMMA CatElements ==
    ASSUME NEW x \in Seq(Nat), NEW y \in Seq(Nat)
    PROVE  /\ Cat(x, y) \in Seq(Nat)
           /\ Len(Cat(x, y)) = Len(x) + Len(y)
           /\ \A k \in 1..Len(x) : Cat(x, y)[k] = x[k]
           /\ \A k \in 1..Len(y) : Cat(x, y)[Len(x) + k] = y[k]
<1>1. Len(x) \in Nat /\ Len(y) \in Nat
  BY LenProperties
<1>2. /\ Cat(x, y) \in Seq(Nat)
      /\ Len(Cat(x, y)) = Len(x) + Len(y)
      /\ \A k \in 1..Len(x) + Len(y) :
            Cat(x, y)[k] = IF k <= Len(x) THEN x[k] ELSE y[k - Len(x)]
  BY ConcatProperties, Zenon DEF Cat
<1>3. ASSUME NEW k \in 1..Len(x) PROVE Cat(x, y)[k] = x[k]
  <2>1. k \in 1..Len(x) + Len(y) /\ k <= Len(x)
    BY <1>1
  <2> QED
    BY <1>2, <2>1, Zenon
<1>4. ASSUME NEW k \in 1..Len(y) PROVE Cat(x, y)[Len(x) + k] = y[k]
  <2>1. Len(x) + k \in 1..Len(x) + Len(y) /\ ~(Len(x) + k <= Len(x)) /\ (Len(x) + k) - Len(x) = k
    BY <1>1
  <2> QED
    BY <1>2, <2>1, Zenon
<1> QED
  BY <1>2, <1>3, <1>4

LEMMA Within ==
    ASSUME NEW x \in Seq(Nat), NEW y \in Seq(Nat), NEW z \in Seq(Nat)
    PROVE  SubSeq(x \o (y \o z), Len(x) + 1, Len(x) + Len(y)) = y
<1> DEFINE yz == Cat(y, z)
           t == Cat(x, yz)
           u == SubSeq(t, Len(x) + 1, Len(x) + Len(y))
<1>1. Len(x) \in Nat /\ Len(y) \in Nat /\ Len(z) \in Nat
  BY LenProperties
<1>2. /\ yz \in Seq(Nat) /\ Len(yz) = Len(y) + Len(z)
      /\ \A k \in 1..Len(y) : yz[k] = y[k]
  BY CatElements
<1> HIDE DEF yz
<1>3. /\ t \in Seq(Nat) /\ Len(t) = Len(x) + Len(yz)
      /\ \A k \in 1..Len(yz) : t[Len(x) + k] = yz[k]
  BY <1>2, CatElements
<1> HIDE DEF t
<1>4. ASSUME NEW k \in 1..Len(y)
      PROVE  (Len(x) + 1) + k - 1 = Len(x) + k /\ k \in 1..Len(yz) /\ t[Len(x) + k] = y[k]
  <2>1. (Len(x) + 1) + k - 1 = Len(x) + k /\ k \in 1..Len(yz)
    BY <1>1, <1>2
  <2> QED
    BY <1>2, <1>3, <2>1
<1>5. /\ u \in Seq(Nat) /\ Len(u) = Len(y)
      /\ \A k \in 1..Len(y) : u[k] = t[(Len(x) + 1) + k - 1]
  <2>1. \A k \in Len(x) + 1..Len(x) + Len(y) : t[k] \in Nat
    <3>1. ASSUME NEW k \in Len(x) + 1..Len(x) + Len(y) PROVE k \in 1..Len(t)
      BY <1>1, <1>2, <1>3
    <3> QED
      BY <1>3, <3>1, ElementOfSeq
  <2>2. /\ Len(x) + 1 \in Int /\ Len(x) + Len(y) \in Int
        /\ (Len(x) + Len(y)) - (Len(x) + 1) + 1 = Len(y)
        /\ (IF Len(x) + 1 <= Len(x) + Len(y) THEN Len(y) ELSE 0) = Len(y)
    BY <1>1
  <2> DEFINE m == Len(x) + 1
             n == Len(x) + Len(y)
  <2>3. /\ SubSeq(t, m, n) \in Seq(Nat)
        /\ Len(SubSeq(t, m, n)) = IF m <= n THEN n - m + 1 ELSE 0
        /\ \A k \in 1..n - m + 1 : SubSeq(t, m, n)[k] = t[m + k - 1]
    <3>1. m \in Int /\ n \in Int /\ \A k \in m..n : t[k] \in Nat
      BY <2>1, <2>2
    <3> HIDE DEF m, n
    <3> QED
      BY <3>1, SubSeqProperties
  <2>4. n - m + 1 = Len(y) /\ (IF m <= n THEN n - m + 1 ELSE 0) = Len(y)
    BY <2>2
  <2> QED
    BY <2>3, <2>4, Zenon
<1> HIDE DEF u
<1>6. u = y
  <2>1. \A k \in 1..Len(u) : u[k] = y[k]
    BY <1>4, <1>5
  <2> QED
    BY <1>5, <2>1, SeqEqual
<1> QED
  BY <1>6 DEF u, t, yz, Cat

LEMMA Split ==
    ASSUME NEW x \in Seq(Nat), NEW y \in Seq(Nat)
    PROVE  /\ SubSeq(x \o y, 1, Len(x)) = x
           /\ SubSeq(x \o y, Len(x) + 1, Len(x \o y)) = y
<1>1. /\ <<>> \in Seq(Nat) /\ Len(<<>>) = 0 /\ x \o y \in Seq(Nat)
      /\ Len(x) \in Nat /\ Len(y) \in Nat /\ Len(x \o y) = Len(x) + Len(y)
  BY EmptySeq, LenProperties, ConcatProperties
<1>2. SubSeq(<<>> \o (x \o y), 0 + 1, 0 + Len(x)) = x
  BY <1>1, Within
<1>3. <<>> \o (x \o y) = x \o y /\ y \o <<>> = y
  BY <1>1, ConcatEmptySeq
<1>4. SubSeq(x \o (y \o <<>>), Len(x) + 1, Len(x) + Len(y)) = y
  BY <1>1, Within
<1> QED
  BY <1>1, <1>2, <1>3, <1>4

\* What Lose of the pipe does.
Drops(t, u) == \E i, j \in DOMAIN t :
    i <= j /\ u = SubSeq(t, 1, i - 1) \o SubSeq(t, j + 1, Len(t))

\* Neighbours anywhere in the pipe may be lost.
LEMMA DropMiddle ==
    ASSUME NEW p \in Seq(Nat), NEW m \in Seq(Nat), NEW q \in Seq(Nat), m # <<>>
    PROVE  Drops((p \o m) \o q, p \o q)
<1> DEFINE pm == p \o m
           t == pm \o q
           i == Len(p) + 1
           j == Len(p) + Len(m)
<1>1. /\ Len(p) \in Nat /\ Len(m) \in Nat \ {0} /\ Len(q) \in Nat
  BY LenProperties, EmptySeq
<1>2. pm \in Seq(Nat) /\ Len(pm) = j
  BY ConcatProperties
<1>3. t \in Seq(Nat) /\ Len(t) = j + Len(q)
  BY <1>2, ConcatProperties
<1>4. t = p \o (m \o q) /\ m \o q \in Seq(Nat)
  BY Reassociate, ConcatProperties
<1>5. SubSeq(t, 1, i - 1) = p
  <2>1. SubSeq(p \o (m \o q), 1, Len(p)) = p
    BY <1>4, Split
  <2>2. i - 1 = Len(p)
    BY <1>1
  <2> QED
    BY <1>4, <2>1, <2>2
<1>6. SubSeq(t, j + 1, Len(t)) = q
  <2>1. SubSeq(t, Len(pm) + 1, Len(t)) = q
    <3> HIDE DEF pm
    <3> QED
      BY <1>2, Split
  <2> QED
    BY <1>2, <2>1
<1>7. i \in DOMAIN t /\ j \in DOMAIN t /\ i <= j
  <2>1. DOMAIN t = 1..Len(t)
    BY <1>3, LenProperties
  <2> QED
    BY <1>1, <1>3, <2>1
<1> QED
  BY <1>5, <1>6, <1>7 DEF Drops

\* What Overtake of the pipe does.
Passes(t, u) == \E i, j \in DOMAIN t :
    /\ i < j
    /\ u = SubSeq(t, 1, i - 1) \o <<t[j]>> \o SubSeq(t, i, j - 1) \o SubSeq(t, j + 1, Len(t))

\* A payload may pass those before it.
LEMMA PassMiddle ==
    ASSUME NEW x \in Seq(Nat), NEW p \in Seq(Nat), NEW d \in Nat, NEW q \in Seq(Nat), p # <<>>
    PROVE  Passes(((x \o p) \o <<d>>) \o q, ((x \o <<d>>) \o p) \o q)
<1> DEFINE h == <<d>>
           xp == x \o p
           xph == xp \o h
           t == xph \o q
           i == Len(x) + 1
           j == Len(xp) + 1
<1>1. /\ h \in Seq(Nat) /\ Len(h) = 1 /\ h[1] = d
      /\ Len(x) \in Nat /\ Len(p) \in Nat \ {0} /\ Len(q) \in Nat
  BY LenProperties, EmptySeq
<1>2. xp \in Seq(Nat) /\ Len(xp) = Len(x) + Len(p)
  BY ConcatProperties
<1> HIDE DEF h
<1>3. /\ xph \in Seq(Nat) /\ Len(xph) = j
      /\ xph[j] = d
  <2> HIDE DEF xp
  <2>1. /\ Cat(xp, h) \in Seq(Nat) /\ Len(Cat(xp, h)) = Len(xp) + Len(h)
        /\ \A k \in 1..Len(h) : Cat(xp, h)[Len(xp) + k] = h[k]
    BY <1>1, <1>2, CatElements
  <2>2. 1 \in 1..Len(h)
    BY <1>1
  <2> QED
    BY <1>1, <2>1, <2>2 DEF Cat
<1>4. /\ t \in Seq(Nat) /\ Len(t) = j + Len(q)
      /\ t[j] = d
  <2> HIDE DEF xph, j
  <2>1. /\ Cat(xph, q) \in Seq(Nat) /\ Len(Cat(xph, q)) = Len(xph) + Len(q)
        /\ \A k \in 1..Len(xph) : Cat(xph, q)[k] = xph[k]
    BY <1>3, CatElements
  <2>2. j \in 1..Len(xph)
    BY <1>1, <1>2, <1>3 DEF j
  <2> QED
    BY <1>3, <2>1, <2>2 DEF Cat
<1>5. t = xp \o (h \o q) /\ h \o q \in Seq(Nat)
  <2> HIDE DEF xp
  <2> QED
    BY <1>1, <1>2, Reassociate, ConcatProperties
<1>6. t = x \o (p \o (h \o q)) /\ p \o (h \o q) \in Seq(Nat)
  <2>1. xp \o (h \o q) = x \o (p \o (h \o q)) /\ p \o (h \o q) \in Seq(Nat)
    BY <1>5, Reassociate, ConcatProperties
  <2> QED
    BY <1>5, <2>1
<1>7. SubSeq(t, 1, i - 1) = x
  <2>1. SubSeq(x \o (p \o (h \o q)), 1, Len(x)) = x /\ i - 1 = Len(x)
    BY <1>1, <1>6, Split
  <2> QED
    BY <1>6, <2>1
<1>8. SubSeq(t, j + 1, Len(t)) = q
  <2>1. SubSeq(t, Len(xph) + 1, Len(t)) = q
    <3> HIDE DEF xph
    <3> QED
      BY <1>3, Split
  <2> QED
    BY <1>3, <2>1
<1>9. SubSeq(t, i, j - 1) = p
  <2>1. SubSeq(x \o (p \o (h \o q)), Len(x) + 1, Len(x) + Len(p)) = p
    BY <1>5, Within
  <2>2. j - 1 = Len(x) + Len(p)
    BY <1>1, <1>2
  <2> QED
    BY <1>6, <2>1, <2>2
<1>10. i \in DOMAIN t /\ j \in DOMAIN t /\ i < j
  <2>1. DOMAIN t = 1..Len(t)
    BY <1>4, LenProperties
  <2> QED
    BY <1>1, <1>2, <1>4, <2>1
<1>11. ((x \o h) \o p) \o q
          = SubSeq(t, 1, i - 1) \o <<t[j]>> \o SubSeq(t, i, j - 1) \o SubSeq(t, j + 1, Len(t))
  BY <1>4, <1>7, <1>8, <1>9 DEF h
<1> HIDE DEF t, i, j
<1>12. Passes(t, ((x \o h) \o p) \o q)
  BY <1>10, <1>11 DEF Passes
<1> QED
  BY <1>12 DEF t, h

\* Three queues in a row as one: what a step at one of them is to the whole.
Row(a, b, c) == Cat(Cat(a, b), c)

LEMMA RowSteps ==
    ASSUME NEW a \in Queue, NEW b \in Queue, NEW c \in Queue
    PROVE  /\ \A d \in Nat : Row(a, b, Append(c, d)) = Append(Row(a, b, c), d)
           /\ c # <<>> => /\ Row(a, Append(b, Head(c)), Tail(c)) = Row(a, b, c)
                          /\ Drops(Row(a, b, c), Row(a, b, Tail(c)))
           /\ \A i \in DOMAIN c : Drops(Row(a, b, c), Row(a, b, RemoveAt(c, i)))
           /\ b # <<>> => Row(Append(a, Head(b)), Tail(b), c) = Row(a, b, c)
           /\ \A i \in DOMAIN b : Drops(Row(a, b, c), Row(a, RemoveAt(b, i), c))
           /\ a # <<>> => /\ Row(a, b, c) # <<>>
                          /\ Head(Row(a, b, c)) = Head(a)
                          /\ Tail(Row(a, b, c)) = Row(Tail(a), b, c)
                          /\ Drops(Row(a, b, c), Row(Tail(a), b, c))
                          /\ Drops(Row(a, b, c), Row(<<>>, b, c))
<1> USE DEF Row
<1>1. \A p, m, q \in Queue : m # <<>> => Drops(Cat(Cat(p, m), q), Cat(p, q))
  <2> SUFFICES ASSUME NEW p \in Seq(Nat), NEW m \in Seq(Nat), NEW q \in Seq(Nat), m # <<>>
               PROVE  Drops((p \o m) \o q, p \o q)
    BY DEF Cat, Queue
  <2> QED
    BY DropMiddle
<1>2. \A s \in Queue : s # <<>> =>
          /\ Head(s) \in Nat /\ Tail(s) \in Queue
          /\ s = Cat(<<Head(s)>>, Tail(s)) /\ <<Head(s)>> # <<>>
  <2> SUFFICES ASSUME NEW s \in Queue, s # <<>>
               PROVE  /\ Head(s) \in Nat /\ Tail(s) \in Queue
                      /\ s = Cat(<<Head(s)>>, Tail(s))
    OBVIOUS
  <2>1. 1 \in DOMAIN s
    <3>1. s \in Seq(Nat)
      BY DEF Queue
    <3>2. Len(s) \in Nat /\ DOMAIN s = 1..Len(s)
      BY <3>1, LenProperties
    <3>3. Len(s) # 0
      BY <3>1, EmptySeq
    <3> QED
      BY <3>2, <3>3
  <2>2. PICK p, q \in Queue : /\ s[1] \in Nat
                              /\ s = Cat(Cat(p, <<s[1]>>), q)
                              /\ p = <<>> /\ q = Tail(s) /\ s[1] = Head(s)
    <3>1. \E p, q \in Seq(Nat) : /\ s[1] \in Nat
                                  /\ s = (p \o <<s[1]>>) \o q
                                  /\ p = <<>> /\ q = Tail(s) /\ s[1] = Head(s)
      <4>1. s \in Seq(Nat)
        BY DEF Queue
      <4>2. \A i \in DOMAIN s : \E p, q \in Seq(Nat) :
                /\ s[i] \in Nat
                /\ s = (p \o <<s[i]>>) \o q
                /\ i = 1 => p = <<>> /\ q = Tail(s) /\ s[i] = Head(s)
        BY <4>1, Around
      <4> QED
        BY <2>1, <4>2
    <3> QED
      BY <3>1 DEF Queue, Cat
  <2>3. Cat(p, <<s[1]>>) = <<s[1]>>
    BY <2>2, Monoid
  <2> QED
    BY <2>2, <2>3
<1>3. ASSUME NEW d \in Nat PROVE Row(a, b, Append(c, d)) = Append(Row(a, b, c), d)
  <2>1. Append(c, d) = Cat(c, <<d>>) /\ <<d>> \in Queue /\ Cat(a, b) \in Queue
    BY Monoid
  <2>2. Cat(Cat(a, b), c) \in Queue
    BY <2>1, Monoid
  <2>3. Append(Cat(Cat(a, b), c), d) = Cat(Cat(Cat(a, b), c), <<d>>)
    BY <2>2, Monoid
  <2>4. Cat(Cat(Cat(a, b), c), <<d>>) = Cat(Cat(a, b), Cat(c, <<d>>))
    BY <2>1, Monoid
  <2> QED
    BY <2>1, <2>3, <2>4
<1>4. ASSUME c # <<>>
      PROVE  /\ Row(a, Append(b, Head(c)), Tail(c)) = Row(a, b, c)
             /\ Drops(Row(a, b, c), Row(a, b, Tail(c)))
  <2>1. PICK h, r \in Queue : /\ c = Cat(h, r) /\ h # <<>> /\ r = Tail(c)
                              /\ Append(b, Head(c)) = Cat(b, h)
    <3>1. Head(c) \in Nat /\ Tail(c) \in Queue /\ c = Cat(<<Head(c)>>, Tail(c))
          /\ <<Head(c)>> # <<>>
      BY <1>2, <1>4
    <3>2. <<Head(c)>> \in Queue /\ Append(b, Head(c)) = Cat(b, <<Head(c)>>)
      BY <3>1, Monoid
    <3> QED
      BY <3>1, <3>2
  <2>2. Cat(Cat(a, Cat(b, h)), r) = Cat(Cat(a, b), c)
    BY <2>1, Monoid
  <2>3. Cat(Cat(Cat(a, b), h), r) = Cat(Cat(a, b), c) /\ Cat(a, b) \in Queue
    BY <2>1, Monoid
  <2> QED
    BY <1>1, <2>1, <2>2, <2>3
<1>5. ASSUME b # <<>> PROVE Row(Append(a, Head(b)), Tail(b), c) = Row(a, b, c)
  <2>1. PICK h, r \in Queue : /\ b = Cat(h, r) /\ r = Tail(b)
                              /\ Append(a, Head(b)) = Cat(a, h)
    <3>1. Head(b) \in Nat /\ Tail(b) \in Queue /\ b = Cat(<<Head(b)>>, Tail(b))
      BY <1>2, <1>5
    <3>2. <<Head(b)>> \in Queue /\ Append(a, Head(b)) = Cat(a, <<Head(b)>>)
      BY <3>1, Monoid
    <3> QED
      BY <3>1, <3>2
  <2>2. Cat(Cat(a, h), r) = Cat(a, Cat(h, r))
    BY Monoid
  <2> QED
    BY <2>1, <2>2
<1>6. ASSUME NEW i \in DOMAIN b PROVE Drops(Row(a, b, c), Row(a, RemoveAt(b, i), c))
  <2>1. PICK p, h, q \in Queue : /\ b = Cat(Cat(p, h), q) /\ h # <<>>
                                 /\ RemoveAt(b, i) = Cat(p, q)
    <3>1. \E p, q \in Seq(Nat) : /\ b[i] \in Nat
                                  /\ b = (p \o <<b[i]>>) \o q
                                  /\ RemoveAt(b, i) = p \o q
      BY Around DEF Queue
    <3>2. b[i] \in Nat => <<b[i]>> \in Queue /\ <<b[i]>> # <<>>
      BY Monoid
    <3> QED
      BY <3>1, <3>2 DEF Queue, Cat
  <2>2. Cat(Cat(a, b), c) = Cat(Cat(Cat(a, p), h), Cat(q, c))
    BY <2>1, Monoid
  <2>3. Cat(Cat(a, RemoveAt(b, i)), c) = Cat(Cat(a, p), Cat(q, c))
    BY <2>1, Monoid
  <2>4. Cat(a, p) \in Queue /\ Cat(q, c) \in Queue
    BY Monoid
  <2> QED
    BY <1>1, <2>1, <2>2, <2>3, <2>4
<1>7. ASSUME a # <<>>
      PROVE  /\ Row(a, b, c) # <<>>
             /\ Head(Row(a, b, c)) = Head(a)
             /\ Tail(Row(a, b, c)) = Row(Tail(a), b, c)
             /\ Drops(Row(a, b, c), Row(Tail(a), b, c))
             /\ Drops(Row(a, b, c), Row(<<>>, b, c))
  <2> DEFINE h == <<Head(a)>>
             u == Row(Tail(a), b, c)
  <2>1. /\ Head(a) \in Nat /\ h \in Queue /\ h # <<>>
        /\ Tail(a) \in Queue /\ u \in Queue /\ Cat(b, c) \in Queue
    BY <1>2, <1>7, Monoid
  <2>2. Row(a, b, c) = Cat(h, u)
    <3> HIDE DEF h
    <3>1. a = Cat(h, Tail(a))
      BY <1>2, <1>7 DEF h
    <3> QED
      BY <2>1, <3>1, Monoid
  <2> HIDE DEF u
  <2>3. Cat(h, u) # <<>> /\ Head(Cat(h, u)) = Head(a) /\ Tail(Cat(h, u)) = u
    <3> DEFINE t == h \o u
    <3>1. /\ t \in Seq(Nat) /\ Len(t) = 1 + Len(u) /\ Len(u) \in Nat
          /\ t[1] = Head(a) /\ \A i \in 1..Len(u) : t[i + 1] = u[i]
      <4>1. /\ h \in Seq(Nat) /\ u \in Seq(Nat)
            /\ Len(h) = 1 /\ h[1] = Head(a) /\ Len(u) \in Nat
        BY <2>1, LenProperties DEF Queue
      <4>2. /\ t \in Seq(Nat) /\ Len(t) = Len(h) + Len(u)
            /\ \A i \in 1..Len(h) + Len(u) :
                   t[i] = IF i <= Len(h) THEN h[i] ELSE u[i - Len(h)]
        BY <4>1, ConcatProperties
      <4> HIDE DEF t, h
      <4> QED
        BY <4>1, <4>2
    <3> HIDE DEF t
    <3>2. t # <<>> /\ Head(t) = t[1]
      BY <3>1, EmptySeq
    <3>3. /\ Tail(t) \in Seq(Nat) /\ Len(Tail(t)) = Len(u)
          /\ \A i \in 1..Len(Tail(t)) : Tail(t)[i] = u[i]
      BY <3>1, <3>2, HeadTailProperties
    <3>4. Tail(t) = u
      BY <2>1, <3>3, SeqEqual DEF Queue
    <3> QED
      BY <3>1, <3>2, <3>4 DEF t, Cat
  <2>4. Drops(Cat(h, u), u)
    <3>1. Cat(<<>>, h) = h /\ Cat(<<>>, u) = u /\ <<>> \in Queue
      BY <2>1, Monoid
    <3> QED
      BY <1>1, <2>1, <3>1
  <2>5. Drops(Row(a, b, c), Row(<<>>, b, c))
    <3>1. Cat(<<>>, a) = a /\ Cat(<<>>, b) = b /\ Cat(<<>>, Cat(b, c)) = Cat(b, c)
          /\ <<>> \in Queue /\ Cat(Cat(a, b), c) = Cat(a, Cat(b, c))
      BY <2>1, Monoid
    <3>2. Drops(Cat(Cat(<<>>, a), Cat(b, c)), Cat(<<>>, Cat(b, c)))
      BY <1>1, <1>7, <2>1, <3>1
    <3> QED
      BY <3>1, <3>2
  <2> QED
    BY <2>2, <2>3, <2>4, <2>5 DEF u
<1>8. ASSUME NEW i \in DOMAIN c PROVE Drops(Row(a, b, c), Row(a, b, RemoveAt(c, i)))
  <2>1. PICK p, h, q \in Queue : /\ c = Cat(Cat(p, h), q) /\ h # <<>>
                                 /\ RemoveAt(c, i) = Cat(p, q)
    <3>1. \E p, q \in Seq(Nat) : /\ c[i] \in Nat
                                  /\ c = (p \o <<c[i]>>) \o q
                                  /\ RemoveAt(c, i) = p \o q
      BY Around DEF Queue
    <3>2. c[i] \in Nat => <<c[i]>> \in Queue /\ <<c[i]>> # <<>>
      BY Monoid
    <3> QED
      BY <3>1, <3>2 DEF Queue, Cat
  <2>2. Cat(Cat(a, b), c) = Cat(Cat(Cat(Cat(a, b), p), h), q)
    BY <2>1, Monoid
  <2>3. Cat(Cat(a, b), RemoveAt(c, i)) = Cat(Cat(Cat(a, b), p), q)
    BY <2>1, Monoid
  <2>4. Cat(Cat(a, b), p) \in Queue
    BY Monoid
  <2> QED
    BY <1>1, <2>1, <2>2, <2>3, <2>4
<1> QED
  BY <1>3, <1>4, <1>5, <1>6, <1>7, <1>8

\* A payload of the last queue that is taken before its turn passes those before it.
LEMMA RowPasses ==
    ASSUME NEW a \in Queue, NEW b \in Queue, NEW c \in Queue, NEW n \in DOMAIN c, n # 1
    PROVE  Passes(Row(a, b, c), Row(a, Append(b, c[n]), RemoveAt(c, n)))
<1>1. PICK p, q \in Seq(Nat) : /\ c[n] \in Nat
                              /\ c = (p \o <<c[n]>>) \o q
                              /\ RemoveAt(c, n) = p \o q
                              /\ p # <<>>
  BY Around DEF Queue
<1> DEFINE d == c[n]
           h == <<d>>
           x == Cat(a, b)
<1>2. x \in Queue /\ p \in Queue /\ q \in Queue /\ h \in Queue /\ Append(b, d) = Cat(b, h)
  BY <1>1, Monoid DEF Queue
<1>3. Passes(Cat(Cat(Cat(x, p), h), q), Cat(Cat(Cat(x, h), p), q))
  <2> HIDE DEF x, d
  <2> QED
    BY <1>1, <1>2, PassMiddle DEF Cat, Queue, d
<1>4. c = Cat(Cat(p, h), q) /\ RemoveAt(c, n) = Cat(p, q)
  BY <1>1 DEF Cat
<1> HIDE DEF h, d
<1>5. Row(a, b, c) = Cat(Cat(Cat(x, p), h), q)
  <2>1. Cat(x, Cat(Cat(p, h), q)) = Cat(Cat(Cat(x, p), h), q)
    <3> HIDE DEF x
    <3> QED
      BY <1>2, Monoid
  <2> QED
    BY <1>4, <2>1 DEF Row
<1>6. Row(a, Append(b, d), RemoveAt(c, n)) = Cat(Cat(Cat(x, h), p), q)
  <2>1. Cat(Cat(a, Cat(b, h)), Cat(p, q)) = Cat(Cat(Cat(Cat(a, b), h), p), q)
    BY <1>2, Monoid
  <2> QED
    BY <1>2, <1>4, <2>1 DEF Row
<1> QED
  BY <1>3, <1>5, <1>6 DEF d

-----------------------------------------------------------------------------
(* A direction, and what a step may do to it *)

Direction == [front : Queue, middle : Queue, back : Queue, put : Nat, got : Queue]

Dir(front, middle, back, put, got) ==
    [front |-> front, middle |-> middle, back |-> back, put |-> put, got |-> got]

Out(o) == Dir(outUrb[o], g2d[o], gWork[o], Len(sent[o]), accepted[o])
In(i)  == Dir(inReq[i], d2g[i], dWork[i], taken[i], read[i])

Flows(q, r) ==
    \/ r = q
    \/ r = Dir(q.front, q.middle, Append(q.back, q.put + 1), q.put + 1, q.got)
    \/ /\ q.back # <<>>
       /\ \/ r = Dir(q.front, Append(q.middle, Head(q.back)), Tail(q.back), q.put, q.got)
          \/ r = Dir(q.front, q.middle, Tail(q.back), q.put, q.got)
    \/ \E n \in DOMAIN q.back :
          r = Dir(q.front, q.middle, RemoveAt(q.back, n), q.put, q.got)
    \/ /\ q.middle # <<>>
       /\ r = Dir(Append(q.front, Head(q.middle)), Tail(q.middle), q.back, q.put, q.got)
    \/ \E n \in DOMAIN q.middle :
          r = Dir(q.front, RemoveAt(q.middle, n), q.back, q.put, q.got)
    \/ /\ q.front # <<>>
       /\ \/ r = Dir(Tail(q.front), q.middle, q.back, q.put, Append(q.got, Head(q.front)))
          \/ r = Dir(Tail(q.front), q.middle, q.back, q.put, q.got)
          \/ r = Dir(<<>>, q.middle, q.back, q.put, q.got)

\* What the worker of a second endpoint_t does, where it does not come first.
Overtakes(q, r) == \E n \in DOMAIN q.back :
    /\ n # 1
    /\ r = Dir(q.front, Append(q.middle, q.back[n]), RemoveAt(q.back, n), q.put, q.got)

\* The same in terms of the pipe.
Contents(q) == Row(q.front, q.middle, q.back)
PipeFlows(q, r) ==
    \/ /\ r.put = q.put + 1 /\ r.got = q.got
       /\ Contents(r) = Append(Contents(q), r.put)
    \/ /\ r.put = q.put /\ Contents(q) # <<>>
       /\ r.got = Append(q.got, Head(Contents(q))) /\ Contents(r) = Tail(Contents(q))
    \/ r.put = q.put /\ r.got = q.got /\ Drops(Contents(q), Contents(r))
    \/ r.put = q.put /\ r.got = q.got /\ Contents(r) = Contents(q)
PipeOvertakes(q, r) == r.put = q.put /\ r.got = q.got /\ Passes(Contents(q), Contents(r))

LEMMA FlowIsPipe ==
    ASSUME NEW q \in Direction, NEW r, Flows(q, r)
    PROVE  PipeFlows(q, r)
<1> DEFINE a == q.front
           b == q.middle
           c == q.back
<1>1. a \in Queue /\ b \in Queue /\ c \in Queue /\ q.put \in Nat
  BY DEF Direction
<1>2. CASE r = q
  BY <1>2 DEF PipeFlows
<1>3. CASE r = Dir(a, b, Append(c, q.put + 1), q.put + 1, q.got)
  <2>1. /\ r.front = a /\ r.middle = b /\ r.back = Append(c, q.put + 1)
        /\ r.put = q.put + 1 /\ r.got = q.got
    BY <1>3 DEF Dir
  <2>2. Row(a, b, Append(c, q.put + 1)) = Append(Row(a, b, c), q.put + 1)
    <3>1. q.put + 1 \in Nat
      BY <1>1
    <3>2. \A d \in Nat : Row(a, b, Append(c, d)) = Append(Row(a, b, c), d)
      <4> HIDE DEF a, b, c
      <4>1. ASSUME NEW x \in Queue, NEW y \in Queue, NEW z \in Queue
            PROVE  \A d \in Nat : Row(x, y, Append(z, d)) = Append(Row(x, y, z), d)
        BY RowSteps, ZenonT(40)
      <4> QED
        BY <1>1, <4>1, Zenon
    <3> QED
      BY <3>1, <3>2
  <2> QED
    BY <2>1, <2>2 DEF PipeFlows, Contents
<1>4. CASE c # <<>> /\ r = Dir(a, Append(b, Head(c)), Tail(c), q.put, q.got)
  <2>1. /\ r.front = a /\ r.middle = Append(b, Head(c)) /\ r.back = Tail(c)
        /\ r.put = q.put /\ r.got = q.got
    BY <1>4 DEF Dir
  <2>2. Row(a, Append(b, Head(c)), Tail(c)) = Row(a, b, c)
    BY <1>1, <1>4, RowSteps, ZenonT(40)
  <2> QED
    BY <2>1, <2>2 DEF PipeFlows, Contents
<1>5. CASE c # <<>> /\ r = Dir(a, b, Tail(c), q.put, q.got)
  <2>1. /\ r.front = a /\ r.middle = b /\ r.back = Tail(c)
        /\ r.put = q.put /\ r.got = q.got
    BY <1>5 DEF Dir
  <2>2. Drops(Row(a, b, c), Row(a, b, Tail(c)))
    BY <1>1, <1>5, RowSteps
  <2> QED
    BY <2>1, <2>2 DEF PipeFlows, Contents
<1>6. CASE b # <<>> /\ r = Dir(Append(a, Head(b)), Tail(b), c, q.put, q.got)
  <2>1. /\ r.front = Append(a, Head(b)) /\ r.middle = Tail(b) /\ r.back = c
        /\ r.put = q.put /\ r.got = q.got
    BY <1>6 DEF Dir
  <2>2. Row(Append(a, Head(b)), Tail(b), c) = Row(a, b, c)
    BY <1>1, <1>6, RowSteps, ZenonT(40)
  <2> QED
    BY <2>1, <2>2 DEF PipeFlows, Contents
<1>7. ASSUME NEW n \in DOMAIN b, r = Dir(a, RemoveAt(b, n), c, q.put, q.got)
      PROVE  PipeFlows(q, r)
  <2>1. /\ r.front = a /\ r.middle = RemoveAt(b, n) /\ r.back = c
        /\ r.put = q.put /\ r.got = q.got
    BY <1>7 DEF Dir
  <2>2. Drops(Row(a, b, c), Row(a, RemoveAt(b, n), c))
    BY <1>1, RowSteps
  <2> QED
    BY <2>1, <2>2 DEF PipeFlows, Contents
<1>8. CASE a # <<>> /\ r = Dir(Tail(a), b, c, q.put, Append(q.got, Head(a)))
  <2>1. /\ r.front = Tail(a) /\ r.middle = b /\ r.back = c
        /\ r.put = q.put /\ r.got = Append(q.got, Head(a))
    BY <1>8 DEF Dir
  <2>2. /\ Row(a, b, c) # <<>> /\ Head(Row(a, b, c)) = Head(a)
        /\ Tail(Row(a, b, c)) = Row(Tail(a), b, c)
    <3> HIDE DEF a, b, c
    <3> QED
      BY <1>1, <1>8, RowSteps
  <2> QED
    BY <2>1, <2>2 DEF PipeFlows, Contents
<1>9. CASE a # <<>> /\ r = Dir(Tail(a), b, c, q.put, q.got)
  <2>1. /\ r.front = Tail(a) /\ r.middle = b /\ r.back = c
        /\ r.put = q.put /\ r.got = q.got
    BY <1>9 DEF Dir
  <2>2. Drops(Row(a, b, c), Row(Tail(a), b, c))
    BY <1>1, <1>9, RowSteps
  <2> QED
    BY <2>1, <2>2 DEF PipeFlows, Contents
<1>10. CASE a # <<>> /\ r = Dir(<<>>, b, c, q.put, q.got)
  <2>1. /\ r.front = <<>> /\ r.middle = b /\ r.back = c
        /\ r.put = q.put /\ r.got = q.got
    BY <1>10 DEF Dir
  <2>2. Drops(Row(a, b, c), Row(<<>>, b, c))
    BY <1>1, <1>10, RowSteps
  <2> QED
    BY <2>1, <2>2 DEF PipeFlows, Contents
<1>11. ASSUME NEW n \in DOMAIN c, r = Dir(a, b, RemoveAt(c, n), q.put, q.got)
      PROVE  PipeFlows(q, r)
  <2>1. /\ r.front = a /\ r.middle = b /\ r.back = RemoveAt(c, n)
        /\ r.put = q.put /\ r.got = q.got
    BY <1>11 DEF Dir
  <2>2. Drops(Row(a, b, c), Row(a, b, RemoveAt(c, n)))
    BY <1>1, RowSteps
  <2> QED
    BY <2>1, <2>2 DEF PipeFlows, Contents
<1> QED
  BY <1>2, <1>3, <1>4, <1>5, <1>6, <1>7, <1>8, <1>9, <1>10, <1>11 DEF Flows

LEMMA OvertakesIsPipe ==
    ASSUME NEW q \in Direction, NEW r, Overtakes(q, r)
    PROVE  PipeOvertakes(q, r)
<1> DEFINE a == q.front
           b == q.middle
           c == q.back
<1>1. a \in Queue /\ b \in Queue /\ c \in Queue
  BY DEF Direction
<1>2. PICK n \in DOMAIN c :
          /\ n # 1
          /\ r = Dir(a, Append(b, c[n]), RemoveAt(c, n), q.put, q.got)
  BY DEF Overtakes
<1>3. /\ r.front = a /\ r.middle = Append(b, c[n]) /\ r.back = RemoveAt(c, n)
      /\ r.put = q.put /\ r.got = q.got
  BY <1>2 DEF Dir
<1>4. Passes(Row(a, b, c), Row(a, Append(b, c[n]), RemoveAt(c, n)))
  BY <1>1, <1>2, RowPasses
<1> QED
  BY <1>3, <1>4 DEF PipeOvertakes, Contents

\* Taking the first payload of a queue from wherever it is.
LEMMA TakesFirst ==
    ASSUME NEW s \in Seq(Nat), 1 \in DOMAIN s
    PROVE  s # <<>> /\ RemoveAt(s, 1) = Tail(s) /\ s[1] = Head(s)
<1>1. s # <<>>
  BY LenProperties, EmptySeq
<1>2. PICK p, q \in Seq(Nat) : /\ RemoveAt(s, 1) = p \o q
                               /\ p = <<>> /\ q = Tail(s) /\ s[1] = Head(s)
  BY Around
<1>3. <<>> \o q = q
  BY ConcatEmptySeq
<1> QED
  BY <1>1, <1>2, <1>3

\* What each action is to an OUT endpoint, when datagrams keep their order.
LEMMA OutFlows ==
    ASSUME TypeOK, ~Fault("reorder"), NEW o \in OutEps, Listening(o), [Next]_vars
    PROVE  Flows(Out(o), Out(o)') \/ (Twice(o) /\ Overtakes(Out(o), Out(o)'))
<1> DEFINE same == UNCHANGED <<outUrb, g2d, gWork, sent, accepted>>
<1>1. /\ outUrb \in [OutEps -> Seq(Nat)] /\ g2d \in [OutEps -> Seq(Nat)]
      /\ gWork \in [OutEps -> Seq(Nat)] /\ sent \in [OutEps -> Seq(Nat)]
      /\ accepted \in [OutEps -> Seq(Nat)] /\ listen \in [OutEps -> Seq(Nat)]
  BY DEF TypeOK, UserlandTypeOK, DriverTypeOK, GadgetTypeOK
<1>2. ASSUME same PROVE Flows(Out(o), Out(o)')
  BY <1>2 DEF Flows, Out, Dir
<1>3. ASSUME NEW e \in Eps, DriverConfigures(e) PROVE Flows(Out(o), Out(o)')
  <2>1. CASE same
    BY <1>2, <2>1
  <2>2. CASE e \in OutEps /\ outUrb' = [outUrb EXCEPT ![e] = <<>>]
             /\ UNCHANGED <<g2d, gWork, sent, accepted>>
    <3>1. outUrb'[o] = outUrb[o] \/ outUrb'[o] = <<>>
      BY <1>1, <2>2
    <3>2. CASE outUrb'[o] = outUrb[o]
      BY <2>2, <3>2 DEF Flows, Out, Dir
    <3>3. CASE outUrb'[o] = <<>> /\ outUrb[o] # <<>>
      BY <2>2, <3>3 DEF Flows, Out, Dir
    <3> QED
      BY <3>1, <3>2, <3>3
  <2>3. same \/ (e \in OutEps /\ outUrb' = [outUrb EXCEPT ![e] = <<>>]
                 /\ UNCHANGED <<g2d, gWork, sent, accepted>>)
    BY <1>3 DEF DriverConfigures, AddEndpoint, FirstPoll, UnlinkEndpoint, FreeEndpoint,
                gadgetVars, configVars, userlandVars, Eps
  <2> QED
    BY <2>1, <2>2, <2>3
<1>4. ASSUME NEW e \in Eps, GadgetConfigures(e) PROVE Flows(Out(o), Out(o)')
  <2>1. same
    BY <1>4 DEF GadgetConfigures, EnableEndpoint, DisableEndpoint, ReleaseEndpoint,
                driverVars, userlandVars
  <2> QED
    BY <1>2, <2>1
<1>5. ASSUME NEW e \in Eps, DeviceStep(e) PROVE Flows(Out(o), Out(o)')
  <2>1. CASE same
    BY <1>2, <2>1
  <2>2. CASE e \in OutEps /\ outUrb[e] # <<>> /\ outUrb' = [outUrb EXCEPT ![e] = Tail(@)]
             /\ \/ accepted' = [accepted EXCEPT ![e] = Append(@, Head(outUrb[e]))]
                \/ accepted' = accepted
             /\ UNCHANGED <<g2d, gWork, sent>>
    <3>1. CASE o # e
      <4>1. outUrb'[o] = outUrb[o] /\ accepted'[o] = accepted[o]
        BY <1>1, <2>2, <3>1
      <4> QED
        BY <2>2, <4>1 DEF Flows, Out, Dir
    <3>2. CASE o = e
      <4>1. /\ outUrb[o] # <<>> /\ outUrb'[o] = Tail(outUrb[o])
            /\ \/ accepted'[o] = Append(accepted[o], Head(outUrb[o]))
               \/ accepted'[o] = accepted[o]
        BY <1>1, <2>2, <3>2
      <4> QED
        BY <2>2, <4>1 DEF Flows, Out, Dir
    <3> QED
      BY <3>1, <3>2
  <2>3. CASE CompleteIn(e) \/ CompleteStall(e)
    BY <1>2, <1>5, <2>3 DEF DeviceStep, CompleteIn, CompleteStall, gadgetVars, configVars, userlandVars
  <2>4. CASE CompleteOut(e) /\ e \in OutEps
    BY <1>5, <2>2, <2>4 DEF DeviceStep, CompleteOut, gadgetVars, configVars, userlandVars
  <2>5. CASE CompleteError(e)
    <3>1. UNCHANGED <<g2d, gWork, sent, accepted>>
      BY <1>5, <2>5 DEF DeviceStep, CompleteError, gadgetVars, configVars, userlandVars
    <3>2. \/ UNCHANGED outUrb
          \/ e \in OutEps /\ outUrb[e] # <<>> /\ outUrb' = [outUrb EXCEPT ![e] = Tail(@)]
      BY <2>5 DEF CompleteError
    <3> QED
      BY <2>1, <2>2, <3>1, <3>2
  <2> QED
    BY <1>5, <2>3, <2>4, <2>5 DEF DeviceStep
<1>6. ASSUME NEW e \in Eps, HostStep(e) PROVE Flows(Out(o), Out(o)')
  <2>1. CASE HostRead(e) \/ RequestError(e)
    BY <1>2, <1>6, <2>1 DEF HostStep, HostRead, RequestError, driverVars, userlandVars
  <2>2. CASE HostWrite(e) /\ e \in OutEps
    <3>1. UNCHANGED <<outUrb, g2d, accepted>>
      BY <1>6, <2>2 DEF HostStep, HostWrite, driverVars, userlandVars
    <3>2. CASE o # e
      <4>1. gWork'[o] = gWork[o] /\ sent'[o] = sent[o]
        BY <1>1, <2>2, <3>2 DEF HostWrite
      <4> QED
        BY <3>1, <4>1 DEF Flows, Out, Dir
    <3>3. CASE o = e
      <4>1. Len(sent'[o]) = Len(sent[o]) + 1
        <5>1. /\ listen[o] # <<>> /\ sent'[o] = Append(sent[o], Head(listen[o]))
              /\ listen[o] \in Seq(Nat) /\ sent[o] \in Seq(Nat)
          BY <1>1, <2>2, <3>3 DEF HostWrite
        <5> QED
          BY <5>1, SeqFacts
      <4>2. gWork'[o] = Append(gWork[o], Len(sent[o]) + 1)
        BY <1>1, <2>2, <3>3 DEF HostWrite
      <4> QED
        BY <3>1, <4>1, <4>2 DEF Flows, Out, Dir
    <3> QED
      BY <3>2, <3>3
  <2> QED
    BY <1>6, <2>1, <2>2 DEF HostStep
<1>7. ASSUME NEW e \in Eps, DriverWorks(e) PROVE Flows(Out(o), Out(o)')
  <2>1. CASE e \in InEps /\ (WorkData(e) \/ WorkAgain(e) \/ RecvAck(e))
    BY <1>2, <1>7, <2>1 DEF DriverWorks, WorkData, WorkAgain, RecvAck, gadgetVars, configVars, userlandVars
  <2>2. CASE e \in OutEps /\ RecvOut(e)
    <3>1. UNCHANGED <<gWork, sent, accepted>>
      BY <1>7, <2>2 DEF DriverWorks, RecvOut, gadgetVars, configVars
    <3>2. PICK i \in DOMAIN g2d[e] :
              /\ Arrives(g2d[e], i)
              /\ g2d' = [g2d EXCEPT ![e] = RemoveAt(@, i)]
              /\ Write(e, g2d[e][i]) \/ UNCHANGED outUrb
      BY <2>2 DEF RecvOut
    <3>3. \/ outUrb' = [outUrb EXCEPT ![e] = Append(@, g2d[e][i])]
          \/ outUrb' = outUrb
      BY <3>2 DEF Write
    <3>4. CASE o # e
      <4>1. outUrb'[o] = outUrb[o] /\ g2d'[o] = g2d[o]
        BY <1>1, <3>2, <3>3, <3>4
      <4> QED
        BY <3>1, <4>1 DEF Flows, Out, Dir
    <3>5. CASE o = e
      <4>1. /\ i \in DOMAIN g2d[o] /\ g2d'[o] = RemoveAt(g2d[o], i)
            /\ outUrb'[o] = Append(outUrb[o], g2d[o][i]) \/ outUrb'[o] = outUrb[o]
        BY <1>1, <2>2, <3>2, <3>3, <3>5
      <4>2. i = 1
        BY <3>2 DEF Arrives
      <4>3. g2d[o] # <<>> /\ RemoveAt(g2d[o], i) = Tail(g2d[o]) /\ g2d[o][i] = Head(g2d[o])
        BY <1>1, <4>1, <4>2, TakesFirst
      <4> QED
        BY <3>1, <4>1, <4>3 DEF Flows, Out, Dir
    <3> QED
      BY <3>4, <3>5
  <2> QED
    BY <1>7, <2>1, <2>2 DEF DriverWorks
<1>8. ASSUME NEW e \in Eps, GadgetWorks(e)
      PROVE  Flows(Out(o), Out(o)') \/ (Twice(o) /\ Overtakes(Out(o), Out(o)'))
  <2>1. CASE e \in InEps /\ (WorkConsumed(e) \/ RecvIn(e))
    BY <1>2, <1>8, <2>1 DEF GadgetWorks, WorkConsumed, RecvIn, driverVars, userlandVars
  <2>2. CASE e \in OutEps /\ WorkOut(e)
    <3>1. UNCHANGED <<outUrb, sent, accepted>>
      BY <1>8, <2>2 DEF GadgetWorks, WorkOut, driverVars
    <3>2. PICK i \in DOMAIN gWork[e] : WorkOutAt(e, i)
      BY <2>2, WorkOutIs
    <3>3. CASE o # e
      <4>1. gWork'[o] = gWork[o] /\ g2d'[o] = g2d[o]
        BY <1>1, <3>2, <3>3 DEF WorkOutAt
      <4> QED
        BY <3>1, <4>1 DEF Flows, Out, Dir
    <3>4. CASE o = e
      <4>1. /\ i \in DOMAIN gWork[o] /\ gWork'[o] = RemoveAt(gWork[o], i)
            /\ g2d'[o] = Append(g2d[o], gWork[o][i]) \/ g2d'[o] = g2d[o]
        BY <1>1, <3>2, <3>4 DEF WorkOutAt
      <4>2. CASE g2d'[o] = g2d[o]
        BY <3>1, <4>1, <4>2 DEF Flows, Out, Dir
      <4>3. CASE g2d'[o] = Append(g2d[o], gWork[o][i]) /\ i = 1
        <5>1. /\ gWork[o] # <<>> /\ RemoveAt(gWork[o], i) = Tail(gWork[o])
              /\ gWork[o][i] = Head(gWork[o])
          BY <1>1, <4>1, <4>3, TakesFirst
        <5> QED
          BY <3>1, <4>1, <4>3, <5>1 DEF Flows, Out, Dir
      <4>4. CASE g2d'[o] = Append(g2d[o], gWork[o][i]) /\ i # 1
        <5>1. Overtakes(Out(o), Out(o)')
          BY <3>1, <4>1, <4>4 DEF Overtakes, Out, Dir
        <5>2. 1 \in DOMAIN gWork[o] /\ sent[o][gWork[o][1]] # sent[o][gWork[o][i]]
          <6>1. gWork[o] \in Seq(Nat)
            BY <1>1
          <6>2. i \in 1..Len(gWork[o]) /\ DOMAIN gWork[o] = 1..Len(gWork[o]) /\ Len(gWork[o]) \in Nat
            BY <4>1, <6>1, LenProperties
          <6>3. 1 \in DOMAIN gWork[o] /\ 1 \in 1..(i - 1)
            BY <4>4, <6>2
          <6> QED
            BY <3>2, <3>4, <6>3 DEF WorkOutAt, OldestOfQueue
        <5>3. Sound(listen[o], gWork[o], sent[o], gEnables[o], gEps[o], dying[o], powered[o])
          BY DEF Listening
        <5>4. Len(gEps[o]) >= 2 \/ (gEps[o] # <<>> /\ dying[o] # 0)
          <6> DEFINE W == gWork[o]
                     S == sent[o]
                     j == 1
          <6>1. /\ Sound(listen[o], W, S, gEnables[o], gEps[o], dying[o], powered[o])
                /\ j \in DOMAIN W /\ i \in DOMAIN W /\ S[W[j]] # S[W[i]]
            BY <4>1, <5>2, <5>3
          <6> HIDE DEF W, S, j
          <6> QED
            BY <6>1, TwoOwners
        <5> QED
          BY <5>1, <5>4 DEF Twice
      <4> QED
        BY <4>1, <4>2, <4>3, <4>4
    <3> QED
      BY <3>3, <3>4
  <2> QED
    BY <1>8, <2>1, <2>2 DEF GadgetWorks
<1>9. ASSUME NEW e \in Eps, Network(e) PROVE Flows(Out(o), Out(o)')
  <2>1. UNCHANGED <<outUrb, gWork, sent, accepted>>
    BY <1>9 DEF Network, driverVars, gadgetVars, configVars
  <2>2. CASE UNCHANGED g2d
    BY <1>2, <2>1, <2>2
  <2>3. CASE e \in OutEps /\ \E i \in DOMAIN g2d[e] : g2d' = [g2d EXCEPT ![e] = RemoveAt(@, i)]
    <3>1. g2d'[o] = g2d[o] \/ \E i \in DOMAIN g2d[o] : g2d'[o] = RemoveAt(g2d[o], i)
      BY <1>1, <2>3
    <3> QED
      BY <2>1, <3>1 DEF Flows, Out, Dir
  <2> QED
    BY <1>9, <2>2, <2>3 DEF Network, LoseData, LoseAck
<1>10. ASSUME UNCHANGED vars PROVE same
  BY <1>10 DEF vars, userlandVars, driverVars, gadgetVars, configVars
<1> QED
  BY <1>2, <1>3, <1>4, <1>5, <1>6, <1>7, <1>8, <1>9, <1>10 DEF Next

\* The same for an IN endpoint.
LEMMA InFlows ==
    ASSUME TypeOK, ~Fault("reorder"), NEW o \in InEps, [Next]_vars
    PROVE  Flows(In(o), In(o)')
<1> DEFINE same == UNCHANGED <<inReq, d2g, dWork, taken, read>>
<1>1. /\ inReq \in [InEps -> Seq(Nat)] /\ d2g \in [InEps -> Seq(Nat)]
      /\ dWork \in [InEps -> Seq(Nat)] /\ taken \in [InEps -> Nat]
      /\ read \in [InEps -> Seq(Nat)]
  BY DEF TypeOK, UserlandTypeOK, DriverTypeOK, GadgetTypeOK
<1>2. ASSUME same PROVE Flows(In(o), In(o)')
  BY <1>2 DEF Flows, In
<1>3. ASSUME NEW e \in Eps, DriverConfigures(e) PROVE Flows(In(o), In(o)')
  <2>1. same
    BY <1>3 DEF DriverConfigures, AddEndpoint, FirstPoll, UnlinkEndpoint, FreeEndpoint,
                gadgetVars, configVars, userlandVars
  <2> QED
    BY <1>2, <2>1
<1>4. ASSUME NEW e \in Eps, GadgetConfigures(e) PROVE Flows(In(o), In(o)')
  <2>1. CASE same
    BY <1>2, <2>1
  <2>2. CASE e \in InEps /\ inReq' = [inReq EXCEPT ![e] = <<>>]
             /\ UNCHANGED <<d2g, dWork, taken, read>>
    <3>1. inReq'[o] = inReq[o] \/ inReq'[o] = <<>>
      BY <1>1, <2>2
    <3>2. CASE inReq'[o] = inReq[o]
      BY <2>2, <3>2 DEF Flows, In
    <3>3. CASE inReq'[o] = <<>> /\ inReq[o] # <<>>
      BY <2>2, <3>3 DEF Flows, In, Dir
    <3> QED
      BY <3>1, <3>2, <3>3
  <2>3. same \/ (e \in InEps /\ inReq' = [inReq EXCEPT ![e] = <<>>]
                 /\ UNCHANGED <<d2g, dWork, taken, read>>)
    BY <1>4 DEF GadgetConfigures, EnableEndpoint, DisableEndpoint, ReleaseEndpoint, Restart,
                driverVars, userlandVars
  <2> QED
    BY <2>1, <2>2, <2>3
<1>5. ASSUME NEW e \in Eps, DeviceStep(e) PROVE Flows(In(o), In(o)')
  <2>1. CASE CompleteStall(e) \/ CompleteOut(e) \/ CompleteError(e)
    BY <1>2, <1>5, <2>1 DEF DeviceStep, CompleteStall, CompleteOut, CompleteError,
                            gadgetVars, configVars, userlandVars
  <2>2. CASE CompleteIn(e) /\ e \in InEps
    <3>1. UNCHANGED <<inReq, d2g, read>>
      BY <1>5, <2>2 DEF DeviceStep, CompleteIn, gadgetVars, configVars, userlandVars
    <3>2. CASE o # e
      <4>1. dWork'[o] = dWork[o] /\ taken'[o] = taken[o]
        BY <1>1, <2>2, <3>2 DEF CompleteIn
      <4> QED
        BY <3>1, <4>1 DEF Flows, In
    <3>3. CASE o = e
      <4>1. taken'[o] = taken[o] + 1
        BY <1>1, <2>2, <3>3 DEF CompleteIn
      <4>2. dWork'[o] = Append(dWork[o], taken[o] + 1)
        BY <1>1, <2>2, <3>3, <4>1 DEF CompleteIn
      <4> QED
        BY <3>1, <4>1, <4>2 DEF Flows, In, Dir
    <3> QED
      BY <3>2, <3>3
  <2> QED
    BY <1>5, <2>1, <2>2 DEF DeviceStep
<1>6. ASSUME NEW e \in Eps, HostStep(e) PROVE Flows(In(o), In(o)')
  <2>1. CASE same
    BY <1>2, <2>1
  <2>2. CASE e \in InEps /\ inReq[e] # <<>> /\ inReq' = [inReq EXCEPT ![e] = Tail(@)]
             /\ \/ read' = [read EXCEPT ![e] = Append(@, Head(inReq[e]))]
                \/ read' = read
             /\ UNCHANGED <<d2g, dWork, taken>>
    <3>1. CASE o # e
      <4>1. inReq'[o] = inReq[o] /\ read'[o] = read[o]
        BY <1>1, <2>2, <3>1
      <4> QED
        BY <2>2, <4>1 DEF Flows, In
    <3>2. CASE o = e
      <4>1. /\ inReq[o] # <<>> /\ inReq'[o] = Tail(inReq[o])
            /\ \/ read'[o] = Append(read[o], Head(inReq[o]))
               \/ read'[o] = read[o]
        BY <1>1, <2>2, <3>2
      <4> QED
        BY <2>2, <4>1 DEF Flows, In, Dir
    <3> QED
      BY <3>1, <3>2
  <2>3. CASE HostWrite(e)
    BY <1>6, <2>1, <2>3 DEF HostStep, HostWrite, driverVars, userlandVars
  <2>4. CASE HostRead(e) /\ e \in InEps
    BY <1>6, <2>2, <2>4 DEF HostStep, HostRead, driverVars, userlandVars
  <2>5. CASE RequestError(e)
    <3>1. UNCHANGED <<d2g, dWork, taken, read>>
      BY <1>6, <2>5 DEF HostStep, RequestError, driverVars, userlandVars
    <3>2. \/ UNCHANGED inReq
          \/ e \in InEps /\ inReq[e] # <<>> /\ inReq' = [inReq EXCEPT ![e] = Tail(@)]
      BY <2>5 DEF RequestError
    <3> QED
      BY <2>1, <2>2, <3>1, <3>2
  <2> QED
    BY <1>6, <2>3, <2>4, <2>5 DEF HostStep
<1>7. ASSUME NEW e \in Eps, DriverWorks(e) PROVE Flows(In(o), In(o)')
  <2>1. CASE WorkAgain(e) \/ RecvAck(e) \/ RecvOut(e)
    BY <1>2, <1>7, <2>1 DEF DriverWorks, WorkAgain, RecvAck, RecvOut, gadgetVars, configVars, userlandVars
  <2>2. CASE e \in InEps /\ WorkData(e)
    <3>1. UNCHANGED <<inReq, taken, read>> /\ dWork[e] # <<>>
          /\ dWork' = [dWork EXCEPT ![e] = Tail(@)]
      BY <1>7, <2>2 DEF DriverWorks, WorkData, gadgetVars, configVars
    <3>2. d2g' = [d2g EXCEPT ![e] = Append(@, Head(dWork[e]))] \/ d2g' = d2g
      BY <2>2 DEF WorkData, SendData
    <3>3. CASE o # e
      <4>1. dWork'[o] = dWork[o] /\ d2g'[o] = d2g[o]
        BY <1>1, <3>1, <3>2, <3>3
      <4> QED
        BY <3>1, <4>1 DEF Flows, In
    <3>4. CASE o = e
      <4>1. /\ dWork[o] # <<>> /\ dWork'[o] = Tail(dWork[o])
            /\ d2g'[o] = Append(d2g[o], Head(dWork[o])) \/ d2g'[o] = d2g[o]
        BY <1>1, <3>1, <3>2, <3>4
      <4> QED
        BY <3>1, <4>1 DEF Flows, In, Dir
    <3> QED
      BY <3>3, <3>4
  <2> QED
    BY <1>7, <2>1, <2>2 DEF DriverWorks
<1>8. ASSUME NEW e \in Eps, GadgetWorks(e) PROVE Flows(In(o), In(o)')
  <2>1. CASE WorkConsumed(e) \/ WorkOut(e)
    BY <1>2, <1>8, <2>1 DEF GadgetWorks, WorkConsumed, WorkOut, driverVars, userlandVars
  <2>2. CASE e \in InEps /\ RecvIn(e)
    <3>1. UNCHANGED <<dWork, taken, read>>
      BY <1>8, <2>2 DEF GadgetWorks, RecvIn, driverVars
    <3>2. PICK i \in DOMAIN d2g[e] :
              /\ Arrives(d2g[e], i)
              /\ d2g' = [d2g EXCEPT ![e] = RemoveAt(@, i)]
              /\ \/ inReq' = [inReq EXCEPT ![e] = Append(@, d2g[e][i])]
                 \/ inReq' = inReq
      BY <2>2 DEF RecvIn
    <3>3. CASE o # e
      <4>1. inReq'[o] = inReq[o] /\ d2g'[o] = d2g[o]
        BY <1>1, <3>2, <3>3
      <4> QED
        BY <3>1, <4>1 DEF Flows, In
    <3>4. CASE o = e
      <4>1. /\ i \in DOMAIN d2g[o] /\ d2g'[o] = RemoveAt(d2g[o], i)
            /\ inReq'[o] = Append(inReq[o], d2g[o][i]) \/ inReq'[o] = inReq[o]
        BY <1>1, <2>2, <3>2, <3>4
      <4>2. i = 1
        BY <3>2 DEF Arrives
      <4>3. d2g[o] # <<>> /\ RemoveAt(d2g[o], i) = Tail(d2g[o]) /\ d2g[o][i] = Head(d2g[o])
        BY <1>1, <4>1, <4>2, TakesFirst
      <4> QED
        BY <3>1, <4>1, <4>3 DEF Flows, In, Dir
    <3> QED
      BY <3>3, <3>4
  <2> QED
    BY <1>8, <2>1, <2>2 DEF GadgetWorks
<1>9. ASSUME NEW e \in Eps, Network(e) PROVE Flows(In(o), In(o)')
  <2>1. UNCHANGED <<inReq, dWork, taken, read>>
    BY <1>9 DEF Network, driverVars, gadgetVars, configVars
  <2>2. CASE UNCHANGED d2g
    BY <1>2, <2>1, <2>2
  <2>3. CASE e \in InEps /\ \E i \in DOMAIN d2g[e] : d2g' = [d2g EXCEPT ![e] = RemoveAt(@, i)]
    <3>1. d2g'[o] = d2g[o] \/ \E i \in DOMAIN d2g[o] : d2g'[o] = RemoveAt(d2g[o], i)
      BY <1>1, <2>3
    <3> QED
      BY <2>1, <3>1 DEF Flows, In, Dir
  <2> QED
    BY <1>9, <2>2, <2>3 DEF Network, LoseData, LoseAck
<1>10. ASSUME UNCHANGED vars PROVE same
  BY <1>10 DEF vars, userlandVars, driverVars, gadgetVars, configVars
<1> QED
  BY <1>2, <1>3, <1>4, <1>5, <1>6, <1>7, <1>8, <1>9, <1>10 DEF Next

-----------------------------------------------------------------------------
\* When datagrams keep their order an OUT endpoint is a pipe, for any endpoints,
\* other faults and bounds: what the device accepts is what the host wrote, in
\* order and nothing twice, though payloads may be missing (gadget.c:900-917,
\* driver.c:560-600).  Payloads pass each other only while two endpoint_t's share the
\* hardware endpoint, which takes a host that selects the active setting again
\* (gadget.c:388-405); disabling and enabling alone, however often and with however
\* much on the way, keeps the order, because the workqueue is drained.
THEOREM OutImplementsPipe ==
    ASSUME ~Fault("reorder")
    PROVE  Spec => OutIsPipe
<1> DEFINE step == \A e \in OutEps :
        [OutPipe(e)!PipeNext \/ (Twice(e) /\ OutPipe(e)!Overtake)]_(OutPipe(e)!pipeVars)
           All == \A o \in OutEps : Listening(o)
<1>1. Init => \A e \in OutEps : OutPipe(e)!PipeInit
  <2> SUFFICES ASSUME Init, NEW o \in OutEps PROVE OutPipe(o)!PipeInit
    OBVIOUS
  <2>1. /\ sent[o] = <<>> /\ accepted[o] = <<>>
        /\ outUrb[o] = <<>> /\ g2d[o] = <<>> /\ gWork[o] = <<>>
    BY DEF Init, UserlandInit, DriverInit, GadgetInit
  <2>2. <<>> \o <<>> \o <<>> = <<>>
    <3>1. Cat(Cat(<<>>, <<>>), <<>>) = <<>>
      BY Monoid
    <3> QED
      BY <3>1, Zenon DEF Cat
  <2>3. Len(sent[o]) = 0
    BY <2>1
  <2> QED
    BY <2>1, <2>2, <2>3 DEF OutPipe!PipeInit
<1>2. TypeOK /\ All /\ [Next]_vars => step
  <2> SUFFICES ASSUME TypeOK, All, [Next]_vars, NEW o \in OutEps
               PROVE  [OutPipe(o)!PipeNext \/ (Twice(o) /\ OutPipe(o)!Overtake)]_(OutPipe(o)!pipeVars)
    OBVIOUS
  <2>1. Out(o) \in Direction
    BY LenProperties DEF Out, Dir, Direction, Queue, TypeOK, UserlandTypeOK, DriverTypeOK, GadgetTypeOK
  <2>2. PipeFlows(Out(o), Out(o)') \/ (Twice(o) /\ PipeOvertakes(Out(o), Out(o)'))
    BY <2>1, OutFlows, FlowIsPipe, OvertakesIsPipe
  <2> DEFINE t == outUrb[o] \o g2d[o] \o gWork[o]
             n == Len(sent[o])
  <2>3. /\ Contents(Out(o)) = t /\ Contents(Out(o)') = t'
        /\ Out(o).put = n /\ Out(o)'.put = n'
        /\ Out(o).got = accepted[o] /\ Out(o)'.got = accepted'[o]
    BY DEF Contents, Row, Cat, Out, Dir
  <2>4. \/ /\ n' = n + 1 /\ accepted'[o] = accepted[o]
           /\ t' = Append(t, n')
        \/ /\ n' = n /\ t # <<>>
           /\ accepted'[o] = Append(accepted[o], Head(t)) /\ t' = Tail(t)
        \/ n' = n /\ accepted'[o] = accepted[o] /\ Drops(t, t')
        \/ n' = n /\ accepted'[o] = accepted[o] /\ t' = t
        \/ Twice(o) /\ n' = n /\ accepted'[o] = accepted[o] /\ Passes(t, t')
    BY <2>2, <2>3 DEF PipeFlows, PipeOvertakes
  <2> QED
    BY <2>4 DEF Drops, Passes, OutPipe!PipeNext, OutPipe!pipeVars, OutPipe!Put, OutPipe!Get,
                OutPipe!Lose, OutPipe!Overtake
<1> QED
  BY <1>1, <1>2, TypeCorrect, ListeningAlways, PTL DEF Spec, OutIsPipe

\* The same for an IN endpoint: what the host reads is what the device gave, in
\* order and nothing twice (driver.c:812-830), even when the endpoint is opened
\* again while older data is on its way.
THEOREM InImplementsPipe ==
    ASSUME ~Fault("reorder")
    PROVE  Spec => InIsPipe
<1> DEFINE step == \A e \in InEps : [InPipe(e)!PipeNext]_(InPipe(e)!pipeVars)
<1>1. Init => \A e \in InEps : InPipe(e)!PipeInit
  <2> SUFFICES ASSUME Init, NEW o \in InEps PROVE InPipe(o)!PipeInit
    OBVIOUS
  <2>1. /\ taken[o] = 0 /\ read[o] = <<>>
        /\ inReq[o] = <<>> /\ d2g[o] = <<>> /\ dWork[o] = <<>>
    BY DEF Init, UserlandInit, DriverInit, GadgetInit
  <2>2. <<>> \o <<>> \o <<>> = <<>>
    <3>1. Cat(Cat(<<>>, <<>>), <<>>) = <<>>
      BY Monoid
    <3> QED
      BY <3>1, Zenon DEF Cat
  <2> QED
    BY <2>1, <2>2 DEF InPipe!PipeInit
<1>2. TypeOK /\ [Next]_vars => step
  <2> SUFFICES ASSUME TypeOK, [Next]_vars, NEW o \in InEps
               PROVE  [InPipe(o)!PipeNext]_(InPipe(o)!pipeVars)
    OBVIOUS
  <2>1. In(o) \in Direction
    BY DEF In, Dir, Direction, Queue, TypeOK, UserlandTypeOK, DriverTypeOK, GadgetTypeOK
  <2>2. PipeFlows(In(o), In(o)')
    BY <2>1, InFlows, FlowIsPipe
  <2> DEFINE t == inReq[o] \o d2g[o] \o dWork[o]
  <2>3. /\ Contents(In(o)) = t /\ Contents(In(o)') = t'
        /\ In(o).put = taken[o] /\ In(o)'.put = taken'[o]
        /\ In(o).got = read[o] /\ In(o)'.got = read'[o]
    BY DEF Contents, Row, Cat, In, Dir
  <2>4. \/ /\ taken'[o] = taken[o] + 1 /\ read'[o] = read[o]
           /\ t' = Append(t, taken'[o])
        \/ /\ taken'[o] = taken[o] /\ t # <<>>
           /\ read'[o] = Append(read[o], Head(t)) /\ t' = Tail(t)
        \/ taken'[o] = taken[o] /\ read'[o] = read[o] /\ Drops(t, t')
        \/ taken'[o] = taken[o] /\ read'[o] = read[o] /\ t' = t
    BY <2>2, <2>3 DEF PipeFlows
  <2> QED
    BY <2>4 DEF Drops, InPipe!PipeNext, InPipe!pipeVars, InPipe!Put, InPipe!Get, InPipe!Lose
<1> QED
  BY <1>1, <1>2, TypeCorrect, PTL DEF Spec, InIsPipe

(***************************************************************************)
(* The IN direction.                                                       *)
(*                                                                         *)
(* Flow control: no endpoint ever has more credits than openings.          *)
(* CreditBound is not inductive: an endpoint that has been added is owed   *)
(* its first URB, which already counts (Pending).  With it, every step     *)
(* moves a credit from one place to another, loses it, or adds one         *)
(* together with an opening.  A step at e is followed at an arbitrary      *)
(* endpoint f, and "here" is 1 where it acts and 0 elsewhere.              *)
(*                                                                         *)
(* Order: what a step does to the payloads of an endpoint is one of a few  *)
(* moves (InMove), from which follow that nothing is read twice and, with  *)
(* flow control, that nothing is skipped.                                  *)
(***************************************************************************)

\* The URB an added endpoint is owed.
Pending(e) == IF dEp[e] = "added" THEN 1 ELSE 0

\* The inductive invariant.
CreditInv == \A e \in InEps : Credit(e) + Pending(e) <= enables[e]

\* The requests of the gadget that are credits, by names for the provers to take as
\* they are.
AtHost(e)   == Len(inReq[e])
AtWorker(e) == Len(consumed[e])

LEMMA GadgetSum ==
    ASSUME NEW e
    PROVE  /\ GadgetCredit(e) = AtHost(e) + AtWorker(e)
           /\ GadgetCredit(e)' = AtHost(e)' + AtWorker(e)'
  BY DEF GadgetCredit, AtHost, AtWorker

\* What a credit is made of, and its parts, are natural numbers.
DriverNat(e)   == poll[e] \in Nat /\ again[e] \in Nat /\ Len(dWork[e]) \in Nat
UserlandNat(e) == Len(d2g[e]) \in Nat /\ acks[e] \in Nat
GadgetNat(e)   == AtHost(e) \in Nat /\ AtWorker(e) \in Nat

CreditNat(e) ==
    /\ DriverCredit(e) \in Nat /\ UserlandCredit(e) \in Nat /\ GadgetCredit(e) \in Nat
    /\ Pending(e) \in Nat
    /\ enables[e] \in Nat

\* In a state with the types, what a credit is made of is a number.
LEMMA PartIsNat ==
    ASSUME TypeOK, NEW e \in InEps
    PROVE  DriverNat(e) /\ UserlandNat(e) /\ GadgetNat(e)
<1>1. poll[e] \in Nat /\ again[e] \in Nat /\ Len(dWork[e]) \in Nat
  BY SeqFacts DEF TypeOK, DriverTypeOK
<1>2. Len(d2g[e]) \in Nat /\ acks[e] \in Nat
  BY SeqFacts DEF TypeOK, UserlandTypeOK
<1>3. AtHost(e) \in Nat /\ AtWorker(e) \in Nat
  <2>1. inReq[e] \in Seq(Nat) /\ consumed[e] \in Seq(Nat)
    BY DEF TypeOK, GadgetTypeOK
  <2> QED
    BY <2>1, LenProperties DEF AtHost, AtWorker
<1> QED
  BY <1>1, <1>2, <1>3 DEF DriverNat, UserlandNat, GadgetNat

\* In a state with the types, the parts of a credit are numbers.
LEMMA CreditIsNat ==
    ASSUME TypeOK, NEW e \in InEps
    PROVE  CreditNat(e)
<1>1. DriverNat(e) /\ UserlandNat(e) /\ GadgetNat(e)
  BY PartIsNat
<1>2. DriverCredit(e) \in Nat
  BY <1>1 DEF DriverNat, DriverCredit
<1>3. UserlandCredit(e) \in Nat
  BY <1>1 DEF UserlandNat, UserlandCredit
<1>4. GadgetCredit(e) \in Nat
  BY <1>1, GadgetSum DEF GadgetNat
<1>5. enables[e] \in Nat /\ Pending(e) \in Nat
  BY DEF TypeOK, DriverTypeOK, Eps, Pending
<1> QED
  BY <1>2, <1>3, <1>4, <1>5 DEF CreditNat

\* The same of the state after a step.
LEMMA PrimedPartIsNat ==
    ASSUME TypeOK', NEW e \in InEps
    PROVE  DriverNat(e)' /\ UserlandNat(e)' /\ GadgetNat(e)'
<1>1. poll'[e] \in Nat /\ again'[e] \in Nat /\ Len(dWork'[e]) \in Nat
  BY SeqFacts DEF TypeOK, DriverTypeOK
<1>2. Len(d2g'[e]) \in Nat /\ acks'[e] \in Nat
  BY SeqFacts DEF TypeOK, UserlandTypeOK
<1>3. AtHost(e)' \in Nat /\ AtWorker(e)' \in Nat
  <2>1. inReq'[e] \in Seq(Nat) /\ consumed'[e] \in Seq(Nat)
    BY DEF TypeOK, GadgetTypeOK
  <2> QED
    BY <2>1, LenProperties DEF AtHost, AtWorker
<1> QED
  BY <1>1, <1>2, <1>3 DEF DriverNat, UserlandNat, GadgetNat

\* The same of the state after a step.
LEMMA PrimedCreditIsNat ==
    ASSUME TypeOK', NEW e \in InEps
    PROVE  CreditNat(e)'
<1>1. DriverNat(e)' /\ UserlandNat(e)' /\ GadgetNat(e)'
  BY PrimedPartIsNat
<1>2. DriverCredit(e)' \in Nat
  BY <1>1 DEF DriverNat, DriverCredit
<1>3. UserlandCredit(e)' \in Nat
  BY <1>1 DEF UserlandNat, UserlandCredit
<1>4. GadgetCredit(e)' \in Nat
  BY <1>1, GadgetSum DEF GadgetNat
<1>5. enables'[e] \in Nat /\ Pending(e)' \in Nat
  BY DEF TypeOK, DriverTypeOK, Eps, Pending
<1> QED
  BY <1>2, <1>3, <1>4, <1>5 DEF CreditNat

\* Reconfiguring the driver half: adding an endpoint raises the bound by the credit
\* its first URB is going to be; killing and freeing URBs only loses credits.
LEMMA DriverConfiguresCredit ==
    ASSUME TypeOK, CreditInv, NEW e \in Eps, DriverConfigures(e)
    PROVE  CreditInv'
<1> SUFFICES ASSUME NEW f \in InEps
             PROVE  Credit(f)' + Pending(f)' <= enables'[f]
  BY DEF CreditInv
<1> DEFINE here == IF f = e THEN 1 ELSE 0
<1>h. here \in Nat
  OBVIOUS
<1> HIDE DEF here
<1>i. Credit(f) + Pending(f) <= enables[f]
  BY DEF CreditInv
<1>n. CreditNat(f) /\ CreditNat(f)'
  BY DriverConfiguresType, CreditIsNat, PrimedCreditIsNat
<1>d. DriverNat(f) /\ DriverNat(f)'
  BY DriverConfiguresType, PartIsNat, PrimedPartIsNat
<1>1. ASSUME AddEndpoint(e), UNCHANGED gadgetVars
      PROVE  Credit(f)' + Pending(f)' <= enables'[f]
  <2>1. enables'[f] = enables[f] + here
    BY <1>1 DEF AddEndpoint, TypeOK, DriverTypeOK, Eps, here
  <2>2. Pending(f)' <= Pending(f) + here
    BY <1>1 DEF AddEndpoint, TypeOK, DriverTypeOK, Eps, Pending, here
  <2>3. /\ DriverCredit(f)' = DriverCredit(f)
        /\ UserlandCredit(f)' = UserlandCredit(f)
        /\ GadgetCredit(f)' = GadgetCredit(f)
    BY <1>1 DEF AddEndpoint, userlandVars, driverVars, gadgetVars, configVars, DriverCredit,
       UserlandCredit, GadgetCredit
  <2> QED
    BY <1>h, <1>i, <1>n, <2>1, <2>2, <2>3 DEF Credit, CreditNat
<1>2. ASSUME e \in InEps, FirstPoll(e), UNCHANGED gadgetVars
      PROVE  Credit(f)' + Pending(f)' <= enables'[f]
  <2>1. DriverCredit(f)' <= DriverCredit(f) + here
    <3>1. poll'[f] <= poll[f] + here
      <4>1. poll'[f] = poll[f] \/ (f = e /\ poll'[f] = poll[f] + 1)
        BY <1>2 DEF FirstPoll, Poll, TypeOK, DriverTypeOK, userlandVars, driverVars,
           gadgetVars, configVars
      <4> QED
        BY <1>d, <4>1 DEF DriverNat, here
    <3>2. again'[f] = again[f] /\ Len(dWork'[f]) = Len(dWork[f])
      BY <1>2 DEF FirstPoll, Poll, userlandVars, driverVars, gadgetVars, configVars
    <3> QED
      BY <1>d, <1>h, <3>1, <3>2, SMTT(30) DEF DriverNat, DriverCredit
  <2>2. Pending(f)' = Pending(f) - here
    BY <1>2 DEF FirstPoll, Poll, TypeOK, DriverTypeOK, Eps, Pending, here
  <2>3. /\ UserlandCredit(f)' = UserlandCredit(f)
        /\ GadgetCredit(f)' = GadgetCredit(f)
        /\ enables'[f] = enables[f]
    BY <1>2 DEF FirstPoll, Poll, userlandVars, driverVars, gadgetVars, configVars, UserlandCredit,
       GadgetCredit
  <2> QED
    BY <1>h, <1>i, <1>n, <2>1, <2>2, <2>3 DEF Credit, CreditNat
<1>3. ASSUME UnlinkEndpoint(e), UNCHANGED gadgetVars
      PROVE  Credit(f)' + Pending(f)' <= enables'[f]
  <2>1. DriverCredit(f)' <= DriverCredit(f)
    <3>1. poll'[f] <= poll[f]
      <4>1. poll'[f] = 0 \/ poll'[f] = poll[f]
        BY <1>3 DEF UnlinkEndpoint, TypeOK, DriverTypeOK, userlandVars, driverVars,
           gadgetVars, configVars
      <4> QED
        BY <1>d, <4>1 DEF DriverNat
    <3>2. again'[f] = again[f] /\ Len(dWork'[f]) = Len(dWork[f])
      BY <1>3 DEF UnlinkEndpoint, userlandVars, driverVars, gadgetVars, configVars
    <3> QED
      BY <1>d, <1>h, <3>1, <3>2 DEF DriverNat, DriverCredit
  <2>2. Pending(f)' <= Pending(f)
    BY <1>3 DEF UnlinkEndpoint, TypeOK, DriverTypeOK, Eps, Pending
  <2>3. /\ UserlandCredit(f)' = UserlandCredit(f)
        /\ GadgetCredit(f)' = GadgetCredit(f)
        /\ enables'[f] = enables[f]
    BY <1>3 DEF UnlinkEndpoint, userlandVars, driverVars, gadgetVars, configVars, UserlandCredit,
       GadgetCredit
  <2> QED
    BY <1>h, <1>i, <1>n, <2>1, <2>2, <2>3 DEF Credit, CreditNat
<1>4. ASSUME FreeEndpoint(e), UNCHANGED gadgetVars
      PROVE  Credit(f)' + Pending(f)' <= enables'[f]
  <2>1. DriverCredit(f)' <= DriverCredit(f)
    <3>1. poll'[f] <= poll[f]
      <4>1. poll'[f] = 0 \/ poll'[f] = poll[f]
        BY <1>4 DEF FreeEndpoint, TypeOK, DriverTypeOK, userlandVars, driverVars, gadgetVars, configVars
      <4> QED
        BY <1>d, <4>1 DEF DriverNat
    <3>2. again'[f] = again[f] /\ Len(dWork'[f]) = Len(dWork[f])
      BY <1>4 DEF FreeEndpoint, userlandVars, driverVars, gadgetVars, configVars
    <3> QED
      BY <1>d, <1>h, <3>1, <3>2 DEF DriverNat, DriverCredit
  <2>2. Pending(f)' <= Pending(f)
    BY <1>4 DEF FreeEndpoint, TypeOK, DriverTypeOK, Eps, Pending
  <2>3. /\ UserlandCredit(f)' = UserlandCredit(f)
        /\ GadgetCredit(f)' = GadgetCredit(f)
        /\ enables'[f] = enables[f]
    BY <1>4 DEF FreeEndpoint, userlandVars, driverVars, gadgetVars, configVars, UserlandCredit,
       GadgetCredit
  <2> QED
    BY <1>h, <1>i, <1>n, <2>1, <2>2, <2>3 DEF Credit, CreditNat
<1> QED
  BY <1>1, <1>2, <1>3, <1>4 DEF DriverConfigures

\* Reconfiguring the gadget half only loses credits.
LEMMA GadgetConfiguresCredit ==
    ASSUME TypeOK, CreditInv, NEW e \in Eps, GadgetConfigures(e)
    PROVE  CreditInv'
<1> SUFFICES ASSUME NEW f \in InEps
             PROVE  Credit(f)' + Pending(f)' <= enables'[f]
  BY DEF CreditInv
<1> DEFINE here == IF f = e THEN 1 ELSE 0
<1>h. here \in Nat
  OBVIOUS
<1> HIDE DEF here
<1>i. Credit(f) + Pending(f) <= enables[f]
  BY DEF CreditInv
<1>n. CreditNat(f) /\ CreditNat(f)'
  BY GadgetConfiguresType, CreditIsNat, PrimedCreditIsNat
<1>g. GadgetNat(f) /\ GadgetNat(f)'
  BY GadgetConfiguresType, PartIsNat, PrimedPartIsNat
<1>s. dWork[f] \in Seq(Nat) /\ d2g[f] \in Seq(Nat) /\ inReq[f] \in Seq(Nat)
  BY DEF TypeOK, DriverTypeOK, UserlandTypeOK, GadgetTypeOK
<1>c. ASSUME AtHost(f)' <= AtHost(f), UNCHANGED <<consumed, driverVars, userlandVars>>
      PROVE  Credit(f)' + Pending(f)' <= enables'[f]
  <2>1. GadgetCredit(f)' <= GadgetCredit(f)
    <3>1. AtWorker(f)' = AtWorker(f)
      BY <1>c DEF AtWorker
    <3> QED
      BY <1>g, <1>c, <3>1, GadgetSum DEF GadgetNat
  <2>2. /\ DriverCredit(f)' = DriverCredit(f)
        /\ UserlandCredit(f)' = UserlandCredit(f)
        /\ Pending(f)' = Pending(f)
        /\ enables'[f] = enables[f]
    BY <1>c DEF userlandVars, driverVars, DriverCredit, UserlandCredit, Pending
  <2> QED
    BY <1>h, <1>i, <1>n, <2>1, <2>2 DEF Credit, CreditNat
<1>r. ASSUME \/ UNCHANGED inReq
             \/ e \in InEps /\ inReq' = [inReq EXCEPT ![e] = <<>>]
      PROVE  AtHost(f)' <= AtHost(f)
  <2>1. inReq'[f] = <<>> \/ inReq'[f] = inReq[f]
    BY <1>r DEF TypeOK, GadgetTypeOK
  <2> QED
    BY <1>g, <1>s, <2>1, SeqFacts, EmptySeq DEF GadgetNat, AtHost
<1>1. ASSUME EnableEndpoint(e), UNCHANGED driverVars
      PROVE  Credit(f)' + Pending(f)' <= enables'[f]
  <2>1. /\ \/ UNCHANGED inReq
           \/ e \in InEps /\ inReq' = [inReq EXCEPT ![e] = <<>>]
        /\ UNCHANGED <<consumed, driverVars, userlandVars>>
    BY <1>1, Zenon DEF EnableEndpoint, Restart
  <2> QED
    BY <1>c, <1>r, <2>1
<1>2. ASSUME DisableEndpoint(e), UNCHANGED driverVars
      PROVE  Credit(f)' + Pending(f)' <= enables'[f]
  <2>1. /\ \/ UNCHANGED inReq
           \/ e \in InEps /\ inReq' = [inReq EXCEPT ![e] = <<>>]
        /\ UNCHANGED <<consumed, driverVars, userlandVars>>
    BY <1>2, Zenon DEF DisableEndpoint, Restart
  <2> QED
    BY <1>c, <1>r, <2>1
<1>3. ASSUME ReleaseEndpoint(e), UNCHANGED driverVars
      PROVE  Credit(f)' + Pending(f)' <= enables'[f]
  <2>1. /\ DriverCredit(f)' = DriverCredit(f)
        /\ UserlandCredit(f)' = UserlandCredit(f)
        /\ GadgetCredit(f)' = GadgetCredit(f)
        /\ Pending(f)' = Pending(f)
        /\ enables'[f] = enables[f]
    BY <1>3 DEF ReleaseEndpoint, userlandVars, driverVars, gadgetVars, configVars, DriverCredit,
       UserlandCredit, GadgetCredit, Pending
  <2> QED
    BY <1>h, <1>i, <1>n, <2>1 DEF Credit, CreditNat
<1> QED
  BY <1>1, <1>2, <1>3 DEF GadgetConfigures

\* A completed URB moves its credit to the workqueue, or loses it.
LEMMA DeviceStepCredit ==
    ASSUME TypeOK, CreditInv, NEW e \in Eps, DeviceStep(e)
    PROVE  CreditInv'
<1> SUFFICES ASSUME NEW f \in InEps
             PROVE  Credit(f)' + Pending(f)' <= enables'[f]
  BY DEF CreditInv
<1> DEFINE here == IF f = e THEN 1 ELSE 0
<1>h. here \in Nat
  OBVIOUS
<1> HIDE DEF here
<1>i. Credit(f) + Pending(f) <= enables[f]
  BY DEF CreditInv
<1>n. CreditNat(f) /\ CreditNat(f)'
  BY DeviceStepType, CreditIsNat, PrimedCreditIsNat
<1>d. DriverNat(f) /\ DriverNat(f)'
  BY DeviceStepType, PartIsNat, PrimedPartIsNat
<1>1. ASSUME e \in InEps, CompleteIn(e), UNCHANGED gadgetVars
      PROVE  Credit(f)' + Pending(f)' <= enables'[f]
  <2>1. DriverCredit(f)' = DriverCredit(f)
    <3>1. poll'[f] = poll[f] - here
      BY <1>1 DEF CompleteIn, TypeOK, DriverTypeOK, here
    <3>2. Len(dWork'[f]) = Len(dWork[f]) + here
      BY <1>1, SeqFacts, EmptySeq DEF CompleteIn, TypeOK, DriverTypeOK, here
    <3>3. again'[f] = again[f]
      BY <1>1 DEF CompleteIn, userlandVars, driverVars, gadgetVars, configVars
    <3> QED
      BY <1>d, <1>h, <3>1, <3>2, <3>3 DEF DriverNat, DriverCredit
  <2>2. /\ UserlandCredit(f)' = UserlandCredit(f)
        /\ GadgetCredit(f)' = GadgetCredit(f)
        /\ Pending(f)' = Pending(f)
        /\ enables'[f] = enables[f]
    BY <1>1 DEF CompleteIn, userlandVars, driverVars, gadgetVars, configVars, UserlandCredit,
       GadgetCredit, Pending
  <2> QED
    BY <1>h, <1>i, <1>n, <2>1, <2>2 DEF Credit, CreditNat
<1>2. ASSUME e \in InEps, CompleteStall(e), UNCHANGED gadgetVars
      PROVE  Credit(f)' + Pending(f)' <= enables'[f]
  <2>1. DriverCredit(f)' = DriverCredit(f)
    <3>1. poll'[f] = poll[f] - here
      BY <1>2 DEF CompleteStall, TypeOK, DriverTypeOK, here
    <3>2. again'[f] = again[f] + here
      BY <1>2 DEF CompleteStall, TypeOK, DriverTypeOK, here
    <3>3. Len(dWork'[f]) = Len(dWork[f])
      BY <1>2 DEF CompleteStall, userlandVars, driverVars, gadgetVars, configVars
    <3> QED
      BY <1>d, <1>h, <3>1, <3>2, <3>3 DEF DriverNat, DriverCredit
  <2>2. /\ UserlandCredit(f)' = UserlandCredit(f)
        /\ GadgetCredit(f)' = GadgetCredit(f)
        /\ Pending(f)' = Pending(f)
        /\ enables'[f] = enables[f]
    BY <1>2 DEF CompleteStall, userlandVars, driverVars, gadgetVars, configVars, UserlandCredit,
       GadgetCredit, Pending
  <2> QED
    BY <1>h, <1>i, <1>n, <2>1, <2>2 DEF Credit, CreditNat
<1>3. ASSUME e \in OutEps, CompleteOut(e), UNCHANGED gadgetVars
      PROVE  Credit(f)' + Pending(f)' <= enables'[f]
  <2>1. /\ DriverCredit(f)' = DriverCredit(f)
        /\ UserlandCredit(f)' = UserlandCredit(f)
        /\ GadgetCredit(f)' = GadgetCredit(f)
        /\ Pending(f)' = Pending(f)
        /\ enables'[f] = enables[f]
    BY <1>3 DEF CompleteOut, userlandVars, driverVars, gadgetVars, configVars, DriverCredit,
       UserlandCredit, GadgetCredit, Pending
  <2> QED
    BY <1>h, <1>i, <1>n, <2>1 DEF Credit, CreditNat
<1>4. ASSUME CompleteError(e), UNCHANGED gadgetVars
      PROVE  Credit(f)' + Pending(f)' <= enables'[f]
  <2>1. DriverCredit(f)' <= DriverCredit(f)
    <3>1. poll'[f] <= poll[f]
      <4>1. poll'[f] = poll[f] - 1 \/ poll'[f] = poll[f]
        BY <1>4 DEF CompleteError, TypeOK, DriverTypeOK, userlandVars, driverVars,
           gadgetVars, configVars
      <4> QED
        BY <1>d, <4>1 DEF DriverNat
    <3>2. again'[f] = again[f] /\ Len(dWork'[f]) = Len(dWork[f])
      BY <1>4 DEF CompleteError, userlandVars, driverVars, gadgetVars, configVars
    <3> QED
      BY <1>d, <1>h, <3>1, <3>2 DEF DriverNat, DriverCredit
  <2>2. /\ UserlandCredit(f)' = UserlandCredit(f)
        /\ GadgetCredit(f)' = GadgetCredit(f)
        /\ Pending(f)' = Pending(f)
        /\ enables'[f] = enables[f]
    BY <1>4 DEF CompleteError, userlandVars, driverVars, gadgetVars, configVars, UserlandCredit,
       GadgetCredit, Pending
  <2> QED
    BY <1>h, <1>i, <1>n, <2>1, <2>2 DEF Credit, CreditNat
<1> QED
  BY <1>1, <1>2, <1>3, <1>4 DEF DeviceStep

\* A request the host has read moves its credit to the workqueue; one that fails
\* loses it.
LEMMA HostStepCredit ==
    ASSUME TypeOK, Placed, CreditInv, NEW e \in Eps, HostStep(e)
    PROVE  CreditInv'
<1> SUFFICES ASSUME NEW f \in InEps
             PROVE  Credit(f)' + Pending(f)' <= enables'[f]
  BY DEF CreditInv
<1> DEFINE here == IF f = e THEN 1 ELSE 0
<1>h. here \in Nat
  OBVIOUS
<1> HIDE DEF here
<1>i. Credit(f) + Pending(f) <= enables[f]
  BY DEF CreditInv
<1>n. CreditNat(f) /\ CreditNat(f)'
  BY HostStepType, CreditIsNat, PrimedCreditIsNat
<1>g. GadgetNat(f) /\ GadgetNat(f)'
  BY HostStepType, PartIsNat, PrimedPartIsNat
<1>1. ASSUME e \in InEps, HostRead(e), UNCHANGED driverVars
      PROVE  Credit(f)' + Pending(f)' <= enables'[f]
  <2>1. GadgetCredit(f)' = GadgetCredit(f)
    <3>1. AtHost(f)' = AtHost(f) - here
      BY <1>1, SeqFacts, EmptySeq DEF HostRead, TypeOK, GadgetTypeOK, here, AtHost
    <3>2. AtWorker(f)' = AtWorker(f) + here
      <4>1. CASE f = e
        <5>1. consumed'[f] = Append(consumed[f], Head(gEps[f]))
          BY <1>1, <4>1 DEF HostRead, TypeOK, GadgetTypeOK
        <5>2. consumed[f] \in Seq(Nat) /\ inReq[f] # <<>>
          BY <1>1, <4>1 DEF HostRead, TypeOK, GadgetTypeOK
        <5>3. gEps[f] \in Seq(Nat) /\ gEps[f] # <<>>
          BY <5>2 DEF TypeOK, GadgetTypeOK, Placed, Eps
        <5>4. AtWorker(f)' = AtWorker(f) + 1
          <6>1. Head(gEps[f]) \in Nat
            BY <5>3, SeqFacts
          <6> QED
            BY <5>1, <5>2, <6>1, SeqFacts DEF AtWorker
        <5> QED
          BY <4>1, <5>4 DEF here
      <4>2. CASE f # e
        BY <1>1, <1>g, <4>2 DEF HostRead, TypeOK, GadgetTypeOK, GadgetNat, AtWorker, here
      <4> QED
        BY <4>1, <4>2
    <3> QED
      BY <1>g, <1>h, <3>1, <3>2, GadgetSum DEF GadgetNat
  <2>2. /\ DriverCredit(f)' = DriverCredit(f)
        /\ UserlandCredit(f)' = UserlandCredit(f)
        /\ Pending(f)' = Pending(f)
        /\ enables'[f] = enables[f]
    BY <1>1 DEF HostRead, userlandVars, driverVars, gadgetVars, configVars, DriverCredit,
       UserlandCredit, Pending
  <2> QED
    BY <1>h, <1>i, <1>n, <2>1, <2>2 DEF Credit, CreditNat
<1>2. ASSUME e \in OutEps, HostWrite(e), UNCHANGED driverVars
      PROVE  Credit(f)' + Pending(f)' <= enables'[f]
  <2>1. /\ DriverCredit(f)' = DriverCredit(f)
        /\ UserlandCredit(f)' = UserlandCredit(f)
        /\ GadgetCredit(f)' = GadgetCredit(f)
        /\ Pending(f)' = Pending(f)
        /\ enables'[f] = enables[f]
    BY <1>2 DEF HostWrite, userlandVars, driverVars, gadgetVars, configVars, DriverCredit,
       UserlandCredit, GadgetCredit, Pending
  <2> QED
    BY <1>h, <1>i, <1>n, <2>1 DEF Credit, CreditNat
<1>3. ASSUME RequestError(e), UNCHANGED driverVars
      PROVE  Credit(f)' + Pending(f)' <= enables'[f]
  <2>1. GadgetCredit(f)' <= GadgetCredit(f)
    <3>1. AtHost(f)' <= AtHost(f)
      <4>1. inReq'[f] = inReq[f] \/ (inReq[f] # <<>> /\ inReq'[f] = Tail(inReq[f]))
        BY <1>3 DEF RequestError, TypeOK, GadgetTypeOK
      <4>2. inReq[f] \in Seq(Nat)
        BY DEF TypeOK, GadgetTypeOK
      <4>3. CASE inReq'[f] = inReq[f]
        BY <1>g, <4>3 DEF GadgetNat, AtHost
      <4>4. CASE inReq[f] # <<>> /\ inReq'[f] = Tail(inReq[f])
        <5>1. AtHost(f)' = AtHost(f) - 1
          BY <4>2, <4>4, SeqFacts DEF AtHost
        <5> QED
          BY <1>g, <5>1 DEF GadgetNat
      <4> QED
        BY <4>1, <4>3, <4>4
    <3>2. AtWorker(f)' = AtWorker(f)
      BY <1>3 DEF RequestError, AtWorker
    <3> QED
      BY <1>g, <3>1, <3>2, GadgetSum DEF GadgetNat
  <2>2. /\ DriverCredit(f)' = DriverCredit(f)
        /\ UserlandCredit(f)' = UserlandCredit(f)
        /\ Pending(f)' = Pending(f)
        /\ enables'[f] = enables[f]
    BY <1>3 DEF RequestError, userlandVars, driverVars, DriverCredit,
       UserlandCredit, Pending
  <2> QED
    BY <1>h, <1>i, <1>n, <2>1, <2>2 DEF Credit, CreditNat
<1> QED
  BY <1>1, <1>2, <1>3 DEF HostStep

\* A work item turns its credit into a DATA message or an URB, an ACK into an
\* URB, or a failure loses it.
LEMMA DriverWorksCredit ==
    ASSUME TypeOK, CreditInv, NEW e \in Eps, DriverWorks(e)
    PROVE  CreditInv'
<1> SUFFICES ASSUME NEW f \in InEps
             PROVE  Credit(f)' + Pending(f)' <= enables'[f]
  BY DEF CreditInv
<1> DEFINE here == IF f = e THEN 1 ELSE 0
<1>h. here \in Nat
  OBVIOUS
<1> HIDE DEF here
<1>i. Credit(f) + Pending(f) <= enables[f]
  BY DEF CreditInv
<1>n. CreditNat(f) /\ CreditNat(f)'
  BY DriverWorksType, CreditIsNat, PrimedCreditIsNat
<1>d. DriverNat(f) /\ DriverNat(f)'
  BY DriverWorksType, PartIsNat, PrimedPartIsNat
<1>u. UserlandNat(f) /\ UserlandNat(f)'
  BY DriverWorksType, PartIsNat, PrimedPartIsNat
<1>s. dWork[f] \in Seq(Nat) /\ d2g[f] \in Seq(Nat) /\ inReq[f] \in Seq(Nat)
  BY DEF TypeOK, DriverTypeOK, UserlandTypeOK, GadgetTypeOK
<1>1. ASSUME e \in InEps, WorkData(e), UNCHANGED gadgetVars
      PROVE  Credit(f)' + Pending(f)' <= enables'[f]
  <2>1. DriverCredit(f)' = DriverCredit(f) - here
    <3>1. Len(dWork'[f]) = Len(dWork[f]) - here
      BY <1>1, SeqFacts, EmptySeq DEF WorkData, SendData, TypeOK, DriverTypeOK, here
    <3>2. poll'[f] = poll[f] /\ again'[f] = again[f]
      BY <1>1 DEF WorkData, SendData, userlandVars, driverVars, gadgetVars, configVars
    <3> QED
      BY <1>d, <1>h, <3>1, <3>2 DEF DriverNat, DriverCredit
  <2>2. UserlandCredit(f)' <= UserlandCredit(f) + here
    <3>1. Len(d2g'[f]) <= Len(d2g[f]) + here
      <4>1. d2g'[f] = d2g[f] \/ (f = e /\ dWork[f] # <<>> /\ d2g'[f] = Append(d2g[f], Head(dWork[f])))
        BY <1>1 DEF WorkData, SendData, TypeOK, UserlandTypeOK, DriverTypeOK, userlandVars,
           driverVars, gadgetVars, configVars
      <4>2. CASE d2g'[f] = d2g[f]
        BY <1>u, <1>h, <4>2 DEF UserlandNat
      <4>3. CASE f = e /\ dWork[f] # <<>> /\ d2g'[f] = Append(d2g[f], Head(dWork[f]))
        <5>1. Head(dWork[f]) \in Nat
          BY <1>s, <4>3, SeqFacts
        <5>2. Len(d2g'[f]) = Len(d2g[f]) + 1
          BY <1>s, <4>3, <5>1, SeqFacts
        <5> QED
          BY <1>u, <4>3, <5>2 DEF UserlandNat, here
      <4> QED
        BY <4>1, <4>2, <4>3
    <3>2. acks'[f] = acks[f]
      BY <1>1 DEF WorkData, SendData, userlandVars, driverVars, gadgetVars, configVars
    <3> QED
      BY <1>u, <1>h, <3>1, <3>2 DEF UserlandNat, UserlandCredit
  <2>3. /\ GadgetCredit(f)' = GadgetCredit(f)
        /\ Pending(f)' = Pending(f)
        /\ enables'[f] = enables[f]
    BY <1>1 DEF WorkData, SendData, userlandVars, driverVars, gadgetVars, configVars, GadgetCredit,
       Pending
  <2> QED
    BY <1>h, <1>i, <1>n, <2>1, <2>2, <2>3 DEF Credit, CreditNat
<1>2. ASSUME e \in InEps, WorkAgain(e), UNCHANGED gadgetVars
      PROVE  Credit(f)' + Pending(f)' <= enables'[f]
  <2>1. DriverCredit(f)' <= DriverCredit(f)
    <3>1. poll'[f] <= poll[f] + here
      <4>1. poll'[f] = poll[f] \/ (f = e /\ poll'[f] = poll[f] + 1)
        BY <1>2 DEF WorkAgain, Poll, TypeOK, DriverTypeOK, userlandVars, driverVars,
           gadgetVars, configVars
      <4> QED
        BY <1>d, <4>1 DEF DriverNat, here
    <3>2. again'[f] = again[f] - here
      BY <1>2 DEF WorkAgain, Poll, TypeOK, DriverTypeOK, here
    <3>3. Len(dWork'[f]) = Len(dWork[f])
      BY <1>2 DEF WorkAgain, Poll, userlandVars, driverVars, gadgetVars, configVars
    <3>4. /\ poll[f] \in Nat /\ again[f] \in Nat /\ Len(dWork[f]) \in Nat
          /\ poll'[f] \in Nat
      BY <1>d DEF DriverNat
    <3>5. poll'[f] + again'[f] <= poll[f] + again[f]
      BY <1>h, <3>1, <3>2, <3>4
    <3>6. again'[f] \in Nat
      BY <1>d DEF DriverNat
    <3>7. /\ DriverCredit(f) = poll[f] + again[f] + Len(dWork[f])
          /\ DriverCredit(f)' = poll'[f] + again'[f] + Len(dWork[f])
      BY <3>3, Zenon DEF DriverCredit
    <3> QED
      BY <3>4, <3>5, <3>6, <3>7
  <2>2. /\ UserlandCredit(f)' = UserlandCredit(f)
        /\ GadgetCredit(f)' = GadgetCredit(f)
        /\ Pending(f)' = Pending(f)
        /\ enables'[f] = enables[f]
    BY <1>2 DEF WorkAgain, Poll, userlandVars, driverVars, gadgetVars, configVars, UserlandCredit,
       GadgetCredit, Pending
  <2> QED
    BY <1>h, <1>i, <1>n, <2>1, <2>2 DEF Credit, CreditNat
<1>3. ASSUME e \in InEps, RecvAck(e), UNCHANGED gadgetVars
      PROVE  Credit(f)' + Pending(f)' <= enables'[f]
  <2>1. UserlandCredit(f)' = UserlandCredit(f) - here
    <3>1. acks'[f] = acks[f] - here
      BY <1>3 DEF RecvAck, Poll, TypeOK, UserlandTypeOK, here
    <3>2. Len(d2g'[f]) = Len(d2g[f])
      BY <1>3 DEF RecvAck, Poll, userlandVars, driverVars, gadgetVars, configVars
    <3> QED
      BY <1>u, <1>h, <3>1, <3>2 DEF UserlandNat, UserlandCredit
  <2>2. DriverCredit(f)' <= DriverCredit(f) + here
    <3>1. poll'[f] <= poll[f] + here
      <4>1. poll'[f] = poll[f] \/ (f = e /\ poll'[f] = poll[f] + 1)
        BY <1>3 DEF RecvAck, Poll, TypeOK, DriverTypeOK, userlandVars, driverVars,
           gadgetVars, configVars
      <4> QED
        BY <1>d, <4>1 DEF DriverNat, here
    <3>2. again'[f] = again[f] /\ Len(dWork'[f]) = Len(dWork[f])
      BY <1>3 DEF RecvAck, Poll, userlandVars, driverVars, gadgetVars, configVars
    <3> QED
      BY <1>d, <1>h, <3>1, <3>2 DEF DriverNat, DriverCredit
  <2>3. /\ GadgetCredit(f)' = GadgetCredit(f)
        /\ Pending(f)' = Pending(f)
        /\ enables'[f] = enables[f]
    BY <1>3 DEF RecvAck, Poll, userlandVars, driverVars, gadgetVars, configVars, GadgetCredit, Pending
  <2> QED
    BY <1>h, <1>i, <1>n, <2>1, <2>2, <2>3 DEF Credit, CreditNat
<1>4. ASSUME e \in OutEps, RecvOut(e), UNCHANGED gadgetVars
      PROVE  Credit(f)' + Pending(f)' <= enables'[f]
  <2>1. /\ DriverCredit(f)' = DriverCredit(f)
        /\ UserlandCredit(f)' = UserlandCredit(f)
        /\ GadgetCredit(f)' = GadgetCredit(f)
        /\ Pending(f)' = Pending(f)
        /\ enables'[f] = enables[f]
    BY <1>4 DEF RecvOut, Write, userlandVars, driverVars, gadgetVars, configVars, DriverCredit,
       UserlandCredit, GadgetCredit, Pending
  <2> QED
    BY <1>h, <1>i, <1>n, <2>1 DEF Credit, CreditNat
<1> QED
  BY <1>1, <1>2, <1>3, <1>4 DEF DriverWorks

\* A work item turns its credit into an ACK, a DATA message into a request, or a
\* failure loses it.
LEMMA GadgetWorksCredit ==
    ASSUME TypeOK, Placed, CreditInv, NEW e \in Eps, GadgetWorks(e)
    PROVE  CreditInv'
<1> SUFFICES ASSUME NEW f \in InEps
             PROVE  Credit(f)' + Pending(f)' <= enables'[f]
  BY DEF CreditInv
<1> DEFINE here == IF f = e THEN 1 ELSE 0
<1>h. here \in Nat
  OBVIOUS
<1> HIDE DEF here
<1>i. Credit(f) + Pending(f) <= enables[f]
  BY DEF CreditInv
<1>n. CreditNat(f) /\ CreditNat(f)'
  BY GadgetWorksType, CreditIsNat, PrimedCreditIsNat
<1>u. UserlandNat(f) /\ UserlandNat(f)'
  BY GadgetWorksType, PartIsNat, PrimedPartIsNat
<1>g. GadgetNat(f) /\ GadgetNat(f)'
  BY GadgetWorksType, PartIsNat, PrimedPartIsNat
<1>s. dWork[f] \in Seq(Nat) /\ d2g[f] \in Seq(Nat) /\ inReq[f] \in Seq(Nat)
  BY DEF TypeOK, DriverTypeOK, UserlandTypeOK, GadgetTypeOK
<1>1. ASSUME e \in InEps, WorkConsumed(e), UNCHANGED driverVars
      PROVE  Credit(f)' + Pending(f)' <= enables'[f]
  <2>1. GadgetCredit(f)' = GadgetCredit(f) - here
    <3>1. AtWorker(f)' = AtWorker(f) - here
      <4>1. PICK i \in DOMAIN consumed[e] : consumed' = [consumed EXCEPT ![e] = RemoveAt(@, i)]
        BY <1>1 DEF WorkConsumed
      <4>2. CASE f = e
        <5>1. consumed'[f] = RemoveAt(consumed[f], i) /\ consumed[f] \in Seq(Nat)
          BY <4>1, <4>2 DEF TypeOK, GadgetTypeOK
        <5>2. AtWorker(f)' = AtWorker(f) - 1
          BY <4>1, <4>2, <5>1, SeqFacts DEF AtWorker
        <5> QED
          BY <4>2, <5>2 DEF here
      <4>3. CASE f # e
        BY <1>g, <4>1, <4>3 DEF TypeOK, GadgetTypeOK, GadgetNat, AtWorker, here
      <4> QED
        BY <4>2, <4>3
    <3>2. AtHost(f)' = AtHost(f)
      BY <1>1 DEF AtHost, WorkConsumed, SendAck, userlandVars, driverVars, gadgetVars, configVars
    <3> QED
      BY <1>g, <1>h, <3>1, <3>2, GadgetSum DEF GadgetNat
  <2>2. UserlandCredit(f)' <= UserlandCredit(f) + here
    <3>1. acks'[f] <= acks[f] + here
      <4>1. acks'[f] = acks[f] \/ (f = e /\ acks'[f] = acks[f] + 1)
        BY <1>1 DEF WorkConsumed, SendAck, TypeOK, UserlandTypeOK, userlandVars,
           driverVars, gadgetVars, configVars
      <4> QED
        BY <1>u, <4>1 DEF UserlandNat, here
    <3>2. Len(d2g'[f]) = Len(d2g[f])
      BY <1>1 DEF WorkConsumed, SendAck, userlandVars, driverVars, gadgetVars, configVars
    <3> QED
      BY <1>u, <1>h, <3>1, <3>2 DEF UserlandNat, UserlandCredit
  <2>3. /\ DriverCredit(f)' = DriverCredit(f)
        /\ Pending(f)' = Pending(f)
        /\ enables'[f] = enables[f]
    BY <1>1 DEF WorkConsumed, SendAck, userlandVars, driverVars, gadgetVars, configVars, DriverCredit,
       Pending
  <2> QED
    BY <1>h, <1>i, <1>n, <2>1, <2>2, <2>3 DEF Credit, CreditNat
<1>2. ASSUME e \in OutEps, WorkOut(e), UNCHANGED driverVars
      PROVE  Credit(f)' + Pending(f)' <= enables'[f]
  <2>1. /\ DriverCredit(f)' = DriverCredit(f)
        /\ UserlandCredit(f)' = UserlandCredit(f)
        /\ GadgetCredit(f)' = GadgetCredit(f)
        /\ Pending(f)' = Pending(f)
        /\ enables'[f] = enables[f]
    BY <1>2 DEF WorkOut, userlandVars, driverVars, gadgetVars, configVars, DriverCredit,
       UserlandCredit, GadgetCredit, Pending
  <2> QED
    BY <1>h, <1>i, <1>n, <2>1 DEF Credit, CreditNat
<1>3. ASSUME e \in InEps, RecvIn(e), UNCHANGED driverVars
      PROVE  Credit(f)' + Pending(f)' <= enables'[f]
  <2>1. UserlandCredit(f)' = UserlandCredit(f) - here
    <3>1. Len(d2g'[f]) = Len(d2g[f]) - here
      <4>1. IF f = e THEN \E i \in DOMAIN d2g[f] : d2g'[f] = RemoveAt(d2g[f], i) ELSE d2g'[f] = d2g[f]
        BY <1>3 DEF RecvIn, TypeOK, UserlandTypeOK, userlandVars, driverVars, gadgetVars, configVars
      <4>2. CASE f = e
        <5>1. PICK i \in DOMAIN d2g[f] : d2g'[f] = RemoveAt(d2g[f], i)
          BY <4>1, <4>2
        <5>2. Len(d2g'[f]) = Len(d2g[f]) - 1
          BY <1>s, <5>1, SeqFacts
        <5> QED
          BY <1>u, <4>2, <5>2 DEF UserlandNat, here
      <4>3. CASE f # e
        BY <1>u, <4>1, <4>3 DEF UserlandNat, here
      <4> QED
        BY <4>2, <4>3
    <3>2. acks'[f] = acks[f]
      BY <1>3 DEF RecvIn, userlandVars, driverVars, gadgetVars, configVars
    <3> QED
      BY <1>u, <1>h, <3>1, <3>2 DEF UserlandNat, UserlandCredit
  <2>2. GadgetCredit(f)' <= GadgetCredit(f) + here
    <3>1. AtHost(f)' <= AtHost(f) + here
      <4>1. PICK i \in DOMAIN d2g[e] : \/ inReq' = inReq
                                       \/ inReq' = [inReq EXCEPT ![e] = Append(@, d2g[e][i])]
        BY <1>3 DEF RecvIn
      <4>2. CASE f = e
        <5>1. d2g[f][i] \in Nat
          BY <1>s, <4>1, <4>2, SeqFacts
        <5>2. inReq'[f] = inReq[f] \/ inReq'[f] = Append(inReq[f], d2g[f][i])
          BY <4>1, <4>2 DEF TypeOK, GadgetTypeOK
        <5>3. AtHost(f)' = AtHost(f) \/ AtHost(f)' = AtHost(f) + 1
          BY <1>s, <5>1, <5>2, SeqFacts DEF AtHost
        <5> QED
          BY <1>g, <4>2, <5>3 DEF GadgetNat, here
      <4>3. CASE f # e
        <5>1. inReq'[f] = inReq[f]
          BY <4>1, <4>3 DEF TypeOK, GadgetTypeOK
        <5> QED
          BY <1>g, <1>h, <5>1 DEF GadgetNat, AtHost
      <4> QED
        BY <4>2, <4>3
    <3>2. AtWorker(f)' = AtWorker(f)
      BY <1>3 DEF AtWorker, RecvIn, userlandVars, driverVars, gadgetVars, configVars
    <3> QED
      BY <1>g, <1>h, <3>1, <3>2, GadgetSum DEF GadgetNat
  <2>3. /\ DriverCredit(f)' = DriverCredit(f)
        /\ Pending(f)' = Pending(f)
        /\ enables'[f] = enables[f]
    BY <1>3 DEF RecvIn, userlandVars, driverVars, gadgetVars, configVars, DriverCredit, Pending
  <2> QED
    BY <1>h, <1>i, <1>n, <2>1, <2>2, <2>3 DEF Credit, CreditNat
<1> QED
  BY <1>1, <1>2, <1>3 DEF GadgetWorks

\* A lost datagram takes its credit with it.
LEMMA NetworkCredit ==
    ASSUME TypeOK, CreditInv, NEW e \in Eps, Network(e)
    PROVE  CreditInv'
<1> SUFFICES ASSUME NEW f \in InEps
             PROVE  Credit(f)' + Pending(f)' <= enables'[f]
  BY DEF CreditInv
<1> DEFINE here == IF f = e THEN 1 ELSE 0
<1>h. here \in Nat
  OBVIOUS
<1> HIDE DEF here
<1>i. Credit(f) + Pending(f) <= enables[f]
  BY DEF CreditInv
<1>n. CreditNat(f) /\ CreditNat(f)'
  BY NetworkType, CreditIsNat, PrimedCreditIsNat
<1>u. UserlandNat(f) /\ UserlandNat(f)'
  BY NetworkType, PartIsNat, PrimedPartIsNat
<1>s. dWork[f] \in Seq(Nat) /\ d2g[f] \in Seq(Nat) /\ inReq[f] \in Seq(Nat)
  BY DEF TypeOK, DriverTypeOK, UserlandTypeOK, GadgetTypeOK
<1>1. ASSUME LoseData(e), UNCHANGED <<driverVars, gadgetVars>>
      PROVE  Credit(f)' + Pending(f)' <= enables'[f]
  <2>1. UserlandCredit(f)' <= UserlandCredit(f)
    <3>1. Len(d2g'[f]) <= Len(d2g[f])
      <4>1. d2g'[f] = d2g[f] \/ \E i \in DOMAIN d2g[f] : d2g'[f] = RemoveAt(d2g[f], i)
        BY <1>1 DEF LoseData, TypeOK, UserlandTypeOK, userlandVars, driverVars, gadgetVars, configVars
      <4> QED
        BY <1>u, <1>s, <4>1, SeqFacts, EmptySeq DEF UserlandNat
    <3>2. acks'[f] = acks[f]
      BY <1>1 DEF LoseData, userlandVars, driverVars, gadgetVars, configVars
    <3> QED
      BY <1>u, <1>h, <3>1, <3>2 DEF UserlandNat, UserlandCredit
  <2>2. /\ DriverCredit(f)' = DriverCredit(f)
        /\ GadgetCredit(f)' = GadgetCredit(f)
        /\ Pending(f)' = Pending(f)
        /\ enables'[f] = enables[f]
    BY <1>1 DEF LoseData, userlandVars, driverVars, gadgetVars, configVars, DriverCredit, GadgetCredit,
       Pending
  <2> QED
    BY <1>h, <1>i, <1>n, <2>1, <2>2 DEF Credit, CreditNat
<1>2. ASSUME e \in InEps, LoseAck(e), UNCHANGED <<driverVars, gadgetVars>>
      PROVE  Credit(f)' + Pending(f)' <= enables'[f]
  <2>1. UserlandCredit(f)' = UserlandCredit(f) - here
    <3>1. acks'[f] = acks[f] - here
      BY <1>2 DEF LoseAck, TypeOK, UserlandTypeOK, here
    <3>2. Len(d2g'[f]) = Len(d2g[f])
      BY <1>2 DEF LoseAck, userlandVars, driverVars, gadgetVars, configVars
    <3> QED
      BY <1>u, <1>h, <3>1, <3>2 DEF UserlandNat, UserlandCredit
  <2>2. /\ DriverCredit(f)' = DriverCredit(f)
        /\ GadgetCredit(f)' = GadgetCredit(f)
        /\ Pending(f)' = Pending(f)
        /\ enables'[f] = enables[f]
    BY <1>2 DEF LoseAck, userlandVars, driverVars, gadgetVars, configVars, DriverCredit, GadgetCredit,
       Pending
  <2> QED
    BY <1>h, <1>i, <1>n, <2>1, <2>2 DEF Credit, CreditNat
<1> QED
  BY <1>1, <1>2 DEF Network

\* Initially there is no credit.
LEMMA InitCredit == Init => CreditInv
BY DEF Init, UserlandInit, DriverInit, GadgetInit, Eps, CreditInv,
       Credit, DriverCredit, UserlandCredit, GadgetCredit, Pending

\* Every step keeps the inductive invariant.
LEMMA NextCredit == TypeOK /\ Placed /\ CreditInv /\ [Next]_vars => CreditInv'
<1> SUFFICES ASSUME TypeOK, Placed, CreditInv, [Next]_vars PROVE CreditInv'
  OBVIOUS
<1>1. ASSUME NEW e \in Eps,
             \/ DriverConfigures(e) \/ GadgetConfigures(e)
             \/ DeviceStep(e) \/ HostStep(e)
             \/ DriverWorks(e) \/ GadgetWorks(e)
             \/ Network(e)
      PROVE  CreditInv'
  BY <1>1, DriverConfiguresCredit, GadgetConfiguresCredit, DeviceStepCredit, HostStepCredit,
     DriverWorksCredit, GadgetWorksCredit, NetworkCredit
<1>2. CASE UNCHANGED vars
  BY <1>2 DEF vars, userlandVars, driverVars, gadgetVars, configVars, CreditInv,
              Credit, DriverCredit, UserlandCredit, GadgetCredit, Pending
<1> QED
  BY <1>1, <1>2 DEF Next

\* Flow control on IN endpoints: there are never more credits of an endpoint
\* than the driver has opened it, whatever is lost, reordered or reconfigured.
THEOREM FlowControl == Spec => []CreditBound
<1>1. Init => CreditInv
  BY InitCredit
<1>2. TypeOK /\ Placed /\ CreditInv /\ [Next]_vars => CreditInv'
  BY NextCredit
<1>3. TypeOK /\ CreditInv => CreditBound
  <2> SUFFICES ASSUME TypeOK, CreditInv, NEW e \in InEps PROVE Credit(e) <= enables[e]
    BY DEF CreditBound
  <2>1. CreditNat(e) /\ Credit(e) + Pending(e) <= enables[e]
    BY CreditIsNat DEF CreditInv
  <2> QED
    BY <2>1 DEF CreditNat, Credit
<1> QED
  BY <1>1, <1>2, <1>3, PlacedAlways, PTL DEF Spec

-----------------------------------------------------------------------------
(* How the payloads of an IN endpoint move *)

\* The credits of an endpoint that are not payloads.
Idle(f) == poll[f] + again[f] + acks[f] + AtWorker(f) + Pending(f)

Still(f) == /\ inReq'[f] = inReq[f] /\ d2g'[f] = d2g[f] /\ dWork'[f] = dWork[f]
            /\ taken'[f] = taken[f] /\ read'[f] = read[f]

\* The payloads stay; the driver may open the endpoint.
Stays(f) == Still(f) /\ enables'[f] = enables[f] /\ Idle(f)' <= Idle(f)
Opens(f) == Still(f) /\ enables'[f] = enables[f] + 1

\* The driver takes a payload from the device,
Takes(f) ==
    /\ Idle(f) > 0
    /\ taken'[f] = taken[f] + 1
    /\ dWork'[f] = Append(dWork[f], taken[f] + 1)
    /\ inReq'[f] = inReq[f] /\ d2g'[f] = d2g[f] /\ read'[f] = read[f]
    /\ enables'[f] = enables[f]

\* sends it to the gadget,
Sends(f) ==
    /\ dWork[f] # <<>> /\ dWork'[f] = Tail(dWork[f])
    /\ d2g'[f] = Append(d2g[f], Head(dWork[f])) \/ d2g'[f] = d2g[f]
    /\ inReq'[f] = inReq[f] /\ taken'[f] = taken[f] /\ read'[f] = read[f]
    /\ enables'[f] = enables[f] /\ Idle(f)' <= Idle(f)

\* which queues it for the host; or it is lost,
Receives(f) ==
    /\ \E i \in DOMAIN d2g[f] :
          /\ d2g'[f] = RemoveAt(d2g[f], i)
          /\ inReq'[f] = Append(inReq[f], d2g[f][i]) \/ inReq'[f] = inReq[f]
    /\ dWork'[f] = dWork[f] /\ taken'[f] = taken[f] /\ read'[f] = read[f]
    /\ enables'[f] = enables[f] /\ Idle(f)' <= Idle(f)

\* or dropped with the request,
Discards(f) ==
    /\ inReq'[f] = <<>> \/ (inReq[f] # <<>> /\ inReq'[f] = Tail(inReq[f]))
    /\ d2g'[f] = d2g[f] /\ dWork'[f] = dWork[f] /\ taken'[f] = taken[f]
    /\ read'[f] = read[f] /\ enables'[f] = enables[f] /\ Idle(f)' <= Idle(f)

\* or read by the host.
Gives(f) ==
    /\ inReq[f] # <<>> /\ inReq'[f] = Tail(inReq[f])
    /\ read'[f] = Append(read[f], Head(inReq[f]))
    /\ d2g'[f] = d2g[f] /\ dWork'[f] = dWork[f] /\ taken'[f] = taken[f]
    /\ enables'[f] = enables[f]

InMove(f) == Stays(f) \/ Opens(f) \/ Takes(f) \/ Sends(f) \/ Receives(f)
             \/ Discards(f) \/ Gives(f)

\* The payloads of an endpoint are apart, and numbered when they are taken.
Apart(f) ==
    /\ IsInjective(read[f]) /\ IsInjective(inReq[f])
    /\ IsInjective(d2g[f]) /\ IsInjective(dWork[f])
    /\ Range(read[f]) \cap (Range(inReq[f]) \cup Range(d2g[f]) \cup Range(dWork[f])) = {}
    /\ Range(inReq[f]) \cap (Range(d2g[f]) \cup Range(dWork[f])) = {}
    /\ Range(d2g[f]) \cap Range(dWork[f]) = {}
    /\ \A d \in Range(read[f]) \cup Range(inReq[f]) \cup Range(d2g[f]) \cup Range(dWork[f]) :
          d <= taken[f]

ApartInv == \A f \in InEps : Apart(f)

\* A payload on its way is the one after the last that was read, and the last
\* that was taken; where there is a credit but no payload, there is none between.
Follows(f) ==
    enables[f] <= 1 =>
        /\ \A i \in DOMAIN read[f] : read[f][i] = i
        /\ \A d \in Range(inReq[f]) \cup Range(d2g[f]) \cup Range(dWork[f]) :
              d = Len(read[f]) + 1 /\ d = taken[f]
        /\ Idle(f) > 0 \/ enables[f] = 0 => taken[f] = Len(read[f])

FollowsInv == \A f \in InEps : Follows(f)

\* What Idle is made of are numbers, and it changes as they do.
LEMMA IdleParts ==
    ASSUME TypeOK, TypeOK', NEW f \in InEps
    PROVE  /\ poll[f] \in Nat /\ again[f] \in Nat /\ acks[f] \in Nat /\ AtWorker(f) \in Nat
           /\ poll'[f] \in Nat /\ again'[f] \in Nat /\ acks'[f] \in Nat /\ AtWorker(f)' \in Nat
           /\ Pending(f) \in Nat /\ Pending(f)' \in Nat
           /\ Idle(f) \in Nat /\ Idle(f)' \in Nat
           /\ Idle(f) = poll[f] + again[f] + acks[f] + AtWorker(f) + Pending(f)
           /\ Idle(f)' = poll'[f] + again'[f] + acks'[f] + AtWorker(f)' + Pending(f)'
<1>1. /\ poll[f] \in Nat /\ again[f] \in Nat /\ acks[f] \in Nat /\ AtWorker(f) \in Nat
      /\ poll'[f] \in Nat /\ again'[f] \in Nat /\ acks'[f] \in Nat /\ AtWorker(f)' \in Nat
  BY PartIsNat, PrimedPartIsNat DEF DriverNat, UserlandNat, GadgetNat
<1>2. Pending(f) \in Nat /\ Pending(f)' \in Nat
  BY DEF Pending
<1> QED
  BY <1>1, <1>2 DEF Idle

\* A step at another endpoint.
LEMMA Elsewhere ==
    ASSUME TypeOK, NEW f \in InEps, NEW e \in Eps, e # f,
           \/ DriverConfigures(e) \/ GadgetConfigures(e)
           \/ DeviceStep(e) \/ HostStep(e)
           \/ DriverWorks(e) \/ GadgetWorks(e)
           \/ Network(e)
    PROVE  /\ Still(f) /\ enables'[f] = enables[f]
           /\ poll'[f] = poll[f] /\ again'[f] = again[f] /\ acks'[f] = acks[f]
           /\ consumed'[f] = consumed[f] /\ Pending(f)' = Pending(f)
<1> USE DEF userlandVars, driverVars, gadgetVars, configVars, Still, Pending, Eps
<1>0. /\ poll \in [InEps -> Nat] /\ again \in [InEps -> Nat] /\ acks \in [InEps -> Nat]
      /\ consumed \in [InEps -> Seq(Nat)] /\ taken \in [InEps -> Nat]
      /\ dWork \in [InEps -> Seq(Nat)] /\ d2g \in [InEps -> Seq(Nat)]
      /\ inReq \in [InEps -> Seq(Nat)] /\ read \in [InEps -> Seq(Nat)]
      /\ enables \in [Eps -> Nat]
      /\ dEp \in [Eps -> {"absent", "added", "present", "dying"}]
  BY DEF TypeOK, UserlandTypeOK, DriverTypeOK, GadgetTypeOK
<1>1. CASE DriverConfigures(e)
  BY <1>0, <1>1 DEF DriverConfigures, AddEndpoint, FirstPoll, Poll, UnlinkEndpoint, FreeEndpoint
<1>2. CASE GadgetConfigures(e)
  BY <1>0, <1>2 DEF GadgetConfigures, EnableEndpoint, DisableEndpoint, ReleaseEndpoint, Restart
<1>3. CASE DeviceStep(e)
  BY <1>0, <1>3 DEF DeviceStep, CompleteIn, CompleteStall, CompleteOut, CompleteError
<1>4. CASE HostStep(e)
  BY <1>0, <1>4 DEF HostStep, HostRead, HostWrite, RequestError
<1>5. CASE DriverWorks(e)
  BY <1>0, <1>5 DEF DriverWorks, WorkData, SendData, WorkAgain, RecvAck, RecvOut, Poll
<1>6. CASE GadgetWorks(e)
  BY <1>0, <1>6 DEF GadgetWorks, WorkConsumed, SendAck, WorkOut, RecvIn
<1>7. CASE Network(e)
  BY <1>0, <1>7 DEF Network, LoseData, LoseAck
<1> QED
  BY <1>1, <1>2, <1>3, <1>4, <1>5, <1>6, <1>7

\* A step at the endpoint itself.
LEMMA Here ==
    ASSUME TypeOK, TypeOK', NEW f \in InEps,
           \/ DriverConfigures(f) \/ GadgetConfigures(f)
           \/ DeviceStep(f) \/ HostStep(f)
           \/ DriverWorks(f) \/ GadgetWorks(f)
           \/ Network(f)
    PROVE  InMove(f)
<1> USE DEF userlandVars, driverVars, gadgetVars, configVars, Still, Eps
<1>0. /\ poll \in [InEps -> Nat] /\ again \in [InEps -> Nat] /\ acks \in [InEps -> Nat]
      /\ consumed \in [InEps -> Seq(Nat)] /\ taken \in [InEps -> Nat]
      /\ dWork \in [InEps -> Seq(Nat)] /\ d2g \in [InEps -> Seq(Nat)]
      /\ inReq \in [InEps -> Seq(Nat)] /\ read \in [InEps -> Seq(Nat)]
      /\ enables \in [Eps -> Nat]
      /\ dEp \in [Eps -> {"absent", "added", "present", "dying"}]
      /\ f \notin OutEps
  BY EpsAssumption DEF TypeOK, UserlandTypeOK, DriverTypeOK, GadgetTypeOK
<1>i. /\ poll[f] \in Nat /\ again[f] \in Nat /\ acks[f] \in Nat /\ AtWorker(f) \in Nat
      /\ poll'[f] \in Nat /\ again'[f] \in Nat /\ acks'[f] \in Nat /\ AtWorker(f)' \in Nat
      /\ Pending(f) \in Nat /\ Pending(f)' \in Nat
      /\ Idle(f) \in Nat /\ Idle(f)' \in Nat
      /\ Idle(f) = poll[f] + again[f] + acks[f] + AtWorker(f) + Pending(f)
      /\ Idle(f)' = poll'[f] + again'[f] + acks'[f] + AtWorker(f)' + Pending(f)'
  BY IdleParts
<1>w. consumed'[f] = consumed[f] => AtWorker(f)' = AtWorker(f)
  BY DEF AtWorker
<1>1. CASE DriverConfigures(f)
  <2>1. Still(f)
    BY <1>1 DEF DriverConfigures, AddEndpoint, FirstPoll, UnlinkEndpoint, FreeEndpoint
  <2>2. again' = again /\ acks' = acks /\ consumed' = consumed
    BY <1>1 DEF DriverConfigures, AddEndpoint, FirstPoll, UnlinkEndpoint, FreeEndpoint
  <2>3. CASE AddEndpoint(f)
    BY <1>0, <2>1, <2>3 DEF AddEndpoint, Opens, InMove
  <2>4. CASE FirstPoll(f)
    <3>1. poll'[f] <= poll[f] + 1 /\ Pending(f) = 1 /\ Pending(f)' = 0 /\ enables' = enables
      BY <1>0, <2>4 DEF FirstPoll, Poll, Pending
    <3> QED
      BY <1>i, <1>w, <2>1, <2>2, <3>1 DEF Stays, InMove
  <2>5. CASE UnlinkEndpoint(f) \/ FreeEndpoint(f)
    <3>1. poll'[f] = 0 /\ Pending(f)' = 0 /\ enables' = enables
      BY <1>0, <2>5 DEF UnlinkEndpoint, FreeEndpoint, Pending
    <3> QED
      BY <1>i, <1>w, <2>1, <2>2, <3>1 DEF Stays, InMove
  <2> QED
    BY <1>1, <2>3, <2>4, <2>5 DEF DriverConfigures
<1>2. CASE GadgetConfigures(f)
  <2>1. /\ d2g' = d2g /\ dWork' = dWork /\ taken' = taken /\ read' = read
        /\ enables' = enables /\ poll' = poll /\ again' = again /\ acks' = acks
        /\ consumed' = consumed /\ dEp' = dEp
    BY <1>2 DEF GadgetConfigures, EnableEndpoint, DisableEndpoint, ReleaseEndpoint
  <2>2. inReq'[f] = inReq[f] \/ inReq'[f] = <<>>
    BY <1>0, <1>2 DEF GadgetConfigures, EnableEndpoint, DisableEndpoint, ReleaseEndpoint, Restart
  <2>3. Idle(f)' <= Idle(f)
    BY <1>i, <1>w, <2>1 DEF Pending
  <2> QED
    BY <2>1, <2>2, <2>3 DEF Stays, Discards, InMove
<1>3. CASE DeviceStep(f)
  <2>1. dEp' = dEp /\ acks' = acks /\ consumed' = consumed /\ enables' = enables
    BY <1>3 DEF DeviceStep, CompleteIn, CompleteStall, CompleteOut, CompleteError
  <2>2. Pending(f)' = Pending(f)
    BY <2>1 DEF Pending
  <2>3. CASE CompleteIn(f)
    <3>1. poll[f] > 0
      BY <2>3 DEF CompleteIn
    <3>2. Idle(f) > 0
      BY <1>i, <1>w, <3>1
    <3>3. taken'[f] = taken[f] + 1 /\ dWork'[f] = Append(dWork[f], taken[f] + 1)
      BY <1>0, <2>3 DEF CompleteIn
    <3> QED
      BY <1>3, <2>1, <2>3, <3>2, <3>3
         DEF CompleteIn, DeviceStep, CompleteStall, CompleteError, Takes, InMove
  <2>4. CASE CompleteStall(f)
    <3>1. poll'[f] = poll[f] - 1 /\ again'[f] = again[f] + 1
      BY <1>0, <2>4 DEF CompleteStall
    <3>2. Idle(f)' <= Idle(f)
      BY <1>i, <1>w, <2>1, <2>2, <3>1
    <3> QED
      BY <1>3, <2>1, <2>4, <3>2 DEF CompleteStall, DeviceStep, CompleteIn, CompleteError, Stays, InMove
  <2>5. CASE CompleteError(f)
    <3>1. poll'[f] <= poll[f] /\ again' = again
      BY <1>0, <1>i, <1>w, <2>5 DEF CompleteError
    <3>2. Idle(f)' <= Idle(f)
      BY <1>i, <1>w, <2>1, <2>2, <3>1
    <3> QED
      BY <1>3, <2>1, <2>5, <3>2 DEF CompleteError, DeviceStep, CompleteIn, CompleteStall, Stays, InMove
  <2> QED
    BY <1>0, <1>3, <2>3, <2>4, <2>5 DEF DeviceStep
<1>4. CASE HostStep(f)
  <2>1. /\ d2g' = d2g /\ dWork' = dWork /\ taken' = taken /\ enables' = enables
        /\ poll' = poll /\ again' = again /\ acks' = acks /\ dEp' = dEp
    BY <1>4 DEF HostStep, HostRead, HostWrite, RequestError
  <2>2. CASE HostRead(f)
    BY <1>0, <2>1, <2>2 DEF HostRead, Gives, InMove
  <2>3. CASE RequestError(f)
    <3>1. Idle(f)' <= Idle(f)
      BY <1>i, <1>w, <2>1, <2>3 DEF RequestError, Pending
    <3> QED
      BY <1>0, <2>1, <2>3, <3>1 DEF RequestError, Discards, InMove
  <2> QED
    BY <1>0, <1>4, <2>2, <2>3 DEF HostStep
<1>5. CASE DriverWorks(f)
  <2>1. /\ inReq' = inReq /\ taken' = taken /\ read' = read /\ enables' = enables
        /\ consumed' = consumed /\ dEp' = dEp
    BY <1>5 DEF DriverWorks, WorkData, WorkAgain, RecvAck, RecvOut
  <2>2. Pending(f)' = Pending(f)
    BY <2>1 DEF Pending
  <2>3. CASE WorkData(f)
    <3>1. poll' = poll /\ again' = again /\ acks' = acks
      BY <2>3 DEF WorkData
    <3>2. Idle(f)' <= Idle(f)
      BY <1>i, <1>w, <2>1, <2>2, <3>1
    <3>3. /\ dWork[f] # <<>> /\ dWork'[f] = Tail(dWork[f])
          /\ d2g'[f] = Append(d2g[f], Head(dWork[f])) \/ d2g'[f] = d2g[f]
      BY <1>0, <2>3 DEF WorkData, SendData
    <3> QED
      BY <2>1, <3>2, <3>3 DEF Sends, InMove
  <2>4. CASE WorkAgain(f)
    <3>1. poll'[f] <= poll[f] + 1 /\ again'[f] = again[f] - 1 /\ acks' = acks
      BY <1>0, <2>4 DEF WorkAgain, Poll
    <3>2. Idle(f)' <= Idle(f)
      BY <1>i, <1>w, <2>1, <2>2, <3>1
    <3> QED
      BY <2>1, <2>4, <3>2 DEF WorkAgain, Stays, InMove
  <2>5. CASE RecvAck(f)
    <3>1. poll'[f] <= poll[f] + 1 /\ again' = again /\ acks'[f] = acks[f] - 1
      BY <1>0, <2>5 DEF RecvAck, Poll
    <3>2. Idle(f)' <= Idle(f)
      BY <1>i, <1>w, <2>1, <2>2, <3>1
    <3> QED
      BY <2>1, <2>5, <3>2 DEF RecvAck, Stays, InMove
  <2> QED
    BY <1>0, <1>5, <2>3, <2>4, <2>5 DEF DriverWorks
<1>6. CASE GadgetWorks(f)
  <2>1. /\ taken' = taken /\ read' = read /\ enables' = enables /\ dWork' = dWork
        /\ dEp' = dEp /\ poll' = poll /\ again' = again
    BY <1>6 DEF GadgetWorks, WorkConsumed, WorkOut, RecvIn
  <2>2. Pending(f)' = Pending(f)
    BY <2>1 DEF Pending
  <2>3. CASE WorkConsumed(f)
    <3>1. acks'[f] <= acks[f] + 1 /\ AtWorker(f)' = AtWorker(f) - 1
      <4>1. acks'[f] <= acks[f] + 1
        BY <1>0, <2>3 DEF WorkConsumed, SendAck
      <4>2. PICK i \in DOMAIN consumed[f] : consumed'[f] = RemoveAt(consumed[f], i)
        BY <1>0, <2>3 DEF WorkConsumed
      <4>3. consumed[f] \in Seq(Nat)
        BY <1>0
      <4> QED
        BY <4>1, <4>2, <4>3, SeqFacts DEF AtWorker
    <3>2. Idle(f)' <= Idle(f)
      BY <1>i, <1>w, <2>1, <2>2, <3>1
    <3> QED
      BY <2>1, <2>3, <3>2 DEF WorkConsumed, Stays, InMove
  <2>4. CASE RecvIn(f)
    <3>1. Idle(f)' <= Idle(f)
      BY <1>i, <1>w, <2>1, <2>2, <2>4 DEF RecvIn
    <3>2. \E i \in DOMAIN d2g[f] :
             /\ d2g'[f] = RemoveAt(d2g[f], i)
             /\ inReq'[f] = Append(inReq[f], d2g[f][i]) \/ inReq'[f] = inReq[f]
      BY <1>0, <2>4 DEF RecvIn
    <3> QED
      BY <2>1, <3>1, <3>2 DEF Receives, InMove
  <2> QED
    BY <1>0, <1>6, <2>3, <2>4 DEF GadgetWorks
<1>7. CASE Network(f)
  <2>1. /\ taken' = taken /\ read' = read /\ enables' = enables /\ dWork' = dWork
        /\ dEp' = dEp /\ poll' = poll /\ again' = again /\ consumed' = consumed
        /\ inReq' = inReq
    BY <1>7 DEF Network
  <2>2. Pending(f)' = Pending(f)
    BY <2>1 DEF Pending
  <2>3. CASE LoseData(f)
    <3>1. Idle(f)' <= Idle(f)
      BY <1>0, <1>i, <1>w, <2>1, <2>2, <2>3 DEF LoseData
    <3>2. \E i \in DOMAIN d2g[f] : d2g'[f] = RemoveAt(d2g[f], i)
      BY <1>0, <2>3 DEF LoseData
    <3> QED
      BY <2>1, <3>1, <3>2 DEF Receives, InMove
  <2>4. CASE LoseAck(f)
    <3>1. acks'[f] = acks[f] - 1
      BY <1>0, <2>4 DEF LoseAck
    <3>2. Idle(f)' <= Idle(f)
      BY <1>i, <1>w, <2>1, <2>2, <3>1
    <3> QED
      BY <2>1, <2>4, <3>2 DEF LoseAck, Stays, InMove
  <2> QED
    BY <1>7, <2>3, <2>4 DEF Network
<1> QED
  BY <1>1, <1>2, <1>3, <1>4, <1>5, <1>6, <1>7

\* Every step of the relay is one of the moves at every IN endpoint.
LEMMA EveryStepMoves ==
    ASSUME TypeOK, TypeOK', [Next]_vars, NEW f \in InEps
    PROVE  InMove(f)
<1>i. /\ Idle(f) \in Nat /\ Idle(f)' \in Nat
      /\ Idle(f) = poll[f] + again[f] + acks[f] + AtWorker(f) + Pending(f)
      /\ Idle(f)' = poll'[f] + again'[f] + acks'[f] + AtWorker(f)' + Pending(f)'
  BY IdleParts
<1>w. consumed'[f] = consumed[f] => AtWorker(f)' = AtWorker(f)
  BY DEF AtWorker
<1>1. ASSUME NEW e \in Eps,
             \/ DriverConfigures(e) \/ GadgetConfigures(e)
             \/ DeviceStep(e) \/ HostStep(e)
             \/ DriverWorks(e) \/ GadgetWorks(e)
             \/ Network(e)
      PROVE  InMove(f)
  <2>1. CASE e = f
    BY <1>1, <2>1, Here
  <2>2. CASE e # f
    <3>1. /\ Still(f) /\ enables'[f] = enables[f]
          /\ poll'[f] = poll[f] /\ again'[f] = again[f] /\ acks'[f] = acks[f]
          /\ consumed'[f] = consumed[f] /\ Pending(f)' = Pending(f)
      BY <1>1, <2>2, Elsewhere
    <3>2. Idle(f)' <= Idle(f)
      BY <1>i, <1>w, <3>1
    <3> QED
      BY <3>1, <3>2 DEF Stays, InMove
  <2> QED
    BY <2>1, <2>2
<1>2. CASE UNCHANGED vars
  <2>1. Idle(f)' <= Idle(f)
    BY <1>i, <1>w, <1>2 DEF vars, userlandVars, driverVars, gadgetVars, configVars, Pending
  <2> QED
    BY <1>2, <2>1 DEF vars, userlandVars, driverVars, gadgetVars, configVars, Still, Stays, InMove
<1> QED
  BY <1>1, <1>2 DEF Next

-----------------------------------------------------------------------------
(* Nothing is read twice *)

LEMMA PayloadTypes ==
    ASSUME TypeOK, NEW f \in InEps
    PROVE  /\ read[f] \in Seq(Nat) /\ inReq[f] \in Seq(Nat)
           /\ d2g[f] \in Seq(Nat) /\ dWork[f] \in Seq(Nat)
           /\ taken[f] \in Nat /\ enables[f] \in Nat
  BY DEF TypeOK, UserlandTypeOK, DriverTypeOK, GadgetTypeOK, Eps

\* The payloads that are left, and the ones that are dropped.
LEMMA ApartStep ==
    ASSUME TypeOK, NEW f \in InEps, Apart(f), InMove(f)
    PROVE  Apart(f)'
<1> DEFINE R == Range(read[f])
           I == Range(inReq[f])
           N == Range(d2g[f])
           W == Range(dWork[f])
<1>t. /\ read[f] \in Seq(Nat) /\ inReq[f] \in Seq(Nat)
      /\ d2g[f] \in Seq(Nat) /\ dWork[f] \in Seq(Nat)
      /\ taken[f] \in Nat
  BY PayloadTypes
<1>n. R \subseteq Nat /\ I \subseteq Nat /\ N \subseteq Nat /\ W \subseteq Nat
  BY <1>t, RangeOfSeq DEF Range
<1>a. /\ IsInjective(read[f]) /\ IsInjective(inReq[f])
      /\ IsInjective(d2g[f]) /\ IsInjective(dWork[f])
      /\ R \cap I = {} /\ R \cap N = {} /\ R \cap W = {}
      /\ I \cap N = {} /\ I \cap W = {} /\ N \cap W = {}
      /\ \A d \in R \cup I \cup N \cup W : d <= taken[f]
  BY DEF Apart
<1>1. CASE Stays(f) \/ Opens(f)
  BY <1>a, <1>1 DEF Stays, Opens, Still, Apart
<1>2. CASE Takes(f)
  <2>1. taken[f] + 1 \in Nat /\ taken[f] + 1 \notin R \cup I \cup N \cup W
    BY <1>t, <1>n, <1>a
  <2>2. Range(dWork'[f]) = W \cup {taken[f] + 1} /\ IsInjective(dWork'[f])
    BY <1>t, <1>a, <1>2, <2>1, AppendHolds DEF Takes
  <2>3. \A d \in R \cup I \cup N \cup W \cup {taken[f] + 1} : d <= taken[f] + 1
    BY <1>t, <1>n, <1>a
  <2>4. /\ Range(read'[f]) = R /\ Range(inReq'[f]) = I /\ Range(d2g'[f]) = N
        /\ taken'[f] = taken[f] + 1
        /\ inReq'[f] = inReq[f] /\ d2g'[f] = d2g[f] /\ read'[f] = read[f]
    BY <1>2 DEF Takes
  <2> HIDE DEF R, I, N, W
  <2> QED
    BY <1>a, <2>1, <2>2, <2>3, <2>4 DEF Apart
<1>3. CASE Sends(f)
  <2>1. /\ Head(dWork[f]) \in Nat /\ Head(dWork[f]) \in W
        /\ W = Range(dWork'[f]) \cup {Head(dWork[f])}
        /\ Head(dWork[f]) \notin Range(dWork'[f]) /\ IsInjective(dWork'[f])
    <3>1. dWork[f] # <<>> /\ dWork'[f] = Tail(dWork[f])
      BY <1>3 DEF Sends
    <3>2. dWork[f] \in Seq(Nat) /\ IsInjective(dWork[f])
      BY <1>t, <1>a
    <3>3. /\ Head(dWork[f]) \in Nat /\ Head(dWork[f]) \in Range(dWork[f])
          /\ Range(dWork[f]) = Range(Tail(dWork[f])) \cup {Head(dWork[f])}
          /\ IsInjective(Tail(dWork[f])) /\ Head(dWork[f]) \notin Range(Tail(dWork[f]))
      BY <3>1, <3>2, TailHolds
    <3> QED
      BY <3>1, <3>3
  <2>2. /\ \/ Range(d2g'[f]) = N \cup {Head(dWork[f])}
           \/ Range(d2g'[f]) = N
        /\ IsInjective(d2g'[f])
    <3>1. Head(dWork[f]) \notin N
      BY <1>a, <2>1
    <3>2. /\ Range(Append(d2g[f], Head(dWork[f]))) = N \cup {Head(dWork[f])}
          /\ IsInjective(Append(d2g[f], Head(dWork[f])))
      BY <1>t, <1>a, <2>1, <3>1, AppendHolds
    <3> QED
      BY <1>a, <1>3, <3>2 DEF Sends
  <2>3. inReq'[f] = inReq[f] /\ taken'[f] = taken[f] /\ read'[f] = read[f]
    BY <1>3 DEF Sends
  <2> QED
    BY <1>a, <2>1, <2>2, <2>3 DEF Apart
<1>4. CASE Receives(f)
  <2>1. PICK i \in DOMAIN d2g[f] :
           /\ d2g'[f] = RemoveAt(d2g[f], i)
           /\ inReq'[f] = Append(inReq[f], d2g[f][i]) \/ inReq'[f] = inReq[f]
    BY <1>4 DEF Receives
  <2> DEFINE d == d2g[f][i]
  <2>2. /\ d \in Nat /\ d \in N /\ N = Range(d2g'[f]) \cup {d} /\ d \notin Range(d2g'[f])
        /\ IsInjective(d2g'[f])
    BY <1>t, <1>a, <2>1, RemoveAtHolds
  <2>3. /\ Range(inReq'[f]) = I \cup {d} \/ Range(inReq'[f]) = I
        /\ IsInjective(inReq'[f])
    <3>1. d \notin I
      BY <1>a, <2>2
    <3>2. Range(Append(inReq[f], d)) = I \cup {d} /\ IsInjective(Append(inReq[f], d))
      BY <1>t, <1>a, <2>2, <3>1, AppendHolds
    <3> QED
      BY <1>a, <2>1, <3>2
  <2>4. dWork'[f] = dWork[f] /\ taken'[f] = taken[f] /\ read'[f] = read[f]
    BY <1>4 DEF Receives
  <2> QED
    BY <1>a, <2>2, <2>3, <2>4 DEF Apart
<1>5. CASE Discards(f)
  <2>1. IsInjective(inReq'[f]) /\ Range(inReq'[f]) \subseteq I
    <3>1. CASE inReq'[f] = <<>>
      BY <3>1, EmptyHolds
    <3>2. CASE inReq[f] # <<>> /\ inReq'[f] = Tail(inReq[f])
      BY <1>t, <1>a, <3>2, TailHolds
    <3> QED
      BY <1>5, <3>1, <3>2 DEF Discards
  <2>2. /\ d2g'[f] = d2g[f] /\ dWork'[f] = dWork[f] /\ taken'[f] = taken[f]
        /\ read'[f] = read[f]
    BY <1>5 DEF Discards
  <2> QED
    BY <1>a, <2>1, <2>2 DEF Apart
<1>6. CASE Gives(f)
  <2> DEFINE d == Head(inReq[f])
  <2>1. /\ d \in Nat /\ d \in I /\ I = Range(inReq'[f]) \cup {d} /\ d \notin Range(inReq'[f])
        /\ IsInjective(inReq'[f])
    <3>1. inReq[f] # <<>> /\ inReq'[f] = Tail(inReq[f])
      BY <1>6 DEF Gives
    <3>2. inReq[f] \in Seq(Nat) /\ IsInjective(inReq[f])
      BY <1>t, <1>a
    <3>3. /\ Head(inReq[f]) \in Nat /\ Head(inReq[f]) \in Range(inReq[f])
          /\ Range(inReq[f]) = Range(Tail(inReq[f])) \cup {Head(inReq[f])}
          /\ IsInjective(Tail(inReq[f])) /\ Head(inReq[f]) \notin Range(Tail(inReq[f]))
      BY <3>1, <3>2, TailHolds
    <3> QED
      BY <3>1, <3>3, Zenon
  <2>2. Range(read'[f]) = R \cup {d} /\ IsInjective(read'[f])
    <3>1. d \notin R
      BY <1>a, <2>1
    <3>2. read'[f] = Append(read[f], d)
      BY <1>6 DEF Gives
    <3> HIDE DEF d
    <3>3. Range(Append(read[f], d)) = R \cup {d} /\ IsInjective(Append(read[f], d))
      BY <1>t, <1>a, <2>1, <3>1, AppendHolds
    <3> QED
      BY <3>2, <3>3
  <2>3. d2g'[f] = d2g[f] /\ dWork'[f] = dWork[f] /\ taken'[f] = taken[f]
    BY <1>6 DEF Gives
  <2> QED
    BY <1>a, <2>1, <2>2, <2>3 DEF Apart
<1> QED
  BY <1>1, <1>2, <1>3, <1>4, <1>5, <1>6 DEF InMove

\* The host reads no payload of an IN endpoint twice, however datagrams overtake
\* each other, requests are dropped and either half is reconfigured, though no
\* message carries a number (driver.c:812-830).
THEOREM NothingTwice == Spec => []AtMostOnce
<1>1. Init => ApartInv
  <2>1. ASSUME Init, NEW f \in InEps PROVE Apart(f)
    <3>1. read[f] = <<>> /\ inReq[f] = <<>> /\ d2g[f] = <<>> /\ dWork[f] = <<>>
      BY <2>1 DEF Init, UserlandInit, DriverInit, GadgetInit
    <3> QED
      BY <3>1, EmptyHolds DEF Apart
  <2> QED
    BY <2>1 DEF ApartInv
<1>2. TypeOK /\ TypeOK' /\ ApartInv /\ [Next]_vars => ApartInv'
  BY EveryStepMoves, ApartStep DEF ApartInv
<1>3. ApartInv => AtMostOnce
  BY DEF ApartInv, Apart, AtMostOnce
<1> QED
  BY <1>1, <1>2, <1>3, TypeCorrect, PTL DEF Spec

-----------------------------------------------------------------------------
(* Nothing is skipped *)

\* The payloads on their way are credits, too.  Their numbers have names, for the
\* provers to take as they are.
OnWay(f)    == Len(d2g[f])
AtDriver(f) == Len(dWork[f])

LEMMA CreditSplit ==
    ASSUME TypeOK, NEW f \in InEps
    PROVE  /\ Idle(f) \in Nat /\ AtHost(f) \in Nat /\ OnWay(f) \in Nat /\ AtDriver(f) \in Nat
           /\ Credit(f) + Pending(f) = Idle(f) + AtHost(f) + OnWay(f) + AtDriver(f)
<1>1. DriverNat(f) /\ UserlandNat(f) /\ GadgetNat(f) /\ Pending(f) \in Nat
  BY PartIsNat DEF Pending
<1>2. /\ poll[f] \in Nat /\ again[f] \in Nat /\ acks[f] \in Nat /\ AtWorker(f) \in Nat
      /\ AtHost(f) \in Nat /\ OnWay(f) \in Nat /\ AtDriver(f) \in Nat
  BY <1>1 DEF DriverNat, UserlandNat, GadgetNat, OnWay, AtDriver
<1>3. Credit(f) = (poll[f] + again[f] + AtDriver(f)) + (OnWay(f) + acks[f])
                  + (AtHost(f) + AtWorker(f))
  BY DEF Credit, DriverCredit, UserlandCredit, GadgetCredit, AtHost, AtWorker, OnWay, AtDriver
<1>4. Idle(f) = poll[f] + again[f] + acks[f] + AtWorker(f) + Pending(f)
  BY DEF Idle
<1> QED
  BY <1>1, <1>2, <1>3, <1>4

LEMMA PrimedCreditSplit ==
    ASSUME TypeOK', NEW f \in InEps
    PROVE  /\ Idle(f)' \in Nat /\ AtHost(f)' \in Nat /\ OnWay(f)' \in Nat
           /\ AtDriver(f)' \in Nat
           /\ Credit(f)' + Pending(f)' = Idle(f)' + AtHost(f)' + OnWay(f)' + AtDriver(f)'
<1>1. DriverNat(f)' /\ UserlandNat(f)' /\ GadgetNat(f)' /\ Pending(f)' \in Nat
  BY PrimedPartIsNat DEF Pending
<1>2. /\ poll'[f] \in Nat /\ again'[f] \in Nat /\ acks'[f] \in Nat /\ AtWorker(f)' \in Nat
      /\ AtHost(f)' \in Nat /\ OnWay(f)' \in Nat /\ AtDriver(f)' \in Nat
  BY <1>1 DEF DriverNat, UserlandNat, GadgetNat, OnWay, AtDriver
<1>3. Credit(f)' = (poll'[f] + again'[f] + AtDriver(f)') + (OnWay(f)' + acks'[f])
                   + (AtHost(f)' + AtWorker(f)')
  BY DEF Credit, DriverCredit, UserlandCredit, GadgetCredit, AtHost, AtWorker, OnWay, AtDriver
<1>4. Idle(f)' = poll'[f] + again'[f] + acks'[f] + AtWorker(f)' + Pending(f)'
  BY DEF Idle
<1> QED
  BY <1>1, <1>2, <1>3, <1>4

\* An empty queue holds no payload.
LEMMA NoPayload ==
    ASSUME NEW s \in Seq(Nat), Len(s) = 0
    PROVE  Range(s) = {}
  BY EmptySeq, EmptyHolds

LEMMA FollowsStep ==
    ASSUME TypeOK, TypeOK', CreditInv, CreditInv', NEW f \in InEps, Follows(f), InMove(f)
    PROVE  Follows(f)'
<1> SUFFICES ASSUME enables'[f] <= 1 PROVE Follows(f)'
  BY DEF Follows
<1> DEFINE R == read[f]
           Way == Range(inReq[f]) \cup Range(d2g[f]) \cup Range(dWork[f])
           Later == Range(inReq'[f]) \cup Range(d2g'[f]) \cup Range(dWork'[f])
<1>t. /\ read[f] \in Seq(Nat) /\ inReq[f] \in Seq(Nat)
      /\ d2g[f] \in Seq(Nat) /\ dWork[f] \in Seq(Nat)
      /\ taken[f] \in Nat /\ enables[f] \in Nat
      /\ Len(read[f]) \in Nat /\ DOMAIN read[f] = 1..Len(read[f])
  BY PayloadTypes, LenProperties
<1>u. /\ inReq'[f] \in Seq(Nat) /\ d2g'[f] \in Seq(Nat) /\ dWork'[f] \in Seq(Nat)
      /\ enables'[f] \in Nat
  BY DEF TypeOK, UserlandTypeOK, DriverTypeOK, GadgetTypeOK, Eps
<1>c. /\ Idle(f) \in Nat /\ AtHost(f) \in Nat /\ OnWay(f) \in Nat /\ AtDriver(f) \in Nat
      /\ Idle(f) + AtHost(f) + OnWay(f) + AtDriver(f) <= enables[f]
  BY CreditSplit DEF CreditInv
<1>d. /\ Idle(f)' \in Nat /\ AtHost(f)' \in Nat /\ OnWay(f)' \in Nat /\ AtDriver(f)' \in Nat
      /\ Idle(f)' + AtHost(f)' + OnWay(f)' + AtDriver(f)' <= enables'[f]
  BY PrimedCreditSplit DEF CreditInv
<1>e. enables[f] <= 1
  BY <1>t DEF InMove, Stays, Opens, Takes, Sends, Receives, Discards, Gives
<1>f. /\ \A i \in DOMAIN read[f] : read[f][i] = i
      /\ \A d \in Way : d = Len(read[f]) + 1 /\ d = taken[f]
      /\ Idle(f) > 0 \/ enables[f] = 0 => taken[f] = Len(read[f])
  BY <1>e DEF Follows
\* a move that gives the host nothing, and takes nothing from the device
<1>g. ASSUME read'[f] = read[f], taken'[f] = taken[f], Later \subseteq Way,
             Idle(f)' <= Idle(f), enables'[f] = enables[f]
      PROVE  Follows(f)'
  <2>1. Idle(f)' > 0 => Idle(f) > 0
    BY <1>c, <1>d, <1>g
  <2>2. \A d \in Later : d = Len(read'[f]) + 1 /\ d = taken'[f]
    BY <1>f, <1>g
  <2>3. Idle(f)' > 0 \/ enables'[f] = 0 => taken'[f] = Len(read'[f])
    BY <1>f, <1>g, <2>1
  <2> QED
    BY <1>f, <1>g, <2>2, <2>3 DEF Follows
<1>1. CASE Stays(f)
  BY <1>g, <1>1 DEF Stays, Still
<1>2. CASE Opens(f)
  <2>1. enables[f] = 0
    BY <1>t, <1>2 DEF Opens
  <2>2. taken[f] = Len(read[f])
    BY <1>f, <2>1
  <2> QED
    BY <1>2, <1>f, <2>2 DEF Opens, Still, Follows
<1>3. CASE Takes(f)
  <2>1. taken[f] = Len(read[f])
    BY <1>f, <1>3 DEF Takes
  <2>2. Range(dWork'[f]) = Range(dWork[f]) \cup {taken[f] + 1} /\ AtDriver(f)' >= 1
    <3>1. taken[f] + 1 \in Nat
      BY <1>t
    <3>2. Len(dWork'[f]) = Len(dWork[f]) + 1 /\ Len(dWork[f]) \in Nat
      <4>1. dWork[f] \in Seq(Nat)
        BY <1>t
      <4>2. Len(Append(dWork[f], taken[f] + 1)) = Len(dWork[f]) + 1
        BY <4>1, <3>1, AppendProperties
      <4>3. Len(dWork[f]) \in Nat
        BY <4>1, LenProperties
      <4> QED
        BY <1>3, <4>2, <4>3 DEF Takes
    <3>3. Range(Append(dWork[f], taken[f] + 1)) = Range(dWork[f]) \cup {taken[f] + 1}
      <4>1. dWork[f] \in Seq(Nat)
        BY <1>t
      <4> QED
        BY <4>1, <3>1, AppendHolds
    <3>4. Range(dWork'[f]) = Range(dWork[f]) \cup {taken[f] + 1}
      BY <1>3, <3>3 DEF Takes
    <3>5. AtDriver(f)' >= 1
      BY <3>2 DEF AtDriver
    <3> QED
      BY <3>4, <3>5
  <2>3. Idle(f)' = 0 /\ enables'[f] # 0
    BY <1>d, <1>u, <2>2
  <2>4. Way = {}
    <3>1. Idle(f) > 0 /\ enables[f] \in Nat
      BY <1>t, <1>3 DEF Takes
    <3>2. AtHost(f) = 0 /\ OnWay(f) = 0 /\ AtDriver(f) = 0
      BY <1>c, <1>e, <3>1
    <3> QED
      BY <1>t, <3>2, NoPayload DEF AtHost, OnWay, AtDriver
  <2>5. Later = {taken[f] + 1}
    BY <1>3, <2>2, <2>4 DEF Takes
  <2>6. read'[f] = read[f] /\ taken'[f] = taken[f] + 1
    BY <1>3 DEF Takes
  <2>7. \A d \in Later : d = Len(read'[f]) + 1 /\ d = taken'[f]
    BY <2>1, <2>5, <2>6
  <2> HIDE DEF Later
  <2>8. \A i \in DOMAIN read'[f] : read'[f][i] = i
    BY <1>f, <2>6
  <2> QED
    BY <2>3, <2>7, <2>8 DEF Follows, Later
<1>4. CASE Sends(f)
  <2>1. /\ Head(dWork[f]) \in Nat /\ Head(dWork[f]) \in Range(dWork[f])
        /\ Range(dWork'[f]) \subseteq Range(dWork[f])
    BY <1>t, <1>4, TailHolds DEF Sends
  <2>2. Range(Append(d2g[f], Head(dWork[f]))) = Range(d2g[f]) \cup {Head(dWork[f])}
    BY <1>t, <2>1, AppendHolds
  <2>3. Later \subseteq Way
    BY <1>4, <2>1, <2>2 DEF Sends
  <2> QED
    BY <1>g, <1>4, <2>3 DEF Sends
<1>5. CASE Receives(f)
  <2>1. PICK i \in DOMAIN d2g[f] :
           /\ d2g'[f] = RemoveAt(d2g[f], i)
           /\ inReq'[f] = Append(inReq[f], d2g[f][i]) \/ inReq'[f] = inReq[f]
    BY <1>5 DEF Receives
  <2>2. /\ d2g[f][i] \in Nat /\ d2g[f][i] \in Range(d2g[f])
        /\ Range(d2g'[f]) \subseteq Range(d2g[f])
    BY <1>t, <2>1, RemoveAtHolds
  <2>3. Range(Append(inReq[f], d2g[f][i])) = Range(inReq[f]) \cup {d2g[f][i]}
    BY <1>t, <2>2, AppendHolds
  <2>4. Later \subseteq Way
    BY <1>5, <2>1, <2>2, <2>3 DEF Receives
  <2> QED
    BY <1>g, <1>5, <2>4 DEF Receives
<1>6. CASE Discards(f)
  <2>1. Range(inReq'[f]) \subseteq Range(inReq[f])
    BY <1>t, <1>6, EmptyHolds, TailHolds DEF Discards
  <2> QED
    BY <1>g, <1>6, <2>1 DEF Discards
<1>7. CASE Gives(f)
  <2> DEFINE d == Head(inReq[f])
  <2>1. d \in Nat /\ d \in Way
    BY <1>t, <1>7, TailHolds DEF Gives
  <2>2. d = Len(read[f]) + 1 /\ taken[f] = Len(read[f]) + 1
    BY <1>f, <2>1
  <2>3. read'[f] = Append(read[f], d)
    BY <1>7 DEF Gives
  <2>4. /\ Len(read'[f]) = Len(read[f]) + 1 /\ DOMAIN read'[f] = 1..(Len(read[f]) + 1)
        /\ \A i \in 1..Len(read[f]) : read'[f][i] = read[f][i]
        /\ read'[f][Len(read[f]) + 1] = d
    BY <1>t, <2>1, <2>3, AppendProperties, LenProperties
  <2>5. \A i \in DOMAIN read'[f] : read'[f][i] = i
    <3> SUFFICES ASSUME NEW i \in 1..(Len(read[f]) + 1) PROVE read'[f][i] = i
      BY <2>4
    <3>1. CASE i = Len(read[f]) + 1
      BY <2>2, <2>4, <3>1
    <3>2. CASE i \in 1..Len(read[f])
      <4>1. read[f][i] = i
        BY <1>t, <1>f, <3>2
      <4> QED
        BY <2>4, <3>2, <4>1
    <3>3. i = Len(read[f]) + 1 \/ i \in 1..Len(read[f])
      BY <1>t, SMTT(30)
    <3> QED
      BY <3>1, <3>2, <3>3
  <2>6. Later = {}
    <3>1. AtHost(f) = 1 /\ OnWay(f) = 0 /\ AtDriver(f) = 0
      <4>1. AtHost(f) # 0 /\ enables[f] \in Nat
        BY <1>t, <1>7, EmptySeq DEF Gives, AtHost
      <4> QED
        BY <1>c, <1>e, <4>1
    <3>2. AtHost(f)' = 0
      <4>1. Len(Tail(inReq[f])) = Len(inReq[f]) - 1 /\ inReq'[f] = Tail(inReq[f])
        BY <1>t, <1>7, SeqFacts DEF Gives
      <4>2. Len(inReq[f]) = 1
        BY <3>1 DEF AtHost
      <4> QED
        BY <4>1, <4>2 DEF AtHost
    <3>3. d2g'[f] = d2g[f] /\ dWork'[f] = dWork[f]
      BY <1>7 DEF Gives
    <3>4. Range(inReq'[f]) = {}
      BY <1>u, <3>2, NoPayload DEF AtHost
    <3>5. Range(d2g'[f]) = {} /\ Range(dWork'[f]) = {}
      BY <1>t, <3>1, <3>3, NoPayload DEF OnWay, AtDriver
    <3> QED
      BY <3>4, <3>5
  <2>7. taken'[f] = Len(read'[f])
    BY <1>7, <2>2, <2>4 DEF Gives
  <2> HIDE DEF Later
  <2> QED
    BY <2>5, <2>6, <2>7 DEF Follows, Later
<1> QED
  BY <1>1, <1>2, <1>3, <1>4, <1>5, <1>6, <1>7 DEF InMove

\* Until the driver opens an IN endpoint again, what the host has read is what the
\* device produced first, without a hole: a lost payload takes the only credit
\* with it, so that nothing can follow it (driver.c:812-830).
THEOREM NothingSkipped == Spec => []NoGap
<1>1. Init => CreditInv /\ FollowsInv
  <2>1. ASSUME Init, NEW f \in InEps PROVE Follows(f)
    <3>1. /\ read[f] = <<>> /\ inReq[f] = <<>> /\ d2g[f] = <<>> /\ dWork[f] = <<>>
          /\ taken[f] = 0
      BY <2>1 DEF Init, UserlandInit, DriverInit, GadgetInit
    <3>2. Range(<<>>) = {} /\ Len(<<>>) = 0 /\ DOMAIN <<>> = {}
      BY EmptyHolds
    <3> QED
      BY <3>1, <3>2 DEF Follows
  <2> QED
    BY <2>1, InitCredit DEF FollowsInv
<1>2. TypeOK /\ TypeOK' /\ Placed /\ CreditInv /\ FollowsInv /\ [Next]_vars
      => CreditInv' /\ FollowsInv'
  <2> SUFFICES ASSUME TypeOK, TypeOK', Placed, CreditInv, FollowsInv, [Next]_vars
               PROVE  CreditInv' /\ FollowsInv'
    OBVIOUS
  <2>1. CreditInv'
    BY NextCredit
  <2>2. ASSUME NEW f \in InEps PROVE Follows(f)'
    BY <2>1, EveryStepMoves, FollowsStep DEF FollowsInv
  <2> QED
    BY <2>1, <2>2 DEF FollowsInv
<1>3. FollowsInv => NoGap
  BY DEF FollowsInv, Follows, NoGap
<1> QED
  BY <1>1, <1>2, <1>3, PlacedAlways, TypeCorrect, PTL DEF Spec
===============================================================================
