--------------------------- MODULE Session_proofs ---------------------------
(***************************************************************************)
(* Session for any devices, any mishaps together and any bounds: type      *)
(* correctness, what the flags of the gadget and the driver tell, and what *)
(* is left of a session and of the module.                                 *)
(*                                                                         *)
(* What an invariant excuses by a mishap is said of all that has happened  *)
(* so far, so that a behaviour is excused for good once it happens.        *)
(***************************************************************************)
EXTENDS Session, InitPkt_proofs

Never(kind) == kind \notin happened

-----------------------------------------------------------------------------
(* What the induction is about *)

\* a thread that walks over interfaces has one to go; it takes them away from the
\* driver when it goes "down"
Down(t) == th[t].at \in {"deregister", "disconnect", "disconnect_ep0"}
Walks == \A t \in Threads : th[t].at = "probe" \/ Down(t) => th[t].left # {}

\* The gadget.  It is presented only while it is said to be registered, and never
\* while its com worker replaces the device.
Flags ==
    /\ udc => registered /\ gcom.at = "idle"
    /\ gcom.at = "register" => gcom.device # NoDevice
    /\ gcom.at # "idle" /\ gcom.device = NoDevice => ~registered
    /\ gcom.at = "idle" /\ unload = "no" /\ Never("cut") /\ Never("bind") => registered = udc

\* Endpoints are closed behind the com worker, and before a device is registered.
GadgetClosed ==
    unload = "no" /\ Never("busy") /\ Never("bind") =>
        /\ gcom.at = "clean_ep0" => "other" \notin gEps
        /\ gcom.at = "register" \/ (gcom.at = "idle" /\ ~udc) => gEps = {}

\* Module exit finds the com worker idle, and closes the endpoints.
GadgetGone ==
    unload # "no" /\ Never("late") =>
        /\ gcom.at = "idle" /\ ~udc
        /\ unload = "gadget_ep0" /\ Never("busy") => "other" \notin gEps
        /\ unload \in {"gadget_close", "driver", "done"} /\ Never("busy") => gEps = {}

GadgetInv == Flags /\ GadgetClosed /\ GadgetGone

\* The driver.  Endpoints are closed where a thread cleans up, and while there is
\* no session.
DriverClosed ==
    Never("busy") =>
        /\ \A t \in Threads : EndsClean(t) => "other" \notin dEps
        /\ ~init => dEps = {}

\* Module exit finds the com worker idle, takes the driver back, then the endpoints.
DriverGone ==
    /\ th["exit"].at # "idle" => unload = "driver"
    /\ Never("late") /\ unload = "driver" => th["com"].at = "idle"
    /\ /\ unload \in {"driver", "done"} /\ Never("late") /\ Never("busy")
       /\ th["exit"].at \notin {"clean", "clean_ep0"}
       => ~reg /\ dEps = {}

\* One device is there; what the hub thread has not to go over is absent.
OneDevice ==
    Never("second") =>
        /\ \A i, j \in Interfaces : intf[i] # "absent" /\ intf[j] # "absent" => i[1] = j[1]
        /\ Down("hub") => \A i \in Interfaces : intf[i] # "absent" => i \in th["hub"].left

\* A thread that deregisters the driver has every bound interface to go over.
Deregisters ==
    Never("late") =>
        \A t \in {"com", "exit"} : Down(t) =>
            ~reg /\ \A i \in Interfaces : intf[i] = "bound" => i \in th[t].left

\* Without a session, a bound interface is one a thread is about to take away.
Orphans ==
    Never("second") /\ Never("late") /\ ~init =>
        \A i \in Interfaces : intf[i] = "bound" =>
            \E t \in Threads : Down(t) /\ i \in th[t].left

\* A session has an interface of its device.
Anchored ==
    Never("alloc") /\ Never("send") /\ init =>
        \E i \in InterfacesOf(dev) : intf[i] = "bound"

DriverInv == DriverClosed /\ DriverGone /\ OneDevice /\ Deregisters /\ Orphans /\ Anchored
-----------------------------------------------------------------------------
(* Helpers *)

LEMMA InterfaceIs ==
    ASSUME NEW i \in Interfaces
    PROVE  i[1] \in Devices /\ i[2] \in Nat /\ i = <<i[1], i[2]>>
<1>1. ASSUME NEW d \in Devices PROVE DOMAIN Description[d] \subseteq Nat
  <2>1. Description[d] \in Seq(Seq(DescribedSettings))
    BY SessionAssumption DEF Descriptions
  <2>2. Len(Description[d]) \in Nat /\ DOMAIN Description[d] = 1..Len(Description[d])
    BY <2>1, LenProperties
  <2> QED
    BY <2>2
<1> QED
  BY <1>1 DEF Interfaces

\* The next interface is one of those that are left.
LEMMA PickIsLeft ==
    ASSUME NEW left, left \subseteq Interfaces, left # {}
    PROVE  Pick(left) \in left
<1>1. PICK x \in left : TRUE
  OBVIOUS
<1> DEFINE Numbers == {n \in Nat : <<x[1], n>> \in left}
<1>2. \E n \in Numbers : \A m \in Numbers : n <= m
  <2>1. x[2] \in Numbers /\ Numbers \subseteq Nat
    BY <1>1, InterfaceIs
  <2>2. \E n \in Numbers : \A m \in Numbers : ~(<<m, n>> \in OpToRel(<, Nat))
    BY <2>1, NatLessThanWellFounded, WFMin
  <2>3. \A m, n \in Nat : m < n => <<m, n>> \in OpToRel(<, Nat)
    BY DEF OpToRel
  <2>4. \A m, n \in Nat : ~(m < n) => n <= m
    OBVIOUS
  <2> HIDE DEF Numbers
  <2> QED
    BY <2>1, <2>2, <2>3, <2>4
<1>3. PICK n \in Numbers : \A m \in Numbers : n <= m
  BY <1>2
<1> DEFINE i == <<x[1], n>>
<1>4. i \in left /\ i[1] = x[1] /\ i[2] = n
  BY <1>3
<1>5. ASSUME NEW j \in left, j[1] = i[1] PROVE i[2] <= j[2]
  <2>1. j = <<j[1], j[2]>> /\ j[2] \in Nat
    BY InterfaceIs
  <2>2. j[2] \in Numbers
    BY <1>4, <1>5, <2>1
  <2> QED
    BY <1>3, <1>4, <2>2
<1> HIDE DEF i
<1>6. \E k \in left : \A j \in left : j[1] = k[1] => k[2] <= j[2]
  BY <1>4, <1>5
<1> QED
  BY <1>6 DEF Pick

Ats == {"idle", "probe", "deregister", "clean", "clean_ep0", "disconnect", "disconnect_ep0"}

ThreadTypes == th \in [Threads -> [at : Ats, left : SUBSET Interfaces]]

\* A thread that goes on.
LEMMA GoesIs ==
    ASSUME ThreadTypes, NEW t \in Threads, NEW at \in Ats, NEW left \in SUBSET Interfaces,
           Goes(t, at, left)
    PROVE  /\ ThreadTypes'
           /\ left = {} => th'[t].at = "idle"
           /\ left # {} => th'[t].at = at /\ th'[t].left = left
           /\ \A u \in Threads \ {t} : th'[u] = th[u]
<1>1. Rest \in [at : Ats, left : SUBSET Interfaces] /\ Rest.at = "idle"
  BY DEF Rest, Ats
<1>2. [at |-> at, left |-> left] \in [at : Ats, left : SUBSET Interfaces]
  OBVIOUS
<1>3. CASE left = {}
  <2>1. th' = [th EXCEPT ![t] = Rest]
    BY <1>3 DEF Goes
  <2> QED
    BY <1>1, <1>3, <2>1 DEF ThreadTypes
<1>4. CASE left # {}
  <2>1. th' = [th EXCEPT ![t] = [at |-> at, left |-> left]]
    BY <1>4 DEF Goes
  <2> QED
    BY <1>2, <1>4, <2>1 DEF ThreadTypes
<1> QED
  BY <1>3, <1>4

\* A thread that stays at its interfaces.
LEMMA AtIs ==
    ASSUME ThreadTypes, NEW t \in Threads, NEW at \in Ats, th' = [th EXCEPT ![t].at = at]
    PROVE  /\ ThreadTypes'
           /\ th'[t].at = at /\ th'[t].left = th[t].left
           /\ \A u \in Threads \ {t} : th'[u] = th[u]
  BY DEF ThreadTypes

\* What is said of a behaviour's mishaps holds on.
LEMMA HappenedGrows == [Next]_vars => happened \subseteq happened'
  BY DEF Next, vars, bounds, Plug, Unplug, Command, Lose, Open, GadgetOpens, Unload, System,
         Thread, Probe, Announce, Disconnect, CleanOthers, CleanEp0, RecvCommand, GadgetCom,
         RecvNewDevice, RecvReset, GadgetCleanOthers, GadgetCleanEp0, NewDevice, Register,
         Exit, ExitOthers, ExitEp0, ExitDriver, ExitDone, Suffers
-----------------------------------------------------------------------------
(* What the threads of the driver do *)

DriverTypes ==
    /\ ThreadTypes
    /\ intf \in [Interfaces -> {"absent", "new", "bound", "failed"}]
    /\ dev \in Devices \cup {NoDevice}
    /\ dEps \subseteq Endpoints

LEMMA TypesOfDriver == TypeOK => DriverTypes
  BY DEF TypeOK, DriverTypes, ThreadTypes, Ats

\* A probe goes on to the next interface.  It leaves the rest alone, or binds the
\* driver to the interface, in a session, or fails for want of memory or a message.
LEMMA ProbeDoes ==
    ASSUME DriverTypes, Walks, NEW t \in Threads, Probe(t)
    PROVE  \E i \in Interfaces :
               /\ th[t].at = "probe"
               /\ ThreadTypes'
               /\ th'[t].at = "idle" \/ (th'[t].at = "probe" /\ th'[t].left # {})
               /\ \A u \in Threads \ {t} : th'[u] = th[u]
               /\ UNCHANGED <<reg, toDriver, gadget, unload>>
               /\ \/ UNCHANGED <<intf, init, dev, dEps, toGadget, happened>>
                  \/ /\ reg /\ intf[i] = "new"
                     /\ init' = TRUE /\ dev' = i[1]
                     /\ \/ intf' = [intf EXCEPT ![i] = "bound"]
                        \/ /\ intf' = [intf EXCEPT ![i] = "failed"]
                           /\ "alloc" \in happened' \/ "send" \in happened'
                     /\ \E eps \in SUBSET Ep0 : dEps' = dEps \cup eps
                     /\ toGadget' = toGadget \/ toGadget' = Append(toGadget, i[1])
                     /\ happened' \in {happened, happened \cup {"alloc"}, happened \cup {"send"}}
<1> DEFINE i == Pick(th[t].left)
<1>1. th[t].at = "probe" /\ th[t].left # {} /\ th[t].left \subseteq Interfaces
  BY DEF Probe, Walks, DriverTypes, ThreadTypes
<1>2. i \in Interfaces
  BY <1>1, PickIsLeft
<1> HIDE DEF i
<1>3. /\ Goes(t, "probe", th[t].left \ {i})
      /\ UNCHANGED <<reg, toDriver, gadget, unload>>
      /\ IF reg /\ intf[i] = "new"
         THEN /\ dev' = i[1]
              /\ init' = TRUE
              /\ IF init
                 THEN /\ intf' = [intf EXCEPT ![i] = "bound"]
                      /\ UNCHANGED <<dEps, toGadget, happened>>
                 ELSE Announce(i)
         ELSE UNCHANGED <<intf, init, dev, dEps, toGadget, happened>>
  BY DEF Probe, i
<1>4. /\ ThreadTypes'
      /\ th'[t].at = "idle" \/ (th'[t].at = "probe" /\ th'[t].left # {})
      /\ \A u \in Threads \ {t} : th'[u] = th[u]
  <2>1. th[t].left \ {i} \in SUBSET Interfaces /\ "probe" \in Ats
    BY <1>1 DEF Ats
  <2> QED
    BY <1>3, <2>1, GoesIs DEF DriverTypes
<1>5. Announce(i) =>
         /\ \/ intf' = [intf EXCEPT ![i] = "bound"]
            \/ /\ intf' = [intf EXCEPT ![i] = "failed"]
               /\ "alloc" \in happened' \/ "send" \in happened'
         /\ \E eps \in SUBSET Ep0 : dEps' = dEps \cup eps
         /\ toGadget' = toGadget \/ toGadget' = Append(toGadget, i[1])
         /\ happened' \in {happened, happened \cup {"alloc"}, happened \cup {"send"}}
  BY DEF Announce, Suffers, Ep0
<1>6. dEps' = dEps => \E eps \in SUBSET Ep0 : dEps' = dEps \cup eps
  <2>1. {} \in SUBSET Ep0 /\ dEps = dEps \cup {}
    OBVIOUS
  <2> QED
    BY <2>1
<1>7. CASE reg /\ intf[i] = "new"
  <2>1. dev' = i[1] /\ init' = TRUE
    BY <1>3, <1>7
  <2>2. /\ \/ intf' = [intf EXCEPT ![i] = "bound"]
           \/ /\ intf' = [intf EXCEPT ![i] = "failed"]
              /\ "alloc" \in happened' \/ "send" \in happened'
        /\ \E eps \in SUBSET Ep0 : dEps' = dEps \cup eps
        /\ toGadget' = toGadget \/ toGadget' = Append(toGadget, i[1])
        /\ happened' \in {happened, happened \cup {"alloc"}, happened \cup {"send"}}
    <3>1. CASE init
      BY <1>3, <1>6, <1>7, <3>1
    <3>2. CASE ~init
      BY <1>3, <1>5, <1>7, <3>2
    <3> QED
      BY <3>1, <3>2
  <2> QED
    BY <1>1, <1>2, <1>3, <1>4, <1>7, <2>1, <2>2
<1>8. CASE ~(reg /\ intf[i] = "new")
  BY <1>1, <1>2, <1>3, <1>4, <1>8
<1> QED
  BY <1>7, <1>8

\* The next interface is unbound; or it is the session's, which is reset first.
LEMMA DisconnectDoes ==
    ASSUME DriverTypes, Walks, NEW t \in Threads, Disconnect(t)
    PROVE  \E i \in Interfaces :
               /\ th[t].at = "deregister" /\ i \in th[t].left
               /\ ThreadTypes'
               /\ \A u \in Threads \ {t} : th'[u] = th[u]
               /\ UNCHANGED <<reg, init, dev, dEps, toDriver, gadget, unload>>
               /\ \/ /\ intf[i] = "bound" /\ init
                     /\ th'[t].at = "disconnect" /\ th'[t].left = th[t].left
                     /\ UNCHANGED intf
                     /\ toGadget' = toGadget \/ toGadget' = Append(toGadget, "RESET")
                     /\ happened' \subseteq happened \cup {"overlap", "send"}
                  \/ /\ ~(intf[i] = "bound" /\ init)
                     /\ \/ th'[t].at = "idle" /\ th[t].left = {i}
                        \/ /\ th'[t].at = "deregister" /\ th'[t].left = th[t].left \ {i}
                           /\ th'[t].left # {}
                     /\ intf' = [intf EXCEPT ![i] = Unbound(t, i)]
                     /\ UNCHANGED <<toGadget, happened>>
<1> DEFINE i == Pick(th[t].left)
<1>1. /\ th[t].at = "deregister" /\ th[t].left # {} /\ th[t].left \subseteq Interfaces
  BY DEF Disconnect, Walks, Down, DriverTypes, ThreadTypes
<1>2. i \in Interfaces /\ i \in th[t].left
  BY <1>1, PickIsLeft
<1> HIDE DEF i
<1>3. /\ UNCHANGED <<reg, init, dev, dEps, toDriver, gadget, unload>>
      /\ IF intf[i] = "bound" /\ init
         THEN /\ th' = [th EXCEPT ![t].at = "disconnect"]
              /\ \/ Suffers(Overlap(t)) /\ toGadget' = Append(toGadget, "RESET")
                 \/ Suffers(Overlap(t) \cup {"send"}) /\ UNCHANGED toGadget
              /\ UNCHANGED intf
         ELSE /\ Goes(t, "deregister", th[t].left \ {i})
              /\ intf' = [intf EXCEPT ![i] = Unbound(t, i)]
              /\ UNCHANGED <<toGadget, happened>>
  BY DEF Disconnect, i
<1>4. CASE intf[i] = "bound" /\ init
  <2>1. th' = [th EXCEPT ![t].at = "disconnect"] /\ UNCHANGED intf
        /\ (toGadget' = toGadget \/ toGadget' = Append(toGadget, "RESET"))
    BY <1>3, <1>4
  <2>2. happened' \subseteq happened \cup {"overlap", "send"}
    BY <1>3, <1>4 DEF Suffers, Overlap, If
  <2>3. "disconnect" \in Ats
    BY DEF Ats
  <2>4. /\ ThreadTypes'
        /\ th'[t].at = "disconnect" /\ th'[t].left = th[t].left
        /\ \A u \in Threads \ {t} : th'[u] = th[u]
    BY <2>1, <2>3, AtIs DEF DriverTypes
  <2> QED
    BY <1>1, <1>2, <1>3, <1>4, <2>1, <2>2, <2>4
<1>5. CASE ~(intf[i] = "bound" /\ init)
  <2>1. /\ Goes(t, "deregister", th[t].left \ {i})
        /\ intf' = [intf EXCEPT ![i] = Unbound(t, i)]
        /\ UNCHANGED <<toGadget, happened>>
    BY <1>3, <1>5
  <2>2. th[t].left \ {i} \in SUBSET Interfaces /\ "deregister" \in Ats
    BY <1>1 DEF Ats
  <2>3. /\ ThreadTypes'
        /\ th[t].left \ {i} = {} => th'[t].at = "idle"
        /\ th[t].left \ {i} # {} =>
              th'[t].at = "deregister" /\ th'[t].left = th[t].left \ {i}
        /\ \A u \in Threads \ {t} : th'[u] = th[u]
    BY <2>1, <2>2, GoesIs DEF DriverTypes
  <2>4. th[t].left \ {i} = {} => th[t].left = {i}
    BY <1>2
  <2> QED
    BY <1>1, <1>2, <1>3, <1>5, <2>1, <2>3, <2>4
<1> QED
  BY <1>4, <1>5

LEMMA CleanOthersDoes ==
    ASSUME DriverTypes, NEW t \in Threads, CleanOthers(t)
    PROVE  /\ ThreadTypes'
           /\ \/ th[t].at = "clean" /\ th'[t].at = "clean_ep0"
              \/ th[t].at = "disconnect" /\ th'[t].at = "disconnect_ep0"
           /\ th'[t].left = th[t].left
           /\ \A u \in Threads \ {t} : th'[u] = th[u]
           /\ dEps' = dEps \ {"other"}
           /\ UNCHANGED <<core, init, dev, path, gadget, unload, happened>>
<1>1. /\ th[t].at \in {"clean", "disconnect"}
      /\ th \in [Threads -> [at : Ats, left : SUBSET Interfaces]]
      /\ th' = [th EXCEPT ![t].at = IF @ = "clean" THEN "clean_ep0" ELSE "disconnect_ep0"]
      /\ dEps' = dEps \ {"other"}
      /\ UNCHANGED <<core, init, dev, path, gadget, unload, happened>>
  BY DEF CleanOthers, DriverTypes, ThreadTypes
<1>2. CASE th[t].at = "clean"
  <2>1. "clean_ep0" \in Ats /\ th' = [th EXCEPT ![t].at = "clean_ep0"]
    BY <1>1, <1>2 DEF Ats
  <2> QED
    BY <1>1, <1>2, <2>1, AtIs DEF DriverTypes
<1>3. CASE th[t].at = "disconnect"
  <2>1. "disconnect_ep0" \in Ats /\ th' = [th EXCEPT ![t].at = "disconnect_ep0"]
    BY <1>1, <1>3 DEF Ats
  <2> QED
    BY <1>1, <1>3, <2>1, AtIs DEF DriverTypes
<1> QED
  BY <1>1, <1>2, <1>3

\* The last of the endpoints is gone: ubq_disable_device deregisters the driver,
\* driver_disconnect ends the session and unbinds its interface.
LEMMA CleanEp0Does ==
    ASSUME DriverTypes, Walks, NEW t \in Threads, CleanEp0(t)
    PROVE  /\ ThreadTypes'
           /\ \A u \in Threads \ {t} : th'[u] = th[u]
           /\ dEps' = dEps \ Ep0 /\ EndsClean(t)
           /\ UNCHANGED <<dev, path, gadget, unload, happened>>
           /\ \/ /\ th[t].at = "clean_ep0"
                 /\ reg' = FALSE /\ UNCHANGED <<intf, init>>
                 /\ \/ th'[t].at = "idle" /\ Interfaces = {}
                    \/ /\ th'[t].at = "deregister" /\ th'[t].left = Interfaces
                       /\ th'[t].left # {}
              \/ /\ th[t].at = "disconnect_ep0"
                 /\ init' = FALSE /\ reg' = reg
                 /\ \E i \in Interfaces :
                       /\ i \in th[t].left
                       /\ intf' = [intf EXCEPT ![i] = Unbound(t, i)]
                       /\ \/ th'[t].at = "idle" /\ th[t].left = {i}
                          \/ /\ th'[t].at = "deregister" /\ th'[t].left = th[t].left \ {i}
                             /\ th'[t].left # {}
<1>0. /\ dEps' = dEps \ Ep0 /\ EndsClean(t)
      /\ UNCHANGED <<dev, path, gadget, unload, happened>>
  BY DEF CleanEp0
<1>1. CASE th[t].at = "clean_ep0"
  <2>1. reg' = FALSE /\ UNCHANGED <<intf, init>> /\ Goes(t, "deregister", Interfaces)
    BY <1>1 DEF CleanEp0
  <2>2. Interfaces \in SUBSET Interfaces /\ "deregister" \in Ats
    BY DEF Ats
  <2>3. /\ ThreadTypes'
        /\ Interfaces = {} => th'[t].at = "idle"
        /\ Interfaces # {} => th'[t].at = "deregister" /\ th'[t].left = Interfaces
        /\ \A u \in Threads \ {t} : th'[u] = th[u]
    BY <2>1, <2>2, GoesIs DEF DriverTypes
  <2> QED
    BY <1>0, <1>1, <2>1, <2>3
<1>2. CASE th[t].at = "disconnect_ep0"
  <2> DEFINE i == Pick(th[t].left)
  <2>1. th[t].left # {} /\ th[t].left \subseteq Interfaces
    BY <1>2 DEF Walks, Down, DriverTypes, ThreadTypes
  <2>2. i \in Interfaces /\ i \in th[t].left
    BY <2>1, PickIsLeft
  <2> HIDE DEF i
  <2>3. /\ init' = FALSE /\ reg' = reg
        /\ intf' = [intf EXCEPT ![i] = Unbound(t, i)]
        /\ Goes(t, "deregister", th[t].left \ {i})
    BY <1>2 DEF CleanEp0, i
  <2>4. th[t].left \ {i} \in SUBSET Interfaces /\ "deregister" \in Ats
    BY <2>1 DEF Ats
  <2>5. /\ ThreadTypes'
        /\ th[t].left \ {i} = {} => th'[t].at = "idle"
        /\ th[t].left \ {i} # {} =>
              th'[t].at = "deregister" /\ th'[t].left = th[t].left \ {i}
        /\ \A u \in Threads \ {t} : th'[u] = th[u]
    BY <2>3, <2>4, GoesIs DEF DriverTypes
  <2>6. th[t].left \ {i} = {} => th[t].left = {i}
    BY <2>2
  <2> QED
    BY <1>0, <1>2, <2>2, <2>3, <2>5, <2>6
<1> QED
  BY <1>0, <1>1, <1>2 DEF EndsClean
-----------------------------------------------------------------------------
(* Type correctness *)

PathTypes ==
    /\ toDriver \in Seq({"RESET", "RELOAD"})
    /\ toGadget \in Seq(Devices \cup {"RESET"})

GadgetTypes ==
    /\ gEps \subseteq Endpoints
    /\ gcom \in [at : {"idle", "clean", "clean_ep0", "register"},
                 device : Devices \cup {NoDevice}]
    /\ unload \in {"no", "gadget", "gadget_ep0", "gadget_close", "driver", "done"}

FlagTypes == {reg, init, registered, udc} \subseteq BOOLEAN

LEMMA TypeParts ==
    TypeOK <=> DriverTypes /\ PathTypes /\ GadgetTypes /\ FlagTypes
               /\ happened \subseteq MishapKinds
  BY DEF TypeOK, DriverTypes, ThreadTypes, Ats, PathTypes, GadgetTypes, FlagTypes

LEMMA PrimedTypeParts ==
    TypeOK' <=> DriverTypes' /\ PathTypes' /\ GadgetTypes' /\ FlagTypes'
                /\ happened' \subseteq MishapKinds
  BY DEF TypeOK, DriverTypes, ThreadTypes, Ats, PathTypes, GadgetTypes, FlagTypes

LEMMA MessageTypes ==
    ASSUME PathTypes
    PROVE  /\ \A d \in Devices \cup {"RESET"} :
                 Append(toGadget, d) \in Seq(Devices \cup {"RESET"})
           /\ \A c \in {"RESET", "RELOAD"} : Append(toDriver, c) \in Seq({"RESET", "RELOAD"})
           /\ toGadget # <<>> => /\ Head(toGadget) \in Devices \cup {"RESET"}
                                 /\ Tail(toGadget) \in Seq(Devices \cup {"RESET"})
           /\ toDriver # <<>> => /\ Head(toDriver) \in {"RESET", "RELOAD"}
                                 /\ Tail(toDriver) \in Seq({"RESET", "RELOAD"})
<1>1. toGadget \in Seq(Devices \cup {"RESET"}) /\ toDriver \in Seq({"RESET", "RELOAD"})
  BY DEF PathTypes
<1> HIDE DEF PathTypes
<1>2. \A d \in Devices \cup {"RESET"} : Append(toGadget, d) \in Seq(Devices \cup {"RESET"})
  BY <1>1, AppendProperties
<1>3. \A c \in {"RESET", "RELOAD"} : Append(toDriver, c) \in Seq({"RESET", "RELOAD"})
  BY <1>1, AppendProperties
<1>4. toGadget # <<>> => /\ Head(toGadget) \in Devices \cup {"RESET"}
                         /\ Tail(toGadget) \in Seq(Devices \cup {"RESET"})
  BY <1>1, HeadTailProperties
<1>5. toDriver # <<>> => /\ Head(toDriver) \in {"RESET", "RELOAD"}
                         /\ Tail(toDriver) \in Seq({"RESET", "RELOAD"})
  BY <1>1, HeadTailProperties
<1> QED
  BY <1>2, <1>3, <1>4, <1>5

\* A thread of the driver.
LEMMA ThreadType ==
    ASSUME TypeOK, Walks, NEW t \in Threads, Thread(t)
    PROVE  TypeOK' /\ Walks'
<1>t. DriverTypes /\ PathTypes /\ GadgetTypes /\ FlagTypes /\ happened \subseteq MishapKinds
  BY TypeParts
<1>u. UNCHANGED <<registered, udc, gEps, gcom, unload, toDriver>>
  BY DEF Thread, Probe, Disconnect, CleanOthers, CleanEp0, gadget, path
<1>g. GadgetTypes'
  BY <1>t, <1>u DEF GadgetTypes
<1>1. CASE Probe(t)
  <2>1. PICK i \in Interfaces :
           /\ ThreadTypes'
           /\ th'[t].at = "idle" \/ (th'[t].at = "probe" /\ th'[t].left # {})
           /\ \A u \in Threads \ {t} : th'[u] = th[u]
           /\ reg' = reg
           /\ \/ UNCHANGED <<intf, init, dev, dEps, toGadget, happened>>
              \/ /\ init' = TRUE /\ dev' = i[1]
                 /\ \/ intf' = [intf EXCEPT ![i] = "bound"]
                    \/ intf' = [intf EXCEPT ![i] = "failed"]
                 /\ \E eps \in SUBSET Ep0 : dEps' = dEps \cup eps
                 /\ toGadget' = toGadget \/ toGadget' = Append(toGadget, i[1])
                 /\ happened' \in {happened, happened \cup {"alloc"}, happened \cup {"send"}}
    BY <1>1, <1>t, ProbeDoes
  <2>2. Walks'
    BY <2>1 DEF Walks, Down
  <2>3. i[1] \in Devices
    BY InterfaceIs
  <2>4. DriverTypes'
    BY <1>t, <2>1, <2>3 DEF DriverTypes, Ep0, Endpoints
  <2>5. PathTypes'
    BY <1>t, <1>u, <2>1, <2>3, MessageTypes DEF PathTypes
  <2>6. FlagTypes'
    <3>1. init' = init \/ init' = TRUE
      BY <2>1
    <3> QED
      BY <1>t, <1>u, <2>1, <3>1 DEF FlagTypes
  <2>7. happened' \subseteq MishapKinds
    BY <1>t, <2>1 DEF MishapKinds
  <2> QED
    BY <1>g, <2>2, <2>4, <2>5, <2>6, <2>7, PrimedTypeParts
<1>2. CASE Disconnect(t)
  <2>1. PICK i \in Interfaces :
           /\ ThreadTypes'
           /\ \A u \in Threads \ {t} : th'[u] = th[u]
           /\ UNCHANGED <<reg, init, dev, dEps>>
           /\ \/ th'[t].at = "disconnect" /\ th'[t].left = th[t].left
              \/ th'[t].at = "idle"
              \/ th'[t].at = "deregister" /\ th'[t].left # {}
           /\ intf' = intf \/ intf' = [intf EXCEPT ![i] = Unbound(t, i)]
           /\ toGadget' = toGadget \/ toGadget' = Append(toGadget, "RESET")
           /\ happened' \subseteq happened \cup {"overlap", "send"}
    BY <1>2, <1>t, DisconnectDoes
  <2>2. Walks'
    BY <1>2, <2>1 DEF Walks, Down, Disconnect
  <2>3. DriverTypes'
    BY <1>t, <2>1 DEF DriverTypes, Unbound
  <2>4. PathTypes'
    BY <1>t, <1>u, <2>1, MessageTypes DEF PathTypes
  <2>5. FlagTypes'
    BY <1>t, <1>u, <2>1 DEF FlagTypes
  <2>6. happened' \subseteq MishapKinds
    BY <1>t, <2>1 DEF MishapKinds
  <2> QED
    BY <1>g, <2>2, <2>3, <2>4, <2>5, <2>6, PrimedTypeParts
<1>3. CASE CleanOthers(t)
  <2>1. /\ ThreadTypes'
        /\ \/ th[t].at = "clean" /\ th'[t].at = "clean_ep0"
           \/ th[t].at = "disconnect" /\ th'[t].at = "disconnect_ep0"
        /\ th'[t].left = th[t].left
        /\ \A u \in Threads \ {t} : th'[u] = th[u]
        /\ dEps' = dEps \ {"other"}
        /\ UNCHANGED <<intf, reg, init, dev, toGadget, happened>>
    BY <1>3, <1>t, CleanOthersDoes DEF core, path
  <2>2. Walks'
    BY <2>1 DEF Walks, Down
  <2>3. DriverTypes' /\ PathTypes'
    BY <1>t, <1>u, <2>1 DEF DriverTypes, PathTypes
  <2>4. FlagTypes'
    BY <1>t, <1>u, <2>1 DEF FlagTypes
  <2> QED
    BY <1>t, <1>g, <2>1, <2>2, <2>3, <2>4, PrimedTypeParts
<1>4. CASE CleanEp0(t)
  <2>1. /\ ThreadTypes'
        /\ \A u \in Threads \ {t} : th'[u] = th[u]
        /\ dEps' = dEps \ Ep0
        /\ UNCHANGED <<dev, toGadget, happened>>
        /\ th'[t].at = "idle" \/ (th'[t].at = "deregister" /\ th'[t].left # {})
        /\ intf' = intf \/ \E i \in Interfaces : intf' = [intf EXCEPT ![i] = Unbound(t, i)]
    BY <1>4, <1>t, CleanEp0Does DEF path
  <2>2. (reg' = reg \/ reg' = FALSE) /\ (init' = init \/ init' = FALSE)
    BY <1>4 DEF CleanEp0
  <2>3. Walks'
    BY <2>1 DEF Walks, Down
  <2>4. DriverTypes'
    BY <1>t, <2>1 DEF DriverTypes, Unbound
  <2>5. PathTypes'
    BY <1>t, <1>u, <2>1 DEF PathTypes
  <2>6. FlagTypes'
    BY <1>t, <1>u, <2>2 DEF FlagTypes
  <2> QED
    BY <1>t, <1>g, <2>1, <2>3, <2>4, <2>5, <2>6, PrimedTypeParts
<1> QED
  BY <1>1, <1>2, <1>3, <1>4 DEF Thread

\* Who starts a thread of the driver: the hub, a command, module exit.
LEMMA StartType ==
    ASSUME TypeOK, Walks,
           \/ \E d \in Devices : Plug(d) \/ Unplug(d)
           \/ RecvCommand \/ ExitDriver
    PROVE  TypeOK' /\ Walks'
<1>t. DriverTypes /\ PathTypes /\ GadgetTypes /\ FlagTypes /\ happened \subseteq MishapKinds
  BY TypeParts
<1>u. UNCHANGED <<registered, udc, gEps, gcom, init, dev, dEps, toGadget>>
  BY DEF Plug, Unplug, RecvCommand, ExitDriver, gadget, path
<1>1. ASSUME NEW t \in Threads, NEW at \in {"probe", "deregister"},
             NEW left \in SUBSET Interfaces, Goes(t, at, left)
      PROVE  ThreadTypes' /\ Walks'
  <2>1. /\ ThreadTypes'
        /\ left = {} => th'[t].at = "idle"
        /\ left # {} => th'[t].at = at /\ th'[t].left = left
        /\ \A u \in Threads \ {t} : th'[u] = th[u]
    <3>1. at \in Ats
      BY DEF Ats
    <3> QED
      BY <1>t, <1>1, <3>1, GoesIs DEF DriverTypes
  <2> QED
    BY <2>1 DEF Walks, Down
<1>2. ASSUME NEW t \in Threads, th' = [th EXCEPT ![t].at = "clean"]
      PROVE  ThreadTypes' /\ Walks'
  <2>1. /\ ThreadTypes'
        /\ th'[t].at = "clean" /\ th'[t].left = th[t].left
        /\ \A u \in Threads \ {t} : th'[u] = th[u]
    <3>1. "clean" \in Ats
      BY DEF Ats
    <3> QED
      BY <1>t, <1>2, <3>1, AtIs DEF DriverTypes
  <2> QED
    BY <2>1 DEF Walks, Down
<1>3. ASSUME NEW d \in Devices, Plug(d) PROVE TypeOK' /\ Walks'
  <2>1. /\ intf' = [i \in Interfaces |-> IF i[1] = d THEN "new" ELSE intf[i]]
        /\ Goes("hub", "probe", InterfacesOf(d))
        /\ UNCHANGED <<reg, toDriver, unload>>
        /\ happened' \subseteq happened \cup {"second"}
    BY <1>3 DEF Plug, Suffers, If, path
  <2>2. ThreadTypes' /\ Walks'
    BY <1>1, <2>1 DEF Threads, InterfacesOf
  <2>3. DriverTypes' /\ PathTypes' /\ GadgetTypes' /\ happened' \subseteq MishapKinds
    BY <1>t, <1>u, <2>1, <2>2 DEF DriverTypes, PathTypes, GadgetTypes, MishapKinds
  <2>4. FlagTypes'
    BY <1>t, <1>u, <2>1 DEF FlagTypes
  <2> QED
    BY <2>2, <2>3, <2>4, PrimedTypeParts
<1>4. ASSUME NEW d \in Devices, Unplug(d) PROVE TypeOK' /\ Walks'
  <2> DEFINE bound == {i \in InterfacesOf(d) : intf[i] = "bound"}
  <2>1. /\ intf' = [i \in Interfaces |->
                       IF i[1] = d /\ i \notin bound THEN "absent" ELSE intf[i]]
        /\ Goes("hub", "deregister", bound)
        /\ UNCHANGED <<reg, toDriver, unload, happened>>
    BY <1>4 DEF Unplug, path
  <2>2. bound \in SUBSET Interfaces
    BY DEF InterfacesOf
  <2> HIDE DEF bound
  <2>3. ThreadTypes' /\ Walks'
    BY <1>1, <2>1, <2>2 DEF Threads
  <2>4. DriverTypes' /\ PathTypes' /\ GadgetTypes' /\ happened' \subseteq MishapKinds
    BY <1>t, <1>u, <2>1, <2>3 DEF DriverTypes, PathTypes, GadgetTypes
  <2>5. FlagTypes'
    BY <1>t, <1>u, <2>1 DEF FlagTypes
  <2> QED
    BY <2>3, <2>4, <2>5, PrimedTypeParts
<1>5. CASE RecvCommand
  <2>1. /\ toDriver # <<>> /\ toDriver' = Tail(toDriver)
        /\ UNCHANGED <<intf, unload>>
        /\ reg' = reg \/ reg' = TRUE
        /\ happened' \subseteq happened \cup {"overlap", "late"}
        /\ \/ th' = [th EXCEPT !["com"].at = "clean"]
           \/ th' = th
           \/ Goes("com", "probe", Interfaces)
    BY <1>5 DEF RecvCommand, Suffers, Overlap, If
  <2>2. ThreadTypes' /\ Walks'
    <3>1. CASE th' = th
      BY <1>t, <3>1 DEF DriverTypes, ThreadTypes, Walks, Down
    <3>2. CASE th' = [th EXCEPT !["com"].at = "clean"]
      BY <1>2, <3>2 DEF Threads
    <3>3. CASE Goes("com", "probe", Interfaces)
      BY <1>1, <3>3 DEF Threads
    <3> QED
      BY <2>1, <3>1, <3>2, <3>3
  <2>3. PathTypes'
    BY <1>t, <1>u, <2>1, MessageTypes DEF PathTypes
  <2>4. DriverTypes' /\ GadgetTypes' /\ happened' \subseteq MishapKinds
    BY <1>t, <1>u, <2>1, <2>2 DEF DriverTypes, GadgetTypes, MishapKinds
  <2>5. FlagTypes'
    BY <1>t, <1>u, <2>1 DEF FlagTypes
  <2> QED
    BY <2>2, <2>3, <2>4, <2>5, PrimedTypeParts
<1>6. CASE ExitDriver
  <2>1. /\ unload' = "driver" /\ th' = [th EXCEPT !["exit"].at = "clean"]
        /\ UNCHANGED <<intf, reg, toDriver>>
        /\ happened' \subseteq happened \cup {"overlap", "late"}
    BY <1>6 DEF ExitDriver, Suffers, Overlap, If, core, path
  <2>2. ThreadTypes' /\ Walks'
    BY <1>2, <2>1 DEF Threads
  <2>3. DriverTypes' /\ PathTypes' /\ GadgetTypes' /\ happened' \subseteq MishapKinds
    BY <1>t, <1>u, <2>1, <2>2 DEF DriverTypes, PathTypes, GadgetTypes, MishapKinds
  <2>4. FlagTypes'
    BY <1>t, <1>u, <2>1 DEF FlagTypes
  <2> QED
    BY <2>2, <2>3, <2>4, PrimedTypeParts
<1> QED
  BY <1>3, <1>4, <1>5, <1>6
\* Whatever else happens leaves the threads and the interfaces of the driver alone.
LEMMA RestType ==
    ASSUME TypeOK, Walks,
           \/ Command \/ Lose \/ Open \/ GadgetOpens \/ Unload
           \/ GadgetCom \/ ExitOthers \/ ExitEp0 \/ ExitDone
    PROVE  TypeOK' /\ Walks'
<1>t. DriverTypes /\ PathTypes /\ GadgetTypes /\ FlagTypes /\ happened \subseteq MishapKinds
  BY TypeParts
<1>1. UNCHANGED <<intf, reg, init, dev, th>>
  BY DEF Command, Lose, Open, GadgetOpens, Unload, GadgetCom, RecvNewDevice, RecvReset,
         GadgetCleanOthers, GadgetCleanEp0, NewDevice, ExitOthers, ExitEp0, ExitDone,
         core, driver
<1>2. dEps' \subseteq dEps \cup {"other"}
  BY DEF Command, Lose, Open, GadgetOpens, Unload, GadgetCom, RecvNewDevice, RecvReset,
         GadgetCleanOthers, GadgetCleanEp0, NewDevice, ExitOthers, ExitEp0, ExitDone, driver
<1>3. DriverTypes' /\ Walks'
  BY <1>t, <1>1, <1>2 DEF DriverTypes, ThreadTypes, Endpoints, Walks, Down
<1>4. /\ \/ toDriver' = toDriver
         \/ \E c \in {"RESET", "RELOAD"} : toDriver' = Append(toDriver, c)
      /\ toGadget' = toGadget \/ (toGadget # <<>> /\ toGadget' = Tail(toGadget))
  BY DEF Command, Lose, Open, GadgetOpens, Unload, GadgetCom, RecvNewDevice, RecvReset,
         GadgetCleanOthers, GadgetCleanEp0, NewDevice, ExitOthers, ExitEp0, ExitDone, path
<1>5. PathTypes'
  BY <1>t, <1>4, MessageTypes DEF PathTypes
<1>6. gEps' \subseteq gEps \cup Endpoints
  BY DEF Command, Lose, Open, GadgetOpens, Unload, GadgetCom, RecvNewDevice, RecvReset,
         GadgetCleanOthers, GadgetCleanEp0, NewDevice, Register, ExitOthers, ExitEp0, ExitDone,
         gadget, Endpoints, Ep0
<1>7. unload' \in {unload, "gadget", "gadget_ep0", "gadget_close", "done"}
  BY DEF Command, Lose, Open, GadgetOpens, Unload, GadgetCom, RecvNewDevice, RecvReset,
         GadgetCleanOthers, GadgetCleanEp0, NewDevice, ExitOthers, ExitEp0, ExitDone
<1>8. gcom' \in [at : {"idle", "clean", "clean_ep0", "register"},
                 device : Devices \cup {NoDevice}]
  <2>1. CASE Command \/ Lose \/ Open \/ GadgetOpens \/ Unload \/ ExitOthers \/ ExitEp0 \/ ExitDone
    <3>1. gcom' = gcom
      BY <2>1 DEF Command, Lose, Open, GadgetOpens, Unload, ExitOthers, ExitEp0, ExitDone, gadget
    <3> QED
      BY <1>t, <3>1 DEF GadgetTypes
  <2>2. CASE RecvNewDevice
    <3>1. Head(toGadget) \in Devices
      BY <1>t, <2>2, MessageTypes DEF RecvNewDevice
    <3> QED
      BY <2>2, <3>1 DEF RecvNewDevice
  <2>3. CASE RecvReset \/ NewDevice
    BY <2>3 DEF RecvReset, NewDevice
  <2>4. CASE GadgetCleanOthers \/ GadgetCleanEp0
    BY <1>t, <2>4 DEF GadgetCleanOthers, GadgetCleanEp0, GadgetTypes
  <2> QED
    BY <2>1, <2>2, <2>3, <2>4 DEF GadgetCom
<1>9. GadgetTypes'
  BY <1>t, <1>6, <1>7, <1>8 DEF GadgetTypes
<1>10. happened' \subseteq happened \cup MishapKinds
  BY DEF Command, Lose, Open, GadgetOpens, Unload, GadgetCom, RecvNewDevice, RecvReset,
         GadgetCleanOthers, GadgetCleanEp0, NewDevice, Register, ExitOthers, ExitEp0, ExitDone,
         Suffers, If, Late, MishapKinds
<1>11. FlagTypes'
  <2>1. registered' = registered \/ registered' = TRUE \/ registered' = FALSE
    BY DEF Command, Lose, Open, GadgetOpens, Unload, GadgetCom, RecvNewDevice, RecvReset,
         GadgetCleanOthers, GadgetCleanEp0, NewDevice, Register, ExitOthers, ExitEp0, ExitDone,
         gadget
  <2>2. udc' = udc \/ udc' = TRUE \/ udc' = FALSE \/ udc' = (udc /\ ~registered)
    BY DEF Command, Lose, Open, GadgetOpens, Unload, GadgetCom, RecvNewDevice, RecvReset,
         GadgetCleanOthers, GadgetCleanEp0, NewDevice, Register, ExitOthers, ExitEp0, ExitDone,
         gadget
  <2> QED
    BY <1>t, <1>1, <2>1, <2>2 DEF FlagTypes
<1> QED
  BY <1>t, <1>3, <1>5, <1>9, <1>10, <1>11, PrimedTypeParts

LEMMA InitType == Init => TypeOK /\ Walks
<1> SUFFICES ASSUME Init PROVE TypeOK /\ Walks
  OBVIOUS
<1>1. PICK present \in {{}} \cup {InterfacesOf(d) : d \in Devices} :
          /\ intf = [i \in Interfaces |-> IF i \in present THEN "new" ELSE "absent"]
          /\ th = [t \in Threads |-> IF t = "hub" /\ present # {}
                                     THEN [at |-> "probe", left |-> present] ELSE Rest]
  BY DEF Init
<1>2. present \subseteq Interfaces
  BY DEF InterfacesOf
<1>3. DriverTypes
  BY <1>1, <1>2 DEF Init, DriverTypes, ThreadTypes, Ats, Rest
<1>4. PathTypes
  BY EmptySeq DEF Init, PathTypes
<1>5. GadgetTypes /\ happened \subseteq MishapKinds
  BY DEF Init, GadgetTypes
<1>6. FlagTypes
  BY DEF Init, FlagTypes
<1>7. Walks
  <2> SUFFICES ASSUME NEW t \in Threads, th[t].at = "probe" \/ Down(t) PROVE th[t].left # {}
    BY DEF Walks
  <2>1. th[t] = IF t = "hub" /\ present # {} THEN [at |-> "probe", left |-> present] ELSE Rest
    BY <1>1
  <2> QED
    BY <2>1 DEF Rest, Down
<1> QED
  BY <1>3, <1>4, <1>5, <1>6, <1>7, TypeParts

LEMMA NextType == TypeOK /\ Walks /\ [Next]_vars => TypeOK' /\ Walks'
<1>1. ASSUME TypeOK, Walks, Next PROVE TypeOK' /\ Walks'
  BY <1>1, ThreadType, StartType, RestType DEF Next, System, Exit
<1>2. ASSUME TypeOK, Walks, UNCHANGED vars PROVE TypeOK' /\ Walks'
  <2>1. DriverTypes /\ PathTypes /\ GadgetTypes /\ FlagTypes /\ happened \subseteq MishapKinds
    BY <1>2, TypeParts
  <2>2. UNCHANGED <<intf, reg, init, dev, dEps, th, toDriver, toGadget, registered, udc, gEps,
                    gcom, unload, happened>>
    BY <1>2 DEF vars, core, driver, path, gadget
  <2>3. FlagTypes'
    BY <2>1, <2>2 DEF FlagTypes
  <2>4. DriverTypes' /\ PathTypes' /\ GadgetTypes' /\ Walks'
    BY <1>2, <2>1, <2>2 DEF DriverTypes, ThreadTypes, PathTypes, GadgetTypes, Walks, Down
  <2> QED
    BY <2>1, <2>2, <2>3, <2>4, PrimedTypeParts
<1> QED
  BY <1>1, <1>2

\* Every flag, list, message and thread of a session stays in its type, for any
\* devices, mishaps and bounds (driver.c:68-73, gadget.h:25-32).
THEOREM TypeCorrect == Spec => []TypeOK
  BY InitType, NextType, PTL DEF Spec
-----------------------------------------------------------------------------
(* The gadget *)

\* Who does not touch the gadget keeps what is said of it.
LEMMA GadgetAlone ==
    ASSUME GadgetInv, UNCHANGED <<registered, udc, gEps, gcom>>, happened \subseteq happened',
           \/ unload' = unload
           \/ unload = "gadget_close" /\ unload' = "driver"
           \/ unload = "driver" /\ unload' = "done"
    PROVE  GadgetInv'
  BY DEF GadgetInv, Flags, GadgetClosed, GadgetGone, Never

\* Its com worker.
LEMMA GadgetComStep ==
    ASSUME TypeOK, GadgetInv, happened \subseteq happened', GadgetCom
    PROVE  GadgetInv'
<1>t. /\ gEps \subseteq Endpoints /\ toGadget \in Seq(Devices \cup {"RESET"})
      /\ gcom.device \in Devices \cup {NoDevice}
      /\ gcom.at \in {"idle", "clean", "clean_ep0", "register"}
      /\ gcom \in [at : {"idle", "clean", "clean_ep0", "register"},
                   device : Devices \cup {NoDevice}]
  BY DEF TypeOK
<1>u. unload' = unload
  BY DEF GadgetCom, RecvNewDevice, RecvReset, GadgetCleanOthers, GadgetCleanEp0, NewDevice
<1>1. CASE RecvNewDevice
  <2>1. /\ gcom.at = "idle"
        /\ gcom' = [at |-> IF registered THEN "clean" ELSE "register", device |-> Head(toGadget)]
        /\ udc' = (udc /\ ~registered)
        /\ registered' = registered /\ gEps' = gEps
        /\ unload # "no" => "late" \in happened'
    BY <1>1 DEF RecvNewDevice, Suffers, Late, If
  <2>2. Head(toGadget) \in Devices /\ Head(toGadget) # NoDevice
    <3>1. Head(toGadget) \in Devices \cup {"RESET"} /\ Head(toGadget) # "RESET"
      BY <1>1, <1>t, HeadTailProperties DEF RecvNewDevice
    <3> QED
      BY <3>1, SessionAssumption
  <2>3. ~udc'
    BY <2>1 DEF GadgetInv, Flags
  <2>4. /\ gcom'.device # NoDevice
        /\ gcom'.at = "clean" \/ (gcom'.at = "register" /\ ~registered /\ ~udc)
    BY <2>1, <2>2 DEF GadgetInv, Flags
  <2> QED
    BY <1>u, <2>1, <2>3, <2>4 DEF GadgetInv, Flags, GadgetClosed, GadgetGone, Never
<1>2. CASE RecvReset
  <2>1. /\ gcom.at = "idle" /\ gcom'.at = "clean"
        /\ ~registered' /\ ~udc' /\ gEps' = gEps
        /\ unload # "no" => "late" \in happened'
    BY <1>2 DEF RecvReset, Suffers, Late, If
  <2> QED
    BY <1>u, <2>1 DEF GadgetInv, Flags, GadgetClosed, GadgetGone, Never
<1>3. CASE GadgetCleanOthers
  <2>1. /\ gcom.at = "clean" /\ gcom'.at = "clean_ep0" /\ gcom'.device = gcom.device
        /\ UNCHANGED <<registered, udc, happened>>
        /\ gEps' = gEps \ {"other"}
    BY <1>3, <1>t DEF GadgetCleanOthers
  <2> QED
    BY <1>u, <2>1 DEF GadgetInv, Flags, GadgetClosed, GadgetGone, Never
<1>4. CASE GadgetCleanEp0
  <2>1. /\ gcom.at = "clean_ep0" /\ gcom'.device = gcom.device
        /\ gcom'.at = IF gcom.device = NoDevice THEN "idle" ELSE "register"
        /\ UNCHANGED <<registered, udc, happened>>
        /\ gEps' = gEps \ Ep0
    BY <1>4, <1>t DEF GadgetCleanEp0
  <2>2. "other" \notin gEps => gEps' = {}
    BY <1>t, <2>1 DEF Endpoints
  <2>3. ~udc' /\ (gcom.device = NoDevice => ~registered')
    BY <2>1 DEF GadgetInv, Flags
  <2>4. Flags'
    <3>1. gcom'.at = "idle" => registered' = udc'
      <4>1. gcom'.at = "idle" => ~registered'
        BY <2>1, <2>3
      <4>2. registered' \in BOOLEAN /\ udc' \in BOOLEAN
        <5>1. registered' = registered /\ udc' = udc
          BY <2>1
        <5> QED
          BY <5>1 DEF TypeOK
      <4> QED
        BY <2>3, <4>1, <4>2
    <3> QED
      BY <2>1, <2>3, <3>1 DEF Flags
  <2>5. GadgetClosed' /\ GadgetGone'
    BY <1>u, <2>1, <2>2 DEF GadgetInv, GadgetClosed, GadgetGone, Never
  <2> QED
    BY <2>4, <2>5 DEF GadgetInv
<1>5. CASE NewDevice
  <2>1. gcom.at = "register" /\ gcom'.at = "idle" /\ ~udc
    BY <1>5 DEF NewDevice, GadgetInv, Flags
  <2>2. \/ registered' = TRUE /\ udc' = TRUE
        \/ /\ UNCHANGED <<registered, udc>>
           /\ \/ "bind" \in happened'
              \/ "cut" \in happened' /\ gEps' = gEps
    BY <1>5 DEF NewDevice, Register, Suffers
  <2>3. CASE registered' = TRUE /\ udc' = TRUE
    BY <1>u, <2>1, <2>3 DEF GadgetInv, Flags, GadgetClosed, GadgetGone, Never
  <2>4. CASE UNCHANGED <<registered, udc>> /\ "bind" \in happened'
    BY <1>u, <2>1, <2>4 DEF GadgetInv, Flags, GadgetClosed, GadgetGone, Never
  <2>5. CASE UNCHANGED <<registered, udc>> /\ "cut" \in happened' /\ gEps' = gEps
    BY <1>u, <2>1, <2>5 DEF GadgetInv, Flags, GadgetClosed, GadgetGone, Never
  <2> QED
    BY <2>2, <2>3, <2>4, <2>5
<1> QED
  BY <1>1, <1>2, <1>3, <1>4, <1>5 DEF GadgetCom

\* Endpoints that are opened, and module exit.
LEMMA GadgetExitStep ==
    ASSUME TypeOK, GadgetInv, happened \subseteq happened',
           GadgetOpens \/ Unload \/ ExitOthers \/ ExitEp0
    PROVE  GadgetInv'
<1>t. gEps \subseteq Endpoints
  BY DEF TypeOK
<1>1. CASE GadgetOpens
  <2>1. /\ UNCHANGED <<registered, udc, gcom, unload>>
        /\ "in" \in gEps
        /\ gEps' = gEps \cup {"other"}
        /\ gcom.at = "clean_ep0" \/ unload = "gadget_ep0" => "busy" \in happened'
    BY <1>1 DEF GadgetOpens, Suffers, If
  <2> QED
    BY <2>1 DEF GadgetInv, Flags, GadgetClosed, GadgetGone, Never
<1>2. CASE Unload
  <2>1. /\ UNCHANGED <<registered, gEps, gcom>>
        /\ unload' = "gadget" /\ udc' = (udc /\ ~registered)
        /\ gcom.at # "idle" => "late" \in happened'
    BY <1>2 DEF Unload, Suffers, If
  <2>2. ~udc'
    BY <2>1 DEF GadgetInv, Flags
  <2> QED
    BY <2>1, <2>2 DEF GadgetInv, Flags, GadgetClosed, GadgetGone, Never
<1>3. CASE ExitOthers
  BY <1>3 DEF ExitOthers, GadgetInv, Flags, GadgetClosed, GadgetGone, Never
<1>4. CASE ExitEp0
  <2>1. /\ unload = "gadget_ep0" /\ unload' = "gadget_close" /\ gEps' = gEps \ Ep0
        /\ UNCHANGED <<registered, udc, gcom>>
    BY <1>4 DEF ExitEp0
  <2>2. "other" \notin gEps => gEps' = {}
    BY <1>t, <2>1 DEF Endpoints
  <2> QED
    BY <2>1, <2>2 DEF GadgetInv, Flags, GadgetClosed, GadgetGone, Never
<1> QED
  BY <1>1, <1>2, <1>3, <1>4

LEMMA GadgetInit == Init => GadgetInv
<1> SUFFICES ASSUME Init PROVE GadgetInv
  OBVIOUS
<1>1. /\ registered = FALSE /\ udc = FALSE /\ gEps = {} /\ unload = "no"
      /\ gcom.at = "idle"
  BY DEF Init
<1> QED
  BY <1>1 DEF GadgetInv, Flags, GadgetClosed, GadgetGone

LEMMA GadgetNext == TypeOK /\ GadgetInv /\ [Next]_vars => GadgetInv'
<1> SUFFICES ASSUME TypeOK, GadgetInv, [Next]_vars PROVE GadgetInv'
  OBVIOUS
<1>0. happened \subseteq happened'
  BY HappenedGrows
<1>1. CASE GadgetCom
  BY <1>0, <1>1, GadgetComStep
<1>2. CASE GadgetOpens \/ Unload \/ ExitOthers \/ ExitEp0
  BY <1>0, <1>2, GadgetExitStep
<1>3. CASE \/ \E d \in Devices : Plug(d) \/ Unplug(d)
           \/ \E t \in Threads : Thread(t)
           \/ Command \/ Lose \/ Open \/ RecvCommand
           \/ UNCHANGED vars
  <2>1. UNCHANGED <<registered, udc, gEps, gcom, unload>>
    BY <1>3 DEF Plug, Unplug, Thread, Probe, Disconnect, CleanOthers, CleanEp0, Command, Lose,
                Open, RecvCommand, gadget, vars
  <2> QED
    BY <1>0, <2>1, GadgetAlone
<1>4. CASE ExitDriver \/ ExitDone
  <2>1. /\ UNCHANGED <<registered, udc, gEps, gcom>>
        /\ \/ unload = "gadget_close" /\ unload' = "driver"
           \/ unload = "driver" /\ unload' = "done"
    BY <1>4 DEF ExitDriver, ExitDone, gadget
  <2> QED
    BY <1>0, <2>1, GadgetAlone
<1> QED
  BY <1>1, <1>2, <1>3, <1>4 DEF Next, System, Exit

\* gadget_state.registered is true exactly while the gadget is registered, for any
\* devices and mishaps but those the property names: callback_new_device keeps the
\* flag over a device that cannot be parsed or bound (gadget.c:752-767).
THEOREM FlagIsTrue == Spec => []RegisteredIsTrue
<1>1. GadgetInv => RegisteredIsTrue
  BY DEF GadgetInv, Flags, RegisteredIsTrue, Without, Never
<1> QED
  BY InitType, NextType, GadgetInit, GadgetNext, <1>1, PTL DEF Spec
-----------------------------------------------------------------------------
(* The driver *)

\* A probe binds an interface, in a session that it opens if there is none, while
\* the driver is registered.
LEMMA ProbeKeeps ==
    ASSUME TypeOK, Walks, DriverInv, happened \subseteq happened', NEW t \in Threads, Probe(t)
    PROVE  DriverInv'
<1>t. DriverTypes
  BY TypesOfDriver
<1>1. PICK i \in Interfaces :
          /\ th[t].at = "probe"
          /\ th'[t].at \in {"idle", "probe"}
          /\ \A u \in Threads \ {t} : th'[u] = th[u]
          /\ reg' = reg /\ unload' = unload
          /\ \/ UNCHANGED <<intf, init, dev, dEps, toGadget, happened>>
             \/ /\ reg /\ intf[i] = "new"
                /\ init' = TRUE /\ dev' = i[1]
                /\ \/ intf' = [intf EXCEPT ![i] = "bound"]
                   \/ /\ intf' = [intf EXCEPT ![i] = "failed"]
                      /\ "alloc" \in happened' \/ "send" \in happened'
                /\ \E eps \in SUBSET Ep0 : dEps' = dEps \cup eps
  BY <1>t, ProbeDoes
<1>2. {"com", "hub", "exit"} = Threads
  BY DEF Threads
<1>3. \A u \in Threads : EndsClean(u)' => EndsClean(u)
  BY <1>1 DEF EndsClean
<1>4. \A u \in Threads : (Down(u)' <=> Down(u)) /\ (Down(u) => th'[u] = th[u])
  BY <1>1 DEF Down
<1>5. \A j \in Interfaces : intf'[j] # "absent" => intf[j] # "absent"
  BY <1>1, <1>t DEF DriverTypes
<1>6. ~reg \/ ~init' => UNCHANGED <<intf, init, dev, dEps>>
  BY <1>1
<1>7. "other" \notin dEps => "other" \notin dEps'
  BY <1>1 DEF Ep0
<1>a. DriverClosed'
  BY <1>3, <1>6, <1>7 DEF DriverInv, DriverClosed, Never
<1>b. DriverGone'
  BY <1>1, <1>2, <1>6 DEF DriverInv, DriverGone, Never
<1>c. OneDevice'
  BY <1>2, <1>4, <1>5 DEF DriverInv, OneDevice, Never
<1>d. Deregisters'
  BY <1>1, <1>2, <1>4, <1>6 DEF DriverInv, Deregisters, Never
<1>e. Orphans'
  BY <1>4, <1>6 DEF DriverInv, Orphans, Never
<1>f. Anchored'
  <2> SUFFICES ASSUME "alloc" \notin happened', "send" \notin happened', init'
               PROVE  \E j \in InterfacesOf(dev') : intf'[j] = "bound"
    BY DEF Anchored, Never
  <2>1. CASE UNCHANGED <<intf, init, dev, happened>>
    BY <2>1 DEF DriverInv, Anchored, Never
  <2>2. CASE dev' = i[1] /\ intf' = [intf EXCEPT ![i] = "bound"]
    <3>1. i \in InterfacesOf(dev') /\ intf'[i] = "bound"
      BY <1>t, <2>2 DEF InterfacesOf, DriverTypes
    <3> QED
      BY <3>1
  <2> QED
    BY <1>1, <2>1, <2>2
<1> QED
  BY <1>a, <1>b, <1>c, <1>d, <1>e, <1>f DEF DriverInv

\* What a thread does to an interface it takes away from the driver.
LEMMA UnboundIs ==
    ASSUME DriverTypes, NEW t \in Threads, NEW i \in Interfaces,
           intf' = [intf EXCEPT ![i] = Unbound(t, i)]
    PROVE  /\ intf'[i] # "bound"
           /\ \A j \in Interfaces \ {i} : intf'[j] = intf[j]
           /\ t = "hub" => intf'[i] = "absent"
           /\ \A j \in Interfaces : intf'[j] # "absent" => intf[j] # "absent"
  BY DEF DriverTypes, Unbound

\* An interface that is taken away is no orphan, and is one less to go over.
LEMMA DisconnectKeeps ==
    ASSUME TypeOK, Walks, DriverInv, happened \subseteq happened', NEW t \in Threads, Disconnect(t)
    PROVE  DriverInv'
<1>t. DriverTypes
  BY TypesOfDriver
<1>1. PICK i \in Interfaces :
          /\ th[t].at = "deregister" /\ i \in th[t].left
          /\ \A u \in Threads \ {t} : th'[u] = th[u]
          /\ UNCHANGED <<reg, init, dev, dEps, unload>>
          /\ \/ /\ th'[t].at = "disconnect" /\ th'[t].left = th[t].left
                /\ UNCHANGED intf
             \/ /\ ~(intf[i] = "bound" /\ init)
                /\ \/ th'[t].at = "idle" /\ th[t].left = {i}
                   \/ th'[t].at = "deregister" /\ th'[t].left = th[t].left \ {i}
                /\ intf' = [intf EXCEPT ![i] = Unbound(t, i)]
  BY <1>t, DisconnectDoes
<1>2. {"com", "hub", "exit"} = Threads
  BY DEF Threads
<1>3. \A u \in Threads : EndsClean(u)' => EndsClean(u)
  BY <1>1 DEF EndsClean
<1>4. Down(t)
  BY <1>1 DEF Down
<1>5. \/ Down(t)' /\ th'[t].left = th[t].left /\ UNCHANGED intf
      \/ /\ ~(intf[i] = "bound" /\ init)
         /\ \/ ~Down(t)' /\ th[t].left = {i}
            \/ Down(t)' /\ th'[t].left = th[t].left \ {i}
         /\ intf'[i] # "bound"
         /\ \A j \in Interfaces \ {i} : intf'[j] = intf[j]
         /\ t = "hub" => intf'[i] = "absent"
         /\ \A j \in Interfaces : intf'[j] # "absent" => intf[j] # "absent"
  BY <1>1, <1>t, UnboundIs DEF Down
<1>6. \A u \in Threads \ {t} : th'[u] = th[u] /\ (Down(u)' <=> Down(u))
  BY <1>1 DEF Down
<1>7. \A j \in Interfaces : intf'[j] = "bound" =>
          /\ intf[j] = "bound"
          /\ Down(t)' => (j \in th[t].left <=> j \in th'[t].left)
          /\ ~Down(t)' => j \notin th[t].left
  BY <1>5
<1>a. DriverClosed'
  BY <1>1, <1>3 DEF DriverInv, DriverClosed, Never
<1>b. DriverGone'
  BY <1>1, <1>2 DEF DriverInv, DriverGone, Never
<1>c. OneDevice'
  <2> SUFFICES ASSUME "second" \notin happened'
               PROVE  /\ \A j, k \in Interfaces :
                            intf'[j] # "absent" /\ intf'[k] # "absent" => j[1] = k[1]
                      /\ Down("hub")' => \A j \in Interfaces :
                            intf'[j] # "absent" => j \in th'["hub"].left
    BY DEF OneDevice, Never
  <2>1. /\ \A j, k \in Interfaces :
              intf[j] # "absent" /\ intf[k] # "absent" => j[1] = k[1]
        /\ Down("hub") => \A j \in Interfaces : intf[j] # "absent" => j \in th["hub"].left
    BY DEF DriverInv, OneDevice, Never
  <2>2. \A j \in Interfaces : intf'[j] # "absent" => intf[j] # "absent"
    BY <1>5
  <2>3. CASE t = "hub"
    BY <1>4, <1>5, <2>1, <2>2, <2>3
  <2>4. CASE t # "hub"
    BY <1>2, <1>6, <2>1, <2>2, <2>4
  <2> QED
    BY <2>3, <2>4
<1>d. Deregisters'
  BY <1>1, <1>2, <1>4, <1>6, <1>7 DEF DriverInv, Deregisters, Never
<1>e. Orphans'
  <2> SUFFICES ASSUME "second" \notin happened', "late" \notin happened', ~init',
                      NEW j \in Interfaces, intf'[j] = "bound"
               PROVE  \E u \in Threads : Down(u)' /\ j \in th'[u].left
    BY DEF Orphans, Never
  <2>1. PICK u \in Threads : Down(u) /\ j \in th[u].left
    BY <1>1, <1>7 DEF DriverInv, Orphans, Never
  <2>2. CASE u = t
    BY <1>7, <2>1, <2>2
  <2>3. CASE u # t
    BY <1>6, <2>1, <2>3
  <2> QED
    BY <2>2, <2>3
<1>f. Anchored'
  <2> SUFFICES ASSUME "alloc" \notin happened', "send" \notin happened', init'
               PROVE  \E j \in InterfacesOf(dev') : intf'[j] = "bound"
    BY DEF Anchored, Never
  <2>1. PICK j \in InterfacesOf(dev) : intf[j] = "bound"
    BY <1>1 DEF DriverInv, Anchored, Never
  <2>2. intf'[j] = "bound"
    BY <1>1, <1>5, <2>1 DEF InterfacesOf
  <2> QED
    BY <1>1, <2>1, <2>2
<1> QED
  BY <1>a, <1>b, <1>c, <1>d, <1>e, <1>f DEF DriverInv

LEMMA CleanOthersKeeps ==
    ASSUME TypeOK, Walks, DriverInv, happened \subseteq happened', NEW t \in Threads, CleanOthers(t)
    PROVE  DriverInv'
<1>1. /\ \/ th[t].at = "clean" /\ th'[t].at = "clean_ep0"
         \/ th[t].at = "disconnect" /\ th'[t].at = "disconnect_ep0"
      /\ th'[t].left = th[t].left
      /\ \A u \in Threads \ {t} : th'[u] = th[u]
      /\ dEps' = dEps \ {"other"}
      /\ UNCHANGED <<intf, reg, init, dev, unload, happened>>
  BY TypesOfDriver, CleanOthersDoes DEF core
<1>2. {"com", "hub", "exit"} = Threads
  BY DEF Threads
<1>3. \A u \in Threads : (Down(u)' <=> Down(u)) /\ th'[u].left = th[u].left
  BY <1>1 DEF Down
<1>a. DriverClosed'
  BY <1>1 DEF DriverInv, DriverClosed, Never
<1>b. DriverGone'
  BY <1>1, <1>2 DEF DriverInv, DriverGone, Never
<1>c. OneDevice'
  BY <1>1, <1>2, <1>3 DEF DriverInv, OneDevice, Never
<1>d. Deregisters'
  BY <1>1, <1>2, <1>3 DEF DriverInv, Deregisters, Never
<1>e. Orphans'
  BY <1>1, <1>3 DEF DriverInv, Orphans, Never
<1>f. Anchored'
  BY <1>1 DEF DriverInv, Anchored, Never
<1> QED
  BY <1>a, <1>b, <1>c, <1>d, <1>e, <1>f DEF DriverInv
\* ubq_disable_device finds every interface to go over; driver_disconnect ends the
\* session, whose other interfaces the same thread has still to go over.
LEMMA CleanEp0Keeps ==
    ASSUME TypeOK, Walks, DriverInv, happened \subseteq happened', NEW t \in Threads, CleanEp0(t)
    PROVE  DriverInv'
<1>t. DriverTypes
  BY TypesOfDriver
<1>0. {"com", "hub", "exit"} = Threads
  BY DEF Threads
<1>1. /\ \A u \in Threads \ {t} : th'[u] = th[u]
      /\ dEps' = dEps \ Ep0 /\ EndsClean(t)
      /\ UNCHANGED <<dev, unload, happened>>
      /\ \/ /\ th[t].at = "clean_ep0"
            /\ reg' = FALSE /\ UNCHANGED <<intf, init>>
            /\ \/ th'[t].at = "idle" /\ Interfaces = {}
               \/ th'[t].at = "deregister" /\ th'[t].left = Interfaces
         \/ /\ th[t].at = "disconnect_ep0"
            /\ init' = FALSE /\ reg' = reg
            /\ \E i \in Interfaces :
                  /\ i \in th[t].left
                  /\ intf' = [intf EXCEPT ![i] = Unbound(t, i)]
                  /\ \/ th'[t].at = "idle" /\ th[t].left = {i}
                     \/ th'[t].at = "deregister" /\ th'[t].left = th[t].left \ {i}
  BY <1>t, CleanEp0Does
<1>2. \A u \in Threads : EndsClean(u)' => EndsClean(u)
  BY <1>1 DEF EndsClean
<1>3. "busy" \notin happened => dEps' = {}
  BY <1>1, <1>t DEF DriverTypes, Endpoints, DriverInv, DriverClosed, Never
<1>4. \A u \in Threads \ {t} : th'[u] = th[u] /\ (Down(u)' <=> Down(u))
  BY <1>1 DEF Down
<1>a. DriverClosed'
  BY <1>1, <1>3 DEF DriverClosed, Never
<1>5. CASE th[t].at = "clean_ep0"
  <2>1. /\ reg' = FALSE /\ UNCHANGED <<intf, init>> /\ ~Down(t)
        /\ \A i \in Interfaces : Down(t)' /\ i \in th'[t].left
    BY <1>1, <1>5 DEF Down
  <2>b. DriverGone'
    BY <1>0, <1>1, <1>3, <1>5, <2>1 DEF DriverInv, DriverGone, Never
  <2>c. OneDevice'
    BY <1>0, <1>1, <1>4, <2>1 DEF DriverInv, OneDevice, Never
  <2>d. Deregisters'
    BY <1>0, <1>1, <1>4, <2>1 DEF DriverInv, Deregisters, Never
  <2>e. Orphans'
    BY <2>1 DEF Orphans
  <2>f. Anchored'
    BY <1>1, <2>1 DEF DriverInv, Anchored, Never
  <2> QED
    BY <1>a, <2>b, <2>c, <2>d, <2>e, <2>f DEF DriverInv
<1>6. CASE th[t].at = "disconnect_ep0"
  <2>1. PICK i \in Interfaces :
            /\ i \in th[t].left
            /\ intf' = [intf EXCEPT ![i] = Unbound(t, i)]
            /\ \/ th'[t].at = "idle" /\ th[t].left = {i}
               \/ th'[t].at = "deregister" /\ th'[t].left = th[t].left \ {i}
    BY <1>1, <1>6
  <2>2. /\ intf'[i] # "bound"
        /\ \A j \in Interfaces \ {i} : intf'[j] = intf[j]
        /\ t = "hub" => intf'[i] = "absent"
        /\ \A j \in Interfaces : intf'[j] # "absent" => intf[j] # "absent"
    BY <1>t, <2>1, UnboundIs
  <2>3. Down(t) /\ init' = FALSE /\ reg' = reg
    BY <1>1, <1>6 DEF Down
  <2>4. \/ ~Down(t)' /\ th[t].left = {i}
        \/ Down(t)' /\ th'[t].left = th[t].left \ {i}
    BY <2>1 DEF Down
  <2>5. \A j \in Interfaces :
            intf'[j] = "bound" /\ j \in th[t].left => Down(t)' /\ j \in th'[t].left
    BY <2>2, <2>4
  <2>b. DriverGone'
    BY <1>0, <1>1, <1>6, <2>1, <2>3, <1>3 DEF DriverInv, DriverGone, Never
  <2>c. OneDevice'
    <3> SUFFICES ASSUME "second" \notin happened'
                 PROVE  /\ \A j, k \in Interfaces :
                              intf'[j] # "absent" /\ intf'[k] # "absent" => j[1] = k[1]
                        /\ Down("hub")' => \A j \in Interfaces :
                              intf'[j] # "absent" => j \in th'["hub"].left
      BY DEF OneDevice, Never
    <3>1. /\ \A j, k \in Interfaces :
                intf[j] # "absent" /\ intf[k] # "absent" => j[1] = k[1]
          /\ Down("hub") => \A j \in Interfaces : intf[j] # "absent" => j \in th["hub"].left
      BY DEF DriverInv, OneDevice, Never
    <3>2. CASE t = "hub"
      BY <2>2, <2>3, <2>4, <3>1, <3>2
    <3>3. CASE t # "hub"
      BY <1>0, <1>4, <2>2, <3>1, <3>3
    <3> QED
      BY <3>2, <3>3
  <2>d. Deregisters'
    <3> SUFFICES ASSUME "late" \notin happened', NEW u \in {"com", "exit"}, Down(u)'
                 PROVE  ~reg' /\ \A j \in Interfaces : intf'[j] = "bound" => j \in th'[u].left
      BY DEF Deregisters, Never
    <3>1. Down(u)
      BY <1>0, <1>4, <2>3
    <3>2. ~reg /\ \A j \in Interfaces : intf[j] = "bound" => j \in th[u].left
      BY <1>1, <3>1 DEF DriverInv, Deregisters, Never
    <3>3. \A j \in Interfaces : intf'[j] = "bound" => intf[j] = "bound"
      BY <2>2
    <3>4. CASE u = t
      BY <2>3, <2>5, <3>2, <3>3, <3>4
    <3>5. CASE u # t
      BY <1>0, <1>4, <2>3, <3>2, <3>3, <3>5
    <3> QED
      BY <3>4, <3>5
  <2>e. Orphans'
    <3> SUFFICES ASSUME "second" \notin happened', "late" \notin happened',
                        NEW j \in Interfaces, intf'[j] = "bound"
                 PROVE  \E u \in Threads : Down(u)' /\ j \in th'[u].left
      BY DEF Orphans, Never
    <3>1. intf[j] = "bound"
      BY <2>2
    <3>2. CASE t = "hub"
      BY <1>1, <2>3, <2>5, <3>1, <3>2 DEF DriverInv, OneDevice, Never
    <3>3. CASE t \in {"com", "exit"}
      BY <1>1, <2>3, <2>5, <3>1, <3>3 DEF DriverInv, Deregisters, Never
    <3> QED
      BY <1>0, <3>2, <3>3
  <2>f. Anchored'
    BY <2>3 DEF Anchored
  <2> QED
    BY <1>a, <2>b, <2>c, <2>d, <2>e, <2>f DEF DriverInv
<1> QED
  BY <1>1, <1>5, <1>6

\* The hub thread starts: a device is plugged in, which is one more, or out.
LEMMA HubKeeps ==
    ASSUME TypeOK, Walks, DriverInv, happened \subseteq happened', NEW d \in Devices,
           Plug(d) \/ Unplug(d)
    PROVE  DriverInv'
<1>t. DriverTypes
  BY TypesOfDriver
<1>0. {"com", "hub", "exit"} = Threads
  BY DEF Threads
<1>1. UNCHANGED <<reg, init, dev, dEps, unload>> /\ th["hub"].at = "idle"
  BY DEF Plug, Unplug, Idle
<1>2. \E at \in {"probe", "deregister"}, left \in SUBSET Interfaces : Goes("hub", at, left)
  <2>1. CASE Plug(d)
    BY <2>1 DEF Plug, InterfacesOf
  <2>2. CASE Unplug(d)
    BY <2>2 DEF Unplug, InterfacesOf
  <2> QED
    BY <2>1, <2>2
<1>3. /\ \A u \in Threads \ {"hub"} : th'[u] = th[u]
      /\ th'["hub"].at \in {"idle", "probe", "deregister"}
  <2>1. PICK at \in {"probe", "deregister"}, left \in SUBSET Interfaces : Goes("hub", at, left)
    BY <1>2
  <2>2. at \in Ats
    BY DEF Ats
  <2> QED
    BY <1>0, <1>t, <2>1, <2>2, GoesIs DEF DriverTypes
<1>4. \A u \in Threads \ {"hub"} : Down(u)' <=> Down(u)
  BY <1>3 DEF Down
<1>5. \A u \in Threads : EndsClean(u)' => EndsClean(u)
  BY <1>3 DEF EndsClean
<1>6. ~Down("hub")
  BY <1>1 DEF Down
<1>7. \A j \in Interfaces : intf'[j] = "bound" <=> intf[j] = "bound"
  <2>1. CASE Plug(d)
    <3>1. \A j \in Interfaces : j[1] = d => intf[j] = "absent"
      BY <2>1 DEF Plug, Plugged, InterfacesOf
    <3>2. intf' = [i \in Interfaces |-> IF i[1] = d THEN "new" ELSE intf[i]]
      BY <2>1 DEF Plug
    <3> QED
      BY <3>1, <3>2
  <2>2. CASE Unplug(d)
    <3> DEFINE bound == {i \in InterfacesOf(d) : intf[i] = "bound"}
    <3>1. intf' = [i \in Interfaces |->
                      IF i[1] = d /\ i \notin bound THEN "absent" ELSE intf[i]]
      BY <2>2 DEF Unplug
    <3> QED
      BY <3>1 DEF InterfacesOf
  <2> QED
    BY <2>1, <2>2
<1>a. DriverClosed'
  BY <1>1, <1>5 DEF DriverInv, DriverClosed, Never
<1>b. DriverGone'
  BY <1>0, <1>1, <1>3 DEF DriverInv, DriverGone, Never
<1>c. OneDevice'
  <2> SUFFICES ASSUME "second" \notin happened'
               PROVE  /\ \A j, k \in Interfaces :
                            intf'[j] # "absent" /\ intf'[k] # "absent" => j[1] = k[1]
                      /\ Down("hub")' => \A j \in Interfaces :
                            intf'[j] # "absent" => j \in th'["hub"].left
    BY DEF OneDevice, Never
  <2>1. \A j, k \in Interfaces : intf[j] # "absent" /\ intf[k] # "absent" => j[1] = k[1]
    BY DEF DriverInv, OneDevice, Never
  <2>2. CASE Plug(d)
    <3>1. \A e \in Devices : ~Plugged(e)
      BY <2>2 DEF Plug, Suffers, If
    <3>2. \A j \in Interfaces : intf[j] = "absent"
      BY <3>1, InterfaceIs DEF Plugged, InterfacesOf
    <3>3. intf' = [i \in Interfaces |-> IF i[1] = d THEN "new" ELSE intf[i]]
          /\ Goes("hub", "probe", InterfacesOf(d))
      BY <2>2 DEF Plug
    <3>4. ~Down("hub")'
      <4>1. "probe" \in Ats /\ InterfacesOf(d) \in SUBSET Interfaces
        BY DEF Ats, InterfacesOf
      <4> QED
        BY <1>0, <1>t, <3>3, <4>1, GoesIs DEF DriverTypes, Down
    <3> QED
      BY <3>2, <3>3, <3>4
  <2>3. CASE Unplug(d)
    <3> DEFINE bound == {i \in InterfacesOf(d) : intf[i] = "bound"}
    <3>1. /\ intf' = [i \in Interfaces |->
                         IF i[1] = d /\ i \notin bound THEN "absent" ELSE intf[i]]
          /\ Goes("hub", "deregister", bound)
          /\ \E i \in Interfaces : i[1] = d /\ intf[i] # "absent"
      BY <2>3 DEF Unplug, Plugged, InterfacesOf
    <3>2. \A j \in Interfaces : j[1] # d => intf[j] = "absent"
      BY <2>1, <3>1
    <3>3. \A j \in Interfaces : intf'[j] # "absent" => j \in bound /\ intf[j] # "absent"
      BY <3>1, <3>2
    <3>4. bound \in SUBSET Interfaces /\ "deregister" \in Ats
      BY DEF Ats, InterfacesOf
    <3> HIDE DEF bound
    <3>5. Down("hub")' => th'["hub"].left = bound
      BY <1>0, <1>t, <3>1, <3>4, GoesIs DEF DriverTypes, Down
    <3> QED
      BY <2>1, <3>3, <3>5
  <2> QED
    BY <2>2, <2>3
<1>d. Deregisters'
  BY <1>0, <1>1, <1>3, <1>4, <1>7 DEF DriverInv, Deregisters, Never
<1>e. Orphans'
  <2> SUFFICES ASSUME "second" \notin happened', "late" \notin happened', ~init',
                      NEW j \in Interfaces, intf'[j] = "bound"
               PROVE  \E u \in Threads : Down(u)' /\ j \in th'[u].left
    BY DEF Orphans, Never
  <2>1. PICK u \in Threads : Down(u) /\ j \in th[u].left
    BY <1>1, <1>7 DEF DriverInv, Orphans, Never
  <2> QED
    BY <1>3, <1>4, <1>6, <2>1
<1>f. Anchored'
  BY <1>1, <1>7 DEF DriverInv, Anchored, Never, InterfacesOf
<1> QED
  BY <1>a, <1>b, <1>c, <1>d, <1>e, <1>f DEF DriverInv
\* The com worker starts on a command, module exit on the driver.
LEMMA WorkerKeeps ==
    ASSUME TypeOK, Walks, DriverInv, happened \subseteq happened', RecvCommand \/ ExitDriver
    PROVE  DriverInv'
<1>t. DriverTypes
  BY TypesOfDriver
<1>0. {"com", "hub", "exit"} = Threads
  BY DEF Threads
<1>1. UNCHANGED <<intf, init, dev, dEps>>
  BY DEF RecvCommand, ExitDriver, core
\* A thread t that was idle is not going down, and nothing else has moved.
<1>2. ASSUME NEW t \in {"com", "exit"}, th[t].at = "idle",
             th'[t].at \in {"idle", "probe", "clean"},
             \A u \in Threads \ {t} : th'[u] = th[u],
             reg' = reg \/ (\A u \in {"com", "exit"} : ~Down(u)') \/ "late" \in happened'
      PROVE  DriverClosed' /\ OneDevice' /\ Deregisters' /\ Orphans' /\ Anchored'
  <2>1. \A u \in Threads : EndsClean(u)' => EndsClean(u)
    BY <1>2 DEF EndsClean
  <2>2. ~Down(t) /\ ~Down(t)' /\ \A u \in Threads \ {t} : th'[u] = th[u] /\ (Down(u)' <=> Down(u))
    BY <1>2 DEF Down
  <2>a. DriverClosed'
    BY <1>1, <2>1 DEF DriverInv, DriverClosed, Never
  <2>c. OneDevice'
    BY <1>0, <1>1, <1>2, <2>2 DEF DriverInv, OneDevice, Never
  <2>d. Deregisters'
    BY <1>0, <1>1, <1>2, <2>2 DEF DriverInv, Deregisters, Never
  <2>e. Orphans'
    BY <1>1, <2>2 DEF DriverInv, Orphans, Never
  <2>f. Anchored'
    BY <1>1 DEF DriverInv, Anchored, Never
  <2> QED
    BY <2>a, <2>c, <2>d, <2>e, <2>f
<1>3. CASE RecvCommand
  <2>1. /\ th["com"].at = "idle" /\ unload' = unload /\ unload # "done"
        /\ unload = "driver" => "late" \in happened'
        /\ \/ th' = [th EXCEPT !["com"].at = "clean"] /\ reg' = reg
           \/ th' = th /\ reg' = reg
           \/ Goes("com", "probe", Interfaces)
    BY <1>3 DEF RecvCommand, Idle, Suffers, Overlap, If
  <2>2. /\ th'["com"].at \in {"idle", "probe", "clean"}
        /\ \A u \in Threads \ {"com"} : th'[u] = th[u]
        /\ reg' = reg \/ th'["com"].at \in {"idle", "probe"}
    <3>1. "clean" \in Ats /\ "probe" \in Ats /\ Interfaces \in SUBSET Interfaces
      BY DEF Ats
    <3>2. CASE th' = [th EXCEPT !["com"].at = "clean"] /\ reg' = reg
      BY <1>0, <1>t, <3>1, <3>2, AtIs DEF DriverTypes
    <3>3. CASE th' = th /\ reg' = reg
      BY <2>1, <3>3
    <3>4. CASE Goes("com", "probe", Interfaces)
      BY <1>0, <1>t, <3>1, <3>4, GoesIs DEF DriverTypes
    <3> QED
      BY <2>1, <3>2, <3>3, <3>4
  <2>3. reg' = reg \/ (\A u \in {"com", "exit"} : ~Down(u)') \/ "late" \in happened'
    <3>1. th["exit"].at # "idle" => "late" \in happened'
      BY <2>1 DEF DriverInv, DriverGone
    <3> QED
      BY <1>0, <2>2, <3>1 DEF Down
  <2>4. DriverGone'
    BY <1>0, <1>1, <2>1, <2>2 DEF DriverInv, DriverGone, Never
  <2> QED
    BY <1>2, <2>1, <2>2, <2>3, <2>4 DEF DriverInv
<1>4. CASE ExitDriver
  <2>1. /\ th' = [th EXCEPT !["exit"].at = "clean"] /\ reg' = reg
        /\ unload = "gadget_close" /\ unload' = "driver"
        /\ th["com"].at # "idle" => "late" \in happened'
    BY <1>4 DEF ExitDriver, Idle, Suffers, If, core
  <2>2. th["exit"].at = "idle"
    BY <2>1 DEF DriverInv, DriverGone
  <2>3. /\ th'["exit"].at = "clean"
        /\ \A u \in Threads \ {"exit"} : th'[u] = th[u]
    <3>1. "clean" \in Ats
      BY DEF Ats
    <3> QED
      BY <1>0, <1>t, <2>1, <3>1, AtIs DEF DriverTypes
  <2>4. DriverGone'
    BY <1>0, <2>1, <2>3 DEF DriverGone, Never
  <2> QED
    BY <1>2, <2>1, <2>2, <2>3, <2>4 DEF DriverInv
<1> QED
  BY <1>3, <1>4

\* Endpoints are opened; and what leaves the driver alone.
LEMMA DriverAlone ==
    ASSUME DriverInv, happened \subseteq happened', UNCHANGED <<intf, reg, init, dev, th>>,
           \/ dEps' = dEps
           \/ /\ dEps' = dEps \cup {"other"} /\ dEps # {}
              /\ (\E t \in Threads : EndsClean(t)) => "busy" \in happened',
           \/ unload' = unload
           \/ unload' \in {"gadget", "gadget_ep0", "gadget_close"} /\ unload # "driver"
           \/ unload = "driver" /\ th["exit"].at = "idle" /\ unload' = "done"
    PROVE  DriverInv'
<1>1. \A t \in Threads : (Down(t)' <=> Down(t)) /\ (EndsClean(t)' <=> EndsClean(t))
  BY DEF Down, EndsClean
<1>0. {"com", "hub", "exit"} = Threads
  BY DEF Threads
<1>a. DriverClosed'
  BY <1>1 DEF DriverInv, DriverClosed, Never
<1>b. DriverGone'
  BY DEF DriverInv, DriverGone, Never
<1>c. OneDevice'
  BY <1>0, <1>1 DEF DriverInv, OneDevice, Never
<1>d. Deregisters'
  BY <1>0, <1>1 DEF DriverInv, Deregisters, Never
<1>e. Orphans'
  BY <1>1 DEF DriverInv, Orphans, Never
<1>f. Anchored'
  BY DEF DriverInv, Anchored, Never
<1> QED
  BY <1>a, <1>b, <1>c, <1>d, <1>e, <1>f DEF DriverInv

LEMMA DriverInit == Init => DriverInv
<1> SUFFICES ASSUME Init PROVE DriverInv
  OBVIOUS
<1>1. PICK present \in {{}} \cup {InterfacesOf(d) : d \in Devices} :
          /\ intf = [i \in Interfaces |-> IF i \in present THEN "new" ELSE "absent"]
          /\ th = [t \in Threads |-> IF t = "hub" /\ present # {}
                                     THEN [at |-> "probe", left |-> present] ELSE Rest]
  BY DEF Init
<1>2. /\ \A t \in Threads : th[t].at \in {"idle", "probe"} /\ (t # "hub" => th[t].at = "idle")
      /\ \A t \in Threads : ~Down(t) /\ ~EndsClean(t)
  BY <1>1 DEF Rest, Down, EndsClean
<1>3. {"com", "hub", "exit"} = Threads
  BY DEF Threads
<1>4. /\ \A i \in Interfaces : intf[i] # "bound"
      /\ \A i, j \in Interfaces : intf[i] # "absent" /\ intf[j] # "absent" => i[1] = j[1]
  BY <1>1 DEF InterfacesOf
<1>5. init = FALSE /\ dEps = {} /\ unload = "no"
  BY DEF Init
<1> QED
  BY <1>2, <1>3, <1>4, <1>5
     DEF DriverInv, DriverClosed, DriverGone, OneDevice, Deregisters, Orphans, Anchored

LEMMA DriverNext == TypeOK /\ Walks /\ DriverInv /\ [Next]_vars => DriverInv'
<1> SUFFICES ASSUME TypeOK, Walks, DriverInv, [Next]_vars PROVE DriverInv'
  OBVIOUS
<1>0. happened \subseteq happened'
  BY HappenedGrows
<1>1. ASSUME NEW t \in Threads, Thread(t) PROVE DriverInv'
  BY <1>0, <1>1, ProbeKeeps, DisconnectKeeps, CleanOthersKeeps, CleanEp0Keeps DEF Thread
<1>2. ASSUME NEW d \in Devices, Plug(d) \/ Unplug(d) PROVE DriverInv'
  BY <1>0, <1>2, HubKeeps
<1>3. CASE RecvCommand \/ ExitDriver
  BY <1>0, <1>3, WorkerKeeps
<1>4. CASE Open
  <2>1. /\ UNCHANGED <<intf, reg, init, dev, th, unload>>
        /\ dEps' = dEps \cup {"other"} /\ dEps # {}
        /\ (\E t \in Threads : EndsClean(t)) => "busy" \in happened'
    BY <1>4 DEF Open, Suffers, If, core
  <2> QED
    BY <1>0, <2>1, DriverAlone
<1>5. CASE \/ Command \/ Lose \/ GadgetOpens \/ Unload \/ GadgetCom
           \/ ExitOthers \/ ExitEp0 \/ ExitDone \/ UNCHANGED vars
  <2>1. UNCHANGED <<intf, reg, init, dev, dEps, th>>
    BY <1>5 DEF Command, Lose, GadgetOpens, Unload, GadgetCom, RecvNewDevice, RecvReset,
                GadgetCleanOthers, GadgetCleanEp0, NewDevice, ExitOthers, ExitEp0, ExitDone,
                vars, core, driver
  <2>2. \/ unload' = unload
        \/ unload' \in {"gadget", "gadget_ep0", "gadget_close"} /\ unload # "driver"
        \/ unload = "driver" /\ th["exit"].at = "idle" /\ unload' = "done"
    BY <1>5 DEF Command, Lose, GadgetOpens, Unload, GadgetCom, RecvNewDevice, RecvReset,
                GadgetCleanOthers, GadgetCleanEp0, NewDevice, ExitOthers, ExitEp0, ExitDone,
                vars, Idle
  <2> QED
    BY <1>0, <2>1, <2>2, DriverAlone
<1> QED
  BY <1>1, <1>2, <1>3, <1>4, <1>5 DEF Next, System, Exit

-----------------------------------------------------------------------------
(* What is left *)

SessionInv == GadgetInv /\ DriverInv

LEMMA SessionAlways == Spec => []SessionInv
<1>1. Init => TypeOK /\ Walks /\ SessionInv
  BY InitType, GadgetInit, DriverInit DEF SessionInv
<1>2. TypeOK /\ Walks /\ SessionInv /\ [Next]_vars => TypeOK' /\ Walks' /\ SessionInv'
  BY NextType, GadgetNext, DriverNext DEF SessionInv
<1> QED
  BY <1>1, <1>2, PTL DEF Spec

\* driver_state.init and dev describe the USB core whenever the driver rests, for
\* any devices and mishaps but the ones that break it: a failed probe, a message
\* that cannot be sent, a second device, an exit that is late (driver.c:1163, 1170,
\* 1243).
THEOREM InitIsTrue == Spec => []SessionIsReal
<1>1. SessionInv => SessionIsReal
  <2> SUFFICES ASSUME SessionInv, Quiet, Without({"alloc", "send", "second", "late"})
               PROVE  /\ init <=> \E i \in Interfaces : intf[i] = "bound"
                      /\ init => \E i \in InterfacesOf(dev) : intf[i] = "bound"
    BY DEF SessionIsReal
  <2>1. Never("alloc") /\ Never("send") /\ Never("second") /\ Never("late")
    BY DEF Without, Never
  <2>2. \A t \in Threads : ~Down(t)
    BY DEF Quiet, Idle, Down
  <2>3. ~init => \A i \in Interfaces : intf[i] # "bound"
    BY <2>1, <2>2 DEF SessionInv, DriverInv, Orphans
  <2>4. init => \E i \in InterfacesOf(dev) : intf[i] = "bound"
    BY <2>1 DEF SessionInv, DriverInv, Anchored
  <2> QED
    BY <2>3, <2>4 DEF InterfacesOf
<1> QED
  BY SessionAlways, <1>1, PTL

\* Neither half keeps an endpoint without a session, for any devices and mishaps,
\* unless one was opened behind clean_endpoints or bind failed (driver.c:1233,
\* gadget.c:1278, 1121).
THEOREM NoSessionNoEndpoint == Spec => []EndpointsGone
<1>1. SessionInv => EndpointsGone
  BY DEF SessionInv, GadgetInv, GadgetClosed, DriverInv, DriverClosed, EndpointsGone, Without,
         Never
<1> QED
  BY SessionAlways, <1>1, PTL

\* When the module is gone neither half is registered or has an endpoint, for any
\* devices and mishaps but the two that module exit does not wait for (gadget.c:1330,
\* driver.c:1327).
THEOREM ExitLeavesNothing == Spec => []UnloadedIsGone
<1>1. SessionInv => UnloadedIsGone
  BY DEF SessionInv, GadgetInv, GadgetGone, DriverInv, DriverGone, UnloadedIsGone, Without, Never
<1> QED
  BY SessionAlways, <1>1, PTL

-----------------------------------------------------------------------------
(* The announcement *)

\* What the gadget reads in the announcement of a device are the device's settings,
\* complete and in order: the first ones if the announcement is cut, all of them if
\* it is whole (gadget.c:682-713, driver.c:1090-1160).
THEOREM AnnouncementIsReadBack == ReadsBack
<1> SUFFICES ASSUME NEW d \in Devices
             PROVE  LET whole == Len(Announcement[d])
                    IN  /\ whole \in Nat
                        /\ \A n \in 0..whole : IsPrefix(Read[d][n].settings, Settings[d])
                        /\ Read[d][whole].settings = Settings[d]
  BY DEF ReadsBack
<1> DEFINE device == Description[d]
           packet == Build(device)
           whole == Len(packet)
<1>1. device \in Descriptions
  BY SessionAssumption
<1>2. Announcement[d] = packet /\ Settings[d] = SettingsOf(device)
  BY DEF Announcement, Settings
<1>3. ASSUME NEW n \in 0..whole PROVE Read[d][n].settings = Parse(SubSeq(packet, 1, n))
  BY DEF Read, Prefix, Announcement
<1> HIDE DEF device
<1>4. /\ whole \in Nat
      /\ \A n \in 0..whole : IsPrefix(Parse(SubSeq(packet, 1, n)), SettingsOf(device))
      /\ Parse(SubSeq(packet, 1, whole)) = SettingsOf(device)
  BY <1>1, ParseReadsBuild
<1> HIDE DEF packet, whole
<1>5. whole \in 0..whole
  BY <1>4
<1> QED
  BY <1>2, <1>3, <1>4, <1>5 DEF whole

\* The gadget presents what it has read, in the last device announced to it that
\* it did not refuse: no later message changes the identity under the host
\* (gadget.c:747-775).
THEOREM IdentityIsRead == Spec => []IdentityIsDevice
<1>1. Init => IdentityIsDevice
  BY DEF Init, IdentityIsDevice
<1>2. ASSUME TypeOK, GadgetInv, IdentityIsDevice, [Next]_vars
      PROVE  IdentityIsDevice'
  <2>0. happened \subseteq happened'
    BY <1>2, HappenedGrows
  <2>1. ASSUME ident' = ident, udc' => udc PROVE IdentityIsDevice'
    <3> SUFFICES ASSUME udc'
                 PROVE  \E d \in Devices :
                           /\ IsPrefix(ident', Settings[d])
                           /\ Without({"cut"})' => ident' = Settings[d]
      BY DEF IdentityIsDevice
    <3>1. PICK d \in Devices :
              /\ IsPrefix(ident, Settings[d])
              /\ Without({"cut"}) => ident = Settings[d]
      BY <1>2, <2>1 DEF IdentityIsDevice
    <3>2. Without({"cut"})' => Without({"cut"})
      BY <2>0 DEF Without
    <3> QED
      BY <2>1, <3>1, <3>2
  <2>2. CASE NewDevice
    <3> DEFINE d == gcom.device
               whole == Len(Announcement[d])
    <3>1. d \in Devices
      BY <1>2, <2>2 DEF NewDevice, GadgetInv, Flags, TypeOK
    <3>2. /\ whole \in Nat
          /\ \A n \in 0..whole : IsPrefix(Read[d][n].settings, Settings[d])
          /\ Read[d][whole].settings = Settings[d]
      BY <3>1, AnnouncementIsReadBack DEF ReadsBack
    <3>3. \/ ident' = Read[d][whole].settings
          \/ \E n \in 0..(whole - 1) :
                ident' = Read[d][n].settings /\ "cut" \in happened'
      BY <2>2 DEF NewDevice, Suffers
    <3> HIDE DEF whole, d
    <3>4. /\ IsPrefix(ident', Settings[d])
          /\ ident' = Settings[d] \/ "cut" \in happened'
      BY <3>2, <3>3
    <3> QED
      BY <3>1, <3>4 DEF IdentityIsDevice, Without
  <2>3. CASE RecvNewDevice \/ RecvReset \/ GadgetCleanOthers \/ GadgetCleanEp0
             \/ GadgetOpens \/ Unload \/ ExitOthers \/ ExitEp0
    <3>1. ident' = ident
      BY <2>3 DEF RecvNewDevice, RecvReset, GadgetCleanOthers, GadgetCleanEp0, GadgetOpens,
                  Unload, ExitOthers, ExitEp0
    <3>2. udc' = udc \/ udc' = FALSE \/ udc' = (udc /\ ~registered)
      BY <2>3 DEF RecvNewDevice, RecvReset, GadgetCleanOthers, GadgetCleanEp0, GadgetOpens,
                  Unload, ExitOthers, ExitEp0
    <3> QED
      BY <2>1, <3>1, <3>2
  <2>4. CASE \/ \E d \in Devices : Plug(d) \/ Unplug(d)
             \/ \E t \in Threads : Thread(t)
             \/ Command \/ Lose \/ Open \/ RecvCommand
             \/ ExitDriver \/ ExitDone
             \/ UNCHANGED vars
    <3>1. ident' = ident /\ udc' = udc
      BY <2>4 DEF Plug, Unplug, Thread, Probe, Disconnect, CleanOthers, CleanEp0, Command, Lose,
                  Open, RecvCommand, ExitDriver, ExitDone, gadget, vars
    <3> QED
      BY <2>1, <3>1
  <2> QED
    BY <1>2, <2>2, <2>3, <2>4 DEF Next, System, Exit, GadgetCom
<1> QED
  BY <1>1, <1>2, InitType, NextType, GadgetInit, GadgetNext, PTL DEF Spec
=============================================================================
