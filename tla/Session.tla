------------------------------ MODULE Session ------------------------------
(***************************************************************************)
(* The session of a device: a device plugged into the driver's side is     *)
(* announced to the gadget, which presents it to the host until it is      *)
(* unplugged, reset by userland, or until the module is unloaded.          *)
(*                                                                         *)
(* driver_state and gadget_state have no lock.  The driver's is written by *)
(* its com worker (RESET, RELOAD), by the hub thread of the kernel (probe  *)
(* and disconnect) and by module exit; the gadget's by its com worker and  *)
(* by module exit; endpoints are opened by the worker of endpoint 0 of     *)
(* either half too.  A probe and a registration are one action; a cleanup  *)
(* is two, for what is opened between them stays.                          *)
(*                                                                         *)
(* Of the endpoints only the two of endpoint 0 ("in", "out") and whether   *)
(* there are others is kept; Relay and Control say what they do.           *)
(***************************************************************************)
EXTENDS InitPkt, FiniteSets

CONSTANTS Devices,     \* devices that may be plugged in
          Description, \* [Devices -> description, see InitPkt]
          Mishaps,     \* what may go wrong together: sets of MishapKinds
          MaxPlugs,    \* bound: devices plugged in
          MaxCommands  \* bound: RESET and RELOAD commands of userland

MishapKinds == {
    "lose",    \* a management message is lost
    "send",    \* a management message cannot be allocated or sent
    "alloc",   \* probe fails on an allocation
    "cut",     \* userland cuts the announcement of a device
    "bind",    \* the gadget cannot be registered or bound
    "second",  \* a device is plugged in while another one is
    "busy",    \* endpoints are opened while those of the same half are cleaned up
    "overlap", \* two threads clean up the endpoints of the driver at once
    "late"     \* a com worker handles a message while its half is unloaded
}

NoDevice == "none"

ASSUME SessionAssumption ==
    /\ Devices \cap {NoDevice, "RESET"} = {}
    /\ \A d \in Devices : Description[d] \in Descriptions
    /\ Mishaps \subseteq SUBSET MishapKinds
    /\ {MaxPlugs, MaxCommands} \subseteq Nat

Interfaces  == UNION {{<<d, i>> : i \in DOMAIN Description[d]} : d \in Devices}
InterfacesOf(d) == {i \in Interfaces : i[1] = d}
Settings    == [d \in Devices |-> SettingsOf(Description[d])]
Threads     == {"com", "hub", "exit"}
Ep0         == {"in", "out"}
Endpoints   == Ep0 \cup {"other"}

VARIABLES
    intf,       \* USB core: [Interfaces -> "absent", "new" (not probed), "bound"
                \* to the driver or "failed" (probe failed)]
    reg,        \* USB core: is ubq_driver registered
    init, dev,  \* driver_state.init and dev
    dEps,       \* driver_state.eplist
    th,         \* the threads of the driver: where they are
    toDriver,   \* commands on their way from userland to the driver
    toGadget,   \* management messages on their way from the driver to the gadget
    registered, \* gadget_state.registered
    udc,        \* UDC core: is ubq_gadget registered, that is: presented to the host
    ident,      \* gadget_state.identity: the settings
    gEps,       \* gadget_state.eplist
    gcom,       \* com worker of the gadget: where it is
    unload,     \* module exit: where it is
    plugs, commands, \* counters for the bounds
    happened    \* the kinds of mishap so far

core   == <<intf, reg>>
driver == <<init, dev, dEps, th>>
path   == <<toDriver, toGadget>>
gadget == <<registered, udc, ident, gEps, gcom>>
bounds == <<plugs, commands>>
vars   == <<core, driver, path, gadget, unload, bounds, happened>>

Idle(t) == th[t].at = "idle"
Rest    == [at |-> "idle", left |-> {}]

TypeOK ==
    /\ intf \in [Interfaces -> {"absent", "new", "bound", "failed"}]
    /\ {reg, init, registered, udc} \subseteq BOOLEAN
    /\ dev \in Devices \cup {NoDevice}
    /\ dEps \subseteq Endpoints /\ gEps \subseteq Endpoints
    /\ th \in [Threads -> [at : {"idle", "probe", "deregister", "clean", "clean_ep0",
                                 "disconnect", "disconnect_ep0"},
                           left : SUBSET Interfaces]]
    /\ toDriver \in Seq({"RESET", "RELOAD"})
    /\ toGadget \in Seq(Devices \cup {"RESET"})
    /\ gcom \in [at : {"idle", "clean", "clean_ep0", "register"},
                 device : Devices \cup {NoDevice}]
    /\ unload \in {"no", "gadget", "gadget_ep0", "gadget_close", "driver", "done"}
    /\ happened \subseteq MishapKinds

\* The module has been loaded; it may find a device.
Init ==
    /\ \E present \in {{}} \cup {InterfacesOf(d) : d \in Devices} :
          /\ intf = [i \in Interfaces |-> IF i \in present THEN "new" ELSE "absent"]
          /\ th = [t \in Threads |-> IF t = "hub" /\ present # {}
                                     THEN [at |-> "probe", left |-> present] ELSE Rest]
    /\ reg = TRUE
    /\ init = FALSE /\ dev = NoDevice /\ dEps = {}
    /\ toDriver = <<>> /\ toGadget = <<>>
    /\ registered = FALSE /\ udc = FALSE /\ ident = <<>>
    /\ gEps = {}
    /\ gcom = [at |-> "idle", device |-> NoDevice]
    /\ unload = "no"
    /\ plugs = 0 /\ commands = 0
    /\ happened = {}

-----------------------------------------------------------------------------
(* Helpers *)

\* an action takes its mishaps, of which there may be none
Suffers(kinds) ==
    /\ happened' = happened \cup kinds
    /\ kinds = {} \/ \E together \in Mishaps : happened' \subseteq together

If(condition, kind) == IF condition THEN {kind} ELSE {}

Plugged(d) == \E i \in InterfacesOf(d) : intf[i] # "absent"

\* the steps of clean_endpoints
Cleaning(t)  == th[t].at \in {"clean", "clean_ep0", "disconnect", "disconnect_ep0"}
EndsClean(t) == th[t].at \in {"clean_ep0", "disconnect_ep0"}
Overlap(t)   == If(\E u \in Threads \ {t} : Cleaning(u), "overlap")

\* a thread goes on to "at", or rests when no interface is left
Goes(t, at, left) ==
    th' = [th EXCEPT ![t] = IF left = {} THEN Rest ELSE [at |-> at, left |-> left]]

\* the interfaces are taken one after the other
Pick(left) == CHOOSE i \in left : \A j \in left : j[1] = i[1] => i[2] <= j[2]

-----------------------------------------------------------------------------
(* Outside: who plugs in and out, and userland.  Once the module is being
   unloaded nothing new comes, but what is on its way does. *)

Plug(d) ==
    /\ Idle("hub") /\ unload = "no" /\ plugs < MaxPlugs
    /\ ~Plugged(d)
    /\ Suffers(If(\E e \in Devices : Plugged(e), "second"))
    /\ plugs' = plugs + 1
    /\ intf' = [i \in Interfaces |-> IF i[1] = d THEN "new" ELSE intf[i]]
    /\ Goes("hub", "probe", InterfacesOf(d))
    /\ UNCHANGED <<reg, init, dev, dEps, path, gadget, unload, commands>>

\* the interfaces that are bound have to be disconnected first
Unplug(d) ==
    /\ Idle("hub") /\ Plugged(d)
    /\ LET bound == {i \in InterfacesOf(d) : intf[i] = "bound"}
       IN  /\ intf' = [i \in Interfaces |->
                           IF i[1] = d /\ i \notin bound THEN "absent" ELSE intf[i]]
           /\ Goes("hub", "deregister", bound)
    /\ UNCHANGED <<reg, init, dev, dEps, path, gadget, unload, bounds, happened>>

\* userland resets the device, then asks for it again
Command ==
    /\ unload = "no" /\ commands < MaxCommands
    /\ commands' = commands + 1
    /\ toDriver' = Append(toDriver, IF commands % 2 = 0 THEN "RESET" ELSE "RELOAD")
    /\ UNCHANGED <<core, driver, toGadget, gadget, unload, plugs, happened>>

\* a message for the gadget is lost; a command that is lost was not given
Lose ==
    /\ Suffers({"lose"})
    /\ toGadget # <<>> /\ toGadget' = Tail(toGadget)
    /\ UNCHANGED <<core, driver, toDriver, gadget, unload, bounds>>

-----------------------------------------------------------------------------
(* The driver: probe and disconnect *)

\* what driver_probe does when there is no session yet
Announce(i) ==
    \/ /\ Suffers({})
       /\ dEps' = dEps \cup Ep0
       /\ toGadget' = Append(toGadget, i[1])
       /\ intf' = [intf EXCEPT ![i] = "bound"]
    \/ /\ \/ \E eps \in {{}, {"in"}, Ep0} : dEps' = dEps \cup eps /\ Suffers({"alloc"})
          \/ dEps' = dEps \cup Ep0 /\ Suffers({"send"})
       /\ intf' = [intf EXCEPT ![i] = "failed"]
       /\ UNCHANGED toGadget

\* driver_probe of the next interface: run by the hub thread for a new device,
\* by the com worker when it registers the driver
Probe(t) ==
    /\ th[t].at = "probe"
    /\ LET i == Pick(th[t].left)
       IN  /\ Goes(t, "probe", th[t].left \ {i})
           /\ IF reg /\ intf[i] = "new"
              THEN /\ dev' = i[1]
                   /\ init' = TRUE
                   /\ IF init
                      THEN /\ intf' = [intf EXCEPT ![i] = "bound"]
                           /\ UNCHANGED <<dEps, toGadget, happened>>
                      ELSE Announce(i)
              ELSE UNCHANGED <<intf, init, dev, dEps, toGadget, happened>>
    /\ UNCHANGED <<reg, toDriver, gadget, unload, bounds>>

\* what becomes of an interface the driver is no longer bound to
Unbound(t, i) == IF t = "hub" \/ intf[i] = "absent" THEN "absent" ELSE "new"

\* driver_disconnect of the next interface; the USB core locks the device
Disconnect(t) ==
    /\ th[t].at = "deregister"
    /\ LET i == Pick(th[t].left)
       IN  /\ \A u \in Threads \ {t} :
                  ~(th[u].at \in {"disconnect", "disconnect_ep0"}
                    /\ Pick(th[u].left)[1] = i[1])
           /\ IF intf[i] = "bound" /\ init
              THEN /\ th' = [th EXCEPT ![t].at = "disconnect"]
                   /\ \/ Suffers(Overlap(t)) /\ toGadget' = Append(toGadget, "RESET")
                      \/ Suffers(Overlap(t) \cup {"send"}) /\ UNCHANGED toGadget
                   /\ UNCHANGED intf
              ELSE /\ Goes(t, "deregister", th[t].left \ {i})
                   /\ intf' = [intf EXCEPT ![i] = Unbound(t, i)]
                   /\ UNCHANGED <<toGadget, happened>>
    /\ UNCHANGED <<reg, init, dev, dEps, toDriver, gadget, unload, bounds>>

\* clean_endpoints: every endpoint but endpoint 0, which is last in the list,
CleanOthers(t) ==
    /\ th[t].at \in {"clean", "disconnect"}
    /\ dEps' = dEps \ {"other"}
    /\ th' = [th EXCEPT ![t].at = IF @ = "clean" THEN "clean_ep0" ELSE "disconnect_ep0"]
    /\ UNCHANGED <<core, init, dev, path, gadget, unload, bounds, happened>>

\* Mutant: init is left set.
CleanEp0_KeepsInit(t) ==
    /\ EndsClean(t)
    /\ dEps' = dEps \ Ep0
    /\ IF th[t].at = "clean_ep0"
       THEN /\ reg' = FALSE
            /\ Goes(t, "deregister", Interfaces)
            /\ UNCHANGED <<intf, init>>
       ELSE LET i == Pick(th[t].left)
            IN  /\ intf' = [intf EXCEPT ![i] = Unbound(t, i)]
                /\ Goes(t, "deregister", th[t].left \ {i})
                /\ UNCHANGED <<reg, init>>
    /\ UNCHANGED <<dev, path, gadget, unload, bounds, happened>>

\* Mutant: the session is closed before usb_deregister, not by driver_disconnect.
CleanEp0_ClosesEarly(t) ==
    /\ EndsClean(t)
    /\ dEps' = dEps \ Ep0
    /\ init' = FALSE
    /\ IF th[t].at = "clean_ep0"
       THEN /\ reg' = FALSE
            /\ Goes(t, "deregister", Interfaces)
            /\ UNCHANGED intf
       ELSE LET i == Pick(th[t].left)
            IN  /\ intf' = [intf EXCEPT ![i] = Unbound(t, i)]
                /\ Goes(t, "deregister", th[t].left \ {i})
                /\ UNCHANGED reg
    /\ UNCHANGED <<dev, path, gadget, unload, bounds, happened>>

\* then endpoint 0, whose worker is waited for; ubq_disable_device goes on with
\* usb_deregister, driver_disconnect closes the session
CleanEp0(t) ==
    /\ EndsClean(t)
    /\ dEps' = dEps \ Ep0
    /\ IF th[t].at = "clean_ep0"
       THEN /\ reg' = FALSE
            /\ Goes(t, "deregister", Interfaces)
            /\ UNCHANGED <<intf, init>>
       ELSE LET i == Pick(th[t].left)
            IN  /\ init' = FALSE
                /\ intf' = [intf EXCEPT ![i] = Unbound(t, i)]
                /\ Goes(t, "deregister", th[t].left \ {i})
                /\ UNCHANGED reg
    /\ UNCHANGED <<dev, path, gadget, unload, bounds, happened>>

\* what a thread of the driver does next
Thread(t) == Probe(t) \/ Disconnect(t) \/ CleanOthers(t) \/ CleanEp0(t)

-----------------------------------------------------------------------------
(* The driver: its com worker and the worker of endpoint 0 *)

\* RESET: ubq_disable_device; RELOAD: ubq_enable_device, refused if registered
RecvCommand ==
    /\ toDriver # <<>> /\ Idle("com") /\ unload # "done"
    /\ toDriver' = Tail(toDriver)
    /\ IF Head(toDriver) = "RESET"
       THEN /\ Suffers(Overlap("com") \cup If(unload = "driver", "late"))
            /\ th' = [th EXCEPT !["com"].at = "clean"]
            /\ UNCHANGED reg
       ELSE /\ Suffers(If(unload = "driver", "late"))
            /\ IF reg THEN UNCHANGED <<reg, th>>
                      ELSE reg' = TRUE /\ Goes("com", "probe", Interfaces)
    /\ UNCHANGED <<intf, init, dev, dEps, toGadget, gadget, unload, bounds>>

\* SET_CONFIGURATION, in the worker of endpoint 0, or SET_INTERFACE, in the com
\* worker: other endpoints are opened.  clean_endpoints unlinks endpoint 0 last
\* and then waits for its worker, so that this may still happen.
Open ==
    /\ "out" \in dEps /\ "other" \notin dEps
    /\ Suffers(If(\E t \in Threads : EndsClean(t), "busy"))
    /\ dEps' = dEps \cup {"other"}
    /\ UNCHANGED <<core, init, dev, th, path, gadget, unload, bounds>>

-----------------------------------------------------------------------------
(* The gadget: its com worker *)

\* a message is handled while the gadget is unloaded
GadgetOpen == unload \in {"no", "gadget", "gadget_ep0", "gadget_close"}
Late       == If(unload # "no", "late")

\* Mutant: the type of the message is not looked at.
RecvNewDevice_Any ==
    /\ toGadget # <<>>
    /\ gcom.at = "idle" /\ GadgetOpen
    /\ Suffers(Late)
    /\ toGadget' = Tail(toGadget)
    /\ gcom' = [at |-> IF registered THEN "clean" ELSE "register", device |-> Head(toGadget)]
    /\ udc' = (udc /\ ~registered)
    /\ UNCHANGED <<core, driver, toDriver, registered, ident, gEps, unload, bounds>>

\* callback_new_device: a gadget that is registered is unregistered and cleaned up
RecvNewDevice ==
    /\ toGadget # <<>> /\ Head(toGadget) # "RESET"
    /\ gcom.at = "idle" /\ GadgetOpen
    /\ Suffers(Late)
    /\ toGadget' = Tail(toGadget)
    /\ gcom' = [at |-> IF registered THEN "clean" ELSE "register", device |-> Head(toGadget)]
    /\ udc' = (udc /\ ~registered)
    /\ UNCHANGED <<core, driver, toDriver, registered, ident, gEps, unload, bounds>>

\* Mutant: the endpoints are not cleaned up.
RecvReset_Leaves ==
    /\ toGadget # <<>> /\ Head(toGadget) = "RESET"
    /\ gcom.at = "idle" /\ GadgetOpen
    /\ Suffers(Late)
    /\ toGadget' = Tail(toGadget)
    /\ registered' = FALSE /\ udc' = FALSE
    /\ UNCHANGED <<core, driver, toDriver, ident, gEps, gcom, unload, bounds>>

\* Mutant: the flag is left set.
RecvReset_KeepsFlag ==
    /\ toGadget # <<>> /\ Head(toGadget) = "RESET"
    /\ gcom.at = "idle" /\ GadgetOpen
    /\ Suffers(Late)
    /\ toGadget' = Tail(toGadget)
    /\ udc' = FALSE
    /\ gcom' = [at |-> "clean", device |-> NoDevice]
    /\ UNCHANGED <<core, driver, toDriver, registered, ident, gEps, unload, bounds>>

\* callback_reset
RecvReset ==
    /\ toGadget # <<>> /\ Head(toGadget) = "RESET"
    /\ gcom.at = "idle" /\ GadgetOpen
    /\ Suffers(Late)
    /\ toGadget' = Tail(toGadget)
    /\ registered' = FALSE /\ udc' = FALSE
    /\ gcom' = [at |-> "clean", device |-> NoDevice]
    /\ UNCHANGED <<core, driver, toDriver, ident, gEps, unload, bounds>>

GadgetCleanOthers ==
    /\ gcom.at = "clean"
    /\ gEps' = gEps \ {"other"}
    /\ gcom' = [gcom EXCEPT !.at = "clean_ep0"]
    /\ UNCHANGED <<core, driver, path, registered, udc, ident, unload, bounds, happened>>

GadgetCleanEp0 ==
    /\ gcom.at = "clean_ep0"
    /\ gEps' = gEps \ Ep0
    /\ gcom' = [gcom EXCEPT !.at = IF gcom.device = NoDevice THEN "idle" ELSE "register"]
    /\ UNCHANGED <<core, driver, path, registered, udc, ident, unload, bounds, happened>>

\* usb_gadget_probe_driver and ubq_bind; when bind cannot add the endpoints it
\* returns an uninitialised err, which may say that all is well
Register ==
    \/ /\ Suffers({})
       /\ registered' = TRUE /\ udc' = TRUE /\ gEps' = gEps \cup Ep0
    \/ /\ Suffers({"bind"})
       /\ \E eps \in {{}, {"in"}} : gEps' = gEps \cup eps
       /\ \/ registered' = TRUE /\ udc' = TRUE
          \/ UNCHANGED <<registered, udc>>

\* what the gadget reads in the first n descriptors of the announcement of d
Announcement == [d \in Devices |-> Build(Description[d])]
Prefix(d, n) == SubSeq(Announcement[d], 1, n)
Read == [d \in Devices |-> [n \in 0..Len(Announcement[d]) |->
            [settings |-> Parse(Prefix(d, n)), fails |-> Malformed(Prefix(d, n))]]]

\* Mutant: the interfaces are counted on from those of the previous device.
NewDevice_Appends ==
    /\ gcom.at = "register"
    /\ gcom' = [at |-> "idle", device |-> NoDevice]
    /\ LET d == gcom.device
           whole == Len(Announcement[d])
       IN  ident' = ident \o Read[d][whole].settings /\ Register
    /\ UNCHANGED <<core, driver, path, unload, bounds>>

\* the announcement as it arrives: whole, or cut by userland
NewDevice ==
    /\ gcom.at = "register"
    /\ gcom' = [at |-> "idle", device |-> NoDevice]
    /\ LET d == gcom.device
           whole == Len(Announcement[d])
       IN  \/ ident' = Read[d][whole].settings /\ Register
           \/ \E n \in 0..(whole - 1) :
                 /\ Suffers({"cut"})
                 /\ ident' = Read[d][n].settings
                 /\ IF Read[d][n].fails
                    THEN UNCHANGED <<registered, udc, gEps>>
                    ELSE registered' = TRUE /\ udc' = TRUE /\ gEps' = gEps \cup Ep0
    /\ UNCHANGED <<core, driver, path, unload, bounds>>

GadgetCom ==
    \/ RecvNewDevice \/ RecvReset \/ GadgetCleanOthers \/ GadgetCleanEp0 \/ NewDevice

-----------------------------------------------------------------------------
(* The gadget: its endpoints *)

\* SET_INTERFACE, in the worker of endpoint 0, or a CTRL reply with the
\* configuration descriptor, in the com worker: other endpoints are opened
GadgetOpens ==
    /\ "in" \in gEps /\ "other" \notin gEps
    /\ gcom.at = "idle" \/ "out" \in gEps
    /\ Suffers(If(gcom.at = "clean_ep0" \/ unload = "gadget_ep0", "busy"))
    /\ gEps' = gEps \cup {"other"}
    /\ UNCHANGED <<core, driver, path, registered, udc, ident, gcom, unload, bounds>>

-----------------------------------------------------------------------------
(* Module exit: ubq_gadget_exit, then ubq_driver_exit *)

\* Mutant: the gadget stays registered.
Unload_Registered ==
    /\ unload = "no"
    /\ Suffers(If(gcom.at # "idle", "late"))
    /\ unload' = "gadget"
    /\ UNCHANGED <<core, driver, path, gadget, bounds>>

Unload ==
    /\ unload = "no"
    /\ Suffers(If(gcom.at # "idle", "late"))
    /\ unload' = "gadget"
    /\ udc' = (udc /\ ~registered)
    /\ UNCHANGED <<core, driver, path, registered, ident, gEps, gcom, bounds>>

ExitOthers ==
    /\ unload = "gadget"
    /\ unload' = "gadget_ep0"
    /\ gEps' = gEps \ {"other"}
    /\ UNCHANGED <<core, driver, path, registered, udc, ident, gcom, bounds, happened>>

ExitEp0 ==
    /\ unload = "gadget_ep0"
    /\ unload' = "gadget_close"
    /\ gEps' = gEps \ Ep0
    /\ UNCHANGED <<core, driver, path, registered, udc, ident, gcom, bounds, happened>>

\* com_close waits for the com worker; then ubq_disable_device
ExitDriver ==
    /\ unload = "gadget_close" /\ gcom.at = "idle"
    /\ unload' = "driver"
    /\ Suffers(Overlap("exit") \cup If(~Idle("com"), "late"))
    /\ th' = [th EXCEPT !["exit"].at = "clean"]
    /\ UNCHANGED <<core, init, dev, dEps, path, gadget, bounds>>

\* com_close again
ExitDone ==
    /\ unload = "driver" /\ Idle("exit") /\ Idle("com")
    /\ unload' = "done"
    /\ UNCHANGED <<core, driver, path, gadget, bounds, happened>>

Exit == ExitOthers \/ ExitEp0 \/ ExitDriver \/ ExitDone

-----------------------------------------------------------------------------
\* what the module and the kernel do by themselves
System ==
    \/ \E t \in Threads : Thread(t)
    \/ RecvCommand \/ GadgetCom \/ Exit

\* what two cleanups at once do to the list is undefined: nothing is said of it
Next ==
    /\ "overlap" \notin happened
    /\ \/ \E d \in Devices : Plug(d) \/ Unplug(d)
       \/ Command \/ Lose
       \/ Open \/ GadgetOpens
       \/ Unload
       \/ System

Spec == Init /\ [][Next]_vars

(* The kernel does not stop while a thread can go on or a message is there to be
   handled.  No thread needs more: none of them runs for ever. *)
Fairness == WF_vars("overlap" \notin happened /\ System)

FairSpec == Spec /\ Fairness

-----------------------------------------------------------------------------
(* Properties *)

Without(kinds) == happened \cap kinds = {}
Quiet == \A t \in Threads : Idle(t)

\* driver_state describes the USB core: there is a session exactly while the
\* driver is bound to an interface, and its device is the one it was announced
\* for.  A failed probe leaves init set (driver.c:1170), so that the next device
\* is not announced; a second device takes over dev and, unplugged, the session
\* (driver.c:1163, 1243).
SessionIsReal ==
    Quiet /\ Without({"alloc", "send", "second", "late"}) =>
        /\ init <=> \E i \in Interfaces : intf[i] = "bound"
        /\ init => \E i \in InterfacesOf(dev) : intf[i] = "bound"

\* A half without a session keeps no endpoint, unless one was opened behind
\* clean_endpoints (driver.c:1233, gadget.c:1278) or bind failed (gadget.c:1121).
EndpointsGone ==
    /\ Quiet /\ ~init /\ Without({"busy"}) => dEps = {}
    /\ gcom.at = "idle" /\ ~udc /\ unload = "no" /\ Without({"busy", "bind"}) => gEps = {}

\* gadget_state.registered tells whether the gadget is registered, unless a device
\* that came in place of another could not be parsed or bound (gadget.c:763).
RegisteredIsTrue ==
    gcom.at = "idle" /\ unload = "no" /\ Without({"cut", "bind"}) => registered = udc

\* What the gadget reads in an announcement that is cut are the first settings of
\* the device, and all of them when it is whole.
ReadsBack == \A d \in Devices :
    LET whole == Len(Announcement[d])
    IN  /\ whole \in Nat
        /\ \A n \in 0..whole : IsPrefix(Read[d][n].settings, Settings[d])
        /\ Read[d][whole].settings = Settings[d]

\* Whatever userland cuts, the gadget presents settings of the device announced
\* to it, complete ones and in order (gadget.c:682-713), and the whole device when
\* nothing is cut.
IdentityIsDevice ==
    udc => \E d \in Devices :
        /\ IsPrefix(ident, Settings[d])
        /\ Without({"cut"}) => ident = Settings[d]

\* Nothing survives the module, unless a message was handled or an endpoint opened
\* during exit (gadget.c:1330, driver.c:1327).
UnloadedIsGone ==
    unload = "done" /\ Without({"late", "busy"}) =>
        ~reg /\ ~udc /\ dEps = {} /\ gEps = {}

\* If nothing goes wrong the gadget ends up presenting the device that is plugged
\* in, the whole of it, and nothing when there is none or the driver was reset.
Presents ==
    \/ \E d \in Devices : reg /\ Plugged(d) /\ udc /\ ident = Settings[d]
    \/ ~(reg /\ \E d \in Devices : Plugged(d)) /\ ~udc
Converges == <>[](happened # {} \/ unload # "no" \/ Presents)
=============================================================================
