------------------------------- MODULE Control -------------------------------
(***************************************************************************)
(* The relay of control transfers (endpoint 0).  The host sends requests   *)
(* to the gadget, one after the other; the gadget forwards each to the     *)
(* driver, which plays it on the device; the answer of an IN request comes *)
(* back the same way.  An OUT request is accepted by the gadget itself.    *)
(*                                                                         *)
(* Nothing identifies a transfer: an answer is queued on endpoint 0 for    *)
(* whatever transfer the host has going, and both halves keep a workqueue  *)
(* per direction.  Requests are numbered here in the order the host sends  *)
(* them, so as to tell them apart.  Some reconfigure the endpoints, each   *)
(* half on its own account (module Interfaces).                            *)
(*                                                                         *)
(* An action is a whole callback, but where the threads of the driver      *)
(* reconfigure at the same time: SET_INTERFACE in the com worker and       *)
(* SET_CONFIGURATION in the worker of endpoint 0 are cut into steps.       *)
(*                                                                         *)
(* Left out: work items that only free their request, and the reset of     *)
(* either half, which ends the session.                                    *)
(***************************************************************************)
EXTENDS Interfaces, Sequences, SequencesExt

CONSTANTS Requests,   \* requests the host may send
          MaxSetups,  \* bound: requests it sends in all
          Faults      \* the faults that may happen, see FaultKinds

FaultKinds == {
    "abandon",  \* the host gives up a transfer and goes on
    "again",    \* the host reads or sets the configuration again
    "lose",     \* a datagram is lost
    "reorder",  \* a datagram overtakes another one
    "send",     \* send_userland fails
    "submit",   \* an URB, an usb_request, or an allocation fails
    "stall",    \* the device stalls an IN request (-EPIPE)
    "refuse",   \* the device stalls an OUT request
    "error"     \* an URB completes with another error
}

Kinds == {
    "get",           \* IN
    "get_config",    \* IN: the whole configuration descriptor
    "put",           \* OUT with data
    "command",       \* OUT without data
    "set_config",    \* SET_CONFIGURATION
    "set_interface"  \* SET_INTERFACE; "setting" says which
}

ASSUME ControlAssumption ==
    /\ Requests \subseteq [kind : Kinds, setting : Nat \X Nat]
    /\ MaxSetups \in Nat
    /\ Faults \subseteq FaultKinds

VARIABLES
    issued,    \* host: requests sent, in order
    outcome,   \* host: how each ended, and which answer ended it
    known,     \* host: has it read the configuration
    selected,  \* host: the settings it has selected; {} before SET_CONFIGURATION
    queued,    \* controller: the request queued on endpoint 0, or 0
    gIn, gOut, \* gadget: workqueues of endpoint 0, IN and OUT
    g,         \* gadget: endpoints and active flags
    up, down,  \* messages gadget to driver, driver to gadget
    overtook,  \* history: which request overtook which one in up
    urbs,      \* driver: control URBs submitted, oldest first
    dIn, dOut, \* driver: workqueues of endpoint 0, IN and OUT
    dEps,      \* driver: its endpoints
    cur,       \* driver: cur_altsetting of the interfaces
    com,       \* driver: com worker, where it is in a SET_INTERFACE
    conf,      \* driver: worker of ep0 OUT, where it is in a SET_CONFIGURATION
    seen       \* device: requests it has received, in order

host   == <<issued, outcome, known, selected>>
gadget == <<queued, gIn, gOut, g>>
driver == <<urbs, dIn, dOut, dEps, cur, com, conf>>
vars   == <<host, gadget, up, down, overtook, driver, seen>>

Fault(kind) == kind \in Faults
Setups   == 1..MaxSetups
Kind(n)  == issued[n].kind
IsIn(n)  == Kind(n) \in {"get", "get_config"}
Dataless(n) == Kind(n) \in {"command", "set_config", "set_interface"}
Waiting  == outcome # <<>> /\ Last(outcome).end = "waiting"
Idle     == [at |-> "idle", req |-> 0, settings |-> {}]

TypeOK ==
    /\ issued \in Seq(Requests)
    /\ outcome \in Seq([end : {"waiting", "answered", "stalled", "abandoned"},
                        by : Setups \cup {0}])
    /\ Len(outcome) = Len(issued)
    /\ known \in BOOLEAN /\ selected \subseteq Nat \X Nat
    /\ queued \in Setups \cup {0}
    /\ {gIn, up, urbs, seen} \subseteq Seq(Setups)
    /\ gOut \in Seq([item : {"setup", "data"}, req : Setups])
    /\ g \in [eps : [EpIds -> Nat], active : SUBSET Settings]
    /\ down \in Seq([type : {"reply", "stall", "done"}, req : Setups])
    /\ {dIn, dOut} \subseteq Seq([req : Setups, status : {"ok", "EPIPE", "error"}])
    /\ overtook \subseteq Setups \X Setups
    /\ dEps \in [EpIds -> Nat]
    /\ cur \subseteq Settings
    /\ {com, conf} \subseteq [at : {"idle", "disable", "read", "enable"},
                              req : Setups \cup {0}, settings : SUBSET Settings]

\* A device that has just been plugged in, or one the host has configured.
Init ==
    /\ issued = <<>> /\ outcome = <<>>
    /\ cur = Default
    /\ \/ /\ known = FALSE /\ selected = {}
          /\ g = GadgetClosed /\ dEps = NoEps
       \/ /\ known = TRUE /\ selected = Default
          /\ g = EnableInterfaces(GadgetClosed, Default, {})
          /\ dEps = With(NoEps, Default, {})
    /\ queued = 0 /\ gIn = <<>> /\ gOut = <<>>
    /\ up = <<>> /\ down = <<>> /\ overtook = {}
    /\ urbs = <<>> /\ dIn = <<>> /\ dOut = <<>>
    /\ com = Idle /\ conf = Idle
    /\ seen = <<>>

-----------------------------------------------------------------------------
(* Helpers *)

End(how, by) ==
    outcome' = [outcome EXCEPT ![Len(outcome)] = [end |-> how, by |-> by]]

\* send_userland on the gadget
SendUp(n) ==
    \/ up' = Append(up, n)
    \/ Fault("send") /\ UNCHANGED up

\* send_userland on the driver
SendDown(type, n) ==
    \/ down' = Append(down, [type |-> type, req |-> n])
    \/ Fault("send") /\ UNCHANGED down

\* usb_ep_queue on endpoint 0, whatever transfer it was meant for; a request
\* that cannot be queued is freed
Queue(n) ==
    \/ Waiting /\ queued = 0 /\ queued' = n
    \/ (~Waiting \/ queued # 0 \/ Fault("submit")) /\ UNCHANGED queued

\* element i of a sequence and the one before it change places
SwapTo(s, i) == [s EXCEPT ![i - 1] = s[i], ![i] = s[i - 1]]

\* the endpoints that cannot be set up, when some are enabled
Failures == IF Fault("submit") THEN SUBSET EpIds ELSE {{}}

-----------------------------------------------------------------------------
(* The host and the controller of the gadget *)

\* A host reads the configuration, sets it, then uses the interfaces.
Allowed(r) ==
    /\ r.kind \in {"get_config", "set_config"} => selected = {} \/ Fault("again")
    /\ r.kind = "set_config" => known
    /\ r.kind \in {"put", "command", "set_interface"} => selected # {}

\* ubq_setup queues a work item on the workqueue of the direction
HostSetup(r) ==
    /\ Len(issued) < MaxSetups /\ ~Waiting /\ Allowed(r)
    /\ issued' = Append(issued, r)
    /\ LET n == Len(issued')
       IN  \/ /\ outcome' = Append(outcome, [end |-> "waiting", by |-> 0])
              /\ IF r.kind \in {"get", "get_config"}
                 THEN gIn' = Append(gIn, n) /\ UNCHANGED gOut
                 ELSE gOut' = Append(gOut, [item |-> "setup", req |-> n]) /\ UNCHANGED gIn
           \/ /\ Fault("submit")
              /\ outcome' = Append(outcome, [end |-> "stalled", by |-> n])
              /\ UNCHANGED <<gIn, gOut>>
    /\ UNCHANGED <<known, selected, queued, g, up, down, overtook, driver, seen>>

\* the host completes its transfer with the request queued on endpoint 0; the
\* completion of OUT data queues a work item
HostTakes ==
    /\ Waiting /\ queued # 0
    /\ End("answered", queued)
    /\ queued' = 0
    /\ gOut' = IF Kind(queued) = "put" THEN Append(gOut, [item |-> "data", req |-> queued])
                                       ELSE gOut
    /\ LET r == Last(issued)
       IN  /\ known' = (known \/ r.kind = "get_config")
           /\ selected' = IF r.kind = "set_config" THEN Default
                          ELSE IF r.kind = "set_interface"
                          THEN {s \in selected : s[1] # r.setting[1]} \cup {r.setting}
                          ELSE selected
    /\ UNCHANGED <<issued, gIn, g, up, down, overtook, driver, seen>>

\* ... or gives it up: what is queued is freed
HostGivesUp ==
    /\ Fault("abandon") /\ Waiting
    /\ End("abandoned", 0)
    /\ queued' = 0
    /\ UNCHANGED <<issued, known, selected, gIn, gOut, g, up, down, overtook, driver, seen>>

-----------------------------------------------------------------------------
(* The gadget: handle_setup and recv, run by the workers of endpoint 0 *)

\* an IN request is forwarded
SetupIn ==
    /\ gIn # <<>>
    /\ gIn' = Tail(gIn)
    /\ SendUp(Head(gIn))
    /\ UNCHANGED <<host, overtook, queued, gOut, g, down, driver, seen>>

\* an OUT request with data: ask the host for the data
SetupPut ==
    /\ gOut # <<>>
    /\ LET n == Head(gOut).req
       IN  /\ Head(gOut).item = "setup" /\ Kind(n) = "put"
           /\ Queue(n)
    /\ gOut' = Tail(gOut)
    /\ UNCHANGED <<host, overtook, gIn, g, up, down, driver, seen>>

\* an OUT request without data: SET_INTERFACE is carried out, the request is
\* forwarded and the host gets its acknowledgement; the first that fails ends it
SetupDataless ==
    /\ gOut # <<>>
    /\ LET n == Head(gOut).req
           s == issued[n].setting
           setting == Kind(n) = "set_interface"
       IN  /\ Head(gOut).item = "setup" /\ Dataless(n)
           /\ \E failed \in IF setting THEN Failures ELSE {{}} :
                 /\ g' = IF setting THEN SetInterface(g, s, failed) ELSE g
                 /\ IF setting /\ (s \notin Settings \/ failed # {})
                    THEN UNCHANGED <<up, queued>>
                    ELSE \/ up' = Append(up, n) /\ Queue(n)
                         \/ Fault("send") /\ UNCHANGED <<up, queued>>
    /\ gOut' = Tail(gOut)
    /\ UNCHANGED <<host, overtook, gIn, down, driver, seen>>

\* Mutant: the request is freed without being forwarded.
OutData_Frees ==
    /\ gOut # <<>> /\ Head(gOut).item = "data"
    /\ gOut' = Tail(gOut)
    /\ UNCHANGED <<host, overtook, queued, gIn, g, up, down, driver, seen>>

\* the data of an OUT request is here: forward it with the request
OutData ==
    /\ gOut # <<>> /\ Head(gOut).item = "data"
    /\ gOut' = Tail(gOut)
    /\ SendUp(Head(gOut).req)
    /\ UNCHANGED <<host, overtook, queued, gIn, g, down, driver, seen>>

-----------------------------------------------------------------------------
(* The com worker of the gadget: ep_gadget_recv_userland_ctrl *)

\* Mutant: the datagram is handled and left in the socket (MSG_PEEK).
RecvReply_Peeks ==
    /\ down # <<>> /\ Head(down).type = "reply"
    /\ Queue(Head(down).req)
    /\ UNCHANGED <<host, overtook, gIn, gOut, g, up, down, driver, seen>>

\* an answer is queued for the host; the configuration descriptor first makes
\* the gadget open the default settings
RecvReply ==
    /\ down # <<>> /\ Head(down).type = "reply"
    /\ down' = Tail(down)
    /\ LET n == Head(down).req
           config == Kind(n) = "get_config"
       IN  \E failed \in IF config THEN Failures ELSE {{}} :
              /\ g' = IF config THEN Reset(g, failed) ELSE g
              /\ IF failed = {} THEN Queue(n) ELSE UNCHANGED queued
    /\ UNCHANGED <<host, overtook, gIn, gOut, up, driver, seen>>

\* an ACK with -EPIPE halts endpoint 0, which is possible while the transfer
\* going on waits for an answer; an ACK of SET_INTERFACE does nothing
RecvAck ==
    /\ down # <<>> /\ Head(down).type \in {"stall", "done"}
    /\ down' = Tail(down)
    /\ IF Head(down).type = "stall" /\ Waiting /\ queued = 0
       THEN End("stalled", Head(down).req)
       ELSE UNCHANGED outcome
    /\ UNCHANGED <<issued, known, selected, gadget, up, overtook, driver, seen>>

-----------------------------------------------------------------------------
(* The com worker of the driver: ep_driver_recv_userland_ctrl *)

\* Mutant: the URB overtakes the ones already submitted.
RecvRequest_First ==
    /\ com = Idle /\ up # <<>>
    /\ Kind(Head(up)) # "set_interface"
    /\ up' = Tail(up)
    /\ urbs' = <<Head(up)>> \o urbs
    /\ UNCHANGED <<host, overtook, gadget, down, dIn, dOut, dEps, cur, com, conf, seen>>

\* any other request is submitted as it is
RecvRequest ==
    /\ com = Idle /\ up # <<>>
    /\ Kind(Head(up)) # "set_interface"
    /\ up' = Tail(up)
    /\ \/ urbs' = Append(urbs, Head(up))
       \/ Fault("submit") /\ UNCHANGED urbs
    /\ UNCHANGED <<host, overtook, gadget, down, dIn, dOut, dEps, cur, com, conf, seen>>

\* SET_INTERFACE: usb_set_interface waits for its turn on the device, which may
\* refuse it; then the endpoints of the old setting are freed,
RecvSetInterface ==
    /\ com = Idle /\ up # <<>>
    /\ Kind(Head(up)) = "set_interface"
    /\ urbs = <<>>
    /\ up' = Tail(up)
    /\ seen' = Append(seen, Head(up))
    /\ LET s == issued[Head(up)].setting
       IN  \/ /\ cur' = (cur \ SameInterface(s)) \cup {s}
              /\ com' = [at |-> "disable", req |-> Head(up),
                         settings |-> cur \cap SameInterface(s)]
           \/ Fault("refuse") /\ UNCHANGED <<cur, com>>
    /\ UNCHANGED <<host, overtook, gadget, down, urbs, dIn, dOut, dEps, conf>>

SetInterfaceDisable ==
    /\ com.at = "disable"
    /\ dEps' = Without(dEps, com.settings)
    /\ com' = [com EXCEPT !.at = "enable", !.settings = {issued[com.req].setting}]
    /\ UNCHANGED <<host, overtook, gadget, up, down, urbs, dIn, dOut, cur, conf, seen>>

\* Mutant: the endpoints of the new setting are left out.
SetInterfaceEnable_LeftOut ==
    /\ com.at = "enable"
    /\ SendDown("done", com.req)
    /\ com' = Idle
    /\ UNCHANGED <<host, overtook, gadget, up, urbs, dIn, dOut, dEps, cur, conf, seen>>

\* those of the new one set up, and an ACK sent.
SetInterfaceEnable ==
    /\ com.at = "enable"
    /\ \E failed \in Failures :
          /\ dEps' = With(dEps, com.settings, failed)
          /\ IF failed = {} THEN SendDown("done", com.req) ELSE UNCHANGED down
    /\ com' = Idle
    /\ UNCHANGED <<host, overtook, gadget, up, urbs, dIn, dOut, cur, conf, seen>>

-----------------------------------------------------------------------------
(* The device: its URBs complete in order, driver_recv_usb queues a work item *)

Complete(status) ==
    /\ urbs # <<>>
    /\ status = "EPIPE" => Fault(IF IsIn(Head(urbs)) THEN "stall" ELSE "refuse")
    /\ status = "error" => Fault("error")
    /\ urbs' = Tail(urbs)
    /\ seen' = IF status = "error" THEN seen ELSE Append(seen, Head(urbs))
    /\ LET item == [req |-> Head(urbs), status |-> status]
       IN  IF IsIn(Head(urbs)) THEN dIn' = Append(dIn, item) /\ UNCHANGED dOut
                               ELSE dOut' = Append(dOut, item) /\ UNCHANGED dIn
    /\ UNCHANGED <<host, overtook, gadget, up, down, dEps, cur, com, conf>>

-----------------------------------------------------------------------------
(* The driver: recv, run by the workers of endpoint 0 *)

\* Mutant: a stall is treated like the other errors.
WorkIn_Silent ==
    /\ dIn # <<>>
    /\ dIn' = Tail(dIn)
    /\ IF Head(dIn).status = "ok" THEN SendDown("reply", Head(dIn).req)
                                  ELSE UNCHANGED down
    /\ UNCHANGED <<host, overtook, gadget, up, urbs, dOut, dEps, cur, com, conf, seen>>

\* IN: the answer, or an ACK with -EPIPE; of another error nobody is told
WorkIn ==
    /\ dIn # <<>>
    /\ dIn' = Tail(dIn)
    /\ \/ Head(dIn).status = "ok"    /\ SendDown("reply", Head(dIn).req)
       \/ Head(dIn).status = "EPIPE" /\ SendDown("stall", Head(dIn).req)
       \/ Head(dIn).status = "error" /\ UNCHANGED down
    /\ UNCHANGED <<host, overtook, gadget, up, urbs, dOut, dEps, cur, com, conf, seen>>

\* OUT: SET_CONFIGURATION frees the endpoints of every setting,
WorkOut ==
    /\ conf = Idle /\ dOut # <<>>
    /\ dOut' = Tail(dOut)
    /\ IF Head(dOut).status = "ok" /\ Kind(Head(dOut).req) = "set_config"
       THEN /\ dEps' = DisableEverything(dEps)
            /\ conf' = [Idle EXCEPT !.at = "read"]
       ELSE UNCHANGED <<dEps, conf>>
    /\ UNCHANGED <<host, overtook, gadget, up, down, urbs, dIn, cur, com, seen>>

\* reads which setting is current,
SetConfigRead ==
    /\ conf.at = "read"
    /\ conf' = [conf EXCEPT !.at = "enable", !.settings = cur]
    /\ UNCHANGED <<host, overtook, gadget, up, down, urbs, dIn, dOut, dEps, cur, com, seen>>

\* and sets up its endpoints.
SetConfigEnable ==
    /\ conf.at = "enable"
    /\ \E failed \in Failures : dEps' = With(dEps, conf.settings, failed)
    /\ conf' = Idle
    /\ UNCHANGED <<host, overtook, gadget, up, down, urbs, dIn, dOut, cur, com, seen>>

-----------------------------------------------------------------------------
(* A datagram that never reaches the other half, or one that overtakes the datagram
   before it *)
Lose ==
    /\ Fault("lose")
    /\ \/ \E i \in DOMAIN up : up' = RemoveAt(up, i) /\ UNCHANGED down
       \/ \E i \in DOMAIN down : down' = RemoveAt(down, i) /\ UNCHANGED up
    /\ UNCHANGED <<host, overtook, gadget, driver, seen>>

Overtake ==
    /\ Fault("reorder")
    /\ \/ \E i \in 2..Len(up) :
             /\ up' = SwapTo(up, i)
             /\ overtook' = overtook \cup {<<up[i], up[i - 1]>>}
             /\ UNCHANGED down
       \/ \E i \in 2..Len(down) : down' = SwapTo(down, i) /\ UNCHANGED <<up, overtook>>
    /\ UNCHANGED <<host, gadget, driver, seen>>

HostStep    == (\E r \in Requests : HostSetup(r)) \/ HostTakes \/ HostGivesUp
GadgetWorks == SetupIn \/ SetupPut \/ SetupDataless \/ OutData \/ RecvReply \/ RecvAck
DriverWorks ==
    \/ RecvRequest \/ RecvSetInterface \/ SetInterfaceDisable \/ SetInterfaceEnable
    \/ WorkIn \/ WorkOut \/ SetConfigRead \/ SetConfigEnable
DeviceStep  == \E status \in {"ok", "EPIPE", "error"} : Complete(status)

Next == HostStep \/ GadgetWorks \/ DriverWorks \/ DeviceStep \/ Lose \/ Overtake

Spec == Init /\ [][Next]_vars

(* Every workqueue runs its items, each com worker handles every message, the
   device completes every URB, and the host a transfer it can complete. *)
Fairness ==
    /\ WF_vars(HostTakes)
    /\ WF_vars(SetupIn) /\ WF_vars(SetupPut \/ SetupDataless \/ OutData)
    /\ WF_vars(RecvReply \/ RecvAck)
    /\ WF_vars(RecvRequest \/ RecvSetInterface \/ SetInterfaceDisable \/ SetInterfaceEnable)
    /\ WF_vars(WorkIn) /\ WF_vars(WorkOut \/ SetConfigRead \/ SetConfigEnable)
    /\ WF_vars(DeviceStep)

FairSpec == Spec /\ Fairness

-----------------------------------------------------------------------------
(* Safety *)

\* Endpoint 0 takes an answer for whatever is going on (gadget.c:985).  Still no
\* answer ends two transfers, none comes before its request, and as long as the
\* host gives up no transfer each one is ended by its own.
AnswersMatch ==
    LET Ended == {n \in DOMAIN outcome : outcome[n].end \in {"answered", "stalled"}}
    IN  /\ \A n, k \in Ended : outcome[n].by = outcome[k].by => n = k
        /\ \A n \in Ended :
              \/ outcome[n].by = n
              \/ /\ outcome[n].by < n
                 /\ \E k \in 1..outcome[n].by : outcome[k].end = "abandoned"

\* The device gets each request at most once, and in the order of the host: as
\* long as the host gives up no transfer, only a request with data is overtaken,
\* and only by an IN request, for each direction has a workqueue of its own
\* (gadget.c:1252, 1170-1204); or one whose datagram was overtaken by that of the
\* other on the way (com_udp.c:280), and then those two alone.
DeviceOrder ==
    \A i, j \in DOMAIN seen : i < j =>
        \/ seen[i] < seen[j]
        \/ /\ seen[i] > seen[j]
           /\ \/ Kind(seen[j]) = "put" /\ IsIn(seen[i])
              \/ \E k \in 1..seen[j] : outcome[k].end = "abandoned"
              \/ <<seen[i], seen[j]>> \in overtook

\* Nothing is on its way.
Quiet ==
    /\ ~Waiting /\ queued = 0 /\ gIn = <<>> /\ gOut = <<>> /\ up = <<>> /\ down = <<>>
    /\ urbs = <<>> /\ dIn = <<>> /\ dOut = <<>> /\ com = Idle /\ conf = Idle

\* If nothing fails and the host sets up the device once, both halves end up with
\* every endpoint of the settings the host has selected, though each follows the
\* host on its own account (gadget.c:1184, driver.c:657 and driver.c:768-779)
\* and two threads of the driver may be at it at the same time.
Served ==
    Quiet => \A s \in selected : \A e \in EpsOf[s] : g.eps[e] > 0 /\ dEps[e] > 0

-----------------------------------------------------------------------------
(* Liveness *)

\* If the device at most stalls IN requests, every transfer ends: with an
\* answer, or with the device's stall passed on (driver.c:537).
TransfersEnd == \A n \in Setups :
    (n \in DOMAIN outcome /\ outcome[n].end = "waiting")
        ~> (n \in DOMAIN outcome /\ outcome[n].end # "waiting")

\* ... and what the gadget has accepted for the device, the device gets, though
\* later than driver.c:786 says: the gadget queues the ACK of a request without
\* data itself, right after forwarding it (gadget.c:1199).
AcceptedIsSeen == \A n \in Setups :
    (n \in DOMAIN outcome /\ outcome[n].end = "answered") ~> n \in Range(seen)
=============================================================================
