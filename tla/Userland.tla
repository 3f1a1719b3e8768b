------------------------------ MODULE Userland ------------------------------
(***************************************************************************)
(* The path between the two halves of USBQ: driver -> usbq_userland ->     *)
(* gadget and back.  Each half sends USBQ messages over a UDP socket; the  *)
(* userland program (not in this repository) forwards them unchanged.      *)
(*                                                                         *)
(* The path is kept per endpoint: no message of one endpoint acts on       *)
(* another, and nothing orders the messages of two endpoints once they are *)
(* datagrams.  A DATA message is its payload, numbered in the order it was *)
(* produced; the ACK messages of an endpoint are alike, hence a count.     *)
(***************************************************************************)
EXTENDS Naturals, Sequences, SequencesExt

CONSTANTS InEps,   \* non-control IN endpoints (device to host)
          OutEps,  \* non-control OUT endpoints (host to device)
          Faults   \* the faults that may happen, see FaultKinds

FaultKinds == {
    "lose",       \* a datagram is lost on the way, or dropped by udp_recv
    "reorder",    \* datagrams of one endpoint overtake each other
    "send",       \* send_userland fails (-EAGAIN)
    "submit",     \* usb_submit_urb, usb_ep_queue or an allocation fails
    "urb_error",  \* an URB completes with an error other than -EPIPE
    "stall",      \* the device stalls an IN endpoint (-EPIPE)
    "abort",      \* the controller of the gadget fails a queued request
    "reread",     \* the host reads the configuration again while it uses it
    "early",      \* the host writes before the driver has the endpoint
    "reselect"    \* the host selects the setting that is already active
}

ASSUME EpsAssumption    == InEps \cap OutEps = {}
ASSUME FaultsAssumption == Faults \subseteq FaultKinds

VARIABLES d2g,    \* [InEps -> Seq(Nat)] DATA messages, driver to gadget
          acks,   \* [InEps -> Nat] number of ACK messages, gadget to driver
          g2d     \* [OutEps -> Seq(Nat)] DATA messages, gadget to driver

userlandVars == <<d2g, acks, g2d>>

UserlandTypeOK ==
    /\ d2g \in [InEps -> Seq(Nat)]
    /\ acks \in [InEps -> Nat]
    /\ g2d \in [OutEps -> Seq(Nat)]

UserlandInit ==
    /\ d2g = [e \in InEps |-> <<>>]
    /\ acks = [e \in InEps |-> 0]
    /\ g2d = [e \in OutEps |-> <<>>]

Fault(kind) == kind \in Faults

-----------------------------------------------------------------------------
(* send_userland: one datagram to the userland program, or -EAGAIN. *)

SendData(e, d) ==
    \/ d2g' = [d2g EXCEPT ![e] = Append(@, d)]
    \/ Fault("send") /\ UNCHANGED d2g

SendAck(e) ==
    \/ acks' = [acks EXCEPT ![e] = @ + 1]
    \/ Fault("send") /\ UNCHANGED acks

(* The position of the message com_recv takes next: the oldest, any if
   datagrams may overtake each other. *)
Arrives(channel, i) ==
    /\ i \in DOMAIN channel
    /\ i = 1 \/ Fault("reorder")

(* A datagram that never reaches the handler of the other half. *)
LoseData(e) ==
    /\ Fault("lose")
    /\ \/ /\ e \in InEps
          /\ \E i \in DOMAIN d2g[e] : d2g' = [d2g EXCEPT ![e] = RemoveAt(@, i)]
          /\ UNCHANGED <<acks, g2d>>
       \/ /\ e \in OutEps
          /\ \E i \in DOMAIN g2d[e] : g2d' = [g2d EXCEPT ![e] = RemoveAt(@, i)]
          /\ UNCHANGED <<d2g, acks>>

LoseAck(e) ==
    /\ Fault("lose")
    /\ acks[e] > 0
    /\ acks' = [acks EXCEPT ![e] = @ - 1]
    /\ UNCHANGED <<d2g, g2d>>
=============================================================================
