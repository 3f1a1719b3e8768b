------------------------------ MODULE InitPkt ------------------------------
(***************************************************************************)
(* The NEW_DEVICE message: the driver describes a device (build_init_pkt), *)
(* the gadget reads the description back (parse_init_pkt).                 *)
(*                                                                         *)
(* A device is the sequence of its interfaces, an interface the sequence   *)
(* of its alternate settings; a setting is a record of the length of its   *)
(* descriptor, "len", and the sequence of its endpoints, "eps"; an         *)
(* endpoint is a record of its address, "id", and the length of its        *)
(* descriptor, "len".  A length is a byte that the device chooses; USB     *)
(* core skips descriptors that are too short, and keeps longer ones.  A    *)
(* packet is a sequence of descriptors, of which only what the code looks  *)
(* at is kept.                                                             *)
(***************************************************************************)
EXTENDS Naturals, Sequences, SequencesExt

InterfaceSize == 9  \* sizeof(struct usb_interface_descriptor)
EndpointSize  == 7  \* USB_DT_ENDPOINT_SIZE; audio endpoints have two bytes more

DescribedEndpoints == [id : Nat, len : EndpointSize..255]
DescribedSettings  == [len : InterfaceSize..255, eps : Seq(DescribedEndpoints)]
Descriptions       == Seq(Seq(DescribedSettings))

Sum(s) ==
    LET sum[n \in 0..Len(s)] == IF n = 0 THEN 0 ELSE sum[n - 1] + s[n]
    IN  sum[Len(s)]

\* every setting with its interface and alternate numbers, in order
SettingsOf(device) == FlattenSeq([i \in DOMAIN device |->
    [j \in DOMAIN device[i] |-> [intf |-> i, alt |-> j, len |-> device[i][j].len,
                                 eps |-> device[i][j].eps]]])

-----------------------------------------------------------------------------
(* The driver *)

\* speed, device and configuration descriptor
Header == <<[type |-> "speed", len |-> 4], [type |-> "device", len |-> 18],
            [type |-> "config", len |-> 9]>>

InterfaceDesc(s) ==
    [type |-> "interface", len |-> s.len, intf |-> s.intf, alt |-> s.alt,
     nEps |-> Len(s.eps)]

EndpointDesc(e) == [type |-> "endpoint", len |-> e.len, ep |-> e]

SettingDescs(s) ==
    <<InterfaceDesc(s)>> \o [k \in DOMAIN s.eps |-> EndpointDesc(s.eps[k])]

Build(device) ==
    LET settings == SettingsOf(device)
    IN  Header \o FlattenSeq([k \in DOMAIN settings |-> SettingDescs(settings[k])])

\* the bytes build_init_pkt allocates, with the header,
AllocatedSize(device) ==
    LET settings == SettingsOf(device)
    IN  31 + Sum([k \in DOMAIN settings |->
                     InterfaceSize + EndpointSize * Len(settings[k].eps)])

\* and the bytes it copies, bLength of each descriptor
Size(packet) == Sum([k \in DOMAIN packet |-> packet[k].len])

-----------------------------------------------------------------------------
(* The gadget *)

\* parse_init_pkt fails before the interfaces
Malformed(packet) == \E k \in DOMAIN Header :
    k \notin DOMAIN packet \/ packet[k] # Header[k]

\* "read": the settings read; "open": the interface descriptor whose endpoints are
\* being collected in "eps", as a sequence of at most one
Start == [read |-> <<>>, open |-> <<>>, eps |-> <<>>]

\* a setting is kept once all its endpoints are there
Close(state) ==
    IF state.open # <<>> /\ Len(state.eps) = state.open[1].nEps
    THEN [Start EXCEPT !.read = Append(state.read,
             [intf |-> state.open[1].intf, alt |-> state.open[1].alt,
              len |-> state.open[1].len, eps |-> state.eps])]
    ELSE state

\* outside of an interface every other descriptor is skipped, inside of one all
\* but its endpoints
Consume(state, d) ==
    CASE state.open = <<>> /\ d.type = "interface" ->
             Close([state EXCEPT !.open = <<d>>])
      [] state.open # <<>> /\ d.type = "endpoint" ->
             Close([state EXCEPT !.eps = Append(@, d.ep)])
      [] OTHER -> state

\* the settings of the identity; none if the packet is malformed
Parse(packet) ==
    LET descs == SubSeq(packet, Len(Header) + 1, Len(packet))
        state[n \in 0..Len(descs)] ==
            IF n = 0 THEN Start ELSE Consume(state[n - 1], descs[n])
    IN  IF Malformed(packet) THEN <<>> ELSE state[Len(descs)].read
=============================================================================
