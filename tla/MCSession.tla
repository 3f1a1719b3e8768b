----------------------------- MODULE MCSession -----------------------------
(* Two devices for TLC: a disk with an alternate setting and a second
   interface, and a microphone, whose endpoint descriptor is longer and whose
   interface descriptor has a byte the driver does not count. *)
EXTENDS Session

Ep(id)    == [id |-> id, len |-> EndpointSize]
Set(eps)  == [len |-> InterfaceSize, eps |-> eps]
Disk      == << <<Set(<<Ep(1), Ep(2)>>), Set(<<Ep(3)>>)>>, <<Set(<<>>)>> >>
Mic       == << <<[len |-> 10, eps |-> <<[id |-> 1, len |-> 9]>>]>> >>
Both      == {"disk", "mic"}
Described == [d \in Both |-> IF d = "disk" THEN Disk ELSE Mic]

\* Session_proofs shows it of every description
ASSUME DescribedReadsBack == ReadsBack

\* One kind of mishap at a time, and a loss that only shows with another.
OneMishap == {{kind} : kind \in MishapKinds} \cup {{"lose", "cut"}, {"lose", "bind"}}
=============================================================================
