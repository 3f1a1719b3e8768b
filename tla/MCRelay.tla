------------------------------- MODULE MCRelay -------------------------------
(* Instances of Relay for TLC. *)
EXTENDS Relay

CONSTANTS i1, o1

In1  == {i1}
Out1 == {o1}
None == {}

\* The faults of each run.
StallFault == {"stall"}
AllFaults  == FaultKinds
FifoFaults == FaultKinds \ {"reorder"}
SendFault  == {"send"}

\* Endpoints share nothing: of an IN and an OUT endpoint only one is used in a
\* behaviour, whichever it is.
Unused(e) == enables[e] = 0 /\ gEnables[e] = 0
OneInUse  == \A e, f \in InEps \cup OutEps : e # f => Unused(e) \/ Unused(f)
=============================================================================
