----------------------------- MODULE MCControl -----------------------------
(* Instances of Control for TLC: one interface whose alternate setting 1 has
   one endpoint more than its setting 0. *)
EXTENDS Control

CONSTANTS a, b

Ids  == {a, b}
Alts == {<<0, 0>>, <<0, 1>>}
Eps  == (<<0, 0>> :> {a}) @@ (<<0, 1>> :> {a, b})

Request(kind) == [kind |-> kind, setting |-> <<0, 0>>]
Select(alt)   == [kind |-> "set_interface", setting |-> <<0, alt>>]

\* What the host may ask for in each run; there is no setting 2.
Setup     == {Request("get_config"), Request("set_config"), Select(1)}
Anything  == {Request("get"), Request("put"), Request("command"), Select(2)} \cup Setup
Proper    == {Request("get"), Request("put"), Select(0)} \cup Setup

\* The faults of each run.
AllFaults  == FaultKinds
StallFault == {"stall"}

\* Datagrams overtake each other only between transfers of these kinds.
Reordered       == {Request("get"), Request("command")}
OvertakesSimple == Overtake \/ overtook # {} => issued' \in Seq(Reordered)
=============================================================================
