----------------------------- MODULE Interfaces -----------------------------
(***************************************************************************)
(* The endpoints each half holds for the interfaces of the configuration.  *)
(*                                                                         *)
(* eplist is a bag of endpoint ids: nothing stops an endpoint from being   *)
(* in it twice, and find_endpoint returns one of them.  A setting is a     *)
(* pair <<interface number, alternate setting>>; settings of an interface  *)
(* usually share endpoints.  The gadget also keeps the "active" flag of    *)
(* each setting, the driver the cur_altsetting of the USB core.            *)
(***************************************************************************)
EXTENDS Naturals, FiniteSets

CONSTANTS Settings,  \* the settings of the device
          EpIds,     \* ids of its endpoints, endpoint 0 not included
          EpsOf      \* [Settings -> SUBSET EpIds]

ASSUME InterfacesAssumption ==
    /\ Settings \subseteq Nat \X Nat /\ IsFiniteSet(Settings)
    /\ EpsOf \in [Settings -> SUBSET EpIds]

NoEps == [e \in EpIds |-> 0]
Default == {s \in Settings : s[2] = 0}
SameInterface(s) == {x \in Settings : x[1] = s[1]}

\* how many of these settings use endpoint e
Uses(e, settings) == Cardinality({s \in settings : e \in EpsOf[s]})

\* Mutant: an endpoint is freed whether it was found or not.
Without_Unchecked(eps, settings) == [e \in EpIds |-> eps[e] - Uses(e, settings)]

\* disable_interface / disable_driver_interface of each setting: one endpoint is
\* freed for each descriptor, if there is one
Without(eps, settings) == [e \in EpIds |->
    IF eps[e] > Uses(e, settings) THEN eps[e] - Uses(e, settings) ELSE 0]

\* enable_interface / enable_driver_interface of each setting; "failed" are the
\* endpoints from the first that cannot be set up to the last
With(eps, settings, failed) == [e \in EpIds |->
    IF e \in failed THEN eps[e] ELSE eps[e] + Uses(e, settings)]

\* disable_active_driver_interface: "In fact, we do not have information on the
\* active interface": every setting is disabled
DisableEverything(eps) == Without(eps, Settings)

-----------------------------------------------------------------------------
(* Gadget: a record of eplist and the settings flagged active.  A setting that
   is not reached because one before it fails is flagged too: it has no
   endpoint, so that disabling it changes nothing. *)

GadgetClosed == [eps |-> NoEps, active |-> {}]

DisableInterfaces(g, settings) ==
    [eps |-> Without(g.eps, settings), active |-> g.active \ settings]

EnableInterfaces(g, settings, failed) ==
    [eps |-> With(g.eps, settings, failed), active |-> g.active \cup settings]

\* disable_active_interface, then enable_default_interface
Reset(g, failed) ==
    EnableInterfaces(DisableInterfaces(g, g.active), Default, failed)

\* set_interface: every other setting of the interface is disabled, active or
\* not; a setting the device does not have is not enabled
SetInterface(g, s, failed) ==
    EnableInterfaces(DisableInterfaces(g, SameInterface(s) \ {s}), {s} \cap Settings, failed)
=============================================================================
