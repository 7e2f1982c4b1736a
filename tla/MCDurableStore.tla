--------------------------- MODULE MCDurableStore ---------------------------
(***************************************************************************)
(* Instances of DurableStore for TLC: a policy slot and one domain, so     *)
(* that overwriting and the growth limit both occur.                       *)
(***************************************************************************)
EXTENDS DurableStore

MCKeys == {"policy", "d1"}
MCDomains == {"d1"}
=============================================================================
