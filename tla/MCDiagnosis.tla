---------------------------- MODULE MCDiagnosis ----------------------------
(***************************************************************************)
(* Instances of Diagnosis: a fit tag of either family and tags that have   *)
(* one fault, or hide one; the checks of the profiles and single ones.     *)
(***************************************************************************)
EXTENDS Diagnosis, TLC

Blank == [family |-> "none", known |-> "no", static |-> "clear", dynamic |-> "clear",
          auth0 |-> "off", magic |-> "other", keys |-> "none"]
Ntag == [Blank EXCEPT !.family = "type2", !.known = "yes"]
Cuid == [Blank EXCEPT !.family = "mfc1k", !.magic = "cuid", !.keys = "default"]
MCTags == {Blank, Ntag, Cuid, [Ntag EXCEPT !.dynamic = "set"],
           [Cuid EXCEPT !.magic = "other", !.keys = "none"],
           [Cuid EXCEPT !.keys = "partial"]}
FewTags == {Ntag, Cuid}
MCCheckSets == {{}, {"client_firmware"}, {"magic_type", "dynamic_lock"}}
PortSymmetry == Permutations(Ports)
=============================================================================
