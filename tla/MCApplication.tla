--------------------------- MODULE MCApplication ---------------------------
(***************************************************************************)
(* Instances of Application: two presets and one combination of values     *)
(* that is none of them; settings that cannot be saved and requests to     *)
(* close the window over a dialog, one at a time or both.                  *)
(***************************************************************************)
EXTENDS Application, TLC

MCPreset == "recommended" :> "all checks" @@ "fast" :> "few checks"
Calm == [saveFails |-> FALSE, closeOverDialogs |-> FALSE]
OneTrouble == {[Calm EXCEPT !.saveFails = TRUE], [Calm EXCEPT !.closeOverDialogs = TRUE]}
BothTroubles == {[saveFails |-> TRUE, closeOverDialogs |-> TRUE]}
=============================================================================
