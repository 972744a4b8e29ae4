-------------------------- MODULE NdefTransaction --------------------------
(***************************************************************************)
(* What a two-phase write promises: whoever reads the tag sees the old     *)
(* content, nothing, or the new content, in this order and never a mixture *)
(* of two; success is reported only of the new content; a failed operation *)
(* may stop anywhere.                                                      *)
(***************************************************************************)
VARIABLES shown,    \* "old", "nothing" or "new": what the NDEF area shows
          verdict   \* "none", "running", "success" or "failure"

vars == <<shown, verdict>>

Init == shown \in {"old", "nothing", "new"} /\ verdict = "none"

(* What was shown is the old content of the next operation (it may happen  *)
(* to be the new one as well); a blank tag stays blank.                    *)
Begin == /\ verdict # "running"
         /\ verdict' = "running"
         /\ shown' \in {"old", "nothing", "new"}
         /\ shown' = "nothing" <=> shown = "nothing"

(* A step may break off the operation, whatever it did to the tag.         *)
MayFail == verdict' \in {"running", "failure"}

Invalidate == /\ verdict = "running"
              /\ shown' = "nothing" /\ MayFail

Commit == /\ verdict = "running"
          /\ shown = "nothing"
          /\ shown' = "new" /\ MayFail

GiveUp == /\ verdict = "running"
          /\ verdict' = "failure" /\ UNCHANGED shown

Succeed == /\ verdict = "running"
           /\ shown = "new"
           /\ verdict' = "success" /\ UNCHANGED shown

Next == Begin \/ Invalidate \/ Commit \/ GiveUp \/ Succeed
Spec == Init /\ [][Next]_vars
=============================================================================
