------------------------- MODULE Type2WriteRefines -------------------------
(***************************************************************************)
(* What a reader of the tag and the user see of a Type2Write with two      *)
(* phases: the refinement mapping to NdefTransaction.                      *)
(***************************************************************************)
EXTENDS Type2Write

Blank(image) == image[NdefFirst] = ZeroPage

Shown ==
  LET now == mem[field]
  IN  CASE Blank(now) -> "nothing"
        [] ~ Blank(now) /\ now = Target(orig[field]) -> "new"
        [] ~ Blank(now) /\ now # Target(orig[field]) /\ now = orig[field] -> "old"
        [] OTHER -> "torn"

Verdict == CASE pc = "idle" -> "none"
             [] report.success -> "success"
             [] pc = "done" /\ ~ report.success -> "failure"
             [] OTHER -> "running"
=============================================================================
