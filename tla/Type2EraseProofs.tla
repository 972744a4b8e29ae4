-------------------------- MODULE Type2EraseProofs --------------------------
(***************************************************************************)
(* Theorems about Type2Erase, for every geometry of the tag, every set of  *)
(* tags and options, every batch size and every bound.                     *)
(***************************************************************************)
EXTENDS Type2Erase, Type2OperationProofs

AfterPlan == {"restore", "direct", "final", "success"}
Planned   == target \in [EraseRange -> PageData]

(* The range of either scope begins at page 4 and lies in the user pages.  *)
LEMMA RangeSets ==
  /\ NdefPage \subseteq EraseRange /\ EraseRange \subseteq UserPage /\ EraseRange \subseteq Page
  /\ NdefFirst \in EraseRange
  /\ options.scope # "user" => EraseRange = NdefPage
  /\ options.scope = "user" => EraseRange = UserPage
BY PageSets, Geometry DEF EraseRange, LastPage, NdefPage, UserPage

(* Before there is a plan there is no target.                              *)
LEMMA NoTarget == <<>> \notin [EraseRange -> PageData]
<1>1. DOMAIN <<>> = {}
  OBVIOUS
<1>2. \A f \in [EraseRange -> PageData] : DOMAIN f = EraseRange
  OBVIOUS
<1> QED
  BY <1>1, <1>2, RangeSets

(* What a plan aims at has the shape of the range's pages.                 *)
LEMMA TargetType ==
  ASSUME NEW image \in Image
  PROVE  /\ Zeroed \in [EraseRange -> PageData]
         /\ options.scope # "user" => Emptied(NdefArea(image)) \in [EraseRange -> PageData]
<1>1. Zeroed \in [EraseRange -> PageData]
  BY ZeroPageType DEF Zeroed
<1>2. ASSUME options.scope # "user"
      PROVE  Emptied(NdefArea(image)) \in [EraseRange -> PageData]
  <2>1. ClearNdef(NdefArea(image)).data \in Seq(Byte)
    BY AreaBytes, ClearedBytes
  <2>2. \A p \in EraseRange : PageOf(ClearNdef(NdefArea(image)).data, p) \in PageData
    BY <1>2, <2>1, PageOfType, RangeSets
  <2> QED
    BY <2>2 DEF Emptied
<1> QED
  BY <1>1, <1>2

(* The range, and so what a plan means, hangs on the options alone.        *)
LEMMA KeepRange ==
  ASSUME UNCHANGED options
  PROVE  /\ EraseRange' = EraseRange /\ Zeroed' = Zeroed /\ Paged' = Paged
         /\ \A area : Emptied(area)' = Emptied(area)
         /\ \A image : BackupDue(image)' = BackupDue(image)
         /\ BaselineRequired(options)' = BaselineRequired(options)
BY DEF EraseRange, LastPage, Zeroed, Paged, Emptied, BackupDue, NotEmpty, BaselineRequired

(* Where a plan begins and where it goes on after the pages.               *)
LEMMA StageOf ==
  ASSUME options \in Options
  PROVE  /\ FirstStage(options) \in {"restore", "direct"}
         /\ FirstStage(options) = "restore" <=> ~ Paged
         /\ FinalStage(options) \in {"final", "success"}
         /\ options.final_verify <=> FinalStage(options) = "final"
BY EraseParameters DEF FirstStage, FinalStage, Paged
-----------------------------------------------------------------------------
(***************************************************************************)
(* The outcomes of each command of the workflow, told once.                *)
(***************************************************************************)
ReportTexts == {"preflight_failed", "backup_failed", "uid_mismatch", "erase_batch_failed",
          "erase_compare_failed", "verify_failed", "stopped"}
Over  == /\ pc' = "done" /\ report' \in Report /\ report'.summary # "success"
         /\ report'.success = report.success /\ report'.verified = report.verified
Fixed == UNCHANGED <<field, options, orig, swaps, ops>>

(* Every error path of the workflow is an end without success.             *)
LEMMA OverBy ==
  ASSUME report \in Report, NEW s \in ReportTexts, Fail(s) \/ Finish(s)
  PROVE  Over
<1>1. s \in Summaries \ {"success"}
  BY DEF ReportTexts, Summaries
<1> QED
  BY <1>1, ReportEnds DEF Over

(* The preflight ends the operation, asks for the baseline, or plans every *)
(* page of the user area.                                                  *)
LEMMA PreflightOutcome ==
  ASSUME TypeOK, Preflight
  PROVE  /\ pc = "preflight" /\ Fixed /\ UNCHANGED <<mem, saved, base>>
         /\ uid' \in {uid, field, NoTag} /\ profile' \in {profile, Profile[field]}
         /\ \/ Over /\ UNCHANGED <<todo, target>>
            \/ /\ pc' = "baseline" /\ BaselineRequired(options)
               /\ UNCHANGED <<todo, target, report>>
            \/ /\ pc' = "direct" /\ ~ BaselineRequired(options)
               /\ Paged /\ options.scope = "user"
               /\ todo' = EraseRange /\ target' = Zeroed /\ UNCHANGED report
<1>a. report \in Report /\ options \in Options
  BY DEF TypeOK, CommonTypeOK
<1>1. /\ pc = "preflight" /\ Fixed /\ UNCHANGED <<mem, saved, base>>
      /\ uid' \in {uid, field, NoTag} /\ profile' \in {profile, Profile[field]}
  BY DEF Preflight, history, Fixed, PreflightFails, Identified
<1>2. CASE PreflightFails /\ UNCHANGED <<todo, target>>
  BY <1>1, <1>2, <1>a, OverBy DEF PreflightFails, ReportTexts
<1>3. CASE Finish("preflight_failed") /\ UNCHANGED <<todo, target>>
  BY <1>1, <1>3, <1>a, OverBy DEF ReportTexts
<1>4. CASE /\ BaselineRequired(options) /\ Identified
           /\ Proceed("baseline") /\ UNCHANGED <<todo, target>>
  BY <1>1, <1>4 DEF Proceed
<1>5. CASE /\ ~ BaselineRequired(options) /\ Identified
           /\ Proceed(FirstStage(options)) /\ todo' = EraseRange /\ target' = Zeroed
  <2>1. FirstStage(options) = "direct" /\ options.scope = "user" /\ Paged
    BY <1>5, <1>a, EraseParameters DEF BaselineRequired, FirstStage, Paged
  <2> QED
    BY <1>1, <1>5, <2>1 DEF Proceed
<1> QED
  BY <1>1, <1>2, <1>3, <1>4, <1>5 DEF Preflight

(* The baseline ends the operation, or is kept, saved when that is due,    *)
(* and leads to a plan of the pages that differ, or of all of them.        *)
Plan ==
  /\ saved' = IF BackupDue(mem[field]) THEN saved \cup {DumpNow} ELSE saved
  /\ base' = DumpNow /\ UNCHANGED report
  /\ SameUid
  /\ target' = IF options.scope = "ndef" THEN Emptied(NdefArea(mem[field])) ELSE Zeroed
  /\ options.scope = "ndef" => Parse(NdefArea(mem[field])).ok
  /\ todo' \subseteq EraseRange
  /\ \A p \in EraseRange \ todo' : mem[field][p] = target'[p]
  /\ pc' = IF todo' = {} THEN FinalStage(options) ELSE FirstStage(options)
LEMMA BaselineOutcome ==
  ASSUME TypeOK, Baseline
  PROVE  /\ pc = "baseline" /\ Fixed /\ UNCHANGED <<mem, uid, profile>>
         /\ \/ /\ Over /\ UNCHANGED <<base, todo, target>>
               /\ saved' \in {saved, saved \cup {DumpNow}}
            \/ Plan
<1>a. report \in Report /\ DumpNow.page = mem[field]
  BY DEF TypeOK, CommonTypeOK, DumpNow
<1>1. pc = "baseline" /\ Fixed /\ UNCHANGED <<mem, uid, profile>>
  BY DEF Baseline, history, Fixed
<1>2. CASE /\ \E s \in {"backup_failed", "stopped", "preflight_failed", "uid_mismatch",
                        "erase_compare_failed"} : Fail(s) \/ Finish(s)
           /\ UNCHANGED <<base, todo, target>>
           /\ saved' \in {saved, saved \cup {DumpNow}}
  BY <1>1, <1>2, <1>a, OverBy DEF ReportTexts
<1>3. CASE ~ (/\ \E s \in {"backup_failed", "stopped", "preflight_failed", "uid_mismatch",
                           "erase_compare_failed"} : Fail(s) \/ Finish(s)
              /\ UNCHANGED <<base, todo, target>>
              /\ saved' \in {saved, saved \cup {DumpNow}})
  <2> DEFINE wanted == IF options.scope = "ndef" THEN Emptied(NdefArea(mem[field])) ELSE Zeroed
             compares == options.scope = "ndef" \/ options.scan_nonzero_pages
  <2>1. /\ SameUid
        /\ SaveBaseline(DumpNow) /\ base' = DumpNow /\ target' = wanted
        /\ options.scope = "ndef" => ClearNdef(NdefArea(mem[field])).ok
        /\ todo' = {p \in EraseRange : compares => mem[field][p] # wanted[p]}
        /\ Proceed(IF todo' = {} THEN FinalStage(options) ELSE FirstStage(options))
    BY <1>3, <1>a DEF Baseline, SaveBaseline
  <2> HIDE DEF wanted, compares
  <2>2. todo' \subseteq EraseRange /\ \A p \in EraseRange \ todo' : mem[field][p] = target'[p]
    BY <2>1
  <2>3. options.scope = "ndef" => Parse(NdefArea(mem[field])).ok
    BY <2>1 DEF ClearNdef
  <2> QED
    BY <1>1, <1>a, <2>1, <2>2, <2>3 DEF Plan, SaveBaseline, Proceed, wanted
<1> QED
  BY <1>2, <1>3

(* A batch of pages: stored with their target, or some of them stored and  *)
(* the operation over.                                                     *)
Kept == Fixed /\ UNCHANGED <<saved, uid, profile, base, target>>
LEMMA DirectOutcome ==
  ASSUME TypeOK, Planned, todo \subseteq EraseRange, Direct
  PROVE  /\ pc = "direct" /\ Kept /\ todo' \subseteq todo
         /\ mem' \in [Tags -> Image] /\ \A t \in Tags \ {field} : mem'[t] = mem[t]
         /\ \A p \in Page : mem'[field][p] # mem[field][p] =>
              p \in EraseRange /\ mem'[field][p] = target[p]
         /\ \/ Over
            \/ /\ \A p \in Page : mem'[field][p] =
                    IF p \in todo \ todo' THEN target[p] ELSE mem[field][p]
               /\ pc' = IF todo' = {} THEN FinalStage(options) ELSE "direct"
               /\ UNCHANGED report
<1> DEFINE pages == NextBatch(todo)
<1>a. /\ report \in Report /\ field \in Tags /\ mem \in [Tags -> Image]
  BY DEF TypeOK, CommonTypeOK
<1>1. /\ pc = "direct" /\ Kept /\ todo' = todo \ pages
      /\ WriteBatch(pages, target, "erase_batch_failed",
                    IF todo' = {} THEN FinalStage(options) ELSE "direct")
  BY DEF Direct, Keep, Kept, Fixed, history
<1>2. /\ pages \subseteq todo /\ pages \in SUBSET Page /\ pages \subseteq EraseRange
      /\ \A p \in pages : target[p] \in PageData
  BY RangeSets DEF NextBatch, Planned
<1> HIDE DEF pages
<1>3. /\ PartlyStored(pages, target)
      /\ \/ /\ Proceed(IF todo' = {} THEN FinalStage(options) ELSE "direct")
            /\ \A p \in Page :
                 mem'[field][p] = IF p \in pages THEN target[p] ELSE mem[field][p]
         \/ Fail("erase_batch_failed")
  BY <1>a, <1>1, <1>2, BatchOf
<1>4. /\ mem' \in [Tags -> Image] /\ \A t \in Tags \ {field} : mem'[t] = mem[t]
      /\ \A p \in Page : mem'[field][p] # mem[field][p] =>
           p \in EraseRange /\ mem'[field][p] = target[p]
  <2>1. /\ mem' \in [Tags -> Image] /\ \A t \in Tags \ {field} : mem'[t] = mem[t]
        /\ \E part \in SUBSET pages : \A p \in Page :
             mem'[field][p] = IF p \in part THEN target[p] ELSE mem[field][p]
    BY <1>a, <1>2, <1>3, PartOf
  <2> QED
    BY <2>1, <1>2
<1>5. Fail("erase_batch_failed") => Over
  BY <1>a, OverBy DEF ReportTexts
<1>6. pages = todo \ todo'
  BY <1>1, <1>2
<1> QED
  BY <1>1, <1>3, <1>4, <1>5, <1>6 DEF Proceed

(* The restore of the baseline with the range replaced: some of the user   *)
(* pages are stored, whatever its answer.                                  *)
LEMMA RestoreOutcome ==
  ASSUME TypeOK, Planned, Restore
  PROVE  /\ pc = "restore" /\ Kept /\ todo' = {} /\ base \in Dump
         /\ mem' \in [Tags -> Image] /\ \A t \in Tags \ {field} : mem'[t] = mem[t]
         /\ \A p \in Page : mem'[field][p] # mem[field][p] =>
              mem'[field][p] = IF p \in EraseRange THEN target[p] ELSE base.page[p]
         /\ \/ Over
            \/ pc' = FinalStage(options) /\ UNCHANGED report
<1>a. /\ report \in Report /\ field \in Tags /\ mem \in [Tags -> Image]
      /\ pc = "restore" => base \in Dump
  BY DEF TypeOK, CommonTypeOK
<1>1. /\ pc = "restore" /\ Kept /\ todo' = {} /\ base \in Dump
      /\ PartlyStored(UserPage, RestoreImage)
      /\ Proceed(FinalStage(options)) \/ Fail("erase_batch_failed")
  BY <1>a DEF Restore, RestorePages, Keep, Kept, Fixed, history
<1>2. \A p \in UserPage : RestoreImage[p] \in PageData
  <2>1. base.page \in [Page -> PageData]
    BY <1>1 DEF Dump, Image
  <2> QED
    BY <2>1, PageSets DEF RestoreImage, Planned
<1>3. /\ mem' \in [Tags -> Image] /\ \A t \in Tags \ {field} : mem'[t] = mem[t]
      /\ \E part \in SUBSET UserPage : \A p \in Page :
           mem'[field][p] = IF p \in part THEN RestoreImage[p] ELSE mem[field][p]
  BY <1>a, <1>1, <1>2, PageSets, PartOf
<1>4. \A p \in UserPage :
        RestoreImage[p] = IF p \in EraseRange THEN target[p] ELSE base.page[p]
  BY DEF RestoreImage
<1>5. Fail("erase_batch_failed") => Over
  BY <1>a, OverBy DEF ReportTexts
<1>6. \A p \in Page : mem'[field][p] # mem[field][p] =>
        mem'[field][p] = IF p \in EraseRange THEN target[p] ELSE base.page[p]
  <2>1. PICK part \in SUBSET UserPage : \A p \in Page :
           mem'[field][p] = IF p \in part THEN RestoreImage[p] ELSE mem[field][p]
    BY <1>3
  <2> QED
    BY <2>1, <1>4
<1>7. Over \/ (pc' = FinalStage(options) /\ UNCHANGED report)
  BY <1>1, <1>5 DEF Proceed
<1> QED
  BY <1>1, <1>3, <1>6, <1>7

(* The readback ends the operation, or has found the target on the tag     *)
(* and, when that is asked for, everything else as in the baseline.        *)
LEMMA FinalOutcome ==
  ASSUME TypeOK, FinalVerify
  PROVE  /\ pc = "final" /\ Kept /\ UNCHANGED <<mem, todo>>
         /\ \/ Over
            \/ /\ pc' = "success" /\ report' \in Report /\ report'.after = field
               /\ report'.summary = report.summary
               /\ report'.success = report.success /\ report'.verified = report.verified
               /\ \A p \in EraseRange : mem[field][p] = target[p]
               /\ options.protected_verify /\ base # NoDump =>
                    /\ field = base.uid
                    /\ \A p \in Page \ EraseRange : mem[field][p] = base.page[p]
<1> DEFINE passed == /\ \A p \in EraseRange : DumpNow.page[p] = target[p]
                     /\ options.protected_verify /\ base # NoDump =>
                          ProtectedUnchanged(base, DumpNow, LastPage)
<1>a. report \in Report /\ field \in Tags
  BY DEF TypeOK, CommonTypeOK
<1>1. /\ pc = "final" /\ Kept /\ UNCHANGED <<mem, todo>>
      /\ \/ Fail("verify_failed") \/ Finish("stopped")
         \/ Compared(passed, "erase_compare_failed")
  BY DEF FinalVerify, Keep, Kept, Fixed, history
<1>2. CASE Fail("verify_failed") \/ Finish("stopped")
  BY <1>1, <1>2, <1>a, OverBy DEF ReportTexts
<1>3. CASE Compared(passed, "erase_compare_failed")
  <2>0. passed \in BOOLEAN /\ "erase_compare_failed" \in Summaries
    BY DEF Summaries
  <2>1. passed => /\ \A p \in EraseRange : mem[field][p] = target[p]
                  /\ options.protected_verify /\ base # NoDump =>
                       /\ field = base.uid
                       /\ \A p \in Page \ EraseRange : mem[field][p] = base.page[p]
    BY DEF DumpNow, ProtectedUnchanged, EraseRange
  <2> HIDE DEF passed
  <2>2. /\ pc' = IF passed THEN "success" ELSE "done"
        /\ report' \in Report /\ report'.after = field
        /\ report'.summary = IF passed THEN report.summary ELSE "erase_compare_failed"
        /\ report'.success = report.success /\ report'.verified = report.verified
    BY <1>3, <1>a, <2>0, ComparedReport
  <2> QED
    BY <1>1, <2>1, <2>2 DEF Over
<1> QED
  BY <1>1, <1>2, <1>3

(* The success.                                                            *)
LEMMA SuccessOutcome ==
  ASSUME TypeOK, MarkSuccess
  PROVE  /\ pc = "success" /\ Kept /\ UNCHANGED <<mem, todo>>
         /\ pc' = "done" /\ report' \in Report
         /\ report'.summary = "success" /\ report'.success
         /\ report'.verified = options.final_verify /\ report'.after = report.after
<1>1. report \in Report /\ options.final_verify \in BOOLEAN
  BY EraseParameters DEF TypeOK, CommonTypeOK
<1>2. /\ pc = "success" /\ Kept /\ UNCHANGED <<mem, todo>> /\ Succeed
  BY DEF MarkSuccess, Keep, Kept, Fixed, history
<1> QED
  BY <1>1, <1>2, SucceedReport

(* The start of an operation, and an exchange of the tag during one.       *)
LEMMA StartOutcome ==
  ASSUME TypeOK, Start
  PROVE  /\ pc' = "preflight" /\ report' = NewReport /\ report' \in Report
         /\ field' \in Tags /\ options' \in Options /\ UNCHANGED <<mem, saved>>
         /\ uid' = NoTag /\ profile' = NoProfile /\ base' = NoDump
         /\ todo' = {} /\ target' = <<>>
         /\ orig' = mem /\ swaps' = 0 /\ ops' \in 0..MaxOps
         /\ ~ Planned'
<1>1. report' \in Report
  BY DEF Start, Begin, NewReport, Report, Summaries
<1>2. ops' \in 0..MaxOps
  BY Parameters DEF Start, Begin, TypeOK, CommonTypeOK
<1>3. ~ Planned'
  <2>1. target' = <<>>
    BY DEF Start
  <2>3. NdefFirst \in EraseRange'
    BY Geometry DEF EraseRange, LastPage, NdefFirst
  <2>2. DOMAIN <<>> = {}
    OBVIOUS
  <2> QED
    BY <2>1, <2>2, <2>3 DEF Planned
<1> QED
  BY <1>1, <1>2, <1>3 DEF Start, Begin
LEMMA ExchangeOutcome ==
  ASSUME TypeOK, Exchange
  PROVE  /\ pc \notin {"idle", "success", "done"} /\ field' \in Tags
         /\ swaps' = swaps + 1 /\ swaps' \in 1..MaxSwaps
         /\ UNCHANGED <<mem, saved, pc, options, uid, profile, base, todo, report, orig,
                        ops, target>>
BY Parameters DEF Exchange, Swap, TypeOK, CommonTypeOK
-----------------------------------------------------------------------------
(***************************************************************************)
(* Stage and plan agree: a plan exists where pages are written, none of    *)
(* its pages is left behind the writes, and only the end has a verdict.    *)
(***************************************************************************)
PlanInv ==
  /\ pc = "baseline" => BaselineRequired(options)
  /\ pc = "direct" => Paged
  /\ pc = "restore" => ~ Paged
  /\ todo \subseteq EraseRange
  /\ pc \in {"final", "success"} \/ report.success => todo = {}
  /\ pc \in AfterPlan \/ report.success => Planned
  /\ Planned /\ options.scope = "user" => target = Zeroed
  /\ target \in {<<>>} \cup [EraseRange -> PageData]
  /\ pc # "done" => ~ report.success /\ ~ report.verified
ShapeInv == TypeOK /\ PlanInv

(* Nothing is planned before the first operation.                          *)
LEMMA ShapeInit == Init => ShapeInv
<1> SUFFICES ASSUME Init PROVE ShapeInv
  OBVIOUS
<1> USE DEF Init, CommonInit
<1>1. options \in Options
  BY Parameters
<1>2. mem \in [Tags -> Image] /\ orig \in [Tags -> Image]
  BY Parameters
<1>3. report \in Report /\ ~ report.success /\ ~ report.verified
  BY DEF NewReport, Report, Summaries
<1>4. swaps \in 0..MaxSwaps /\ ops \in 0..MaxOps /\ pc \in Stages
  BY Parameters DEF Stages
<1>5. ~ Planned
  BY NoTarget DEF Planned
<1>6. TypeOK
  BY <1>1, <1>2, <1>3, <1>4 DEF Profiles, TypeOK, CommonTypeOK
<1> QED
  BY <1>3, <1>5, <1>6 DEF ShapeInv, PlanInv, AfterPlan

(* An operation that is over keeps its shape.                              *)
LEMMA ShapeOver ==
  ASSUME ShapeInv, pc # "done", Over, Fixed, todo' \subseteq todo, UNCHANGED target,
         mem' \in [Tags -> Image], uid' \in Tags \cup {NoTag}, profile' \in Profiles,
         base' = base, saved' \subseteq Dump
  PROVE  ShapeInv'
<1>1. /\ EraseRange' = EraseRange /\ Planned' = Planned /\ Zeroed' = Zeroed
  BY KeepRange DEF Fixed, Planned
<1>2. /\ pc' = "done" /\ report' \in Report /\ ~ report'.success
  BY DEF Over, ShapeInv, PlanInv
<1>3. TypeOK'
  <2>1. CommonTypeOK'
    BY <1>2 DEF Fixed, ShapeInv, TypeOK, CommonTypeOK, Stages
  <2>2. target' \in {<<>>} \cup [EraseRange' -> PageData]
    BY <1>1 DEF ShapeInv, TypeOK
  <2> QED
    BY <1>2, <2>1, <2>2 DEF TypeOK
<1>4. PlanInv'
  BY <1>1, <1>2 DEF ShapeInv, PlanInv, AfterPlan, Fixed
<1> QED
  BY <1>3, <1>4 DEF ShapeInv

(* An operation that goes on by its plan keeps its shape.                  *)
LEMMA ShapeGoesOn ==
  ASSUME ShapeInv, Fixed, mem' \in [Tags -> Image], saved' \subseteq Dump,
         uid' \in Tags \cup {NoTag}, profile' \in Profiles, base' \in Dump \cup {NoDump},
         report' \in Report, pc' \in AfterPlan, Planned',
         ~ report'.success, ~ report'.verified,
         options.scope = "user" => target' = Zeroed, todo' \subseteq EraseRange,
         pc' = "direct" => Paged, pc' = "restore" => ~ Paged /\ base' \in Dump,
         pc' \in {"final", "success"} => todo' = {}
  PROVE  ShapeInv'
<1>1. EraseRange' = EraseRange /\ Zeroed' = Zeroed /\ Paged' = Paged
  BY KeepRange DEF Fixed
<1>2. CommonTypeOK'
  <2>1. todo' \subseteq UserPage
    BY RangeSets
  <2> QED
    BY <2>1 DEF Fixed, ShapeInv, TypeOK, CommonTypeOK, Stages, AfterPlan
<1>3. TypeOK' /\ PlanInv'
  BY <1>1, <1>2 DEF TypeOK, PlanInv, Fixed, AfterPlan, Planned
<1> QED
  BY <1>3 DEF ShapeInv

(* Every action keeps the shape.                                           *)
LEMMA ShapeStep == ShapeInv /\ [Next]_vars => ShapeInv'
<1> SUFFICES ASSUME ShapeInv, [Next]_vars PROVE ShapeInv'
  OBVIOUS
<1>a. /\ TypeOK /\ PlanInv /\ report \in Report /\ options \in Options /\ field \in Tags
      /\ mem \in [Tags -> Image] /\ saved \subseteq Dump /\ swaps \in Nat
      /\ uid \in Tags \cup {NoTag} /\ profile \in Profiles
      /\ base \in Dump \cup {NoDump} /\ todo \subseteq EraseRange
  BY Parameters DEF ShapeInv, TypeOK, CommonTypeOK, PlanInv
<1>b. pc # "done" => ~ report.success /\ ~ report.verified
  BY <1>a DEF PlanInv
<1>c. DumpNow \in Dump /\ mem[field] \in Image
  BY <1>a DEF DumpNow, Dump
<1>d. /\ FirstStage(options) \in {"restore", "direct"}
      /\ FirstStage(options) = "restore" <=> ~ Paged
      /\ FinalStage(options) \in {"final", "success"}
  BY <1>a, StageOf
<1>1. CASE Start
  <2>1. CommonTypeOK'
    BY <1>1, <1>a, StartOutcome, Parameters DEF Profiles, CommonTypeOK, Stages, TypeOK
  <2> QED
    BY <1>1, <1>a, <2>1, StartOutcome DEF ShapeInv, TypeOK, PlanInv, NewReport, AfterPlan
<1>2. CASE Preflight
  <2>0. /\ pc = "preflight" /\ Fixed /\ UNCHANGED <<mem, saved, base>>
        /\ uid' \in Tags \cup {NoTag} /\ profile' \in Profiles
    BY <1>2, <1>a, PreflightOutcome DEF Profiles
  <2>1. CASE Over /\ UNCHANGED <<todo, target>>
    BY <2>0, <2>1, <1>a, ShapeOver
  <2>2. CASE /\ pc' = "baseline" /\ BaselineRequired(options)
             /\ UNCHANGED <<todo, target, report>>
    <3>1. CommonTypeOK'
      BY <2>0, <2>2, <1>a DEF Fixed, TypeOK, CommonTypeOK, Stages
    <3>2. EraseRange' = EraseRange /\ Planned' = Planned /\ Zeroed' = Zeroed /\ BaselineRequired(options)'
      BY <2>0, <2>2, KeepRange DEF Fixed, Planned
    <3> QED
      BY <2>0, <2>2, <1>a, <1>b, <3>1, <3>2
         DEF ShapeInv, TypeOK, PlanInv, AfterPlan, Fixed, Planned
  <2>3. CASE /\ pc' = "direct" /\ Paged /\ options.scope = "user"
             /\ todo' = EraseRange /\ target' = Zeroed /\ UNCHANGED report
    <3>1. Planned'
      <4>1. EraseRange' = EraseRange
        BY <2>0, KeepRange DEF Fixed
      <4> QED
        BY <2>3, <4>1, ZeroPageType DEF Planned, Zeroed
    <3> QED
      BY <2>0, <2>3, <3>1, <1>a, <1>b, ShapeGoesOn DEF AfterPlan
  <2> QED
    BY <1>2, <1>a, <2>1, <2>2, <2>3, PreflightOutcome
<1>3. CASE Baseline
  <2>0. pc = "baseline" /\ Fixed /\ UNCHANGED <<mem, uid, profile>>
    BY <1>3, <1>a, BaselineOutcome
  <2>1. CASE /\ Over /\ UNCHANGED <<base, todo, target>>
             /\ saved' \in {saved, saved \cup {DumpNow}}
    BY <2>0, <2>1, <1>a, <1>c, ShapeOver
  <2>2. CASE Plan
    <3>1. /\ saved' \in {saved, saved \cup {DumpNow}} /\ base' \in Dump /\ UNCHANGED report
          /\ target' = IF options.scope = "ndef" THEN Emptied(NdefArea(mem[field])) ELSE Zeroed
          /\ todo' \subseteq EraseRange
          /\ pc' = IF todo' = {} THEN FinalStage(options) ELSE FirstStage(options)
      BY <2>2, <1>c DEF Plan
    <3>2. Planned'
      <4>1. EraseRange' = EraseRange
        BY <2>0, KeepRange DEF Fixed
      <4> QED
        BY <3>1, <4>1, <1>c, TargetType DEF Planned
    <3> QED
      BY <2>0, <3>1, <3>2, <1>a, <1>b, <1>c, <1>d, ShapeGoesOn DEF AfterPlan
  <2> QED
    BY <1>3, <1>a, <2>1, <2>2, BaselineOutcome
<1>4. ASSUME pc \in AfterPlan, Kept, todo' \subseteq todo, mem' \in [Tags -> Image],
             Over \/ (/\ pc' \in AfterPlan \ {"restore"} /\ report' \in Report
                      /\ report'.success = report.success
                      /\ report'.verified = report.verified
                      /\ pc' = "direct" => Paged
                      /\ pc' \in {"final", "success"} => todo' = {})
      PROVE  ShapeInv'
  <2>1. CASE Over
    BY <1>4, <2>1, <1>a, ShapeOver DEF Kept, AfterPlan
  <2>2. CASE ~ Over
    <3>1. pc # "done" /\ Planned /\ (options.scope = "user" => target = Zeroed)
      BY <1>4, <1>a DEF PlanInv, AfterPlan
    <3>2. Planned'
      BY <1>4, <3>1, KeepRange DEF Kept, Fixed, Planned
    <3> QED
      BY <1>4, <2>2, <3>1, <3>2, <1>a, <1>b, ShapeGoesOn DEF Kept
  <2> QED
    BY <2>1, <2>2
<1>5. CASE Direct
  <2>1. Planned /\ pc = "direct" /\ Paged
    BY <1>5, <1>a DEF Direct, PlanInv, AfterPlan
  <2>2. /\ Kept /\ todo' \subseteq todo /\ mem' \in [Tags -> Image]
        /\ \/ Over
           \/ /\ pc' = IF todo' = {} THEN FinalStage(options) ELSE "direct"
              /\ UNCHANGED report
    BY <1>5, <1>a, <2>1, DirectOutcome
  <2> QED
    BY <2>1, <2>2, <1>4, <1>a, <1>d DEF AfterPlan
<1>6. CASE Restore
  <2>1. Planned /\ pc = "restore"
    BY <1>6, <1>a DEF Restore, PlanInv, AfterPlan
  <2>2. /\ Kept /\ todo' = {} /\ mem' \in [Tags -> Image]
        /\ Over \/ (pc' = FinalStage(options) /\ UNCHANGED report)
    BY <1>6, <1>a, <2>1, RestoreOutcome
  <2> QED
    BY <2>1, <2>2, <1>4, <1>a, <1>d DEF AfterPlan
<1>7. CASE FinalVerify
  <2>1. /\ pc = "final" /\ Kept /\ UNCHANGED <<mem, todo>>
        /\ Over \/ (/\ pc' = "success" /\ report' \in Report
                    /\ report'.success = report.success
                    /\ report'.verified = report.verified)
    BY <1>7, <1>a, FinalOutcome
  <2>2. todo = {}
    BY <2>1, <1>a DEF PlanInv
  <2> QED
    BY <2>1, <2>2, <1>4, <1>a DEF AfterPlan
<1>8. CASE MarkSuccess
  <2>1. /\ pc = "success" /\ Kept /\ UNCHANGED <<mem, todo>>
        /\ pc' = "done" /\ report' \in Report
    BY <1>8, <1>a, SuccessOutcome
  <2>2. Planned /\ todo = {}
    BY <2>1, <1>a DEF PlanInv, AfterPlan
  <2>3. /\ EraseRange' = EraseRange /\ Planned' = Planned /\ Zeroed' = Zeroed
    BY <2>1, KeepRange DEF Kept, Fixed, Planned
  <2>4. CommonTypeOK'
    BY <2>1, <1>a DEF Kept, Fixed, TypeOK, CommonTypeOK, Stages
  <2> QED
    BY <2>1, <2>2, <2>3, <2>4, <1>a
       DEF Kept, Fixed, ShapeInv, TypeOK, PlanInv, AfterPlan, Planned
<1>9. CASE Exchange
  <2>1. /\ field' \in Tags /\ swaps' \in 0..MaxSwaps
        /\ UNCHANGED <<mem, saved, pc, options, uid, profile, base, todo, report, orig,
                       ops, target>>
    BY <1>9, <1>a, ExchangeOutcome
  <2>2. CommonTypeOK'
    BY <2>1, <1>a DEF TypeOK, CommonTypeOK
  <2> QED
    BY <2>1, <2>2, <1>a, KeepRange DEF ShapeInv, TypeOK, PlanInv, Planned
<1>10. CASE UNCHANGED vars
  <2>1. UNCHANGED <<common, target>>
    BY <1>10 DEF vars
  <2>2. CommonTypeOK'
    BY <2>1, <1>a DEF common, history, TypeOK, CommonTypeOK
  <2> QED
    BY <2>1, <2>2, <1>a, KeepRange DEF common, ShapeInv, TypeOK, PlanInv, Planned
<1> QED
  BY <1>1, <1>2, <1>3, <1>5, <1>6, <1>7, <1>8, <1>9, <1>10 DEF Next, Step
-----------------------------------------------------------------------------
(***************************************************************************)
(* What the tag on the antenna holds: what it held at the start, and from  *)
(* the plan on the target in the pages of the range that were written.     *)
(* The plan's target is the old area with its NDEF TLVs emptied, or zeros. *)
(***************************************************************************)
Aim == IF options.scope = "user" THEN Zeroed ELSE Emptied(NdefArea(orig[field]))
PageInv ==
  /\ pc \in {"idle", "preflight", "baseline", "restore"} => mem = orig
  /\ Undisturbed =>
       /\ Planned => target = Aim
       /\ Planned /\ options.scope # "user" => Parse(NdefArea(orig[field])).ok
       /\ \A p \in Page : mem[field][p] # orig[field][p] =>
            Planned /\ p \in EraseRange /\ mem[field][p] = target[p]
       /\ Paged /\ (pc \in {"direct", "final", "success"} \/ report.success) =>
            \A p \in Page : mem[field][p] =
              IF p \in EraseRange \ todo THEN target[p] ELSE orig[field][p]

(***************************************************************************)
(* What the workflow has read by when, as in the write: the baseline is    *)
(* there once it is demanded, and with the stability check it shows the    *)
(* preflight's UID, unless the preflight saw none.                         *)
(***************************************************************************)
ReadInv ==
  /\ base # NoDump =>
       /\ base.page = orig[base.uid]
       /\ Undisturbed => base.uid = field
  /\ pc \in AfterPlan /\ BaselineRequired(options) =>
       /\ base # NoDump
       /\ options.target_stability => uid \in {NoTag, base.uid}

(* Nothing has been read or written before the first operation.            *)
LEMMA PageInit == Init => PageInv /\ ReadInv
<1> SUFFICES ASSUME Init PROVE PageInv /\ ReadInv
  OBVIOUS
<1>1. target = <<>> /\ mem = orig /\ pc = "idle" /\ base = NoDump /\ ~ report.success
  BY DEF Init, CommonInit, NewReport
<1>2. ~ Planned
  BY <1>1, NoTarget DEF Planned
<1> QED
  BY <1>1, <1>2 DEF PageInv, ReadInv, AfterPlan

(* What the plan aims at and where it lies hang on what does not change.   *)
LEMMA KeepAim ==
  ASSUME Fixed
  PROVE  /\ EraseRange' = EraseRange /\ Aim' = Aim /\ Paged' = Paged
         /\ Undisturbed' = Undisturbed /\ field' = field /\ orig' = orig
         /\ options' = options
<1>1. /\ EraseRange' = EraseRange /\ Zeroed' = Zeroed /\ Paged' = Paged
      /\ \A area : Emptied(area)' = Emptied(area)
  BY KeepRange DEF Fixed
<1>2. Emptied(NdefArea(orig[field]))' = Emptied(NdefArea(orig[field]))
  BY <1>1 DEF Fixed, NdefArea, Emptied
<1> QED
  BY <1>1, <1>2 DEF Fixed, Aim, Undisturbed

(* An end without a write.                                                 *)
LEMMA PageOver ==
  ASSUME ShapeInv, PageInv, ReadInv, pc # "done", Over, Fixed,
         UNCHANGED <<mem, base, target>>
  PROVE  PageInv' /\ ReadInv'
<1>1. Planned' = Planned
  BY KeepAim DEF Planned
<1>2. pc' = "done" /\ ~ report'.success
  BY DEF Over, ShapeInv, PlanInv
<1> QED
  BY <1>1, <1>2, KeepAim DEF PageInv, ReadInv, AfterPlan

(* Every action keeps the pages as stage and plan demand.                  *)
LEMMA PageStep == ShapeInv /\ PageInv /\ ReadInv /\ [Next]_vars => PageInv' /\ ReadInv'
<1> SUFFICES ASSUME ShapeInv, PageInv, ReadInv, [Next]_vars PROVE PageInv' /\ ReadInv'
  OBVIOUS
<1>a. /\ TypeOK /\ PlanInv /\ options \in Options /\ field \in Tags /\ swaps \in Nat
      /\ mem \in [Tags -> Image] /\ uid \in Tags \cup {NoTag} /\ todo \subseteq EraseRange
      /\ base \in Dump \cup {NoDump}
  BY Parameters DEF ShapeInv, TypeOK, CommonTypeOK, PlanInv
<1>b. pc # "done" => ~ report.success
  BY <1>a DEF PlanInv
<1>d. /\ FirstStage(options) \in {"restore", "direct"}
      /\ FirstStage(options) = "restore" <=> ~ Paged
      /\ FinalStage(options) \in {"final", "success"}
  BY <1>a, StageOf
<1>e. DumpNow # NoDump /\ DumpNow.uid = field /\ DumpNow.page = mem[field]
  <2>1. DumpNow \in Dump
    BY <1>a DEF DumpNow, Dump
  <2> QED
    BY <2>1, Geometry DEF DumpNow
<1>1. CASE Start
  BY <1>1, <1>a, StartOutcome DEF PageInv, ReadInv, AfterPlan, NewReport
<1>2. CASE Preflight
  <2>0. /\ pc = "preflight" /\ Fixed /\ UNCHANGED <<mem, saved, base>>
        /\ mem = orig /\ ~ report.success
    BY <1>2, <1>a, <1>b, PreflightOutcome DEF PageInv
  <2>1. CASE Over /\ UNCHANGED <<todo, target>>
    BY <2>0, <2>1, PageOver
  <2>2. CASE pc' = "baseline" /\ UNCHANGED <<todo, target, report>>
    <3>1. Planned' = Planned
      BY <2>0, <2>2, KeepAim DEF Planned
    <3> QED
      BY <2>0, <2>2, <3>1, <1>a, KeepAim DEF PageInv, ReadInv, AfterPlan
  <2>3. CASE /\ pc' = "direct" /\ ~ BaselineRequired(options)
             /\ Paged /\ options.scope = "user"
             /\ todo' = EraseRange /\ target' = Zeroed /\ UNCHANGED report
    <3>1. Zeroed = Aim
      BY <2>3 DEF Aim
    <3>2. EraseRange' \ todo' = {}
      BY <2>0, <2>3, KeepAim
    <3> QED
      BY <2>0, <2>3, <3>1, <3>2, <1>a, KeepAim DEF PageInv, ReadInv, AfterPlan
  <2> QED
    BY <1>2, <1>a, <2>1, <2>2, <2>3, PreflightOutcome
<1>3. CASE Baseline
  <2>0. /\ pc = "baseline" /\ Fixed /\ UNCHANGED <<mem, uid, profile>>
        /\ mem = orig /\ ~ report.success
    BY <1>3, <1>a, <1>b, BaselineOutcome DEF PageInv, ReadInv
  <2>1. CASE Over /\ UNCHANGED <<base, todo, target>>
    BY <2>0, <2>1, PageOver
  <2>2. CASE Plan
    <3>1. /\ base' = DumpNow /\ UNCHANGED report
          /\ options.target_stability => uid \in {NoTag, field}
          /\ todo' \subseteq EraseRange
          /\ \A p \in EraseRange \ todo' : mem[field][p] = target'[p]
          /\ pc' = IF todo' = {} THEN FinalStage(options) ELSE FirstStage(options)
      BY <2>2 DEF Plan, SameUid
    <3>2. /\ target' = Aim
          /\ options.scope # "user" => Parse(NdefArea(orig[field])).ok
      <4>1. options.scope \in {"ndef", "user"}
        BY <1>a, EraseParameters
      <4> QED
        BY <2>0, <2>2, <4>1 DEF Plan, Aim
    <3>3. PageInv'
      <4>1. \A p \in Page : mem'[field'][p] =
              IF p \in EraseRange' \ todo' THEN target'[p] ELSE orig'[field'][p]
        BY <2>0, <3>1, KeepAim
      <4> QED
        BY <2>0, <3>1, <3>2, <4>1, <1>d, KeepAim DEF PageInv
    <3>4. ReadInv'
      BY <2>0, <3>1, <1>a, <1>e, KeepAim DEF ReadInv
    <3> QED
      BY <3>3, <3>4
  <2> QED
    BY <1>3, <1>a, <2>1, <2>2, BaselineOutcome
<1>r. ASSUME pc \in AfterPlan, Kept, pc' \in AfterPlan \cup {"done"}
      PROVE  ReadInv'
  BY <1>r, KeepAim DEF Kept, ReadInv, AfterPlan
<1>4. CASE Direct
  <2>0. Planned /\ pc = "direct" /\ Paged /\ ~ report.success
    BY <1>4, <1>a, <1>b DEF Direct, PlanInv, AfterPlan
  <2>1. /\ Kept /\ todo' \subseteq todo
        /\ \A p \in Page : mem'[field][p] # mem[field][p] =>
             p \in EraseRange /\ mem'[field][p] = target[p]
        /\ \/ Over
           \/ /\ \A p \in Page : mem'[field][p] =
                   IF p \in todo \ todo' THEN target[p] ELSE mem[field][p]
              /\ pc' = IF todo' = {} THEN FinalStage(options) ELSE "direct"
              /\ UNCHANGED report
    BY <1>4, <1>a, <2>0, DirectOutcome
  <2>2. Fixed /\ target' = target /\ Planned'
    BY <2>0, <2>1, KeepAim DEF Kept, Planned
  <2>3. Undisturbed => \A p \in Page : mem'[field][p] # orig[field][p] =>
          p \in EraseRange /\ mem'[field][p] = target[p]
    BY <2>1 DEF PageInv
  <2>4. PageInv'
    <3>1. CASE Over
      BY <2>0, <2>2, <2>3, <3>1, KeepAim DEF PageInv, Over
    <3>2. CASE ~ Over
      <4>1. Undisturbed => \A p \in Page : mem'[field][p] =
              IF p \in EraseRange \ todo' THEN target[p] ELSE orig[field][p]
        BY <2>0, <2>1, <3>2, <1>a DEF PageInv
      <4> QED
        BY <2>0, <2>1, <2>2, <2>3, <3>2, <4>1, <1>d, KeepAim DEF PageInv
    <3> QED
      BY <3>1, <3>2
  <2> QED
    BY <2>0, <2>1, <2>4, <1>d, <1>r DEF AfterPlan, Over
<1>5. CASE Restore
  <2>0. /\ Planned /\ pc = "restore" /\ ~ Paged /\ ~ report.success /\ mem = orig
        /\ base # NoDump
    BY <1>5, <1>a, <1>b, Geometry DEF Restore, PlanInv, AfterPlan, PageInv, TypeOK, CommonTypeOK
  <2>1. /\ Kept
        /\ \A p \in Page : mem'[field][p] # mem[field][p] =>
             mem'[field][p] = IF p \in EraseRange THEN target[p] ELSE base.page[p]
        /\ Over \/ (pc' = FinalStage(options) /\ UNCHANGED report)
    BY <1>5, <1>a, <2>0, RestoreOutcome
  <2>2. Fixed /\ target' = target /\ Planned'
    BY <2>0, <2>1, KeepAim DEF Kept, Planned
  <2>3. Undisturbed => \A p \in Page : mem'[field][p] # orig[field][p] =>
          p \in EraseRange /\ mem'[field][p] = target[p]
    <3>1. Undisturbed => base.page = orig[field]
      BY <2>0 DEF ReadInv
    <3> QED
      BY <2>0, <2>1, <3>1
  <2>4. pc' \in {"done", "final", "success"}
    BY <2>1, <1>d DEF Over
  <2>5. PageInv'
    BY <2>0, <2>2, <2>3, <2>4, KeepAim DEF PageInv
  <2> QED
    BY <2>0, <2>1, <2>4, <2>5, <1>r DEF AfterPlan
<1>6. CASE FinalVerify
  <2>1. /\ pc = "final" /\ Kept /\ UNCHANGED <<mem, todo>>
        /\ Over \/ (pc' = "success" /\ report'.success = report.success)
    BY <1>6, <1>a, FinalOutcome
  <2>2. Fixed /\ target' = target /\ (Planned' = Planned) /\ ~ report.success
    BY <2>1, <1>b, KeepAim DEF Kept, Planned
  <2>3. CASE Over
    BY <2>1, <2>2, <2>3, PageOver DEF Kept
  <2>4. CASE pc' = "success" /\ report'.success = report.success
    BY <2>1, <2>2, <2>4, <1>r, KeepAim DEF PageInv, AfterPlan
  <2> QED
    BY <2>1, <2>3, <2>4
<1>7. CASE MarkSuccess
  <2>1. /\ pc = "success" /\ Kept /\ UNCHANGED <<mem, todo>> /\ pc' = "done"
    BY <1>7, <1>a, SuccessOutcome
  <2>2. Fixed /\ target' = target /\ (Planned' = Planned)
    BY <2>1, KeepAim DEF Kept, Planned
  <2> QED
    BY <2>1, <2>2, <1>r, KeepAim DEF PageInv, AfterPlan
<1>8. CASE Exchange
  <2>1. swaps' # 0 /\ UNCHANGED <<mem, pc, options, uid, base, orig>>
    BY <1>8, <1>a, ExchangeOutcome
  <2> QED
    BY <2>1 DEF PageInv, ReadInv, Undisturbed
<1>9. CASE UNCHANGED vars
  <2>1. /\ Fixed /\ UNCHANGED <<mem, pc, uid, base, todo, report, target>>
    BY <1>9 DEF vars, common, history, Fixed
  <2>2. Planned' = Planned
    BY <2>1, KeepAim DEF Planned
  <2> QED
    BY <2>1, <2>2, KeepAim DEF PageInv, ReadInv
<1> QED
  BY <1>1, <1>2, <1>3, <1>4, <1>5, <1>6, <1>7, <1>8, <1>9 DEF Next, Step
-----------------------------------------------------------------------------
(* The backup, when one is due, is in the directory from the plan on.      *)
Backup == [uid |-> field, page |-> orig[field]]
BackupInv ==
  Undisturbed /\ BackupDue(orig[field]) =>
    /\ pc \in AfterPlan => Backup \in saved
    /\ mem[field] # orig[field] => Backup \in saved

(* The backup invariant holds before the first operation.                  *)
LEMMA BackupInit == Init => BackupInv
BY DEF Init, CommonInit, BackupInv, AfterPlan

(* Once the plan exists, the backup that is due does too.                  *)
LEMMA BackupStep == ShapeInv /\ PageInv /\ BackupInv /\ [Next]_vars => BackupInv'
<1> SUFFICES ASSUME ShapeInv, PageInv, BackupInv, [Next]_vars, Undisturbed',
                    BackupDue(orig[field])'
             PROVE  BackupInv'
  BY DEF BackupInv
<1>a. TypeOK /\ PlanInv /\ swaps \in Nat
  BY Parameters DEF ShapeInv, TypeOK, CommonTypeOK
<1>b. ASSUME Fixed
      PROVE  Backup' = Backup /\ BackupDue(orig[field]) /\ Undisturbed
  <2>1. \A image : BackupDue(image)' = BackupDue(image)
    BY <1>b, KeepRange DEF Fixed
  <2>2. BackupDue(orig[field])' = BackupDue(orig[field])
    BY <1>b, <2>1 DEF Fixed, BackupDue, NotEmpty, EraseRange, LastPage
  <2> QED
    BY <1>b, <2>2 DEF Fixed, Backup, Undisturbed
<1>1. CASE Start
  BY <1>1, <1>a, StartOutcome DEF BackupInv, AfterPlan
<1>2. CASE Preflight
  <2>0. Fixed /\ UNCHANGED <<mem, saved>> /\ mem = orig
    BY <1>2, <1>a, PreflightOutcome DEF PageInv
  <2>1. options.backup
    BY <2>0, <1>b DEF BackupDue
  <2>2. pc' \in {"done", "baseline"}
    BY <1>2, <1>a, <2>1, PreflightOutcome DEF BaselineRequired, Over
  <2> QED
    BY <2>0, <2>2 DEF BackupInv, AfterPlan, Fixed
<1>3. CASE Baseline
  <2>0. Fixed /\ UNCHANGED mem /\ mem = orig
    BY <1>3, <1>a, BaselineOutcome DEF PageInv
  <2>1. BackupDue(mem[field]) /\ Backup' = Backup /\ DumpNow = Backup
    BY <2>0, <1>b DEF DumpNow, Backup
  <2>2. pc' = "done" \/ saved' = saved \cup {DumpNow}
    BY <1>3, <1>a, <2>1, BaselineOutcome DEF Plan, Over
  <2> QED
    BY <2>0, <2>1, <2>2 DEF BackupInv, AfterPlan, Fixed
<1>4. CASE Direct \/ Restore \/ FinalVerify \/ MarkSuccess
  <2>1. pc \in AfterPlan /\ Fixed /\ UNCHANGED saved
    BY <1>4 DEF Direct, Restore, FinalVerify, MarkSuccess, Keep, history, Fixed, AfterPlan
  <2> QED
    BY <2>1, <1>b DEF BackupInv
<1>5. CASE Exchange
  BY <1>5, <1>a, ExchangeOutcome DEF Undisturbed
<1>6. CASE UNCHANGED vars
  <2>1. Fixed /\ UNCHANGED <<mem, pc, saved>>
    BY <1>6 DEF vars, common, history, Fixed
  <2> QED
    BY <2>1, <1>b DEF BackupInv, Fixed
<1> QED
  BY <1>1, <1>2, <1>3, <1>4, <1>5, <1>6 DEF Next, Step
-----------------------------------------------------------------------------
(* What a passed readback has seen of the tag its report names.            *)
ReadBack ==
  /\ report.after \in Tags
  /\ \A p \in EraseRange : mem[report.after][p] = target[p]
  /\ options.protected_verify =>
       /\ report.after = base.uid
       /\ \A p \in Page \ EraseRange : mem[report.after][p] = orig[report.after][p]
       /\ options.target_stability => uid \in {NoTag, report.after}
ReadBackInv ==
  (pc = "success" /\ options.final_verify) \/ report.verified => ReadBack

(* Nothing is verified before the first operation.                         *)
LEMMA ReadBackInit == Init => ReadBackInv
BY DEF Init, CommonInit, NewReport, ReadBackInv

(* Nothing that happens after the readback touches the tag.                *)
LEMMA ReadBackStep ==
  ShapeInv /\ PageInv /\ ReadInv /\ ReadBackInv /\ [Next]_vars => ReadBackInv'
<1> SUFFICES ASSUME ShapeInv, PageInv, ReadInv, ReadBackInv, [Next]_vars PROVE ReadBackInv'
  OBVIOUS
<1>a. /\ TypeOK /\ PlanInv /\ options \in Options /\ field \in Tags /\ todo \subseteq EraseRange
  BY DEF ShapeInv, TypeOK, CommonTypeOK, PlanInv
<1>b. pc # "done" => ~ report.verified
  BY <1>a DEF PlanInv
<1>c. ASSUME ~ report'.verified, UNCHANGED options, options.final_verify => pc' # "success"
      PROVE  ReadBackInv'
  BY <1>c DEF ReadBackInv
<1>d. options.final_verify => FinalStage(options) = "final"
  BY <1>a, StageOf
<1>1. CASE Start
  BY <1>1, <1>a, StartOutcome DEF NewReport, ReadBackInv
<1>2. CASE Preflight
  BY <1>2, <1>a, <1>b, <1>c, PreflightOutcome DEF Over, Fixed
<1>3. CASE Baseline
  <2>1. /\ pc # "done" /\ UNCHANGED options
        /\ Over \/ Plan
    BY <1>3, <1>a, BaselineOutcome DEF Fixed
  <2>2. FirstStage(options) # "success"
    BY <1>a, StageOf
  <2> QED
    BY <2>1, <2>2, <1>b, <1>c, <1>d DEF Over, Plan
<1>4. CASE Direct
  <2>0. pc = "direct" /\ Planned
    BY <1>4, <1>a DEF Direct, PlanInv, AfterPlan
  <2> QED
    BY <1>4, <2>0, <1>a, <1>b, <1>c, <1>d, DirectOutcome DEF Kept, Fixed, Over
<1>5. CASE Restore
  <2>0. pc = "restore" /\ Planned
    BY <1>5, <1>a DEF Restore, PlanInv, AfterPlan
  <2> QED
    BY <1>5, <2>0, <1>a, <1>b, <1>c, <1>d, RestoreOutcome DEF Kept, Fixed, Over
<1>6. CASE FinalVerify
  <2>0. pc = "final" /\ Kept /\ UNCHANGED <<mem, todo>>
    BY <1>6, <1>a, FinalOutcome
  <2>1. CASE Over
    BY <2>0, <2>1, <1>b, <1>c DEF Kept, Fixed, Over
  <2>2. CASE ~ Over /\ ~ options.final_verify
    <3>1. ~ report'.verified
      BY <1>6, <1>a, <1>b, <2>0, <2>2, FinalOutcome
    <3> QED
      BY <2>0, <2>2, <3>1, <1>c DEF Kept, Fixed
  <2>3. CASE ~ Over /\ options.final_verify
    <3>1. /\ report'.after = field
          /\ \A p \in EraseRange : mem[field][p] = target[p]
          /\ options.protected_verify /\ base # NoDump =>
               /\ field = base.uid
               /\ \A p \in Page \ EraseRange : mem[field][p] = base.page[p]
      BY <1>6, <1>a, <2>3, FinalOutcome
    <3>2. EraseRange' = EraseRange /\ Fixed /\ UNCHANGED <<mem, uid, base, target>>
      BY <2>0, KeepAim DEF Kept
    <3>3. options.protected_verify =>
            /\ base # NoDump /\ base.page = orig[base.uid]
            /\ options.target_stability => uid \in {NoTag, base.uid}
      BY <2>0, <2>3 DEF ReadInv, AfterPlan, BaselineRequired
    <3>4. options.protected_verify =>
            /\ field = base.uid
            /\ \A p \in Page \ EraseRange : mem[field][p] = orig[field][p]
            /\ options.target_stability => uid \in {NoTag, field}
      BY <3>1, <3>3
    <3> QED
      BY <3>1, <3>2, <3>4, <1>a DEF ReadBackInv, ReadBack, Fixed
  <2> QED
    BY <2>1, <2>2, <2>3
<1>7. CASE MarkSuccess
  <2>1. /\ pc = "success" /\ Kept /\ UNCHANGED mem /\ pc' = "done"
        /\ report'.verified = options.final_verify /\ report'.after = report.after
    BY <1>7, <1>a, SuccessOutcome
  <2>2. EraseRange' = EraseRange /\ Fixed /\ UNCHANGED <<uid, base, target>>
    BY <2>1, KeepAim DEF Kept
  <2> QED
    BY <2>1, <2>2 DEF ReadBackInv, ReadBack, Fixed
<1>8. CASE Exchange
  BY <1>8, <1>a, <1>b, <1>c, ExchangeOutcome
<1>9. CASE UNCHANGED vars
  <2>1. Fixed /\ UNCHANGED <<mem, pc, uid, base, report, target>>
    BY <1>9 DEF vars, common, history, Fixed
  <2>2. EraseRange' = EraseRange
    BY <2>1, KeepAim
  <2> QED
    BY <2>1, <2>2 DEF ReadBackInv, ReadBack, Fixed
<1> QED
  BY <1>1, <1>2, <1>3, <1>4, <1>5, <1>6, <1>7, <1>8, <1>9 DEF Next, Step
-----------------------------------------------------------------------------
Inv == ShapeInv /\ PageInv /\ ReadInv /\ BackupInv /\ ReadBackInv

(* The inductive invariant holds of every run of the erase.                *)
THEOREM EraseInvariant == Spec => []Inv
<1>1. Init => Inv
  BY ShapeInit, PageInit, BackupInit, ReadBackInit DEF Inv
<1>2. Inv /\ [Next]_vars => Inv'
  BY ShapeStep, PageStep, BackupStep, ReadBackStep DEF Inv
<1> QED
  BY <1>1, <1>2, PTL DEF Spec

(* Nothing is erased before the backup that is due has been saved.         *)
THEOREM EraseBackupFirst == Spec => []BackupBeforeErase
<1>1. Inv => BackupBeforeErase
  BY DEF Inv, BackupInv, BackupBeforeErase, Backup
<1> QED
  BY <1>1, EraseInvariant, PTL

(* A verified success names a tag that holds the target on every page of   *)
(* the range, however tags were exchanged.  When protected pages were      *)
(* compared it is the baseline's tag, unchanged outside the range, and     *)
(* with the stability check the preflight's, unless that saw no UID.       *)
THEOREM EraseVerified == Spec => []VerifiedIsErased
<1>1. Inv => VerifiedIsErased
  BY DEF Inv, ReadBackInv, ReadBack, VerifiedIsErased
<1> QED
  BY <1>1, EraseInvariant, PTL

(* No step writes outside the range: page writes never do, and a restore   *)
(* writes back there what the tag held, unless the tag was exchanged.      *)
LEMMA RangeStep ==
  ASSUME Inv, [Next]_vars, NEW t \in Tags, NEW p \in Page \ EraseRange,
         mem'[t][p] # mem[t][p]
  PROVE  ~ Paged /\ ~ Undisturbed
<1>a. /\ TypeOK /\ PlanInv /\ PageInv /\ ReadInv /\ todo \subseteq EraseRange
  BY DEF Inv, ShapeInv, PlanInv
<1>1. CASE Direct
  <2>0. Planned
    BY <1>1, <1>a DEF Direct, PlanInv, AfterPlan
  <2>1. /\ \A u \in Tags \ {field} : mem'[u] = mem[u]
        /\ \A q \in Page : mem'[field][q] # mem[field][q] => q \in EraseRange
    BY <1>1, <1>a, <2>0, DirectOutcome
  <2> QED
    BY <2>1
<1>2. CASE Restore
  <2>0. Planned /\ ~ Paged /\ mem = orig
    BY <1>2, <1>a DEF Restore, PlanInv, AfterPlan, PageInv
  <2>1. /\ base \in Dump
        /\ \A u \in Tags \ {field} : mem'[u] = mem[u]
        /\ \A q \in Page : mem'[field][q] # mem[field][q] =>
             mem'[field][q] = IF q \in EraseRange THEN target[q] ELSE base.page[q]
    BY <1>2, <1>a, <2>0, RestoreOutcome
  <2>2. t = field /\ mem'[field][p] = base.page[p]
    BY <2>1
  <2>3. Undisturbed => base.page[p] = mem[field][p]
    BY <2>0, <2>1, <1>a, Geometry DEF ReadInv
  <2> QED
    BY <2>0, <2>2, <2>3
<1>3. CASE UNCHANGED mem
  BY <1>3
<1> QED
  BY <1>1, <1>2, <1>3
     DEF Next, Step, Start, Begin, Preflight, Baseline, FinalVerify, MarkSuccess,
         Exchange, Swap, vars, common

(* ... so everything outside the range is left as it was.                  *)
THEOREM EraseOnlyRange == Spec => OnlyRangeChanges
<1>1. Inv /\ [Next]_vars =>
        [\A t \in Tags, p \in Page \ EraseRange :
           mem'[t][p] # mem[t][p] => ~ Paged /\ ~ Undisturbed]_vars
  BY RangeStep
<1> QED
  BY <1>1, EraseInvariant, PTL DEF Spec, OnlyRangeChanges
-----------------------------------------------------------------------------
(* The area of the tag before the operation, and what clearing makes of it. *)
OldArea == NdefArea(orig[field])

(* What a plan that clears the content writes into a page.                 *)
LEMMA ClearedPages ==
  ASSUME Inv, Undisturbed, Planned, options.scope # "user"
  PROVE  /\ EraseRange = NdefPage /\ Parse(OldArea).ok
         /\ OldArea \in Seq(Byte) /\ Len(OldArea) = Capacity
         /\ ClearNdef(OldArea).data \in Seq(Byte)
         /\ Len(ClearNdef(OldArea).data) = Capacity
         /\ \A p \in NdefPage : target[p] = PageOf(ClearNdef(OldArea).data, p)
<1>1. EraseRange = NdefPage
  BY RangeSets
<1>2. target = Emptied(OldArea) /\ Parse(OldArea).ok
  BY DEF Inv, PageInv, Aim, OldArea
<1>3. orig[field] \in Image
  BY DEF Inv, ShapeInv, TypeOK, CommonTypeOK
<1>4. OldArea \in Seq(Byte) /\ Len(OldArea) = Capacity
  BY <1>3, AreaBytes DEF OldArea
<1> QED
  BY <1>1, <1>2, <1>4, ClearedBytes DEF Emptied

(* A success by page writes is an erased tag, read back or not: no NDEF    *)
(* payload is left, or nothing but zeros, and all else is as it was.       *)
THEOREM EraseSuccess ==
  Spec => []SuccessIsErased
<1>1. Inv => SuccessIsErased
  <2> SUFFICES ASSUME Inv, report.success, Paged, Undisturbed
               PROVE  /\ options.scope = "ndef" =>
                           NdefMessage(NdefArea(mem[field])) \in {<<>>, <<(<<>>)>>}
                      /\ options.scope = "user" =>
                           \A p \in UserPage : mem[field][p] = ZeroPage
                      /\ \A p \in Page \ EraseRange : mem[field][p] = orig[field][p]
    BY DEF SuccessIsErased
  <2>1. /\ Planned /\ todo = {} /\ mem[field] \in Image
        /\ options.scope = "user" => target = Zeroed
    BY DEF Inv, ShapeInv, PlanInv, TypeOK, CommonTypeOK
  <2>2. \A p \in Page : mem[field][p] = IF p \in EraseRange THEN target[p] ELSE orig[field][p]
    BY <2>1 DEF Inv, PageInv
  <2>3. ASSUME options.scope = "ndef"
        PROVE  NdefMessage(NdefArea(mem[field])) \in {<<>>, <<(<<>>)>>}
    <3>1. \A p \in NdefPage : mem[field][p] = PageOf(ClearNdef(OldArea).data, p)
      BY <2>1, <2>2, <2>3, ClearedPages, RangeSets
    <3>2. NdefArea(mem[field]) = ClearNdef(OldArea).data
      BY <2>1, <2>3, <3>1, ClearedPages, AreaOfPages
    <3>3. OldArea \in Seq(Byte) /\ Parse(OldArea).ok /\ ClearNdef(OldArea).data \in Seq(Byte)
      BY <2>1, <2>3, ClearedPages
    <3>4. /\ Parse(ClearNdef(OldArea).data).ok
          /\ \A r \in NdefRecords(ClearNdef(OldArea).data) : r.start = r.end
      BY <3>3, ClearingKeepsOthers DEF ClearsOnlyNdef
    <3> QED
      BY <3>2, <3>3, <3>4, NothingToRead
  <2>4. ASSUME options.scope = "user"
        PROVE  \A p \in UserPage : mem[field][p] = ZeroPage
    BY <2>1, <2>2, <2>4, RangeSets DEF Zeroed
  <2> QED
    BY <2>2, <2>3, <2>4
<1> QED
  BY <1>1, EraseInvariant, PTL

(* Clearing the content leaves every other TLV byte for byte where it was, *)
(* at every moment and whatever fails in between.                          *)
THEOREM EraseKeepsForeign ==
  Spec => []ForeignTlvsStay
<1>1. Inv => ForeignTlvsStay
  <2> SUFFICES ASSUME Inv, options.scope = "ndef", Undisturbed,
                      NEW i \in ForeignBytes(orig[field])
               PROVE  NdefArea(mem[field])[i] = OldArea[i]
    BY DEF ForeignTlvsStay, OldArea
  <2>1. CASE \A p \in Page : mem[field][p] = orig[field][p]
    <3>1. mem[field] = orig[field]
      <4>1. mem[field] \in [Page -> PageData] /\ orig[field] \in [Page -> PageData]
        BY DEF Inv, ShapeInv, TypeOK, CommonTypeOK, Image
      <4> QED
        BY <2>1, <4>1
    <3> QED
      BY <3>1 DEF OldArea
  <2>2. CASE ~ \A p \in Page : mem[field][p] = orig[field][p]
    <3>1. Planned
      BY <2>2 DEF Inv, PageInv
    <3>2. i \in 1..Capacity /\ ClearNdef(OldArea).data[i] = OldArea[i]
      <4>1. OldArea \in Seq(Byte) /\ Parse(OldArea).ok /\ Len(OldArea) = Capacity
        BY <3>1, ClearedPages
      <4>2. ClearsOnlyNdef(OldArea)
        BY <4>1, ClearingKeepsOthers
      <4>3. PICK r \in Others(Parse(OldArea).records) : i \in (r.offset + 1)..r.end
        BY DEF ForeignBytes, OldArea
      <4> QED
        BY <4>1, <4>2, <4>3 DEF ClearsOnlyNdef
    <3>3. PICK p \in NdefPage, b \in 1..4 :
            /\ \A image : NdefArea(image)[i] = image[p][b]
            /\ \A data \in Seq(Byte) : i <= Len(data) => PageOf(data, p)[b] = data[i]
      BY <3>2, ByteOfPage
    <3>4. p \in Page
      BY PageSets
    <3>5. CASE mem[field][p] = orig[field][p]
      BY <3>3, <3>5 DEF OldArea
    <3>6. CASE mem[field][p] # orig[field][p]
      <4>1. mem[field][p] = target[p]
        BY <3>4, <3>6 DEF Inv, PageInv
      <4>2. target[p] = PageOf(ClearNdef(OldArea).data, p)
        BY <3>1, ClearedPages
      <4>3. PageOf(ClearNdef(OldArea).data, p)[b] = ClearNdef(OldArea).data[i]
        BY <3>1, <3>2, <3>3, ClearedPages
      <4> QED
        BY <3>2, <3>3, <4>1, <4>2, <4>3
    <3> QED
      BY <3>5, <3>6
  <2> QED
    BY <2>1, <2>2
<1> QED
  BY <1>1, EraseInvariant, PTL
=============================================================================
