-------------------------- MODULE Type2WriteProofs --------------------------
(***************************************************************************)
(* Theorems about Type2Write, for every geometry of the tag, every set of  *)
(* tags, options and messages, every batch size and every bound: the       *)
(* invariant and the safety of the tag; what the report says of it; and    *)
(* the refinement of NdefTransaction.                                      *)
(***************************************************************************)
EXTENDS Type2WriteRefines, Type2OperationProofs

(* A batch of _write_pages, complete or not, leaves tags and a report.     *)
LEMMA WriteBatchType ==
  ASSUME TypeOK, NEW pages \in SUBSET UserPage, NEW data,
         \A p \in pages : data[p] \in PageData,
         NEW failure \in Summaries, NEW stage \in Stages,
         WriteBatch(pages, data, failure, stage)
  PROVE  mem' \in [Tags -> Image] /\ pc' \in Stages /\ report' \in Report
<1>1. field \in Tags /\ mem \in [Tags -> Image] /\ report \in Report
  BY DEF TypeOK, CommonTypeOK
<1>2. CASE mem' = Stored(mem, field, pages, data) /\ Proceed(stage)
  BY <1>1, <1>2, StoredPages DEF Proceed
<1>3. CASE PartlyStored(pages, data) /\ Fail(failure)
  <2>1. PICK part \in SUBSET pages : mem' = Stored(mem, field, part, data)
    BY <1>3 DEF PartlyStored
  <2>2. mem' \in [Tags -> Image]
    BY <1>1, <2>1, StoredPages
  <2> QED
    BY <1>1, <1>3, <2>2, FailType
<1> QED
  BY <1>2, <1>3 DEF WriteBatch

(* The plan's pages have data to be written.                               *)
LEMMA WantedType ==
  ASSUME tlv \in Messages
  PROVE  \A p \in NdefPage : Wanted[p] \in PageData /\ Wanted[p] = PageOf(tlv, p)
BY PageOfType, WriteParameters DEF Wanted
-----------------------------------------------------------------------------
(* A restore is planned from a baseline: _execute_restore raises without.  *)
BaseInv == pc = "restore" => base \in Dump
TypeInv == TypeOK /\ BaseInv

(* The stages that options lead to are stages of the workflow.             *)
LEMMA StageType ==
  ASSUME NEW o
  PROVE  /\ FirstStage(o) \in {"restore", "invalidate", "direct"}
         /\ FinalStage(o) \in {"final", "success"}
         /\ AfterBody(o) \in {"precommit", "commit", "final", "success"}
BY DEF FirstStage, FinalStage, AfterBody

(* The type invariant holds before the first operation.                    *)
LEMMA TypeInit == Init => TypeInv
<1> SUFFICES ASSUME Init PROVE TypeInv
  OBVIOUS
<1> USE DEF Init, CommonInit
<1>1. options \in Options /\ tlv \in Messages
  BY Parameters, WriteParameters
<1>2. mem \in [Tags -> Image]
  BY Parameters
<1>3. report \in Report
  BY DEF NewReport, Report, Summaries
<1>4. swaps \in 0..MaxSwaps /\ ops \in 0..MaxOps
  BY Parameters
<1>5. pc \in Stages
  BY DEF Stages
<1> QED
  BY <1>1, <1>2, <1>3, <1>4, <1>5 DEF Profiles, TypeInv, TypeOK, BaseInv, CommonTypeOK

(* Every action of the workflow, and a tag swap, keeps the types.          *)
LEMMA TypeStep == TypeInv /\ [Next]_vars => TypeInv'
<1> SUFFICES ASSUME TypeInv, [Next]_vars PROVE TypeInv'
  OBVIOUS
<1> USE DEF TypeInv, BaseInv
<1>0. TypeOK
  OBVIOUS
<1>a. /\ field \in Tags /\ mem \in [Tags -> Image] /\ report \in Report
      /\ options \in Options /\ tlv \in Messages /\ pc \in Stages
      /\ todo \subseteq NdefPage /\ base \in Dump \cup {NoDump}
      /\ ops \in 0..MaxOps /\ swaps \in 0..MaxSwaps
  BY DEF TypeOK, CommonTypeOK
<1>b. DumpNow \in Dump
  <2>1. mem[field] \in Image
    BY <1>a
  <2> QED
    BY <1>a, <2>1 DEF DumpNow, Dump
<1>1. CASE Start
  <2>1. report' \in Report
    BY <1>1 DEF Start, Begin, NewReport, Report, Summaries
  <2>2. ops' \in 0..MaxOps /\ swaps' \in 0..MaxSwaps
    BY <1>1, <1>a, Parameters DEF Start, Begin
  <2> QED
    BY <1>1, <2>1, <2>2 DEF Profiles, Start, Begin, TypeOK, CommonTypeOK, Stages
<1>2. CASE Preflight
  <2>1. pc' \in Stages /\ report' \in Report /\ todo' \subseteq NdefPage
        /\ uid' \in Tags \cup {NoTag} /\ profile' \in Profiles
    <3>1. CASE PreflightFails /\ UNCHANGED todo
      <4>1. pc' \in Stages /\ report' \in Report
        BY <3>1, <1>a, FailType DEF PreflightFails, Summaries
      <4> QED
        BY <4>1, <3>1 DEF PreflightFails, TypeOK, CommonTypeOK
    <3>2. CASE ~ (PreflightFails /\ UNCHANGED todo)
      <4>1. Identified
        BY <1>2, <3>2 DEF Preflight
      <4>2. \/ Finish("preflight_failed") /\ UNCHANGED todo
            \/ Finish("ndef_too_large") /\ UNCHANGED todo
            \/ Proceed("baseline") /\ UNCHANGED todo
            \/ Proceed(FirstStage(options)) /\ todo' = TargetPages
        BY <1>2, <3>2 DEF Preflight
      <4>3. pc' \in Stages /\ report' \in Report
        BY <4>2, <1>a, FinishType, StageType DEF Proceed, Stages, Summaries
      <4>4. TargetPages \subseteq NdefPage
        BY DEF TargetPages, PagesCovered
      <4> QED
        BY <4>1, <4>2, <4>3, <4>4, <1>a DEF Identified, Profiles, Finish, Proceed
    <3> QED
      BY <3>1, <3>2
  <2>2. pc' # "restore"
    <3>1. ~ BaselineRequired(options) => FirstStage(options) # "restore"
      BY DEF BaselineRequired, FirstStage
    <3> QED
      BY <1>2, <3>1 DEF Preflight, PreflightFails, Fail, Finish, Proceed
  <2> QED
    BY <1>2, <2>1, <2>2, PageSets DEF Preflight, TypeOK, CommonTypeOK, history
<1>3. CASE Baseline
  <2>1. \/ pc' \in Stages \ {"restore"} /\ report' \in Report
           /\ UNCHANGED <<saved, base, todo>>
        \/ /\ saved' \in {saved, saved \cup {DumpNow}}
           /\ base' = DumpNow /\ todo' \subseteq NdefPage
           /\ pc' \in Stages /\ report' = report
    <3>1. CASE Fail("backup_failed") /\ UNCHANGED <<saved, base, todo>>
      BY <3>1, <1>a, FailType DEF Summaries, Fail, Finish
    <3>2. CASE /\ \E s \in Summaries : Finish(s)
               /\ UNCHANGED <<saved, base, todo>>
      BY <3>2, <1>a, FinishType DEF Finish
    <3>3. CASE /\ saved' = IF BackupDue(DumpNow.page) THEN saved \cup {DumpNow} ELSE saved
               /\ base' = DumpNow
               /\ todo' = {p \in NdefPage : DumpNow.page[p] # Wanted[p]}
               /\ Proceed(FirstStage(options))
      BY <3>3, <1>a, StageType DEF Proceed, Stages
    <3> QED
      BY <1>3, <3>1, <3>2, <3>3 DEF Baseline, SaveBaseline, Summaries
  <2> QED
    BY <1>3, <1>a, <1>b, <2>1, PageSets DEF Baseline, TypeOK, CommonTypeOK, history
<1>4. ASSUME NEW pages \in SUBSET UserPage, NEW data,
             \A p \in pages : data[p] \in PageData,
             NEW failure \in Summaries, NEW stage \in Stages \ {"restore"},
             WriteBatch(pages, data, failure, stage),
             Keep, todo' \subseteq NdefPage
      PROVE  TypeInv'
  <2>1. mem' \in [Tags -> Image] /\ pc' \in Stages /\ report' \in Report
    BY <1>0, <1>4, WriteBatchType
  <2>2. pc' # "restore"
    BY <1>4 DEF WriteBatch, Proceed, Fail, Finish
  <2> QED
    BY <1>4, <2>1, <2>2, PageSets DEF Keep, TypeOK, CommonTypeOK, history
<1>c. NextBatch(todo) \subseteq todo /\ NextBatch(todo) \subseteq UserPage
      /\ \A p \in NextBatch(todo) : Wanted[p] \in PageData
  BY <1>a, WantedType, PageSets DEF NextBatch
<1>d. {NdefFirst} \in SUBSET UserPage /\ Wanted[NdefFirst] \in PageData
  BY <1>a, PageSets, WantedType
<1>e. AfterBody(options) \in Stages \ {"restore"} /\ FinalStage(options) \in Stages \ {"restore"}
  BY StageType DEF Stages
<1>f. {"body", "direct"} \subseteq Stages \ {"restore"}
  BY DEF Stages
<1>g. {"invalidate_failed", "body_write_failed", "write_failed", "commit_failed",
       "body_verify_failed", "stopped", "body_mismatch", "verify_failed",
       "bytes_mismatch", "success"} \subseteq Summaries
  BY DEF Summaries
<1>5. CASE Invalidate
  <2> DEFINE data == [p \in {NdefFirst} |-> ZeroPage]
             stage == IF todo \ {NdefFirst} = {} THEN AfterBody(options) ELSE "body"
  <2>1. stage \in Stages \ {"restore"}
    BY <1>e, <1>f
  <2>2. \A p \in {NdefFirst} : data[p] \in PageData
    BY ZeroPageType
  <2>3. WriteBatch({NdefFirst}, data, "invalidate_failed", stage) /\ Keep
        /\ todo' \subseteq NdefPage
    BY <1>5, <1>a DEF Invalidate
  <2> HIDE DEF data, stage
  <2> QED
    BY <2>1, <2>2, <2>3, <1>4, <1>d, <1>g
<1>6. CASE Body
  <2> DEFINE stage == IF todo' = {} THEN AfterBody(options) ELSE "body"
  <2>1. stage \in Stages \ {"restore"}
    BY <1>e, <1>f
  <2>2. WriteBatch(NextBatch(todo), Wanted, "body_write_failed", stage) /\ Keep
        /\ todo' \subseteq NdefPage
    BY <1>6, <1>a DEF Body
  <2> HIDE DEF stage
  <2> QED
    BY <2>1, <2>2, <1>4, <1>c, <1>g
<1>7. CASE Direct
  <2>1. CASE todo = {} /\ Proceed(AfterBody(options)) /\ UNCHANGED mem
    BY <1>7, <2>1, <1>e, <1>a DEF Direct, Keep, Proceed, TypeOK, CommonTypeOK, history
  <2>2. CASE ~ (todo = {} /\ Proceed(AfterBody(options)) /\ UNCHANGED mem)
    <3> DEFINE stage == IF todo' = {} THEN AfterBody(options) ELSE "direct"
    <3>1. stage \in Stages \ {"restore"}
      BY <1>e, <1>f
    <3>2. WriteBatch(NextBatch(todo), Wanted, "write_failed", stage) /\ Keep
          /\ todo' \subseteq NdefPage
      BY <1>7, <2>2, <1>a DEF Direct
    <3> HIDE DEF stage
    <3> QED
      BY <3>1, <3>2, <1>4, <1>c, <1>g
  <2> QED
    BY <2>1, <2>2
<1>8. CASE Restore
  <2>1. \A p \in UserPage : RestoreImage[p] \in PageData
    <3>1. base \in Dump
      BY <1>8 DEF Restore
    <3>2. base.page \in [Page -> PageData]
      BY <3>1 DEF Dump, Image
    <3> QED
      BY <3>2, <1>a, WantedType, PageSets, ZeroPageType DEF RestoreImage
  <2>2. PICK part \in SUBSET UserPage : mem' = Stored(mem, field, part, RestoreImage)
    BY <1>8 DEF Restore, RestorePages, PartlyStored
  <2>3. mem' \in [Tags -> Image]
    BY <1>a, <2>1, <2>2, StoredPages
  <2>4. pc' \in Stages \ {"restore"} /\ report' \in Report
    <3>1. CASE Proceed(AfterBody(options))
      BY <3>1, <1>a, <1>e DEF Proceed
    <3>2. CASE Fail("write_failed")
      BY <3>2, <1>a, <1>g, FailType DEF Fail, Finish
    <3> QED
      BY <1>8, <3>1, <3>2 DEF Restore, RestorePages
  <2> QED
    BY <1>8, <2>3, <2>4 DEF Restore, Keep, TypeOK, CommonTypeOK, history
<1>9. CASE Precommit
  <2>1. pc' \in Stages \ {"restore"} /\ report' \in Report
    <3>1. CASE Fail("body_verify_failed")
      BY <3>1, <1>a, <1>g, FailType DEF Fail, Finish
    <3>2. CASE Finish("stopped") \/ Finish("body_mismatch")
      BY <3>2, <1>a, <1>g, FinishType DEF Finish
    <3>3. CASE Proceed("commit")
      BY <3>3, <1>a DEF Proceed, Stages
    <3> QED
      BY <1>9, <3>1, <3>2, <3>3 DEF Precommit
  <2> QED
    BY <1>9, <2>1 DEF Precommit, Keep, TypeOK, CommonTypeOK, history
<1>10. CASE Commit
  <2>1. WriteBatch({NdefFirst}, Wanted, "commit_failed", FinalStage(options)) /\ Keep
        /\ todo' \subseteq NdefPage
    BY <1>10, <1>a DEF Commit
  <2>2. \A p \in {NdefFirst} : Wanted[p] \in PageData
    BY <1>d
  <2> QED
    BY <2>1, <2>2, <1>4, <1>d, <1>e, <1>g
<1>11. CASE FinalVerify
  <2>1. pc' \in Stages \ {"restore"} /\ report' \in Report
    <3>1. CASE Fail("verify_failed")
      BY <3>1, <1>a, <1>g, FailType DEF Fail, Finish
    <3>2. CASE Finish("stopped")
      BY <3>2, <1>a, <1>g, FinishType DEF Finish
    <3>3. CASE \E passed \in BOOLEAN : Compared(passed, "bytes_mismatch")
      <4>1. PICK passed \in BOOLEAN : Compared(passed, "bytes_mismatch")
        BY <3>3
      <4>2. report' = [report EXCEPT !.after = field,
                         !.summary = IF passed THEN report.summary ELSE "bytes_mismatch"]
        BY <4>1 DEF Compared
      <4>3. report' \in Report
        BY <4>2, <1>a, <1>g DEF Report
      <4>4. pc' \in Stages \ {"restore"}
        BY <4>1 DEF Compared, Stages
      <4> QED
        BY <4>3, <4>4
    <3> QED
      BY <1>11, <3>1, <3>2, <3>3 DEF FinalVerify
  <2> QED
    BY <1>11, <2>1 DEF FinalVerify, Keep, TypeOK, CommonTypeOK, history
<1>12. CASE MarkSuccess
  <2>1. report' = [report EXCEPT !.summary = "success", !.success = TRUE,
                                 !.verified = options.final_verify]
    BY <1>12 DEF MarkSuccess, Succeed
  <2>2. options.final_verify \in BOOLEAN
    BY <1>a, WriteParameters
  <2>3. report' \in Report
    BY <2>1, <2>2, <1>a, <1>g DEF Report
  <2>4. pc' = "done"
    BY <1>12 DEF MarkSuccess, Succeed
  <2> QED
    BY <1>12, <2>3, <2>4 DEF MarkSuccess, Keep, TypeOK, CommonTypeOK, history, Stages
<1>13. CASE Exchange
  <2>1. swaps' \in 0..MaxSwaps
    BY <1>13, <1>a, Parameters DEF Exchange, Swap
  <2> QED
    BY <1>13, <2>1, <1>a DEF Exchange, Swap, TypeOK, CommonTypeOK
<1>14. CASE UNCHANGED vars
  BY <1>14 DEF vars, common, history, TypeOK, CommonTypeOK
<1> QED
  BY <1>1, <1>2, <1>3, <1>5, <1>6, <1>7, <1>8, <1>9, <1>10, <1>11, <1>12, <1>13,
     <1>14 DEF Next, Step

(* Every variable keeps its type: no page of a tag is ever written with    *)
(* anything but four bytes, and no page outside the user area is planned.  *)
THEOREM TypeCorrect == Spec => []TypeOK
<1>1. Spec => []TypeInv
  BY TypeInit, TypeStep, PTL DEF Spec
<1>2. TypeInv => TypeOK
  BY DEF TypeInv
<1> QED
  BY <1>1, <1>2, PTL
-----------------------------------------------------------------------------
(***************************************************************************)
(* What the control flow guarantees: which stages belong to which options, *)
(* which pages are still to be written, and that a report is finished only *)
(* at the end.                                                             *)
(***************************************************************************)
PlanInv ==
  /\ pc = "baseline" => BaselineRequired(options)
  /\ pc \in {"invalidate", "body", "precommit", "commit"} => options.two_phase
  /\ pc \in {"invalidate", "body", "direct"} => Paged
  /\ pc = "restore" => ~ Paged
  /\ pc = "direct" => ~ options.two_phase
  /\ pc = "body" => NdefFirst \notin todo
  /\ pc \in {"invalidate", "body", "direct"} => todo \subseteq TargetPages
  /\ pc \in {"precommit", "commit", "final", "success"} => todo = {}
  /\ pc # "done" => report.summary = "running"
  /\ report.success <=> report.summary = "success"

(* The actions after the plan keep what the plan depends on.               *)
LEMMA KeepPlan ==
  ASSUME UNCHANGED <<options, tlv>>
  PROVE  /\ TargetPages' = TargetPages /\ Wanted' = Wanted
         /\ Paged' = Paged
         /\ AfterBody(options)' = AfterBody(options)
BY DEF TargetPages, PagesCovered, Wanted, PageOf, Paged, AfterBody, FinalStage

(* PlanInv after an action that ends the operation without success.        *)
LEMMA PlanEnds ==
  ASSUME PlanInv, pc # "done", pc' = "done", report'.summary # "success",
         report'.success = report.success
  PROVE  PlanInv'
BY DEF PlanInv

(* ... and after an action that proceeds.                                  *)
LEMMA PlanProceeds ==
  ASSUME PlanInv, pc # "done", UNCHANGED <<options, tlv, report>>,
         pc' = "baseline" => BaselineRequired(options),
         pc' \in {"invalidate", "body", "precommit", "commit"} => options.two_phase,
         pc' \in {"invalidate", "body", "direct"} => Paged,
         pc' = "restore" => ~ Paged,
         pc' = "direct" => ~ options.two_phase,
         pc' = "body" => NdefFirst \notin todo',
         pc' \in {"invalidate", "body", "direct"} => todo' \subseteq TargetPages,
         pc' \in {"precommit", "commit", "final", "success"} => todo' = {}
  PROVE  PlanInv'
<1>1. /\ TargetPages' = TargetPages /\ Paged' = Paged
      /\ BaselineRequired(options)' = BaselineRequired(options)
  BY KeepPlan DEF BaselineRequired
<1> QED
  BY <1>1 DEF PlanInv

(* Where a plan begins depends on the options alone.                       *)
LEMMA FirstStageOf ==
  ASSUME options \in Options
  PROVE  /\ FirstStage(options) \in {"restore", "invalidate", "direct"}
         /\ FirstStage(options) = "invalidate" => options.two_phase
         /\ FirstStage(options) = "direct" => ~ options.two_phase
         /\ FirstStage(options) = "restore" <=> ~ Paged
BY WriteParameters DEF FirstStage, Paged

(* Where the workflow goes on after the body pages.                        *)
LEMMA AfterBodyOf ==
  /\ AfterBody(options) \in {"precommit", "commit", "final", "success"}
  /\ AfterBody(options) \in {"precommit", "commit"} <=> options.two_phase
  /\ FinalStage(options) \in {"final", "success"}
BY DEF AfterBody, FinalStage

(* Nothing is planned before the first operation.                          *)
LEMMA PlanInit == Init => PlanInv
BY DEF Init, CommonInit, PlanInv, NewReport

(* Every action keeps plan and stage consistent (_prepare_write_plan).     *)
LEMMA PlanStep == TypeInv /\ PlanInv /\ [Next]_vars => PlanInv'
<1> SUFFICES ASSUME TypeInv, PlanInv, [Next]_vars PROVE PlanInv'
  OBVIOUS
<1>a. report \in Report /\ options \in Options /\ todo \subseteq NdefPage
  BY DEF TypeInv, TypeOK, CommonTypeOK
<1>b. {"preflight_failed", "ndef_too_large", "backup_failed", "layout_unsafe",
       "uid_mismatch", "invalidate_failed", "body_write_failed", "write_failed",
       "body_verify_failed", "body_mismatch", "commit_failed", "verify_failed",
       "bytes_mismatch", "stopped"} \subseteq Summaries \ {"success"}
  BY DEF Summaries
<1>1. CASE Start
  <2>1. pc' = "preflight" /\ report' = NewReport
    BY <1>1 DEF Start, Begin
  <2> QED
    BY <2>1 DEF PlanInv, NewReport
<1>2. CASE Preflight
  <2>0. pc = "preflight" /\ UNCHANGED <<options, tlv>>
    BY <1>2 DEF Preflight
  <2>1. CASE Fail("preflight_failed") \/ Finish("preflight_failed") \/ Finish("ndef_too_large")
    BY <2>0, <2>1, <1>a, <1>b, FailEnds, FinishEnds, PlanEnds
  <2>2. CASE Proceed("baseline") /\ BaselineRequired(options)
    BY <2>0, <2>2, PlanProceeds DEF Proceed
  <2>3. CASE Proceed(FirstStage(options)) /\ todo' = TargetPages
    BY <2>0, <2>3, <1>a, PlanProceeds, FirstStageOf DEF Proceed
  <2> QED
    BY <1>2, <2>1, <2>2, <2>3 DEF Preflight, PreflightFails
<1>3. CASE Baseline
  <2>0. pc = "baseline" /\ UNCHANGED <<options, tlv>>
    BY <1>3 DEF Baseline
  <2>1. CASE Fail("backup_failed") \/ \E s \in {"stopped", "preflight_failed",
                                         "layout_unsafe", "uid_mismatch"} : Finish(s)
    BY <2>0, <2>1, <1>a, <1>b, FailEnds, FinishEnds, PlanEnds
  <2>2. CASE Proceed(FirstStage(options)) /\ todo' \subseteq NdefPage
    <3>1. TargetPages = NdefPage
      BY <2>0 DEF PlanInv, TargetPages
    <3> QED
      BY <2>0, <2>2, <3>1, <1>a, PlanProceeds, FirstStageOf DEF Proceed
  <2> QED
    BY <1>3, <2>1, <2>2 DEF Baseline
<1>4. CASE Invalidate
  <2>0. /\ pc = "invalidate" /\ UNCHANGED <<options, tlv>>
        /\ todo' = todo \ {NdefFirst}
    BY <1>4 DEF Invalidate, Keep
  <2>1. CASE Fail("invalidate_failed")
    BY <2>0, <2>1, <1>a, <1>b, FailEnds, PlanEnds
  <2>2. CASE Proceed(IF todo \ {NdefFirst} = {} THEN AfterBody(options) ELSE "body")
    <3>1. options.two_phase /\ Paged /\ todo' \subseteq TargetPages
      BY <2>0 DEF PlanInv
    <3>2. CASE pc' = "body"
      BY <2>0, <2>2, <3>1, <3>2, PlanProceeds DEF Proceed
    <3>3. CASE pc' # "body"
      BY <2>0, <2>2, <3>1, <3>3, PlanProceeds, AfterBodyOf DEF Proceed
    <3> QED
      BY <3>2, <3>3
  <2> QED
    BY <1>4, <2>1, <2>2 DEF Invalidate, WriteBatch
<1>5. CASE Body
  <2>0. /\ pc = "body" /\ UNCHANGED <<options, tlv>>
        /\ todo' = todo \ NextBatch(todo)
    BY <1>5 DEF Body, Keep
  <2>1. CASE Fail("body_write_failed")
    BY <2>0, <2>1, <1>a, <1>b, FailEnds, PlanEnds
  <2>2. CASE Proceed(IF todo' = {} THEN AfterBody(options) ELSE "body")
    <3>1. /\ options.two_phase /\ Paged /\ todo' \subseteq TargetPages
          /\ NdefFirst \notin todo'
      BY <2>0 DEF PlanInv
    <3>2. CASE pc' = "body"
      BY <2>0, <2>2, <3>1, <3>2, PlanProceeds DEF Proceed
    <3>3. CASE pc' # "body"
      BY <2>0, <2>2, <3>1, <3>3, PlanProceeds, AfterBodyOf DEF Proceed
    <3> QED
      BY <3>2, <3>3
  <2> QED
    BY <1>5, <2>1, <2>2 DEF Body, WriteBatch
<1>6. CASE Direct
  <2>0. /\ pc = "direct" /\ UNCHANGED <<options, tlv>>
        /\ todo' = todo \ NextBatch(todo)
    BY <1>6 DEF Direct, Keep
  <2>1. CASE Fail("write_failed")
    BY <2>0, <2>1, <1>a, <1>b, FailEnds, PlanEnds
  <2>2. CASE Proceed(IF todo' = {} THEN AfterBody(options) ELSE "direct")
    <3>1. ~ options.two_phase /\ Paged /\ todo' \subseteq TargetPages
      BY <2>0 DEF PlanInv
    <3>2. CASE pc' = "direct"
      BY <2>0, <2>2, <3>1, <3>2, PlanProceeds DEF Proceed
    <3>3. CASE pc' # "direct"
      BY <2>0, <2>2, <3>1, <3>3, PlanProceeds, AfterBodyOf DEF Proceed
    <3> QED
      BY <3>2, <3>3
  <2>3. CASE todo = {} /\ Proceed(AfterBody(options))
    BY <2>0, <2>2, <2>3 DEF Proceed
  <2> QED
    BY <1>6, <2>1, <2>2, <2>3 DEF Direct, WriteBatch
<1>7. CASE Restore
  <2>0. pc = "restore" /\ UNCHANGED <<options, tlv>> /\ todo' = {}
    BY <1>7 DEF Restore, Keep
  <2>1. CASE Fail("write_failed")
    BY <2>0, <2>1, <1>a, <1>b, FailEnds, PlanEnds
  <2>2. CASE Proceed(AfterBody(options))
    BY <2>0, <2>2, PlanProceeds, AfterBodyOf DEF Proceed
  <2> QED
    BY <1>7, <2>1, <2>2 DEF Restore, RestorePages
<1>8. CASE Precommit
  <2>0. pc = "precommit" /\ UNCHANGED <<options, tlv, todo>>
    BY <1>8 DEF Precommit, Keep
  <2>1. CASE Fail("body_verify_failed") \/ Finish("stopped") \/ Finish("body_mismatch")
    BY <2>0, <2>1, <1>a, <1>b, FailEnds, FinishEnds, PlanEnds
  <2>2. CASE Proceed("commit")
    <3>1. options.two_phase /\ todo' = {}
      BY <2>0 DEF PlanInv
    <3> QED
      BY <2>0, <2>2, <3>1, PlanProceeds DEF Proceed
  <2> QED
    BY <1>8, <2>1, <2>2 DEF Precommit
<1>9. CASE Commit
  <2>0. pc = "commit" /\ UNCHANGED <<options, tlv, todo>>
    BY <1>9 DEF Commit, Keep
  <2>1. CASE Fail("commit_failed")
    BY <2>0, <2>1, <1>a, <1>b, FailEnds, PlanEnds
  <2>2. CASE Proceed(FinalStage(options))
    <3>1. todo' = {}
      BY <2>0 DEF PlanInv
    <3> QED
      BY <2>0, <2>2, <3>1, PlanProceeds, AfterBodyOf DEF Proceed
  <2> QED
    BY <1>9, <2>1, <2>2 DEF Commit, WriteBatch
<1>10. CASE FinalVerify
  <2>0. pc = "final" /\ UNCHANGED <<options, tlv, todo>>
    BY <1>10 DEF FinalVerify, Keep
  <2>1. CASE Fail("verify_failed") \/ Finish("stopped")
    BY <2>0, <2>1, <1>a, <1>b, FailEnds, FinishEnds, PlanEnds
  <2>2. ASSUME NEW passed \in BOOLEAN, Compared(passed, "bytes_mismatch")
        PROVE  PlanInv'
    <3>0. todo' = {} /\ report.summary = "running" /\ ~ report.success
      BY <2>0 DEF PlanInv
    <3>1. CASE passed
      <4>1. pc' = "success" /\ report'.summary = "running"
            /\ report'.success = report.success
        BY <2>2, <3>0, <3>1, <1>a DEF Compared, Report
      <4> QED
        BY <2>0, <3>0, <4>1 DEF PlanInv
    <3>2. CASE ~ passed
      <4>1. pc' = "done" /\ report'.summary = "bytes_mismatch"
            /\ report'.success = report.success
        BY <2>2, <3>0, <3>2, <1>a DEF Compared, Report
      <4> QED
        BY <2>0, <4>1, PlanEnds
    <3> QED
      BY <3>1, <3>2
  <2> QED
    BY <1>10, <2>1, <2>2 DEF FinalVerify
<1>11. CASE MarkSuccess
  <2>1. pc' = "done" /\ report'.summary = "success" /\ report'.success = TRUE
    BY <1>11, <1>a DEF MarkSuccess, Succeed, Report
  <2> QED
    BY <2>1 DEF PlanInv
<1>12. CASE Exchange
  <2>1. UNCHANGED <<pc, options, tlv, todo, report>>
    BY <1>12 DEF Exchange, Swap
  <2> QED
    BY <2>1, KeepPlan DEF PlanInv, BaselineRequired
<1>13. CASE UNCHANGED vars
  <2>1. UNCHANGED <<pc, options, tlv, todo, report>>
    BY <1>13 DEF vars, common
  <2> QED
    BY <2>1, KeepPlan DEF PlanInv, BaselineRequired
<1> QED
  BY <1>1, <1>2, <1>3, <1>4, <1>5, <1>6, <1>7, <1>8, <1>9, <1>10, <1>11, <1>12,
     <1>13 DEF Next, Step
-----------------------------------------------------------------------------
(***************************************************************************)
(* What the pages of the tag hold, stage by stage.  Holds(done) says that  *)
(* the pages in `done` carry the new content and all others the old one;   *)
(* HoldsBody says so of all pages but page 4, which is blank.              *)
(***************************************************************************)
Holds(written) ==
  \A p \in Page :
    mem[field][p] = IF p \in written THEN Wanted[p] ELSE orig[field][p]
HoldsBody(written) ==
  /\ mem[field][NdefFirst] = ZeroPage
  /\ \A p \in Page \ {NdefFirst} :
       mem[field][p] = IF p \in written THEN Wanted[p] ELSE orig[field][p]

(* Until the first write no tag has changed; a refusal comes before it.    *)
Refusals == {"preflight_failed", "ndef_too_large", "backup_failed",
             "layout_unsafe", "uid_mismatch"}
UntouchedInv ==
  \/ pc \in {"idle", "preflight", "baseline", "invalidate"}
  \/ report.summary \in Refusals
  => mem = orig

PageInv ==
  Undisturbed =>
    /\ pc = "invalidate" => Holds(TargetPages \ todo)
    /\ pc = "direct" => Holds(TargetPages \ todo)
    /\ Paged /\ pc \in {"body", "precommit", "commit"} =>
         HoldsBody(TargetPages \ todo)
    /\ Paged /\ (pc \in {"final", "success"} \/ report.success) =>
         Holds(TargetPages)
    /\ options.two_phase /\ Paged /\ pc = "done" =>
         \/ mem[field][NdefFirst] = ZeroPage
         \/ \A p \in Page : mem[field][p] = orig[field][p]
         \/ Holds(TargetPages)

-----------------------------------------------------------------------------
(* No tag has been touched before the first operation.                     *)
LEMMA UntouchedInit == Init => UntouchedInv
BY DEF Init, CommonInit, UntouchedInv

(* No action before the first page write touches a tag.                    *)
LEMMA UntouchedStep ==
  TypeInv /\ PlanInv /\ UntouchedInv /\ [Next]_vars => UntouchedInv'
<1> SUFFICES ASSUME TypeInv, PlanInv, UntouchedInv, [Next]_vars PROVE UntouchedInv'
  OBVIOUS
<1> USE DEF UntouchedInv
<1>a. report \in Report
  BY DEF TypeInv, TypeOK, CommonTypeOK
<1>b. pc # "done" => report.summary \notin Refusals
  BY DEF PlanInv, Refusals
<1>c. {"invalidate_failed", "body_write_failed", "write_failed",
       "body_verify_failed", "body_mismatch", "commit_failed", "verify_failed",
       "bytes_mismatch", "stopped"} \subseteq Summaries \ ({"success"} \cup Refusals)
  BY DEF Summaries, Refusals
<1>d. ASSUME NEW s \in Summaries \ ({"success"} \cup Refusals), Fail(s) \/ Finish(s)
      PROVE  UntouchedInv'
  <2>1. pc' = "done" /\ report'.summary \in {s, "cancelled", "stopped"}
    BY <1>a, <1>d, FailEnds, FinishEnds
  <2> QED
    BY <2>1, <1>d DEF Refusals
<1>e. ASSUME pc # "done", UNCHANGED report,
             pc' \notin {"idle", "preflight", "baseline", "invalidate"}
      PROVE  UntouchedInv'
  BY <1>b, <1>e
<1>1. CASE Start
  BY <1>1 DEF Start, Begin, NewReport, Refusals
<1>2. CASE Preflight
  BY <1>2 DEF Preflight, history
<1>3. CASE Baseline
  BY <1>3 DEF Baseline, history
<1>4. CASE Invalidate
  <2>1. \/ Fail("invalidate_failed")
        \/ Proceed(IF todo \ {NdefFirst} = {} THEN AfterBody(options) ELSE "body")
    BY <1>4 DEF Invalidate, WriteBatch
  <2> QED
    BY <2>1, <1>4, <1>c, <1>d, <1>e, AfterBodyOf DEF Invalidate, Proceed
<1>5. CASE Body
  <2>1. \/ Fail("body_write_failed")
        \/ Proceed(IF todo' = {} THEN AfterBody(options) ELSE "body")
    BY <1>5 DEF Body, WriteBatch
  <2> QED
    BY <2>1, <1>5, <1>c, <1>d, <1>e, AfterBodyOf DEF Body, Proceed
<1>6. CASE Direct
  <2>1. \/ Fail("write_failed")
        \/ Proceed(IF todo' = {} THEN AfterBody(options) ELSE "direct")
        \/ Proceed(AfterBody(options))
    BY <1>6 DEF Direct, WriteBatch
  <2> QED
    BY <2>1, <1>6, <1>c, <1>d, <1>e, AfterBodyOf DEF Direct, Proceed
<1>7. CASE Restore
  <2>1. Fail("write_failed") \/ Proceed(AfterBody(options))
    BY <1>7 DEF Restore, RestorePages
  <2> QED
    BY <2>1, <1>7, <1>c, <1>d, <1>e, AfterBodyOf DEF Restore, Proceed
<1>8. CASE Precommit
  <2>1. \/ Fail("body_verify_failed") \/ Finish("stopped")
        \/ Finish("body_mismatch") \/ Proceed("commit")
    BY <1>8 DEF Precommit
  <2> QED
    BY <2>1, <1>8, <1>c, <1>d, <1>e DEF Precommit, Proceed
<1>9. CASE Commit
  <2>1. Fail("commit_failed") \/ Proceed(FinalStage(options))
    BY <1>9 DEF Commit, WriteBatch
  <2> QED
    BY <2>1, <1>9, <1>c, <1>d, <1>e, AfterBodyOf DEF Commit, Proceed
<1>10. CASE FinalVerify
  <2>1. CASE Fail("verify_failed") \/ Finish("stopped")
    BY <2>1, <1>c, <1>d
  <2>2. ASSUME NEW passed \in BOOLEAN, Compared(passed, "bytes_mismatch")
        PROVE  UntouchedInv'
    <3>1. /\ pc' \in {"success", "done"}
          /\ report'.summary \in {report.summary, "bytes_mismatch"}
      BY <2>2, <1>a DEF Compared, Report
    <3> QED
      BY <3>1, <1>10, <1>b DEF FinalVerify, Refusals
  <2> QED
    BY <1>10, <2>1, <2>2 DEF FinalVerify
<1>11. CASE MarkSuccess
  <2>1. pc' = "done" /\ report'.summary = "success"
    BY <1>11, <1>a DEF MarkSuccess, Succeed, Report
  <2> QED
    BY <2>1 DEF Refusals
<1>12. CASE Exchange
  BY <1>12 DEF Exchange, Swap
<1>13. CASE UNCHANGED vars
  BY <1>13 DEF vars, common, history
<1> QED
  BY <1>1, <1>2, <1>3, <1>4, <1>5, <1>6, <1>7, <1>8, <1>9, <1>10, <1>11, <1>12,
     <1>13 DEF Next, Step
-----------------------------------------------------------------------------
(* Page 4 is part of every plan, because no TLV is empty.                  *)
LEMMA CommitPagePlanned ==
  ASSUME tlv \in Messages
  PROVE  NdefFirst \in TargetPages /\ TargetPages \subseteq Page
<1>1. Len(tlv) > 0 /\ Len(tlv) \in Nat
  BY WriteParameters
<1>2. NdefFirst \in PagesCovered(tlv)
  BY <1>1, PageSets DEF PagesCovered, NdefFirst
<1> QED
  BY <1>2, PageSets DEF TargetPages, PagesCovered

(* The invariant of the pages holds before the first operation.            *)
LEMMA PageInit == Init => PageInv
BY DEF Init, CommonInit, PageInv, NewReport

(* Every action keeps the pages as the stage of the write demands: this    *)
(* is where the order invalidate, body, commit matters.                    *)
LEMMA PageStep ==
  TypeInv /\ PlanInv /\ UntouchedInv /\ PageInv /\ [Next]_vars => PageInv'
<1> SUFFICES ASSUME TypeInv, PlanInv, UntouchedInv, PageInv, [Next]_vars,
                    Undisturbed'
             PROVE  PageInv'
  BY DEF PageInv
<1> USE DEF Undisturbed
<1>a. /\ report \in Report /\ options \in Options /\ tlv \in Messages
      /\ todo \subseteq NdefPage /\ field \in Tags /\ mem \in [Tags -> Image]
  BY DEF TypeInv, TypeOK, CommonTypeOK
<1>b. pc # "done" => ~ report.success
  BY DEF PlanInv
<1>c. {"preflight_failed", "ndef_too_large", "backup_failed", "layout_unsafe",
       "uid_mismatch", "invalidate_failed", "body_write_failed", "write_failed",
       "body_verify_failed", "body_mismatch", "commit_failed", "verify_failed",
       "bytes_mismatch", "stopped"} \subseteq Summaries \ {"success"}
  BY DEF Summaries
<1>d. NdefFirst \in TargetPages /\ TargetPages \subseteq Page /\ NdefFirst \in Page
  BY <1>a, CommitPagePlanned
<1>e. ASSUME pc # "done", NEW s \in Summaries \ {"success"}, Fail(s) \/ Finish(s)
      PROVE  pc' = "done" /\ ~ report'.success
  BY <1>a, <1>b, <1>e, FailEnds, FinishEnds
<1>1. CASE Start
  BY <1>1 DEF Start, Begin, PageInv, NewReport
<1>2. CASE Preflight
  <2>0. /\ pc = "preflight" /\ UNCHANGED <<field, mem, options, tlv, orig>>
        /\ mem = orig
    BY <1>2 DEF Preflight, history, UntouchedInv
  <2>1. CASE Fail("preflight_failed") \/ Finish("preflight_failed") \/ Finish("ndef_too_large")
    BY <2>0, <2>1, <1>c, <1>e DEF PageInv
  <2>2. CASE Proceed("baseline")
    BY <2>0, <2>2, <1>b DEF Proceed, PageInv
  <2>3. CASE Proceed(FirstStage(options)) /\ todo' = TargetPages
    <3>1. pc' \in {"restore", "invalidate", "direct"} /\ ~ report'.success
      BY <2>0, <2>3, <1>a, <1>b, FirstStageOf DEF Proceed
    <3>2. Holds(TargetPages \ todo)'
      BY <2>0, <2>3, KeepPlan DEF Holds
    <3> QED
      BY <3>1, <3>2 DEF PageInv
  <2> QED
    BY <1>2, <2>1, <2>2, <2>3 DEF Preflight, PreflightFails
<1>3. CASE Baseline
  <2>0. /\ pc = "baseline" /\ UNCHANGED <<field, mem, options, tlv, orig>>
        /\ mem = orig
    BY <1>3 DEF Baseline, history, UntouchedInv
  <2>1. CASE Fail("backup_failed") \/ \E s \in {"stopped", "preflight_failed",
                                         "layout_unsafe", "uid_mismatch"} : Finish(s)
    BY <2>0, <2>1, <1>c, <1>e DEF PageInv
  <2>2. CASE /\ Proceed(FirstStage(options))
             /\ todo' = {p \in NdefPage : DumpNow.page[p] # Wanted[p]}
    <3>1. pc' \in {"restore", "invalidate", "direct"} /\ ~ report'.success
      BY <2>0, <2>2, <1>a, <1>b, FirstStageOf DEF Proceed
    <3>2. TargetPages = NdefPage
      BY <2>0 DEF PlanInv, TargetPages
    <3>3. \A p \in TargetPages \ todo' : mem[field][p] = Wanted[p]
      BY <2>2, <3>2 DEF DumpNow
    <3>4. Holds(TargetPages \ todo)'
      BY <2>0, <3>3, KeepPlan DEF Holds
    <3> QED
      BY <3>1, <3>4 DEF PageInv
  <2> QED
    BY <1>3, <2>1, <2>2 DEF Baseline
<1>4. CASE Invalidate
  <2> DEFINE blank == [p \in {NdefFirst} |-> ZeroPage]
  <2>0. /\ pc = "invalidate" /\ UNCHANGED <<field, options, tlv, orig>>
        /\ todo' = todo \ {NdefFirst} /\ options.two_phase
        /\ mem = orig /\ Holds(TargetPages \ todo)
    BY <1>4 DEF Invalidate, Keep, history, UntouchedInv, PageInv, PlanInv
  <2>1. CASE /\ mem' = Stored(mem, field, {NdefFirst}, blank)
             /\ Proceed(IF todo \ {NdefFirst} = {} THEN AfterBody(options) ELSE "body")
    <3>1. \A p \in Page : mem'[field][p] = IF p = NdefFirst THEN ZeroPage ELSE mem[field][p]
      BY <2>1, <1>a, StoredPages, ZeroPageType
    <3>2. HoldsBody(TargetPages \ todo)'
      BY <2>0, <3>1, <1>d, KeepPlan DEF Holds, HoldsBody
    <3>3. pc' \in {"body", "precommit", "commit"} /\ ~ report'.success
      BY <2>0, <2>1, <1>b, AfterBodyOf DEF Proceed
    <3> QED
      BY <3>2, <3>3 DEF PageInv
  <2>2. CASE PartlyStored({NdefFirst}, blank) /\ Fail("invalidate_failed")
    <3>1. PICK part \in SUBSET {NdefFirst} : mem' = Stored(mem, field, part, blank)
      BY <2>2 DEF PartlyStored
    <3>2. \A p \in Page : mem'[field][p] = IF p \in part THEN ZeroPage ELSE mem[field][p]
      BY <3>1, <1>a, StoredPages, ZeroPageType
    <3>3. \/ mem'[field][NdefFirst] = ZeroPage
          \/ \A p \in Page : mem'[field][p] = orig[field][p]
      BY <2>0, <3>2, <1>d
    <3>4. pc' = "done" /\ ~ report'.success
      BY <2>0, <2>2, <1>c, <1>e
    <3> QED
      BY <2>0, <3>3, <3>4 DEF PageInv
  <2> QED
    BY <1>4, <2>1, <2>2 DEF Invalidate, WriteBatch
<1>f. /\ NextBatch(todo) \subseteq todo
      /\ \A p \in NextBatch(todo) : Wanted[p] \in PageData
  BY <1>a, WantedType DEF NextBatch
<1>5. CASE Body
  <2>0. /\ pc = "body" /\ UNCHANGED <<field, options, tlv, orig>> /\ swaps = 0
        /\ todo' = todo \ NextBatch(todo)
    BY <1>5 DEF Body, Keep, history
  <2>1. options.two_phase /\ Paged /\ NdefFirst \notin todo /\ todo \subseteq TargetPages
    BY <2>0 DEF PlanInv
  <2>2. HoldsBody(TargetPages \ todo)
    BY <2>0, <2>1 DEF PageInv
  <2>3. CASE /\ mem' = Stored(mem, field, NextBatch(todo), Wanted)
             /\ Proceed(IF todo' = {} THEN AfterBody(options) ELSE "body")
    <3>1. \A p \in Page : mem'[field][p] =
             IF p \in NextBatch(todo) THEN Wanted[p] ELSE mem[field][p]
      BY <2>3, <1>a, <1>f, StoredPages
    <3>2. HoldsBody(TargetPages \ todo)'
      BY <2>0, <2>1, <2>2, <3>1, <1>d, <1>f, KeepPlan DEF HoldsBody
    <3>3. pc' \in {"body", "precommit", "commit"} /\ ~ report'.success
      BY <2>0, <2>1, <2>3, <1>b, AfterBodyOf DEF Proceed
    <3> QED
      BY <3>2, <3>3 DEF PageInv
  <2>4. CASE PartlyStored(NextBatch(todo), Wanted) /\ Fail("body_write_failed")
    <3>1. PICK part \in SUBSET NextBatch(todo) : mem' = Stored(mem, field, part, Wanted)
      BY <2>4 DEF PartlyStored
    <3>2. mem'[field][NdefFirst] = ZeroPage
      BY <2>1, <2>2, <3>1, <1>a, <1>d, <1>f, StoredPages DEF HoldsBody
    <3>3. pc' = "done" /\ ~ report'.success
      BY <2>0, <2>4, <1>c, <1>e
    <3> QED
      BY <2>0, <3>2, <3>3 DEF PageInv
  <2> QED
    BY <1>5, <2>3, <2>4 DEF Body, WriteBatch
<1>6. CASE Direct
  <2>0. /\ pc = "direct" /\ UNCHANGED <<field, options, tlv, orig>> /\ swaps = 0
        /\ todo' = todo \ NextBatch(todo)
    BY <1>6 DEF Direct, Keep, history
  <2>1. ~ options.two_phase /\ todo \subseteq TargetPages
    BY <2>0 DEF PlanInv
  <2>2. Holds(TargetPages \ todo)
    BY <2>0 DEF PageInv
  <2>3. CASE todo = {} /\ Proceed(AfterBody(options)) /\ UNCHANGED mem
    <3>1. Holds(TargetPages)'
      BY <2>0, <2>2, <2>3, KeepPlan DEF Holds
    <3>2. pc' \in {"final", "success"}
      BY <2>1, <2>3, AfterBodyOf DEF Proceed
    <3> QED
      BY <3>1, <3>2 DEF PageInv
  <2>4. CASE /\ mem' = Stored(mem, field, NextBatch(todo), Wanted)
             /\ Proceed(IF todo' = {} THEN AfterBody(options) ELSE "direct")
    <3>1. \A p \in Page : mem'[field][p] =
             IF p \in NextBatch(todo) THEN Wanted[p] ELSE mem[field][p]
      BY <2>4, <1>a, <1>f, StoredPages
    <3>2. Holds(TargetPages \ todo)'
      BY <2>0, <2>1, <2>2, <3>1, <1>d, <1>f, KeepPlan DEF Holds
    <3>3. todo' = {} => Holds(TargetPages)'
      BY <3>2 DEF Holds
    <3>4. /\ pc' \in {"direct", "final", "success"} /\ ~ report'.success
          /\ pc' # "direct" => todo' = {}
      BY <2>0, <2>1, <2>4, <1>b, AfterBodyOf DEF Proceed
    <3> QED
      BY <3>2, <3>3, <3>4 DEF PageInv
  <2>5. CASE Fail("write_failed")
    <3>1. pc' = "done" /\ ~ report'.success
      BY <2>0, <2>5, <1>c, <1>e
    <3> QED
      BY <2>0, <2>1, <3>1 DEF PageInv
  <2> QED
    BY <1>6, <2>3, <2>4, <2>5 DEF Direct, WriteBatch
<1>7. CASE Restore
  <2>1. ~ Paged'
    <3>1. ~ Paged
      BY <1>7 DEF Restore, PlanInv
    <3> QED
      BY <1>7, <3>1 DEF Restore, Keep, Paged
  <2>2. pc' \notin {"invalidate", "direct"}
    BY <1>7, AfterBodyOf DEF Restore, RestorePages, Proceed, Fail, Finish
  <2> QED
    BY <2>1, <2>2 DEF PageInv
<1>8. CASE Precommit
  <2>0. /\ pc = "precommit" /\ UNCHANGED <<field, mem, options, tlv, orig, todo>>
        /\ swaps = 0
    BY <1>8 DEF Precommit, Keep, history
  <2>1. Paged => HoldsBody(TargetPages \ todo)
    BY <2>0 DEF PageInv
  <2>2. (Paged => HoldsBody(TargetPages \ todo))'
    BY <2>0, <2>1, KeepPlan DEF HoldsBody
  <2>3. \/ pc' = "done" /\ ~ report'.success
        \/ pc' = "commit" /\ ~ report'.success
    BY <1>8, <2>0, <1>b, <1>c, <1>e DEF Precommit, Proceed
  <2> QED
    BY <2>2, <2>3 DEF PageInv, HoldsBody
<1>9. CASE Commit
  <2>0. /\ pc = "commit" /\ UNCHANGED <<field, options, tlv, orig, todo>>
        /\ swaps = 0 /\ todo = {}
    BY <1>9 DEF Commit, Keep, history, PlanInv
  <2>1. Paged => HoldsBody(TargetPages)
    <3>1. Paged => HoldsBody(TargetPages \ todo)
      BY <2>0 DEF PageInv
    <3> QED
      BY <2>0, <3>1 DEF HoldsBody
  <2>2. Wanted[NdefFirst] \in PageData
    BY <1>a, WantedType, PageSets
  <2>3. CASE mem' = Stored(mem, field, {NdefFirst}, Wanted) /\ Proceed(FinalStage(options))
    <3>1. \A p \in Page : mem'[field][p] = IF p = NdefFirst THEN Wanted[p] ELSE mem[field][p]
      BY <2>2, <2>3, <1>a, StoredPages
    <3>2. (Paged => Holds(TargetPages))'
      BY <2>0, <2>1, <3>1, <1>d, KeepPlan DEF Holds, HoldsBody
    <3>3. pc' \in {"final", "success"} /\ ~ report'.success
      BY <2>0, <2>3, <1>b, AfterBodyOf DEF Proceed
    <3> QED
      BY <3>2, <3>3 DEF PageInv
  <2>4. CASE PartlyStored({NdefFirst}, Wanted) /\ Fail("commit_failed")
    <3>1. PICK part \in SUBSET {NdefFirst} : mem' = Stored(mem, field, part, Wanted)
      BY <2>4 DEF PartlyStored
    <3>2. \A p \in Page : mem'[field][p] = IF p \in part THEN Wanted[p] ELSE mem[field][p]
      BY <2>2, <3>1, <1>a, StoredPages
    <3>3. (Paged => (mem[field][NdefFirst] = ZeroPage \/ Holds(TargetPages)))'
      BY <2>0, <2>1, <3>2, <1>d, KeepPlan DEF Holds, HoldsBody
    <3>4. pc' = "done" /\ ~ report'.success
      BY <2>0, <2>4, <1>c, <1>e
    <3> QED
      BY <3>3, <3>4 DEF PageInv
  <2> QED
    BY <1>9, <2>3, <2>4 DEF Commit, WriteBatch
<1>10. CASE FinalVerify
  <2>0. /\ pc = "final" /\ UNCHANGED <<field, mem, options, tlv, orig>> /\ swaps = 0
    BY <1>10 DEF FinalVerify, Keep, history
  <2>1. (Paged => Holds(TargetPages))'
    <3>1. Paged => Holds(TargetPages)
      BY <2>0 DEF PageInv
    <3> QED
      BY <2>0, <3>1, KeepPlan DEF Holds
  <2>2. pc' \in {"success", "done"}
    BY <1>10, <2>0, <1>c, <1>e DEF FinalVerify, Compared
  <2> QED
    BY <2>1, <2>2 DEF PageInv
<1>11. CASE MarkSuccess
  <2>0. /\ pc = "success" /\ UNCHANGED <<field, mem, options, tlv, orig>> /\ swaps = 0
        /\ pc' = "done"
    BY <1>11 DEF MarkSuccess, Succeed, Keep, history
  <2>1. Paged => Holds(TargetPages)
    BY <2>0 DEF PageInv
  <2>2. (Paged => Holds(TargetPages))'
    BY <2>0, <2>1, KeepPlan DEF Holds
  <2> QED
    BY <2>0, <2>2 DEF PageInv
<1>12. CASE Exchange
  <2>1. swaps' = swaps + 1 /\ swaps \in Nat
    BY <1>12, Parameters DEF Exchange, Swap, TypeInv, TypeOK, CommonTypeOK
  <2> QED
    BY <2>1
<1>13. CASE UNCHANGED vars
  <2>1. UNCHANGED <<field, mem, pc, options, tlv, todo, report, orig, swaps>>
    BY <1>13 DEF vars, common, history
  <2> QED
    BY <2>1, KeepPlan DEF PageInv, Holds, HoldsBody
<1> QED
  BY <1>1, <1>2, <1>3, <1>4, <1>5, <1>6, <1>7, <1>8, <1>9, <1>10, <1>11, <1>12,
     <1>13 DEF Next, Step
-----------------------------------------------------------------------------
(* The backup, when one is due, is in the directory from the end of the    *)
(* baseline on.                                                            *)
Backup == [uid |-> field, page |-> orig[field]]
BackupInv ==
  Undisturbed /\ BackupDue(orig[field]) =>
    /\ pc \in {"restore", "invalidate", "body", "direct", "precommit", "commit",
               "final", "success"} => Backup \in saved
    /\ mem[field] # orig[field] => Backup \in saved

(* The backup invariant holds before the first operation.                  *)
LEMMA BackupInit == Init => BackupInv
BY DEF Init, CommonInit, BackupInv

(* Once the plan exists, the backup that is due does too.                  *)
LEMMA BackupStep ==
  TypeInv /\ UntouchedInv /\ BackupInv /\ [Next]_vars => BackupInv'
<1> SUFFICES ASSUME TypeInv, UntouchedInv, BackupInv, [Next]_vars, Undisturbed',
                    BackupDue(orig[field])'
             PROVE  BackupInv'
  BY DEF BackupInv
<1> USE DEF Undisturbed
<1>a. swaps \in Nat /\ options \in Options
  BY Parameters DEF TypeInv, TypeOK, CommonTypeOK
<1>b. ASSUME UNCHANGED <<field, options, orig>>
      PROVE  Backup' = Backup /\ BackupDue(orig[field])
  BY <1>b DEF Backup, BackupDue, NotEmpty
<1>1. CASE Start
  BY <1>1 DEF Start, Begin, BackupInv
<1>2. CASE Preflight
  <2>0. /\ pc = "preflight" /\ UNCHANGED <<field, mem, options, orig, saved>>
        /\ mem = orig
    BY <1>2 DEF Preflight, history, UntouchedInv
  <2>1. options.backup
    BY <2>0, <1>b DEF BackupDue
  <2>2. pc' \in {"done", "baseline"}
    BY <1>2, <2>1 DEF Preflight, PreflightFails, Fail, Finish, Proceed, BaselineRequired
  <2> QED
    BY <2>0, <2>2 DEF BackupInv
<1>3. CASE Baseline
  <2>0. /\ pc = "baseline" /\ UNCHANGED <<field, mem, options, orig>> /\ mem = orig
    BY <1>3 DEF Baseline, history, UntouchedInv
  <2>1. BackupDue(orig[field]) /\ Backup' = Backup
    BY <2>0, <1>b
  <2>2. DumpNow = Backup /\ DumpNow.page = orig[field]
    BY <2>0 DEF DumpNow, Backup
  <2>3. \/ pc' = "done"
        \/ saved' = saved \cup {DumpNow}
    BY <1>3, <2>1, <2>2 DEF Baseline, SaveBaseline, Fail, Finish
  <2> QED
    BY <2>0, <2>1, <2>2, <2>3 DEF BackupInv
<1>4. CASE Invalidate \/ Body \/ Direct \/ Restore \/ Precommit \/ Commit \/ FinalVerify
           \/ MarkSuccess
  <2>1. /\ pc \in {"restore", "invalidate", "body", "direct", "precommit", "commit",
                   "final", "success"}
        /\ UNCHANGED <<field, options, orig, saved>> /\ swaps = 0
    BY <1>4 DEF Invalidate, Body, Direct, Restore, Precommit, Commit, FinalVerify,
                MarkSuccess, Keep, history
  <2>2. Backup \in saved /\ Backup' = Backup
    BY <2>1, <1>b DEF BackupInv
  <2> QED
    BY <2>1, <2>2 DEF BackupInv
<1>5. CASE Exchange
  BY <1>5, <1>a DEF Exchange, Swap
<1>6. CASE UNCHANGED vars
  <2>1. UNCHANGED <<field, mem, pc, options, saved, orig, swaps>>
    BY <1>6 DEF vars, common, history
  <2> QED
    BY <2>1, <1>b DEF BackupInv
<1> QED
  BY <1>1, <1>2, <1>3, <1>4, <1>5, <1>6 DEF Next, Step

-----------------------------------------------------------------------------
Inv == TypeInv /\ PlanInv /\ UntouchedInv /\ PageInv /\ BackupInv

(* The inductive invariant holds of every run of the workflow.             *)
THEOREM Invariant == Spec => []Inv
<1>1. Init => Inv
  BY TypeInit, PlanInit, UntouchedInit, PageInit, BackupInit DEF Inv
<1>2. Inv /\ [Next]_vars => Inv'
  BY TypeStep, PlanStep, UntouchedStep, PageStep, BackupStep DEF Inv
<1> QED
  BY <1>1, <1>2, PTL DEF Spec

(* Holding the new content on the planned pages is being the target image. *)
LEMMA HoldsIsTarget ==
  ASSUME TypeInv, Holds(TargetPages)
  PROVE  mem[field] = Target(orig[field])
<1>1. mem[field] = [p \in Page |-> mem[field][p]]
  BY DEF TypeInv, TypeOK, CommonTypeOK, Image
<1> QED
  BY <1>1 DEF Holds, Target

(* Two images of a tag that agree on every page are one image.             *)
LEMMA SamePages ==
  ASSUME TypeInv, \A p \in Page : mem[field][p] = orig[field][p]
  PROVE  mem[field] = orig[field]
<1>1. mem[field] = [p \in Page |-> mem[field][p]] /\ orig[field] = [p \in Page |-> orig[field][p]]
  BY DEF TypeInv, TypeOK, CommonTypeOK, Image
<1> QED
  BY <1>1

(* At every moment of a two-phase page write the tag is blank, or as it    *)
(* was, or completely written, however many pages it takes, in batches of  *)
(* whatever size, and wherever it fails.                                   *)
THEOREM Atomicity == Spec => []CommitIsLast
<1>1. Inv => CommitIsLast
  <2> SUFFICES ASSUME Inv, options.two_phase, Paged, Undisturbed
               PROVE  \/ mem[field][NdefFirst] = ZeroPage
                      \/ mem[field] = orig[field]
                      \/ mem[field] = Target(orig[field])
    BY DEF CommitIsLast
  <2> USE DEF Inv
  <2>0. pc \in Stages
    BY DEF TypeInv, TypeOK, CommonTypeOK
  <2>1. CASE pc \in {"preflight", "baseline", "invalidate"}
    BY <2>1 DEF UntouchedInv
  <2>2. CASE pc \in {"body", "precommit", "commit"}
    BY <2>2 DEF PageInv, HoldsBody
  <2>3. CASE pc \in {"final", "success"}
    BY <2>3, HoldsIsTarget DEF PageInv
  <2>4. CASE pc = "done"
    BY <2>4, HoldsIsTarget, SamePages DEF PageInv
  <2>5. CASE pc \in {"direct", "restore"}
    BY <2>5 DEF PlanInv
  <2>6. CASE pc = "idle"
    BY <2>6 DEF UntouchedInv
  <2> QED
    BY <2>0, <2>1, <2>2, <2>3, <2>4, <2>5, <2>6 DEF Stages
<1> QED
  BY <1>1, Invariant, PTL

(* Nothing is written before the backup that is due has been saved.        *)
THEOREM BackupFirst == Spec => []BackupBeforeWrite
<1>1. Inv => BackupBeforeWrite
  BY DEF Inv, BackupInv, BackupBeforeWrite, Backup
<1> QED
  BY <1>1, Invariant, PTL

(* A success by page writes is the target image, with or without readback. *)
THEOREM SuccessCorrect == Spec => []SuccessIsWritten
<1>1. Inv => SuccessIsWritten
  BY HoldsIsTarget DEF Inv, PageInv, SuccessIsWritten
<1> QED
  BY <1>1, Invariant, PTL

(* A refusal has written nothing to any tag, exchanged or not.             *)
THEOREM RefusalCorrect == Spec => []RefusalWroteNothing
<1>1. Inv => RefusalWroteNothing
  BY DEF Inv, UntouchedInv, RefusalWroteNothing, Refusals
<1> QED
  BY <1>1, Invariant, PTL

-----------------------------------------------------------------------------
(***************************************************************************)
(* What the report says of the tags: its failure texts, its verified       *)
(* success, and that only the NDEF area is written.                        *)
(***************************************************************************)
Failing == {"invalidate_failed", "body_write_failed", "write_failed", "commit_failed",
            "body_verify_failed", "body_mismatch", "verify_failed", "bytes_mismatch",
            "backup_failed", "preflight_failed", "layout_unsafe", "uid_mismatch",
            "ndef_too_large", "stopped"}

(* No failure is called a success.                                         *)
LEMMA FailingSummaries == Failing \subseteq Summaries \ {"success"}
BY DEF Failing, Summaries

(***************************************************************************)
(* The texts of _execute_two_phase_body and _verify_precommit.             *)
(***************************************************************************)
BodyFailures == {"body_write_failed", "body_verify_failed", "body_mismatch"}

(* No text has been chosen before the first operation.                     *)
LEMMA FailureInit == Init => FailureTextIsTrue
BY DEF Init, CommonInit, NewReport, FailureTextIsTrue

(* An action whose report says neither text keeps the property.            *)
LEMMA OtherText ==
  ASSUME report'.summary \notin {"invalidate_failed"} \cup BodyFailures
  PROVE  FailureTextIsTrue'
BY DEF FailureTextIsTrue, BodyFailures

(* A failed invalidation has touched page 4 alone, and from then on a      *)
(* failed body write or readback finds page 4 blank.                       *)
LEMMA FailureStep == Inv /\ Inv' /\ FailureTextIsTrue /\ [Next]_vars => FailureTextIsTrue'
<1> SUFFICES ASSUME Inv, Inv', FailureTextIsTrue, [Next]_vars PROVE FailureTextIsTrue'
  OBVIOUS
<1>a. /\ report \in Report /\ options \in Options /\ tlv \in Messages
      /\ todo \subseteq NdefPage /\ field \in Tags /\ mem \in [Tags -> Image]
  BY DEF Inv, TypeInv, TypeOK, CommonTypeOK
<1>b. pc' # "done" => FailureTextIsTrue'
  <2>1. pc' # "done" => report'.summary = "running"
    BY DEF Inv, PlanInv
  <2> QED
    BY <2>1, OtherText DEF BodyFailures
<1>c. ASSUME NEW s \in Failing \ ({"invalidate_failed"} \cup BodyFailures),
             Fail(s) \/ Finish(s)
      PROVE  FailureTextIsTrue'
  <2>1. report'.summary \in {s, "cancelled", "stopped"}
    BY <1>a, <1>c, EndOf, FailingSummaries
  <2> QED
    BY <2>1, <1>c, OtherText DEF BodyFailures
<1>d. ASSUME NEW s \in BodyFailures, Fail(s) \/ Finish(s),
             Paged' /\ Undisturbed' => mem'[field'][NdefFirst] = ZeroPage
      PROVE  FailureTextIsTrue'
  <2>1. report'.summary \in {s, "cancelled", "stopped"}
    BY <1>a, <1>d, EndOf, FailingSummaries DEF BodyFailures, Failing
  <2>2. report'.summary # "invalidate_failed"
    BY <2>1, <1>d DEF BodyFailures
  <2> QED
    BY <2>2, <1>d DEF FailureTextIsTrue
<1>1. CASE Start
  BY <1>1, <1>b DEF Start, Begin
<1>2. CASE Preflight
  <2>1. \/ pc' # "done"
        \/ \E s \in {"preflight_failed", "ndef_too_large"} : Fail(s) \/ Finish(s)
    BY <1>2, <1>a, FirstStageOf DEF Preflight, PreflightFails, Proceed
  <2> QED
    BY <2>1, <1>b, <1>c DEF Failing, BodyFailures
<1>3. CASE Baseline
  <2>1. \/ pc' # "done"
        \/ \E s \in {"backup_failed", "stopped", "preflight_failed", "layout_unsafe",
                     "uid_mismatch"} : Fail(s) \/ Finish(s)
    BY <1>3, <1>a, FirstStageOf DEF Baseline, Proceed
  <2> QED
    BY <2>1, <1>b, <1>c DEF Failing, BodyFailures
<1>4. CASE Invalidate
  <2> DEFINE blank == [p \in {NdefFirst} |-> ZeroPage]
  <2>0. mem = orig /\ pc = "invalidate" /\ UNCHANGED <<field, orig>>
    BY <1>4 DEF Invalidate, Keep, history, Inv, UntouchedInv
  <2>1. CASE Proceed(IF todo \ {NdefFirst} = {} THEN AfterBody(options) ELSE "body")
    BY <2>1, <1>b, AfterBodyOf DEF Proceed
  <2>2. CASE PartlyStored({NdefFirst}, blank) /\ Fail("invalidate_failed")
    <3>1. PICK part \in SUBSET {NdefFirst} : mem' = Stored(mem, field, part, blank)
      BY <2>2 DEF PartlyStored
    <3>2. \A p \in Page : mem'[field][p] = IF p \in part THEN blank[p] ELSE mem[field][p]
      BY <3>1, <1>a, StoredPages, ZeroPageType
    <3>3. \A p \in Page \ {NdefFirst} : mem'[field'][p] = orig'[field'][p]
      BY <2>0, <3>1, <3>2
    <3>4. report'.summary \in {"invalidate_failed", "cancelled", "stopped"}
      BY <2>2, <1>a, EndOf DEF Summaries
    <3> QED
      BY <3>3, <3>4 DEF FailureTextIsTrue
  <2> QED
    BY <1>4, <2>1, <2>2 DEF Invalidate, WriteBatch
<1>5. CASE Body
  <2>0. /\ pc = "body" /\ UNCHANGED <<field, options, swaps>>
        /\ NdefFirst \notin NextBatch(todo) /\ NdefFirst \in Page
        /\ \A p \in NextBatch(todo) : Wanted[p] \in PageData
    BY <1>5, <1>a, WantedType, PageSets DEF Body, Keep, history, NextBatch, Inv, PlanInv
  <2>1. CASE Proceed(IF todo' = {} THEN AfterBody(options) ELSE "body")
    BY <2>1, <1>b, AfterBodyOf DEF Proceed
  <2>2. CASE PartlyStored(NextBatch(todo), Wanted) /\ Fail("body_write_failed")
    <3>1. PICK part \in SUBSET NextBatch(todo) : mem' = Stored(mem, field, part, Wanted)
      BY <2>2 DEF PartlyStored
    <3>2. mem'[field][NdefFirst] = mem[field][NdefFirst]
      BY <3>1, <2>0, <1>a, StoredPages
    <3>3. Paged /\ Undisturbed => mem[field][NdefFirst] = ZeroPage
      BY <2>0 DEF Inv, PageInv, HoldsBody
    <3>4. Paged' /\ Undisturbed' => mem'[field'][NdefFirst] = ZeroPage
      BY <2>0, <3>2, <3>3 DEF Paged, Undisturbed
    <3> QED
      BY <2>2, <3>4, <1>d DEF BodyFailures
  <2> QED
    BY <1>5, <2>1, <2>2 DEF Body, WriteBatch
<1>6. CASE Direct
  <2>1. pc' # "done" \/ Fail("write_failed")
    BY <1>6, AfterBodyOf DEF Direct, WriteBatch, Proceed
  <2> QED
    BY <2>1, <1>b, <1>c DEF Failing, BodyFailures
<1>7. CASE Restore
  <2>1. pc' # "done" \/ Fail("write_failed")
    BY <1>7, AfterBodyOf DEF Restore, RestorePages, Proceed
  <2> QED
    BY <2>1, <1>b, <1>c DEF Failing, BodyFailures
<1>8. CASE Precommit
  <2>0. pc = "precommit" /\ UNCHANGED <<field, mem, options, swaps>>
    BY <1>8 DEF Precommit, Keep, history
  <2>1. Paged' /\ Undisturbed' => mem'[field'][NdefFirst] = ZeroPage
    <3>1. Paged /\ Undisturbed => mem[field][NdefFirst] = ZeroPage
      BY <2>0 DEF Inv, PageInv, HoldsBody
    <3> QED
      BY <2>0, <3>1 DEF Paged, Undisturbed
  <2>2. \/ pc' # "done"
        \/ Finish("stopped")
        \/ \E s \in BodyFailures : Fail(s) \/ Finish(s)
    BY <1>8 DEF Precommit, Proceed, BodyFailures
  <2>3. CASE Finish("stopped")
    BY <2>3, <1>c DEF Failing, BodyFailures
  <2> QED
    BY <2>1, <2>2, <2>3, <1>b, <1>d
<1>9. CASE Commit
  <2>1. pc' # "done" \/ Fail("commit_failed")
    BY <1>9, AfterBodyOf DEF Commit, WriteBatch, Proceed
  <2> QED
    BY <2>1, <1>b, <1>c DEF Failing, BodyFailures
<1>10. CASE FinalVerify
  <2>1. CASE Fail("verify_failed") \/ Finish("stopped")
    BY <2>1, <1>c DEF Failing, BodyFailures
  <2>2. ASSUME NEW passed \in BOOLEAN, Compared(passed, "bytes_mismatch")
        PROVE  FailureTextIsTrue'
    <3>1. pc' = "done" => report'.summary = "bytes_mismatch"
      BY <2>2, <1>a DEF Compared, Report
    <3> QED
      BY <3>1, <1>b, OtherText DEF BodyFailures
  <2> QED
    BY <1>10, <2>1, <2>2 DEF FinalVerify
<1>11. CASE MarkSuccess
  <2>1. report'.summary = "success"
    BY <1>11, <1>a DEF MarkSuccess, Succeed, Report
  <2> QED
    BY <2>1, OtherText DEF BodyFailures
<1>12. CASE Exchange
  <2>1. pc' # "done"
    BY <1>12 DEF Exchange, Swap
  <2> QED
    BY <2>1, <1>b
<1>13. CASE UNCHANGED vars
  BY <1>13 DEF vars, common, history, FailureTextIsTrue, Paged, Undisturbed
<1> QED
  BY <1>1, <1>2, <1>3, <1>4, <1>5, <1>6, <1>7, <1>8, <1>9, <1>10, <1>11, <1>12,
     <1>13 DEF Next, Step

(* The texts "No other pages were changed" and "Page 4 remains             *)
(* invalidated" are right, wherever a page write breaks off.               *)
THEOREM FailureTextCorrect == Spec => []FailureTextIsTrue
<1>1. Init => Inv /\ FailureTextIsTrue
  BY FailureInit, TypeInit, PlanInit, UntouchedInit, PageInit, BackupInit DEF Inv
<1>2. Inv /\ [Next]_vars => Inv'
  BY TypeStep, PlanStep, UntouchedStep, PageStep, BackupStep DEF Inv
<1>3. Inv /\ FailureTextIsTrue /\ [Next]_vars => (Inv /\ FailureTextIsTrue)'
  BY <1>2, FailureStep
<1> QED
  BY <1>1, <1>3, PTL DEF Spec
-----------------------------------------------------------------------------
(***************************************************************************)
(* What the workflow has read by when: the size of the message after the   *)
(* preflight, the baseline before the plan that needs it.  The baseline is *)
(* what its tag held when the operation began, and with the stability      *)
(* check its tag has the preflight's UID, unless the preflight saw none.   *)
(***************************************************************************)
AfterPlan == {"restore", "invalidate", "body", "direct", "precommit", "commit",
              "final", "success"}
ReadInv ==
  /\ pc = "restore" => mem = orig
  /\ base # NoDump =>
       /\ base.page = orig[base.uid]
       /\ Undisturbed => base.uid = field
  /\ pc \in AfterPlan \cup {"baseline"} => Len(tlv) <= Capacity
  /\ pc \in AfterPlan /\ BaselineRequired(options) =>
       /\ base # NoDump
       /\ options.target_stability => uid \in {NoTag, base.uid}
  /\ pc # "done" => ~ report.verified

(* The length of a message is a number.                                    *)
LEMMA LengthIsInt == Inv => Len(tlv) \in Nat /\ Capacity \in Int
BY WriteParameters, Geometry DEF Inv, TypeInv, TypeOK, Capacity, NdefFirst

(* Nothing has been read before the first operation.                       *)
LEMMA ReadInit == Init => ReadInv
BY DEF Init, CommonInit, ReadInv, NewReport, AfterPlan

(* A stage of the plan, and the end it may come to, keep what was read.    *)
LEMMA ReadKept ==
  ASSUME ReadInv, pc \in AfterPlan, Keep,
         pc' \in (AfterPlan \ {"restore"}) \cup {"done"},
         pc' # "done" => report'.verified = report.verified
  PROVE  ReadInv'
<1>1. UNCHANGED <<field, options, uid, base, tlv, orig, swaps>>
  BY DEF Keep, history
<1>2. pc # "done" /\ pc' # "restore" /\ pc' # "baseline"
  BY DEF AfterPlan
<1>3. Len(tlv') <= Capacity
  BY <1>1, <1>2 DEF ReadInv
<1> QED
  BY <1>1, <1>2, <1>3 DEF ReadInv, Undisturbed

(* Every action keeps what was read true: a tag exchange does not change   *)
(* which tag the baseline is of.                                           *)
LEMMA ReadStep == Inv /\ ReadInv /\ [Next]_vars => ReadInv'
<1> SUFFICES ASSUME Inv, ReadInv, [Next]_vars PROVE ReadInv'
  OBVIOUS
<1>a. /\ report \in Report /\ options \in Options /\ field \in Tags
      /\ base \in Dump \cup {NoDump} /\ swaps \in Nat
  BY Parameters DEF Inv, TypeInv, TypeOK, CommonTypeOK
<1>1. CASE Start
  BY <1>1 DEF Start, Begin, NewReport, ReadInv, AfterPlan
<1>2. CASE Preflight
  <2>0. /\ pc = "preflight" /\ UNCHANGED <<field, mem, options, tlv, base, orig, swaps>>
        /\ ~ report.verified
    BY <1>2 DEF Preflight, history, ReadInv
  <2>1. CASE pc' = "done"
    BY <2>0, <2>1 DEF ReadInv, Undisturbed, AfterPlan
  <2>2. CASE /\ Identified /\ ~ (Len(tlv) > Capacity)
             /\ Proceed("baseline")
    BY <2>0, <2>2, <1>a, LengthIsInt DEF Identified, Proceed, ReadInv, Undisturbed, AfterPlan
  <2>3. CASE /\ Identified /\ ~ (Len(tlv) > Capacity)
             /\ ~ BaselineRequired(options) /\ Proceed(FirstStage(options))
    <3>1. pc' \in {"invalidate", "direct"}
      BY <2>3 DEF Proceed, FirstStage, BaselineRequired
    <3> QED
      BY <2>0, <2>3, <3>1, <1>a, LengthIsInt
         DEF Identified, Proceed, ReadInv, Undisturbed, AfterPlan
  <2> QED
    BY <1>2, <2>1, <2>2, <2>3 DEF Preflight, PreflightFails, Fail, Finish
<1>3. CASE Baseline
  <2>0. /\ pc = "baseline" /\ UNCHANGED <<field, mem, options, tlv, uid, orig, swaps>>
        /\ ~ report.verified /\ mem = orig /\ Len(tlv) <= Capacity
    BY <1>3 DEF Baseline, history, ReadInv, Inv, UntouchedInv
  <2>1. CASE pc' = "done" /\ UNCHANGED base
    BY <2>0, <2>1 DEF ReadInv, Undisturbed, AfterPlan
  <2>2. CASE /\ SameUid
             /\ base' = DumpNow
             /\ Proceed(FirstStage(options))
    <3>1. base'.uid = field /\ base'.page = orig[field]
      BY <2>0, <2>2 DEF DumpNow
    <3>2. base' # NoDump
      <4>1. mem[field] \in Image
        BY <1>a DEF Inv, TypeInv, TypeOK, CommonTypeOK
      <4>2. DumpNow \in Dump
        BY <1>a, <4>1 DEF DumpNow, Dump
      <4> QED
        BY <2>2, <4>2, Geometry
    <3>3. options.target_stability => uid \in {NoTag, field}
      BY <2>2 DEF SameUid
    <3> QED
      BY <2>0, <2>2, <3>1, <3>2, <3>3 DEF Proceed, ReadInv, Undisturbed
  <2> QED
    BY <1>3, <2>1, <2>2 DEF Baseline, Fail, Finish
<1>4. CASE Invalidate
  <2>1. \/ pc' = "done"
        \/ pc' \in {"body", "precommit", "commit", "final", "success"} /\ UNCHANGED report
    BY <1>4, AfterBodyOf DEF Invalidate, WriteBatch, Proceed, Fail, Finish
  <2> QED
    BY <1>4, <2>1, ReadKept DEF Invalidate, AfterPlan
<1>5. CASE Body
  <2>1. \/ pc' = "done"
        \/ pc' \in {"body", "precommit", "commit", "final", "success"} /\ UNCHANGED report
    BY <1>5, AfterBodyOf DEF Body, WriteBatch, Proceed, Fail, Finish
  <2> QED
    BY <1>5, <2>1, ReadKept DEF Body, AfterPlan
<1>6. CASE Direct
  <2>1. \/ pc' = "done"
        \/ /\ pc' \in {"direct", "precommit", "commit", "final", "success"}
           /\ UNCHANGED report
    BY <1>6, AfterBodyOf DEF Direct, WriteBatch, Proceed, Fail, Finish
  <2> QED
    BY <1>6, <2>1, ReadKept DEF Direct, AfterPlan
<1>7. CASE Restore
  <2>1. \/ pc' = "done"
        \/ pc' \in {"precommit", "commit", "final", "success"} /\ UNCHANGED report
    BY <1>7, AfterBodyOf DEF Restore, RestorePages, Proceed, Fail, Finish
  <2> QED
    BY <1>7, <2>1, ReadKept DEF Restore, AfterPlan
<1>8. CASE Precommit
  <2>0. pc \in AfterPlan /\ Keep
    BY <1>8 DEF Precommit, AfterPlan
  <2>1. pc' = "done" \/ (pc' = "commit" /\ UNCHANGED report)
    BY <1>8 DEF Precommit, Proceed, Fail, Finish
  <2> QED
    BY <2>0, <2>1, ReadKept DEF AfterPlan
<1>9. CASE Commit
  <2>0. pc \in AfterPlan /\ Keep
    BY <1>9 DEF Commit, AfterPlan
  <2>1. pc' = "done" \/ (pc' \in {"final", "success"} /\ UNCHANGED report)
    BY <1>9, AfterBodyOf DEF Commit, WriteBatch, Proceed, Fail, Finish
  <2> QED
    BY <2>0, <2>1, ReadKept DEF AfterPlan
<1>10. CASE FinalVerify
  <2>1. CASE pc' = "done"
    BY <1>10, <2>1, ReadKept DEF FinalVerify, AfterPlan
  <2>2. ASSUME NEW passed \in BOOLEAN, Compared(passed, "bytes_mismatch")
        PROVE  ReadInv'
    <3>1. pc' \in {"success", "done"} /\ report'.verified = report.verified
      BY <2>2, <1>a DEF Compared, Report
    <3> QED
      BY <1>10, <3>1, ReadKept DEF FinalVerify, AfterPlan
  <2> QED
    BY <1>10, <2>1, <2>2 DEF FinalVerify, Fail, Finish
<1>11. CASE MarkSuccess
  BY <1>11, ReadKept DEF MarkSuccess, Succeed, AfterPlan
<1>12. CASE Exchange
  BY <1>12, <1>a DEF Exchange, Swap, ReadInv, Undisturbed
<1>13. CASE UNCHANGED vars
  BY <1>13 DEF vars, common, history, ReadInv, Undisturbed
<1> QED
  BY <1>1, <1>2, <1>3, <1>4, <1>5, <1>6, <1>7, <1>8, <1>9, <1>10, <1>11, <1>12,
     <1>13 DEF Next, Step
-----------------------------------------------------------------------------
(* The inductive invariants together, for what is read off them below.     *)
Known == Inv /\ ReadInv

(* What was read stays true in every run of the workflow.                  *)
LEMMA KnownInvariant == Spec => []Known
<1>1. Init => Known
  BY ReadInit, TypeInit, PlanInit, UntouchedInit, PageInit, BackupInit DEF Known, Inv
<1>2. Inv /\ [Next]_vars => Inv'
  BY TypeStep, PlanStep, UntouchedStep, PageStep, BackupStep DEF Inv
<1>3. Known /\ [Next]_vars => Known'
  BY <1>2, ReadStep DEF Known
<1> QED
  BY <1>1, <1>3, PTL DEF Spec

(* A page write, complete or not, of pages of the NDEF area.               *)
LEMMA OnlyTheWritten ==
  ASSUME Inv, NEW pages \in SUBSET NdefPage, NEW data,
         \A p \in pages : data[p] \in PageData,
         NEW failure, NEW stage, WriteBatch(pages, data, failure, stage)
  PROVE  \A t \in Tags, p \in Page \ NdefPage : mem'[t][p] = mem[t][p]
<1>1. field \in Tags /\ mem \in [Tags -> Image]
  BY DEF Inv, TypeInv, TypeOK, CommonTypeOK
<1>2. PICK part \in SUBSET pages : mem' = Stored(mem, field, part, data)
  BY DEF WriteBatch, PartlyStored
<1>3. \A p \in part \cap Page : data[p] \in PageData
  OBVIOUS
<1>4. /\ \A t \in Tags \ {field} : mem'[t] = mem[t]
      /\ \A p \in Page : mem'[field][p] = IF p \in part THEN data[p] ELSE mem[field][p]
  BY <1>1, <1>2, <1>3, StoredPages
<1> QED
  BY <1>4

(* No step writes outside the NDEF area: page writes never do, and a       *)
(* restore of the whole user area writes back what is there, unless the    *)
(* tag was exchanged since the baseline was read.                          *)
LEMMA NdefPagesStep ==
  ASSUME Known, [Next]_vars, NEW t \in Tags, NEW p \in Page \ NdefPage,
         mem'[t][p] # mem[t][p]
  PROVE  ~ Paged /\ ~ Undisturbed
<1>a. /\ Inv /\ ReadInv /\ field \in Tags /\ mem \in [Tags -> Image]
      /\ todo \subseteq NdefPage /\ tlv \in Messages
      /\ base \in Dump \cup {NoDump} /\ pc \in Stages
      /\ pc = "restore" => base \in Dump
  BY DEF Known, Inv, TypeInv, BaseInv, TypeOK, CommonTypeOK
<1>b. /\ NextBatch(todo) \in SUBSET NdefPage /\ {NdefFirst} \in SUBSET NdefPage
      /\ \A q \in NdefPage : Wanted[q] \in PageData
  BY <1>a, WantedType, PageSets DEF NextBatch
<1>1. CASE Restore
  <2>1. ~ Paged /\ mem = orig /\ base # NoDump /\ base \in Dump
    BY <1>1, <1>a, Geometry DEF Restore, Inv, PlanInv, ReadInv
  <2>2. \A q \in UserPage : RestoreImage[q] \in PageData
    <3>1. base.page \in [Page -> PageData]
      BY <2>1 DEF Dump, Image
    <3> QED
      BY <3>1, <1>b, PageSets, ZeroPageType DEF RestoreImage
  <2>3. PICK part \in SUBSET UserPage : mem' = Stored(mem, field, part, RestoreImage)
    BY <1>1 DEF Restore, RestorePages, PartlyStored
  <2>4. /\ \A u \in Tags \ {field} : mem'[u] = mem[u]
        /\ \A q \in Page : mem'[field][q] =
             IF q \in part THEN RestoreImage[q] ELSE mem[field][q]
    BY <1>a, <2>2, <2>3, StoredPages
  <2>5. t = field /\ p \in part
    BY <2>4
  <2>6. RestoreImage[p] = base.page[p]
    BY <2>3, <2>5, PageSets DEF RestoreImage
  <2>7. Undisturbed => base.page[p] = mem[field][p]
    BY <2>1, <1>a DEF ReadInv
  <2> QED
    BY <2>1, <2>4, <2>5, <2>6, <2>7
<1>2. CASE Invalidate
  BY <1>2, <1>a, <1>b, ZeroPageType, OnlyTheWritten DEF Invalidate
<1>3. CASE Body
  BY <1>3, <1>a, <1>b, OnlyTheWritten DEF Body
<1>4. CASE Direct
  BY <1>4, <1>a, <1>b, OnlyTheWritten DEF Direct
<1>5. CASE Commit
  BY <1>5, <1>a, <1>b, PageSets, OnlyTheWritten DEF Commit
<1>6. CASE UNCHANGED mem
  BY <1>6
<1> QED
  BY <1>1, <1>2, <1>3, <1>4, <1>5, <1>6
     DEF Next, Step, Start, Begin, Preflight, Baseline, Precommit, FinalVerify,
         MarkSuccess, Exchange, Swap, vars, common

(* ... so an operation, or several, leaves all other pages as they were.   *)
THEOREM OnlyNdefPages == Spec => OnlyNdefPagesChange
<1>1. Known /\ [Next]_vars =>
        [\A t \in Tags, p \in Page \ NdefPage :
           mem'[t][p] # mem[t][p] => ~ Paged /\ ~ Undisturbed]_vars
  BY NdefPagesStep
<1> QED
  BY <1>1, KnownInvariant, PTL DEF Spec, OnlyNdefPagesChange
-----------------------------------------------------------------------------
(***************************************************************************)
(* What a passed final readback has seen of the tag its report names.      *)
(***************************************************************************)
ReadBack ==
  /\ report.after \in Tags
  /\ SubSeq(NdefArea(mem[report.after]), 1, Len(tlv)) = tlv
  /\ options.protected_verify =>
       /\ report.after = base.uid
       /\ \A p \in Page \ NdefPage : mem[report.after][p] = orig[report.after][p]
       /\ options.target_stability => uid \in {NoTag, report.after}
ReadBackInv ==
  (pc = "success" /\ options.final_verify) \/ report.verified => ReadBack

(* A sequence that agrees with another up to its length begins with it.    *)
LEMMA BeginsWith ==
  ASSUME NEW S, NEW whole \in Seq(S), NEW part \in Seq(S), Len(part) <= Len(whole),
         \A i \in 1..Len(part) : whole[i] = part[i]
  PROVE  SubSeq(whole, 1, Len(part)) = part
<1>1. SubSeq(whole, 1, Len(part)) = [i \in 1..Len(part) |-> whole[i]]
  OBVIOUS
<1>2. part = [i \in 1..Len(part) |-> part[i]]
  OBVIOUS
<1> QED
  BY <1>1, <1>2

(* Nothing is verified before the first operation.                         *)
LEMMA ReadBackInit == Init => ReadBackInv
BY DEF Init, CommonInit, NewReport, ReadBackInv

(* The readback that passes has compared what ReadBack says.               *)
LEMMA ReadBackPassed ==
  ASSUME Known, FinalVerify, pc' = "success", options.final_verify
  PROVE  ReadBack'
<1>a. /\ report \in Report /\ options \in Options /\ field \in Tags /\ tlv \in Messages
      /\ mem \in [Tags -> Image] /\ pc = "final" /\ Inv /\ ReadInv
      /\ UNCHANGED <<field, mem, options, tlv, uid, base, orig>>
  BY DEF FinalVerify, Keep, history, Known, Inv, TypeInv, TypeOK, CommonTypeOK
<1>b. Len(tlv) <= Capacity /\ Len(tlv) \in Nat /\ Capacity \in Int
  BY <1>a, LengthIsInt DEF ReadInv, AfterPlan
<1> DEFINE expected == IF BaselineRequired(options) THEN Capacity ELSE Len(tlv)
           same == \A i \in 1..expected :
                     NdefArea(mem[field])[i] = IF i <= Len(tlv) THEN tlv[i] ELSE 0
           kept == options.protected_verify /\ base # NoDump =>
                     ProtectedUnchanged(base, DumpNow, NdefLast)
<1>1. /\ report' = [report EXCEPT !.after = field, !.summary = report.summary]
      /\ same /\ kept
  <2>1. DumpNow.page = mem[field]
    BY DEF DumpNow
  <2>2. ~ Fail("verify_failed") /\ ~ Finish("stopped")
    BY DEF Fail, Finish
  <2>3. Compared(same /\ kept, "bytes_mismatch")
    BY <2>1, <2>2 DEF FinalVerify
  <2> HIDE DEF same, kept
  <2> QED
    BY <2>3 DEF Compared
<1>2. report'.after = field
  BY <1>1, <1>a DEF Report
<1>3. SubSeq(NdefArea(mem[field]), 1, Len(tlv)) = tlv
  <2>1. \A i \in 1..Len(tlv) : NdefArea(mem[field])[i] = tlv[i]
    BY <1>1, <1>b
  <2>2. NdefArea(mem[field]) \in Seq(Byte) /\ Len(NdefArea(mem[field])) = Capacity
    BY <1>a, AreaBytes
  <2>3. tlv \in Seq(Byte)
    BY <1>a, WriteParameters
  <2> QED
    BY <2>1, <2>2, <2>3, <1>b, BeginsWith
<1>4. ASSUME options.protected_verify
      PROVE  /\ field = base.uid
             /\ \A p \in Page \ NdefPage : mem[field][p] = orig[field][p]
             /\ options.target_stability => uid \in {NoTag, field}
  <2>1. /\ base # NoDump /\ base.page = orig[base.uid]
        /\ options.target_stability => uid \in {NoTag, base.uid}
    BY <1>4, <1>a DEF ReadInv, AfterPlan, BaselineRequired
  <2>2. /\ field = base.uid
        /\ \A p \in Page \ (NdefFirst..NdefLast) : mem[field][p] = base.page[p]
    BY <2>1, <1>1, <1>4 DEF ProtectedUnchanged, DumpNow
  <2> QED
    BY <2>1, <2>2 DEF NdefPage
<1> QED
  BY <1>a, <1>2, <1>3, <1>4 DEF ReadBack

(* Nothing that happens after the readback, up to the next operation,      *)
(* touches the tag.                                                        *)
LEMMA ReadBackStep == Known /\ ReadBackInv /\ [Next]_vars => ReadBackInv'
<1> SUFFICES ASSUME Known, ReadBackInv, [Next]_vars PROVE ReadBackInv'
  OBVIOUS
<1>a. /\ report \in Report /\ options \in Options /\ Inv
      /\ pc # "done" => ~ report.verified
  BY DEF Known, ReadInv, Inv, TypeInv, TypeOK, CommonTypeOK
<1>b. options.final_verify => FinalStage(options) = "final" /\ AfterBody(options) # "success"
  BY DEF FinalStage, AfterBody
<1>c. ASSUME ~ report'.verified, UNCHANGED options,
             options.final_verify => pc' # "success"
      PROVE  ReadBackInv'
  BY <1>c DEF ReadBackInv
<1>d. ASSUME pc # "done", report' = report \/ \E s \in Summaries : Finish(s)
      PROVE  ~ report'.verified
  BY <1>a, <1>d DEF Finish, Report
<1>e. ASSUME NEW s, Fail(s), s \in Failing
      PROVE  \E z \in Summaries : Finish(z)
  BY <1>e, FailingSummaries DEF Fail, Summaries
<1>1. CASE Start
  BY <1>1 DEF Start, Begin, NewReport, ReadBackInv
<1>2. CASE Preflight
  <2>1. pc # "done" /\ UNCHANGED options /\ pc' # "success"
    BY <1>2, <1>a, FirstStageOf DEF Preflight, PreflightFails, Proceed, Fail, Finish
  <2>2. report' = report \/ \E s \in Summaries : Finish(s)
    BY <1>2, <1>e, FailingSummaries DEF Preflight, PreflightFails, Proceed, Failing
  <2> QED
    BY <2>1, <2>2, <1>c, <1>d
<1>3. CASE Baseline
  <2>1. pc # "done" /\ UNCHANGED options /\ pc' # "success"
    BY <1>3, <1>a, FirstStageOf DEF Baseline, Proceed, Fail, Finish
  <2>2. report' = report \/ \E s \in Summaries : Finish(s)
    BY <1>3, <1>e, FailingSummaries DEF Baseline, Proceed, Failing
  <2> QED
    BY <2>1, <2>2, <1>c, <1>d
<1>4. CASE Invalidate \/ Body \/ Direct \/ Restore \/ Precommit \/ Commit
  <2>1. /\ pc # "done" /\ UNCHANGED options
        /\ options.final_verify => pc' # "success"
    BY <1>4, <1>b DEF Invalidate, Body, Direct, Restore, Precommit, Commit, Keep,
                      WriteBatch, RestorePages, Proceed, Fail, Finish
  <2>2. report' = report \/ \E s \in Summaries : Finish(s)
    BY <1>4, <1>e, FailingSummaries
       DEF Invalidate, Body, Direct, Restore, Precommit, Commit, WriteBatch,
           RestorePages, Proceed, Failing
  <2> QED
    BY <2>1, <2>2, <1>c, <1>d
<1>5. CASE FinalVerify
  <2>0. pc = "final" /\ UNCHANGED options
    BY <1>5 DEF FinalVerify, Keep
  <2>1. CASE pc' = "success" /\ options.final_verify
    BY <1>5, <2>1, ReadBackPassed DEF ReadBackInv
  <2>2. CASE options.final_verify => pc' # "success"
    <3>1. ~ report'.verified
      BY <1>5, <2>0, <1>a, <1>d, <1>e, FailingSummaries
         DEF FinalVerify, Compared, Failing, Report
    <3> QED
      BY <2>0, <2>2, <3>1, <1>c
  <2> QED
    BY <2>1, <2>2
<1>6. CASE MarkSuccess
  <2>1. /\ pc = "success" /\ pc' = "done"
        /\ UNCHANGED <<mem, options, uid, base, tlv, orig>>
        /\ report' = [report EXCEPT !.summary = "success", !.success = TRUE,
                                    !.verified = options.final_verify]
    BY <1>6 DEF MarkSuccess, Succeed, Keep, history
  <2>2. report'.verified = options.final_verify /\ report'.after = report.after
    BY <2>1, <1>a DEF Report
  <2> QED
    BY <2>1, <2>2 DEF ReadBackInv, ReadBack
<1>7. CASE Exchange
  <2>1. pc # "done" /\ pc' # "success" /\ UNCHANGED <<options, report>>
    BY <1>7 DEF Exchange, Swap
  <2> QED
    BY <2>1, <1>c, <1>d
<1>8. CASE UNCHANGED vars
  BY <1>8 DEF vars, common, history, ReadBackInv, ReadBack
<1> QED
  BY <1>1, <1>2, <1>3, <1>4, <1>5, <1>6, <1>7, <1>8 DEF Next, Step

(* A verified success names a tag that holds the message.  When protected  *)
(* pages were compared it is the baseline's tag, otherwise unchanged, and  *)
(* with the stability check the preflight's, unless that saw no UID.       *)
THEOREM VerifiedCorrect == Spec => []VerifiedIsWritten
<1>1. Init => ReadBackInv
  BY ReadBackInit
<1>2. Known /\ ReadBackInv /\ [Next]_vars => ReadBackInv'
  BY ReadBackStep
<1>3. ReadBackInv => VerifiedIsWritten
  BY DEF ReadBackInv, ReadBack, VerifiedIsWritten
<1> QED
  BY <1>1, <1>2, <1>3, KnownInvariant, PTL DEF Spec

-----------------------------------------------------------------------------
(***************************************************************************)
(* The two-phase write by pages of one tag that stays in place implements  *)
(* NdefTransaction: every step of the workflow, complete or broken off, is *)
(* a step of the transaction or one that nobody sees.                      *)
(***************************************************************************)
T == INSTANCE NdefTransaction WITH shown <- Shown, verdict <- Verdict

(* For whom the transaction is promised: one tag that stays, two phases,   *)
(* page writes, and messages whose first page is not blank, which holds of *)
(* every NDEF TLV because its first byte is its type.                      *)
Promises ==
  /\ \A s, t \in Tags : s = t
  /\ MaxSwaps = 0
  /\ \A o \in Options : o.two_phase /\ o.method # "restore"
  /\ \A m \in Messages : PageOf(m, NdefFirst) # ZeroPage

(* What the promise and the invariant say of a state.                      *)
LEMMA PromisedState ==
  ASSUME Promises, Inv
  PROVE  /\ field \in Tags /\ tlv \in Messages /\ options \in Options
         /\ report \in Report /\ mem \in [Tags -> Image]
         /\ options.two_phase /\ Paged /\ Undisturbed /\ swaps = 0
         /\ Wanted[NdefFirst] # ZeroPage /\ Wanted[NdefFirst] \in PageData
<1>1. /\ field \in Tags /\ tlv \in Messages /\ options \in Options
      /\ report \in Report /\ mem \in [Tags -> Image] /\ swaps \in 0..MaxSwaps
  BY DEF Inv, TypeInv, TypeOK, CommonTypeOK
<1>2. swaps = 0
  BY <1>1 DEF Promises
<1>3. /\ Wanted[NdefFirst] = PageOf(tlv, NdefFirst)
      /\ Wanted[NdefFirst] \in PageData
  BY <1>1, WantedType, PageSets
<1> QED
  BY <1>1, <1>2, <1>3 DEF Promises, Paged, Undisturbed

(* The tag that holds the planned pages shows the new content.             *)
LEMMA ShowsNew == Promises /\ Inv /\ Holds(TargetPages) => Shown = "new"
<1> SUFFICES ASSUME Promises, Inv, Holds(TargetPages) PROVE Shown = "new"
  OBVIOUS
<1>1. mem[field] = Target(orig[field])
  BY HoldsIsTarget DEF Inv
<1>2. NdefFirst \in TargetPages /\ TargetPages \subseteq Page
  BY PromisedState, CommitPagePlanned
<1>3. mem[field][NdefFirst] # ZeroPage
  BY <1>2, PromisedState DEF Holds
<1> QED
  BY <1>1, <1>3 DEF Shown, Blank

Written   == Holds(TargetPages)
SeenAsNew == Shown = "new"

(* ... after a step as well.                                               *)
LEMMA ShowsNewNext == Promises /\ Inv' /\ Written' => SeenAsNew'
<1>1. Promises => Promises'
  BY DEF Promises, PageOf
<1>2. Promises /\ Inv /\ Written => SeenAsNew
  BY ShowsNew DEF Written, SeenAsNew
<1> QED
  BY <1>1, <1>2, PTL

(* The tag after any part of a write of page 4: written there, or as it    *)
(* was.                                                                    *)
LEMMA StoredAs ==
  ASSUME field \in Tags, mem \in [Tags -> Image], NdefFirst \in Page,
         NEW part \in SUBSET {NdefFirst}, NEW data, data[NdefFirst] \in PageData,
         mem' = Stored(mem, field, part, data)
  PROVE  mem'[field][NdefFirst] = data[NdefFirst] \/ mem'[field] = mem[field]
<1>1. /\ mem' \in [Tags -> Image]
      /\ \A p \in Page : mem'[field][p] = IF p \in part THEN data[p] ELSE mem[field][p]
  BY StoredPages
<1>2. CASE NdefFirst \in part
  BY <1>1, <1>2
<1>3. CASE NdefFirst \notin part
  <2>1. mem[field] = [p \in Page |-> mem[field][p]] /\ mem'[field] = [p \in Page |-> mem'[field][p]]
    BY <1>1 DEF Image
  <2> QED
    BY <1>1, <1>3, <2>1
<1> QED
  BY <1>2, <1>3

(* What was shown at the start is the old content of the new operation.    *)
LEMMA BeginStep == ASSUME Promises, Inv, Start PROVE T!Begin
<1>1. /\ field' = field /\ mem' = mem /\ orig' = mem
      /\ pc \in {"idle", "done"} /\ pc' = "preflight" /\ ~ report'.success
  BY PromisedState DEF Start, Begin, Promises, NewReport
<1>2. Verdict # "running" /\ Verdict' = "running"
  BY <1>1 DEF Verdict
<1>3. /\ Shown' \in {"old", "nothing", "new"}
      /\ Shown' = "nothing" <=> Shown = "nothing"
  BY <1>1 DEF Shown, Blank
<1> QED
  BY <1>2, <1>3 DEF T!Begin

(* A step of a running operation that does not report success.             *)
LEMMA RunningStep ==
  ASSUME pc \notin {"idle", "done"}, pc' # "idle", ~ report.success, ~ report'.success
  PROVE  Verdict = "running" /\ Verdict' \in {"running", "failure"}
BY DEF Verdict

(* Nothing is shown exactly when page 4 is blank.                          *)
LEMMA ShowsNothing ==
  /\ Shown = "nothing" <=> Blank(mem[field])
  /\ Shown' = "nothing" <=> Blank(mem'[field'])
BY DEF Shown, Blank

(* A command that leaves the tag alone is unseen or gives up.              *)
LEMMA TagUntouched ==
  ASSUME Verdict = "running", Verdict' \in {"running", "failure"},
         UNCHANGED <<field, options, tlv, orig>>, mem'[field] = mem[field]
  PROVE  [T!Next]_(T!vars)
<1>1. Shown' = Shown
  <2>1. Target(orig[field])' = Target(orig[field])
    BY KeepPlan DEF Target
  <2> QED
    BY <2>1 DEF Shown, Blank
<1> QED
  BY <1>1 DEF T!GiveUp, T!vars, T!Next

(* One that leaves page 4 blank is an invalidation.                        *)
LEMMA TagBlank ==
  ASSUME Verdict = "running", Verdict' \in {"running", "failure"},
         Blank(mem'[field'])
  PROVE  T!Next
BY ShowsNothing DEF T!Next, T!Invalidate, T!MayFail

(* Each step of the workflow is one of the transaction, or is not seen.    *)
LEMMA TransactionStep ==
  ASSUME Promises, Inv, Inv', [Next]_vars
  PROVE  [T!Next]_(T!vars)
<1>a. /\ report \in Report /\ options \in Options /\ tlv \in Messages
      /\ mem \in [Tags -> Image] /\ field \in Tags
      /\ options.two_phase /\ Paged /\ Undisturbed /\ swaps = 0
      /\ Wanted[NdefFirst] \in PageData
  BY PromisedState
<1>b. NdefFirst \in Page /\ todo \subseteq NdefPage
  BY PageSets DEF Inv, TypeInv, TypeOK
<1>c. (pc # "done" => ~ report.success) /\ (pc' # "done" => ~ report'.success)
  BY DEF Inv, PlanInv
<1>d. ASSUME pc # "done", NEW s \in Failing, Fail(s) \/ Finish(s)
      PROVE  pc' = "done" /\ ~ report'.success
  BY <1>a, <1>c, <1>d, FailEnds, FinishEnds, FailingSummaries
<1>e. ASSUME pc \notin {"idle", "done"}, pc' \notin {"idle", "done"}
             \/ \E s \in Failing : Fail(s) \/ Finish(s)
      PROVE  Verdict = "running" /\ Verdict' \in {"running", "failure"}
  BY <1>c, <1>d, <1>e, RunningStep
<1>1. CASE Start
  BY <1>1, BeginStep DEF T!Next
<1>2. CASE Preflight
  <2>1. /\ pc = "preflight" /\ UNCHANGED <<field, options, tlv, orig, mem>>
        /\ \/ pc' \notin {"idle", "done"}
           \/ \E s \in Failing : Fail(s) \/ Finish(s)
    BY <1>2, <1>a, FirstStageOf
       DEF Preflight, PreflightFails, Proceed, history, Failing
  <2> QED
    BY <2>1, <1>e, TagUntouched
<1>3. CASE Baseline
  <2>1. /\ pc = "baseline" /\ UNCHANGED <<field, options, tlv, orig, mem>>
        /\ \/ pc' \notin {"idle", "done"}
           \/ \E s \in Failing : Fail(s) \/ Finish(s)
    BY <1>3, <1>a, FirstStageOf DEF Baseline, Proceed, history, Failing
  <2> QED
    BY <2>1, <1>e, TagUntouched
<1>4. CASE Invalidate
  <2> DEFINE blank == [p \in {NdefFirst} |-> ZeroPage]
  <2>1. /\ pc = "invalidate" /\ UNCHANGED <<field, options, tlv, orig>>
        /\ \/ pc' \notin {"idle", "done"}
           \/ \E s \in Failing : Fail(s) \/ Finish(s)
    BY <1>4, AfterBodyOf DEF Invalidate, Keep, WriteBatch, Proceed, history, Failing
  <2>2. PICK part \in SUBSET {NdefFirst} : mem' = Stored(mem, field, part, blank)
    BY <1>4 DEF Invalidate, WriteBatch, PartlyStored
  <2>3. Blank(mem'[field']) \/ mem'[field] = mem[field]
    BY <2>1, <2>2, <1>a, <1>b, StoredAs, ZeroPageType DEF Blank
  <2> QED
    BY <2>1, <2>3, <1>e, TagUntouched, TagBlank
<1>5. CASE Body
  <2>1. /\ pc = "body" /\ UNCHANGED <<field, options, tlv, orig>>
        /\ \/ pc' \notin {"idle", "done"}
           \/ \E s \in Failing : Fail(s) \/ Finish(s)
    BY <1>5, AfterBodyOf DEF Body, Keep, WriteBatch, Proceed, history, Failing
  <2>2. /\ NdefFirst \notin NextBatch(todo) /\ mem[field][NdefFirst] = ZeroPage
        /\ \A p \in NextBatch(todo) : Wanted[p] \in PageData
    BY <2>1, <1>a, <1>b, WantedType DEF Inv, PlanInv, PageInv, HoldsBody, NextBatch
  <2>3. PICK part \in SUBSET NextBatch(todo) : mem' = Stored(mem, field, part, Wanted)
    BY <1>5 DEF Body, WriteBatch, PartlyStored
  <2>4. Blank(mem'[field'])
    BY <2>1, <2>2, <2>3, <1>a, <1>b, StoredPages DEF Blank
  <2> QED
    BY <2>1, <2>4, <1>e, TagBlank
<1>6. CASE Direct \/ Restore
  BY <1>6, <1>a DEF Direct, Restore, Inv, PlanInv
<1>7. CASE Precommit
  <2>1. /\ pc = "precommit" /\ UNCHANGED <<field, options, tlv, orig, mem>>
        /\ \/ pc' \notin {"idle", "done"}
           \/ \E s \in Failing : Fail(s) \/ Finish(s)
    BY <1>7 DEF Precommit, Keep, Proceed, history, Failing
  <2> QED
    BY <2>1, <1>e, TagUntouched
<1>8. CASE Commit
  <2>1. /\ pc = "commit" /\ UNCHANGED <<field, options, tlv, orig, todo>> /\ todo = {}
        /\ \/ pc' \notin {"idle", "done"}
           \/ \E s \in Failing : Fail(s) \/ Finish(s)
    BY <1>8, AfterBodyOf
       DEF Commit, Keep, WriteBatch, Proceed, history, Failing, Inv, PlanInv
  <2>2. HoldsBody(TargetPages)
    <3>1. HoldsBody(TargetPages \ todo)
      BY <2>1, <1>a DEF Inv, PageInv
    <3> QED
      BY <2>1, <3>1 DEF HoldsBody
  <2>3. PICK part \in SUBSET {NdefFirst} : mem' = Stored(mem, field, part, Wanted)
    BY <1>8 DEF Commit, WriteBatch, PartlyStored
  <2>4. \A p \in Page : mem'[field][p] = IF p \in part THEN Wanted[p] ELSE mem[field][p]
    BY <2>3, <1>a, StoredPages
  <2>5. Verdict = "running" /\ Verdict' \in {"running", "failure"} /\ Shown = "nothing"
    BY <2>1, <2>2, <1>e, ShowsNothing DEF HoldsBody, Blank
  <2>6. CASE NdefFirst \in part
    <3>1. Holds(TargetPages)'
      BY <2>1, <2>2, <2>4, <2>6, <1>a, CommitPagePlanned, KeepPlan DEF Holds, HoldsBody
    <3>2. Shown' = "new"
      BY <3>1, ShowsNewNext DEF Written, SeenAsNew
    <3> QED
      BY <2>5, <3>2 DEF T!Next, T!Commit, T!MayFail
  <2>7. CASE NdefFirst \notin part
    <3>1. Blank(mem'[field'])
      BY <2>1, <2>2, <2>4, <2>7, <1>b DEF Blank, HoldsBody
    <3> QED
      BY <2>5, <3>1, TagBlank
  <2> QED
    BY <2>6, <2>7
<1>9. CASE FinalVerify
  <2>1. pc = "final" /\ UNCHANGED <<field, options, tlv, orig, mem>>
    BY <1>9 DEF FinalVerify, Keep, history
  <2>2. Verdict = "running" /\ Verdict' \in {"running", "failure"}
    <3>1. CASE Fail("verify_failed") \/ Finish("stopped")
      BY <2>1, <3>1, <1>e DEF Failing
    <3>2. ASSUME NEW passed \in BOOLEAN, Compared(passed, "bytes_mismatch")
          PROVE  Verdict = "running" /\ Verdict' \in {"running", "failure"}
      <4>1. pc' \in {"success", "done"} /\ report'.success = report.success
        BY <3>2, <1>a DEF Compared, Report
      <4> QED
        BY <2>1, <4>1, <1>c, RunningStep
    <3> QED
      BY <1>9, <3>1, <3>2 DEF FinalVerify
  <2> QED
    BY <2>1, <2>2, TagUntouched
<1>10. CASE MarkSuccess
  <2>1. /\ pc = "success" /\ pc' = "done" /\ report'.success
        /\ UNCHANGED <<field, options, tlv, orig, mem>>
    BY <1>10, <1>a DEF MarkSuccess, Succeed, Keep, history, Report
  <2>2. Holds(TargetPages) /\ Holds(TargetPages)'
    <3>1. Holds(TargetPages)
      BY <2>1, <1>a DEF Inv, PageInv
    <3> QED
      BY <2>1, <3>1, KeepPlan DEF Holds
  <2>3. Shown = "new" /\ Shown' = "new"
    BY <2>2, ShowsNew, ShowsNewNext DEF Written, SeenAsNew
  <2>4. Verdict = "running" /\ Verdict' = "success"
    BY <2>1, <1>c DEF Verdict
  <2> QED
    BY <2>3, <2>4 DEF T!Next, T!Succeed
<1>11. CASE Exchange
  BY <1>11, <1>a DEF Exchange, Swap, Promises
<1>12. CASE UNCHANGED vars
  <2>1. UNCHANGED <<field, mem, pc, options, tlv, report, orig>>
    BY <1>12 DEF vars, common, history
  <2>2. Target(orig[field])' = Target(orig[field])
    BY <2>1, KeepPlan DEF Target
  <2> QED
    BY <2>1, <2>2 DEF Shown, Blank, Verdict, T!vars
<1> QED
  BY <1>1, <1>2, <1>3, <1>4, <1>5, <1>6, <1>7, <1>8, <1>9, <1>10, <1>11, <1>12
     DEF Next, Step

(* Before the first operation the transaction has not begun.               *)
LEMMA TransactionInit == Init => T!Init
BY DEF Init, CommonInit, T!Init, Shown, Verdict, Blank, NewReport

(* The promise of workflows/type2_write.py, for every message, batch size  *)
(* and geometry: whoever reads the tag sees the old content, nothing, or   *)
(* the new content, and success is reported of the new content only.       *)
THEOREM ImplementsNdefTransaction ==
  ASSUME Promises
  PROVE  Spec => T!Spec
<1>1. Promises => (Inv /\ Inv' /\ [Next]_vars => [T!Next]_(T!vars))
  BY TransactionStep
<1> QED
  BY <1>1, TransactionInit, Invariant, PTL DEF Spec, T!Spec

=============================================================================
