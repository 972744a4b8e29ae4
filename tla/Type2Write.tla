----------------------------- MODULE Type2Write -----------------------------
(***************************************************************************)
(* Type2NdefWriteWorkflow (workflows/type2_write.py): preflight, baseline  *)
(* dump and plan, invalidation of page 4, body, pre-commit readback,       *)
(* commit of page 4, final readback.                                       *)
(***************************************************************************)
EXTENDS Type2Operation

CONSTANT Messages     \* the NDEF TLVs the user may write, as bytes
VARIABLE tlv          \* source.tlv of the running operation

vars == <<common, tlv>>

ASSUME WriteParameters ==
  /\ Messages # {} /\ Messages \subseteq Seq(Byte)
  /\ \A m \in Messages : Len(m) > 0
  /\ \A o \in Options :
       /\ o.method \in {"raw", "wrbl", "restore"}
       /\ {o.backup, o.target_stability, o.two_phase, o.precommit_verify,
           o.final_verify, o.protected_verify, o.thorough} \subseteq BOOLEAN

Init == CommonInit /\ tlv = CHOOSE m \in Messages : TRUE
-----------------------------------------------------------------------------
BaselineRequired(o) ==
  \/ o.backup \/ o.target_stability \/ o.method = "restore"
  \/ o.protected_verify /\ (o.precommit_verify \/ o.final_verify)

(* What the plan aims at: the bytes of each page, the pages it covers, and *)
(* the tag image it leads to.  Without a baseline only the TLV's own pages *)
(* are planned, with one the whole area is.                                *)
Wanted      == [p \in NdefPage |-> PageOf(tlv, p)]
TargetPages == IF BaselineRequired(options) THEN NdefPage ELSE PagesCovered(tlv)
Target(image) == [p \in Page |-> IF p \in TargetPages THEN Wanted[p] ELSE image[p]]

FirstStage(o) == IF o.method = "restore" THEN "restore"
                 ELSE IF o.two_phase THEN "invalidate" ELSE "direct"
FinalStage(o) == IF o.final_verify THEN "final" ELSE "success"
AfterBodyRereads(o) ==     \* mutant: the baseline is read once more
  IF ~ o.two_phase THEN FinalStage(o)
  ELSE IF o.precommit_verify THEN "baseline" ELSE "commit"
AfterBody(o)  == IF ~ o.two_phase THEN FinalStage(o)
                 ELSE IF o.precommit_verify THEN "precommit" ELSE "commit"

Start == Begin /\ tlv' \in Messages

(* The preflight, _validate_profile_and_capacity, and the plan that needs  *)
(* no baseline.                                                            *)
Preflight ==
  /\ pc = "preflight"
  /\ UNCHANGED <<field, mem, saved, options, tlv, base, history>>
  /\ \/ PreflightFails /\ UNCHANGED todo
     \/ \E firmware \in BOOLEAN :
          /\ Identified
          /\ IF Refuses(field, firmware)
             THEN Finish("preflight_failed") /\ UNCHANGED todo
             ELSE IF Len(tlv) > Capacity
             THEN Finish("ndef_too_large") /\ UNCHANGED todo
             ELSE IF BaselineRequired(options)
             THEN Proceed("baseline") /\ UNCHANGED todo
             ELSE Proceed(FirstStage(options)) /\ todo' = TargetPages

(* _validate_standard_tlv_layout: only NULL, terminator, and one NDEF TLV. *)
StandardLayout(area) ==
  /\ Parse(area).ok
  /\ Cardinality(NdefRecords(area)) <= 1
  /\ \A r \in Parse(area).records : r.type \in {NullType, NdefType, Terminator}

NotEmpty(image) == \E p \in NdefPage : image[p] # ZeroPage
BackupDue(image) == options.backup /\ (options.thorough \/ NotEmpty(image))

(* _save_baseline_if_requested.                                            *)
SaveUnlessBlank(dump) ==   \* mutant: a zero page 4 counts as an empty tag
  saved' = IF options.backup /\ (options.thorough \/ dump.page[NdefFirst] # ZeroPage)
           THEN saved \cup {dump} ELSE saved
SaveBaseline(dump) ==
  saved' = IF BackupDue(dump.page) THEN saved \cup {dump} ELSE saved

(* _read_baseline and the rest of _prepare_write_plan.                     *)
Baseline ==
  /\ pc = "baseline"
  /\ UNCHANGED <<field, mem, options, tlv, uid, profile, history>>
  /\ LET dump == DumpNow
         accepted == /\ DumpParses(dump.page)
                     /\ SameProfile
                     /\ StandardLayout(NdefArea(dump.page))
                     /\ SameUid
     IN  \/ Fail("backup_failed") /\ UNCHANGED <<saved, base, todo>>
         \/ /\ ~ accepted
            /\ Finish(IF ~ DumpParses(dump.page) THEN "stopped"
                      ELSE IF ~ SameProfile THEN "preflight_failed"
                      ELSE IF ~ StandardLayout(NdefArea(dump.page)) THEN "layout_unsafe"
                      ELSE "uid_mismatch")
            /\ UNCHANGED <<saved, base, todo>>
         \/ /\ accepted
            /\ SaveBaseline(dump)
            /\ base' = dump
            /\ todo' = {p \in NdefPage : dump.page[p] # Wanted[p]}
            /\ Proceed(FirstStage(options))
         \/ /\ accepted /\ BackupDue(dump.page)   \* the copy itself fails
            /\ Finish("stopped")
            /\ UNCHANGED <<saved, base, todo>>
-----------------------------------------------------------------------------
Keep == UNCHANGED <<field, saved, options, uid, profile, base, tlv, history>>

(* _execute_two_phase_body, first half: page 4 becomes zero.               *)
InvalidateKeepsPage4 ==    \* mutant: page 4 stays among the body pages
  /\ pc = "invalidate" /\ Keep
  /\ UNCHANGED todo
  /\ WriteBatch({NdefFirst}, [p \in {NdefFirst} |-> ZeroPage], "invalidate_failed",
                IF todo = {} THEN AfterBody(options) ELSE "body")
InvalidateUnchecked ==     \* mutant: its answer is not looked at
  /\ pc = "invalidate" /\ Keep
  /\ todo' = todo \ {NdefFirst}
  /\ PartlyStored({NdefFirst}, [p \in {NdefFirst} |-> ZeroPage])
  /\ Proceed(IF todo' = {} THEN AfterBody(options) ELSE "body")
Invalidate ==
  /\ pc = "invalidate" /\ Keep
  /\ todo' = todo \ {NdefFirst}
  /\ WriteBatch({NdefFirst}, [p \in {NdefFirst} |-> ZeroPage], "invalidate_failed",
                IF todo \ {NdefFirst} = {} THEN AfterBody(options) ELSE "body")

(* ... second half: the body pages that differ, in bounded batches.        *)
Body ==
  /\ pc = "body" /\ Keep
  /\ todo' = todo \ NextBatch(todo)
  /\ WriteBatch(NextBatch(todo), Wanted, "body_write_failed",
                IF todo' = {} THEN AfterBody(options) ELSE "body")

(* _execute_direct_write; nothing is sent when no page differs.            *)
DirectNeedsPages ==        \* mutant: waits for an answer to no command
  /\ pc = "direct" /\ Keep
  /\ todo # {} /\ todo' = todo \ NextBatch(todo)
  /\ WriteBatch(NextBatch(todo), Wanted, "write_failed",
                IF todo' = {} THEN AfterBody(options) ELSE "direct")
DirectButLast ==           \* mutant: a last page alone makes no batch
  /\ pc = "direct" /\ Keep
  /\ todo' = IF Cardinality(todo \ NextBatch(todo)) = 1 THEN {} ELSE todo \ NextBatch(todo)
  /\ \/ todo = {} /\ Proceed(AfterBody(options)) /\ UNCHANGED mem
     \/ todo # {} /\ WriteBatch(NextBatch(todo), Wanted, "write_failed",
                                IF todo' = {} THEN AfterBody(options) ELSE "direct")
Direct ==
  /\ pc = "direct" /\ Keep
  /\ todo' = todo \ NextBatch(todo)
  /\ \/ todo = {} /\ Proceed(AfterBody(options)) /\ UNCHANGED mem
     \/ todo # {} /\ WriteBatch(NextBatch(todo), Wanted, "write_failed",
                                IF todo' = {} THEN AfterBody(options) ELSE "direct")

(* build_mfu_restore_image: the baseline with its NDEF area replaced.      *)
RestoreNdefOnly ==         \* mutant: pages behind the area are not kept
  [p \in UserPage |->
     IF p = NdefFirst /\ options.two_phase THEN ZeroPage
     ELSE IF p \in NdefPage THEN Wanted[p] ELSE ZeroPage]
RestoreImage ==
  [p \in UserPage |->
     IF p = NdefFirst /\ options.two_phase THEN ZeroPage
     ELSE IF p \in NdefPage THEN Wanted[p] ELSE base.page[p]]

(* _execute_restore.                                                       *)
Restore ==
  /\ pc = "restore" /\ Keep
  /\ todo' = {}
  /\ RestorePages(RestoreImage, "write_failed", AfterBody(options))

(* _verify_precommit.                                                      *)
Precommit ==
  /\ pc = "precommit" /\ Keep
  /\ UNCHANGED <<mem, todo>>
  /\ LET dump == DumpNow
         passed == /\ dump.page[NdefFirst] = ZeroPage
                   /\ \A p \in TargetPages \ {NdefFirst} : dump.page[p] = Wanted[p]
                   /\ options.protected_verify /\ base # NoDump =>
                        ProtectedUnchanged(base, dump, NdefLast)
     IN  \/ Fail("body_verify_failed")
         \/ ~ DumpParses(dump.page) /\ Finish("stopped")
         \/ DumpParses(dump.page) /\ ~ passed /\ Finish("body_mismatch")
         \/ DumpParses(dump.page) /\ passed /\ Proceed("commit")

(* _commit: page 4 takes the first bytes of the message.                   *)
Commit ==
  /\ pc = "commit" /\ Keep
  /\ UNCHANGED todo
  /\ WriteBatch({NdefFirst}, Wanted, "commit_failed", FinalStage(options))

(* _verify_final: the whole area when it was planned, else the TLV itself. *)
FinalVerify ==
  /\ pc = "final" /\ Keep
  /\ UNCHANGED <<mem, todo>>
  /\ LET dump == DumpNow
         expected == IF BaselineRequired(options) THEN Capacity ELSE Len(tlv)
         passed == /\ \A i \in 1..expected :
                        NdefArea(dump.page)[i] = IF i <= Len(tlv) THEN tlv[i] ELSE 0
                   /\ options.protected_verify /\ base # NoDump =>
                        ProtectedUnchanged(base, dump, NdefLast)
     IN  \/ Fail("verify_failed")
         \/ ~ DumpParses(dump.page) /\ Finish("stopped")
         \/ DumpParses(dump.page) /\ Compared(passed, "bytes_mismatch")

MarkSuccess ==
  /\ pc = "success" /\ Keep
  /\ UNCHANGED <<mem, todo>>
  /\ Succeed

Step == \/ Preflight \/ Baseline \/ Invalidate \/ Body \/ Direct \/ Restore
        \/ Precommit \/ Commit \/ FinalVerify \/ MarkSuccess

Exchange == Swap /\ UNCHANGED tlv

Next == Start \/ Step \/ Exchange

Spec == Init /\ [][Next]_vars
-----------------------------------------------------------------------------
TypeOK == CommonTypeOK /\ tlv \in Messages /\ todo \subseteq NdefPage

(***************************************************************************)
(* The two-phase write is atomic for whoever reads the tag: at every       *)
(* moment, and whatever fails in between, page 4 is zero or the tag holds  *)
(* all of the old image or all of the new one.                             *)
(***************************************************************************)
CommitIsLast ==
  options.two_phase /\ Paged /\ Undisturbed =>
    LET now == mem[field]
    IN  \/ now[NdefFirst] = ZeroPage
        \/ now = orig[field]
        \/ now = Target(orig[field])

(* ARCHITECTURE safety boundary 5: before the first destructive write the  *)
(* tag's old content is in the backups directory, when that is configured. *)
BackupBeforeWrite ==
  /\ BackupDue(orig[field]) /\ Undisturbed
  /\ mem[field] # orig[field]
  => [uid |-> field, page |-> orig[field]] \in saved

(* A report that says nothing was written is right for every tag, even     *)
(* when tags were exchanged.                                               *)
RefusalWroteNothing ==
  report.summary \in {"preflight_failed", "ndef_too_large", "backup_failed",
                      "layout_unsafe", "uid_mismatch"} => mem = orig

(* The failure texts "No other pages were changed" and "Page 4 remains     *)
(* invalidated" / "was not committed" are right for page writes.           *)
FailureTextIsTrue ==
  Paged /\ Undisturbed =>
    /\ report.summary = "invalidate_failed" =>
         \A p \in Page \ {NdefFirst} : mem[field][p] = orig[field][p]
    /\ report.summary \in {"body_write_failed", "body_verify_failed",
                           "body_mismatch"} =>
         mem[field][NdefFirst] = ZeroPage

(* A reported success by page writes is a written tag, read back or not:   *)
(* all the planned pages hold the message, all others are as before.       *)
SuccessIsWritten ==
  report.success /\ Paged /\ Undisturbed => mem[field] = Target(orig[field])

(* A verified success holds for the tag whose UID the report names, even   *)
(* when tags were exchanged: it holds the message.  When the protected     *)
(* pages were compared it is the tag of the baseline dump and unchanged    *)
(* elsewhere; with the stability check it is also the tag whose UID the    *)
(* preflight saw, if it saw any (_validate_target_stability).              *)
VerifiedIsWritten ==
  report.verified =>
    /\ report.after \in Tags
    /\ SubSeq(NdefArea(mem[report.after]), 1, Len(tlv)) = tlv
    /\ options.protected_verify =>
         /\ report.after = base.uid
         /\ \A p \in Page \ NdefPage : mem[report.after][p] = orig[report.after][p]
         /\ options.target_stability => uid \in {NoTag, report.after}

(* No step writes outside the NDEF area of a tag, unless a restore image   *)
(* made from one tag is written to another.                                *)
OnlyNdefPagesChange ==
  [][\A t \in Tags, p \in Page \ NdefPage :
       mem'[t][p] # mem[t][p] => ~ Paged /\ ~ Undisturbed]_vars

(* Every operation comes to a report: each command ends, by its answer or  *)
(* by a timeout, and there are finitely many.                              *)
Finishes == (pc = "preflight") ~> (pc = "done")
=============================================================================
