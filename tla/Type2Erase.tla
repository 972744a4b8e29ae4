----------------------------- MODULE Type2Erase -----------------------------
(***************************************************************************)
(* Type2EraseWorkflow (workflows/type2_erase.py): preflight, baseline dump *)
(* and plan for one of two scopes (empty the NDEF TLVs in place, or zero   *)
(* all user pages), the page writes or the restore, the final readback.    *)
(***************************************************************************)
EXTENDS Type2Operation

VARIABLE target       \* plan.target_area, page by page

vars == <<common, target>>

ASSUME EraseParameters ==
  \A o \in Options :
    /\ o.method \in {"raw", "wrbl", "restore"} /\ o.scope \in {"ndef", "user"}
    /\ {o.backup, o.target_stability, o.scan_nonzero_pages, o.final_verify,
        o.protected_verify, o.thorough} \subseteq BOOLEAN

Init == CommonInit /\ target = <<>>
-----------------------------------------------------------------------------
LastPage == IF options.scope = "user" THEN UserLast ELSE NdefLast
EraseRange == NdefFirst..LastPage

BaselineRequired(o) ==
  \/ o.scope = "ndef" \/ o.backup \/ o.target_stability \/ o.scan_nonzero_pages
  \/ o.method = "restore"
  \/ o.protected_verify /\ o.final_verify

FirstStage(o) == IF o.method = "restore" THEN "restore" ELSE "direct"
FinalStage(o) == IF o.final_verify THEN "final" ELSE "success"

Zeroed == [p \in EraseRange |-> ZeroPage]
EmptiedAnew(area) ==       \* mutant: a fresh empty message replaces the area
  [p \in EraseRange |-> PageOf(<<3, 0, 254>>, p)]
Emptied(area) == [p \in EraseRange |-> PageOf(ClearNdef(area).data, p)]

Start == Begin /\ target' = <<>>

(* The preflight and, when no baseline is needed, the plan: every page of  *)
(* the user area.                                                          *)
Preflight ==
  /\ pc = "preflight"
  /\ UNCHANGED <<field, mem, saved, options, base, history>>
  /\ \/ PreflightFails /\ UNCHANGED <<todo, target>>
     \/ \E firmware \in BOOLEAN :
          /\ Identified
          /\ IF Refuses(field, firmware)
             THEN Finish("preflight_failed") /\ UNCHANGED <<todo, target>>
             ELSE IF BaselineRequired(options)
             THEN Proceed("baseline") /\ UNCHANGED <<todo, target>>
             ELSE /\ Proceed(FirstStage(options))
                  /\ todo' = EraseRange /\ target' = Zeroed

NotEmpty(image) == \E p \in EraseRange : image[p] # ZeroPage
BackupDue(image) == options.backup /\ (options.thorough \/ NotEmpty(image))

SaveUserScope(dump) ==     \* mutant: clearing the content is not backed up
  saved' = IF BackupDue(dump.page) /\ options.scope = "user"
           THEN saved \cup {dump} ELSE saved
SaveBaseline(dump) ==
  saved' = IF BackupDue(dump.page) THEN saved \cup {dump} ELSE saved

(* _read_baseline, which saves the backup, and then _prepare_plan, which   *)
(* may still refuse an area whose TLVs cannot be parsed.                   *)
Baseline ==
  /\ pc = "baseline"
  /\ UNCHANGED <<field, mem, options, uid, profile, history>>
  /\ LET dump == DumpNow
         accepted == /\ DumpParses(dump.page)
                     /\ SameProfile
                     /\ SameUid
         cleared == ClearNdef(NdefArea(dump.page))
         wanted == IF options.scope = "ndef" THEN Emptied(NdefArea(dump.page))
                                             ELSE Zeroed
         compares == options.scope = "ndef" \/ options.scan_nonzero_pages
     IN  \/ Fail("backup_failed") /\ UNCHANGED <<saved, base, todo, target>>
         \/ /\ ~ accepted
            /\ Finish(IF ~ DumpParses(dump.page) THEN "stopped"
                      ELSE IF ~ SameProfile THEN "preflight_failed"
                      ELSE "uid_mismatch")
            /\ UNCHANGED <<saved, base, todo, target>>
         \/ /\ accepted
            /\ SaveBaseline(dump)
            /\ IF options.scope = "ndef" /\ ~ cleared.ok
               THEN /\ Finish("erase_compare_failed")
                    /\ UNCHANGED <<base, todo, target>>
               ELSE /\ base' = dump /\ target' = wanted
                    /\ todo' = {p \in EraseRange : compares => dump.page[p] # wanted[p]}
                    /\ Proceed(IF todo' = {} THEN FinalStage(options)
                                             ELSE FirstStage(options))
         \/ /\ accepted /\ BackupDue(dump.page)   \* the copy itself fails
            /\ Finish("stopped")
            /\ UNCHANGED <<saved, base, todo, target>>
-----------------------------------------------------------------------------
Keep == UNCHANGED <<field, saved, options, uid, profile, base, target, history>>

(* _execute_erase by pages, in bounded batches.                            *)
DirectButLast ==           \* mutant: a last page alone makes no batch
  /\ pc = "direct" /\ Keep
  /\ todo' = IF Cardinality(todo \ NextBatch(todo)) = 1 THEN {} ELSE todo \ NextBatch(todo)
  /\ WriteBatch(NextBatch(todo), target, "erase_batch_failed",
                IF todo' = {} THEN FinalStage(options) ELSE "direct")
Direct ==
  /\ pc = "direct" /\ Keep
  /\ todo' = todo \ NextBatch(todo)
  /\ WriteBatch(NextBatch(todo), target, "erase_batch_failed",
                IF todo' = {} THEN FinalStage(options) ELSE "direct")

(* _execute_erase by restoring the baseline with the range replaced.       *)
RestoreRangeOnly ==        \* mutant: pages behind the range are not kept
  [p \in UserPage |-> IF p \in EraseRange THEN target[p] ELSE ZeroPage]
RestoreImage ==
  [p \in UserPage |-> IF p \in EraseRange THEN target[p] ELSE base.page[p]]
Restore ==
  /\ pc = "restore" /\ Keep
  /\ todo' = {}
  /\ RestorePages(RestoreImage, "erase_batch_failed", FinalStage(options))

(* _verify_result.                                                         *)
FinalVerify ==
  /\ pc = "final" /\ Keep
  /\ UNCHANGED <<mem, todo>>
  /\ LET dump == DumpNow
         passed == /\ \A p \in EraseRange : dump.page[p] = target[p]
                   /\ options.protected_verify /\ base # NoDump =>
                        ProtectedUnchanged(base, dump, LastPage)
     IN  \/ Fail("verify_failed")
         \/ ~ DumpParses(dump.page) /\ Finish("stopped")
         \/ DumpParses(dump.page) /\ Compared(passed, "erase_compare_failed")

MarkVerified ==            \* mutant: success needs a readback
  /\ pc = "success" /\ Keep
  /\ options.final_verify
  /\ UNCHANGED <<mem, todo>>
  /\ Succeed
MarkSuccess ==
  /\ pc = "success" /\ Keep
  /\ UNCHANGED <<mem, todo>>
  /\ Succeed

Step == Preflight \/ Baseline \/ Direct \/ Restore \/ FinalVerify \/ MarkSuccess

Exchange == Swap /\ UNCHANGED target

Next == Start \/ Step \/ Exchange

Spec == Init /\ [][Next]_vars
-----------------------------------------------------------------------------
(* The plan's area exists from the moment pages are to be written.         *)
TypeOK ==
  /\ CommonTypeOK
  /\ target \in {<<>>} \cup [EraseRange -> PageData]
  /\ pc \in {"direct", "restore", "final"} => target \in [EraseRange -> PageData]

(* Bytes of the NDEF area that belong to a TLV that is neither NDEF nor    *)
(* padding.                                                                *)
ForeignBytes(image) ==
  UNION {(r.offset + 1)..r.end : r \in Others(Parse(NdefArea(image)).records)}

(***************************************************************************)
(* Clearing the NDEF content keeps every other TLV byte for byte where it  *)
(* was, at every moment and whatever fails in between (the confirmation    *)
(* text: "Other TLVs ... will be preserved").                              *)
(***************************************************************************)
ForeignTlvsStay ==
  options.scope = "ndef" /\ Undisturbed =>
    \A i \in ForeignBytes(orig[field]) :
      NdefArea(mem[field])[i] = NdefArea(orig[field])[i]

(* The tag's old content is in the backups directory before the first      *)
(* destructive write, when that is configured.                             *)
BackupBeforeErase ==
  /\ BackupDue(orig[field]) /\ Undisturbed
  /\ mem[field] # orig[field]
  => [uid |-> field, page |-> orig[field]] \in saved

(* A reported success by page writes is an erased tag, read back or not:   *)
(* no NDEF payload in the one scope, all zeros in the other, and nothing   *)
(* else changed, although only the pages that differ are written.          *)
SuccessIsErased ==
  report.success /\ Paged /\ Undisturbed =>
    /\ options.scope = "ndef" => NdefMessage(NdefArea(mem[field])) \in {<<>>, <<(<<>>)>>}
    /\ options.scope = "user" => \A p \in UserPage : mem[field][p] = ZeroPage
    /\ \A p \in Page \ EraseRange : mem[field][p] = orig[field][p]

(* A verified success holds for the tag whose UID the report names, even   *)
(* when tags were exchanged.  When the protected pages were compared this  *)
(* is the tag of the baseline dump, unchanged outside the range; with the  *)
(* stability check it is also the tag whose UID the preflight saw, if it   *)
(* saw any (_read_baseline, _verify_result).                               *)
VerifiedIsErased ==
  report.verified =>
    /\ report.after \in Tags
    /\ \A p \in EraseRange : mem[report.after][p] = target[p]
    /\ options.protected_verify =>
         /\ report.after = base.uid
         /\ \A p \in Page \ EraseRange : mem[report.after][p] = orig[report.after][p]
         /\ options.target_stability => uid \in {NoTag, report.after}

(* No step writes outside the range of a tag, unless a restore image made  *)
(* from one tag is written to another.                                     *)
OnlyRangeChanges ==
  [][\A t \in Tags, p \in Page \ EraseRange :
       mem'[t][p] # mem[t][p] => ~ Paged /\ ~ Undisturbed]_vars

(* Every operation comes to a report.                                      *)
Finishes == (pc = "preflight") ~> (pc = "done")
=============================================================================
