--------------------------- MODULE MfcCloneProofs ---------------------------
(***************************************************************************)
(* Theorems about MfcClone, for every set of tags, sectors, keys, sources  *)
(* and options, and for any number of operations and exchanged tags.       *)
(***************************************************************************)
EXTENDS MfcClone, TLAPS

(* Every end of an operation, failed, cancelled or broken, is a report of  *)
(* no success.                                                             *)
LEMMA FinishEnds ==
  ASSUME report \in Report, NEW s \in Summaries, Finish(s)
  PROVE  /\ pc' = "done" /\ report' \in Report
         /\ report'.summary = s /\ report'.success = report.success
BY DEF Finish, Report

(* So is an end by a command that failed or was cut short (Fail).          *)
LEMMA FailEnds ==
  ASSUME report \in Report, NEW s \in Summaries, Fail(s)
  PROVE  /\ pc' = "done" /\ report' \in Report
         /\ report'.summary \in {s, "cancelled", "stopped"}
         /\ report'.success = report.success
<1>1. PICK t \in {s, "cancelled", "stopped"} : Finish(t)
  BY DEF Fail
<1>2. t \in Summaries
  BY DEF Summaries
<1> QED
  BY <1>1, <1>2, FinishEnds

(* A restore, complete or not, leaves images of tags, and changes the tag  *)
(* in the field alone, and only where its sectors have the factory keys.   *)
LEMMA CopyType ==
  ASSUME TypeOK, PartlyCopied
  PROVE  mem' \in [Tags -> Image]
<1>1. PICK block0 \in BOOLEAN, keys \in SUBSET FactorySectors(field),
           data \in SUBSET FactorySectors(field) :
        mem' = [mem EXCEPT ![field] = Copied(mem[field], block0, keys, data)]
  BY DEF PartlyCopied
<1>2. source \in Image /\ mem[field] \in Image
  BY Parameters DEF TypeOK
<1>3. Copied(mem[field], block0, keys, data) \in Image
  BY <1>2 DEF Copied, Image, KeyFile
<1> QED
  BY <1>1, <1>3 DEF TypeOK

(* A tag all of whose sectors have the factory key has the factory keys.   *)
LEMMA AllFactory ==
  ASSUME TypeOK, FactorySectors(field) = Sector
  PROVE  mem[field].key = FactoryKeys
<1>1. mem[field].key \in [Sector -> Key]
  BY DEF TypeOK, Image, KeyFile
<1>2. \A s \in Sector : mem[field].key[s] = FactoryKey
  BY DEF FactorySectors
<1> QED
  BY <1>1, <1>2 DEF FactoryKeys

(* The key files looked up for a UID belong to a UID that is known.        *)
LEMMA KeyFilesType ==
  ASSUME TypeOK, NEW u, NEW k \in KeyFiles(u)
  PROVE  k \in KeyFile /\ u \in Uid
<1>1. source \in Image /\ Sources \subseteq Image
  BY Parameters DEF TypeOK
<1>2. CASE u = source.uid
  BY <1>1, <1>2 DEF KeyFiles, Image
<1>3. CASE u # source.uid
  <2>1. PICK f \in WithUid(u) : k = Library[f].source.key
    BY <1>3 DEF KeyFiles
  <2>2. Library[f].source \in Image /\ u \in Uid
    BY <1>1, <2>1, Parameters DEF WithUid
  <2> QED
    BY <2>1, <2>2 DEF Image
<1> QED
  BY <1>2, <1>3
-----------------------------------------------------------------------------
(* The type invariant holds before the first operation.                    *)
LEMMA TypeInit == Init => TypeOK
<1> SUFFICES ASSUME Init PROVE TypeOK
  OBVIOUS
<1>1. options \in Options /\ source \in Sources
  BY Parameters DEF Init
<1>2. mem \in [Tags -> Image] /\ FactoryKeys \in KeyFile
  BY Parameters DEF Init, FactoryKeys, KeyFile
<1>3. NewReport \in Report
  BY DEF NewReport, Report, Summaries
<1>4. swaps \in 0..MaxSwaps /\ ops \in 0..MaxOps
  BY Parameters DEF Init
<1> QED
  BY <1>1, <1>2, <1>3, <1>4 DEF Init, TypeOK, Stages

(* Where the preflight leads: to a report, or to the keys of a known UID,  *)
(* or to the backup or the restore.                                        *)
LEMMA PreflightEnds ==
  ASSUME TypeOK, Preflight
  PROVE  /\ uid' \in Uid \cup {NoUid} /\ keyfile' \in KeyFile
         /\ report' \in Report /\ report'.success = report.success
         /\ \/ pc' = "done"
            \/ pc' = "current" /\ uid' \in Uid /\ UNCHANGED report
            \/ /\ pc' = IF KeepsFactory(options) THEN "backup" ELSE "restore"
               /\ options.default_keys => FactorySectors(field) = Sector
               /\ UNCHANGED report
<1>a. /\ report \in Report /\ keyfile \in KeyFile /\ uid \in Uid \cup {NoUid}
      /\ mem[field].uid \in Uid
  BY DEF TypeOK, Image
<1>1. CASE /\ IF Asks(options) THEN Fail("preflight_failed") ELSE Fail("stopped")
           /\ UNCHANGED <<uid, keyfile>>
  <2>1. pc' = "done" /\ report' \in Report /\ report'.success = report.success
    BY <1>1, <1>a, FailEnds DEF Summaries
  <2> QED
    BY <1>1, <1>a, <2>1
<1>2. CASE ~ (/\ IF Asks(options) THEN Fail("preflight_failed") ELSE Fail("stopped")
              /\ UNCHANGED <<uid, keyfile>>)
  <2>1. uid' \in UidsRead(mem[field].uid)
    BY <1>2 DEF Preflight
  <2>2. uid' \in Uid \cup {NoUid}
    BY <2>1, <1>a DEF UidsRead
  <2>3. \/ Finish("preflight_failed") /\ UNCHANGED keyfile
        \/ keyfile' \in KeyFiles(uid') /\ Proceed("current")
        \/ /\ options.default_keys => FactorySectors(field) = Sector
           /\ Proceed(IF KeepsFactory(options) THEN "backup" ELSE "restore")
           /\ UNCHANGED keyfile
    BY <1>2 DEF Preflight, KeysAccepted, Fresh
  <2>4. CASE Finish("preflight_failed") /\ UNCHANGED keyfile
    <3>1. "preflight_failed" \in Summaries
      BY DEF Summaries
    <3> QED
      BY <2>2, <2>4, <3>1, <1>a, FinishEnds
  <2>5. CASE keyfile' \in KeyFiles(uid') /\ Proceed("current")
    BY <2>2, <2>5, <1>a, KeyFilesType DEF Proceed
  <2>6. CASE /\ options.default_keys => FactorySectors(field) = Sector
             /\ Proceed(IF KeepsFactory(options) THEN "backup" ELSE "restore")
             /\ UNCHANGED keyfile
    BY <2>2, <2>6, <1>a DEF Proceed
  <2> QED
    BY <2>3, <2>4, <2>5, <2>6
<1> QED
  BY <1>1, <1>2

(* Where the options lead after a restore.                                 *)
LEMMA StageType ==
  ASSUME NEW o
  PROVE  /\ AfterRestore(o) \in {"verify_dump", "verify_uid", "success"}
         /\ AfterCompare(o) \in {"verify_uid", "success"}
         /\ AfterRestore(o) # "verify_dump" => ~ o.verify_dump
BY DEF AfterRestore, AfterCompare

(* Every action of the workflow, and a tag swap, keeps the types.          *)
LEMMA TypeStep == TypeOK /\ [Next]_vars => TypeOK'
<1> SUFFICES ASSUME TypeOK, [Next]_vars PROVE TypeOK'
  OBVIOUS
<1>a. /\ field \in Tags /\ mem \in [Tags -> Image] /\ report \in Report
      /\ options \in Options /\ source \in Sources /\ source \in Image
      /\ uid \in Uid \cup {NoUid} /\ mem[field] \in Image
      /\ mem[field].uid \in Uid /\ source.uid \in Uid
      /\ ops \in 0..MaxOps /\ swaps \in 0..MaxSwaps
  BY Parameters DEF TypeOK, Image
<1>b. {"stopped", "risk_not_confirmed", "backup_failed", "backup_uid_invalid",
       "unsupported", "no_change", "restore_failed", "verify_failed", "compare_bad",
       "verify_uid_failed", "success"} \subseteq Summaries
  BY DEF Summaries
<1>1. CASE Start
  <2>1. report' \in Report /\ keyfile' \in KeyFile
    BY <1>1, Parameters DEF Start, NewReport, Report, Summaries, FactoryKeys, KeyFile
  <2>2. ops' \in 0..MaxOps /\ swaps' \in 0..MaxSwaps
    BY <1>1, <1>a, Parameters DEF Start
  <2> QED
    BY <1>1, <2>1, <2>2 DEF Start, TypeOK, Stages
<1>2. CASE Load
  <2>1. pc' \in {"done", "preflight"} /\ report' \in Report
    BY <1>2, <1>a, <1>b, FinishEnds DEF Load, Proceed
  <2> QED
    BY <1>2, <2>1 DEF Load, history, TypeOK, Stages
<1>3. CASE Preflight
  <2>1. /\ uid' \in Uid \cup {NoUid} /\ keyfile' \in KeyFile /\ report' \in Report
        /\ pc' \in {"done", "current", "backup", "restore"}
        /\ pc' = "current" => uid' \in Uid
    BY <1>3, PreflightEnds
  <2> QED
    BY <1>3, <2>1 DEF Preflight, history, TypeOK, Stages
<1>4. CASE Current
  <2>1. saved' \subseteq Backup
    BY <1>4, <1>a DEF Current, TypeOK, Backup, Image
  <2>2. pc' = "done" /\ report' \in Report
    <3>1. CASE Fail("backup_failed")
      BY <3>1, <1>a, <1>b, FailEnds
    <3>2. CASE Finish("backup_uid_invalid")
      BY <3>2, <1>a, <1>b, FinishEnds
    <3>3. CASE /\ pc' = "done"
               /\ report' = IF mem[field] = source
                            THEN [summary |-> "no_change", success |-> TRUE,
                                  verified |-> TRUE, after |-> uid]
                            ELSE [report EXCEPT !.summary = "unsupported"]
      BY <3>3, <1>a, <1>b DEF Report
    <3> QED
      BY <1>4, <3>1, <3>2, <3>3 DEF Current
  <2> QED
    BY <1>4, <2>1, <2>2 DEF Current, Keep, history, TypeOK, Stages
<1>5. CASE FactoryBackup
  <2>1. pc' \in {"done", "restore"} /\ report' \in Report
    BY <1>5, <1>a, <1>b, FailEnds DEF FactoryBackup, Proceed
  <2>2. saved' \subseteq Backup
    BY <1>5, <1>a DEF FactoryBackup, TypeOK, Backup
  <2> QED
    BY <1>5, <2>1, <2>2 DEF FactoryBackup, Keep, history, TypeOK, Stages
<1>6. CASE Restore
  <2>1. mem' \in [Tags -> Image]
    BY <1>6, <1>a, CopyType DEF Restore
  <2>2. pc' \in {"done", "verify_dump", "verify_uid", "success"} /\ report' \in Report
    BY <1>6, <1>a, <1>b, FailEnds, StageType DEF Restore, Proceed
  <2> QED
    BY <1>6, <2>1, <2>2 DEF Restore, Keep, history, TypeOK, Stages
<1>7. CASE VerifyDump
  <2>1. pc' \in {"done", "verify_uid", "success"} /\ report' \in Report
    <3>1. CASE Fail("verify_failed")
      BY <3>1, <1>a, <1>b, FailEnds
    <3>2. CASE ~ Fail("verify_failed")
      BY <1>7, <3>2, <1>a, <1>b, StageType DEF VerifyDump, Report
    <3> QED
      BY <3>1, <3>2
  <2> QED
    BY <1>7, <2>1 DEF VerifyDump, Keep, history, TypeOK, Stages
<1>8. CASE VerifyUid
  <2>1. pc' \in {"done", "success"} /\ report' \in Report
    <3>1. CASE Fail("verify_uid_failed")
      BY <3>1, <1>a, <1>b, FailEnds
    <3>2. CASE ~ Fail("verify_uid_failed")
      BY <1>8, <3>2, <1>a, <1>b DEF VerifyUid, Report
    <3> QED
      BY <3>1, <3>2
  <2> QED
    BY <1>8, <2>1 DEF VerifyUid, Keep, history, TypeOK, Stages
<1>9. CASE MarkSuccess
  <2>1. (options.verify_dump \/ options.verify_uid) \in BOOLEAN
    BY <1>a, Parameters
  <2>2. report' \in Report
    BY <1>9, <2>1, <1>a, <1>b DEF MarkSuccess, Report
  <2> QED
    BY <1>9, <2>2 DEF MarkSuccess, Keep, history, TypeOK, Stages
<1>10. CASE Swap
  <2>1. swaps' \in 0..MaxSwaps
    BY <1>10, <1>a, Parameters DEF Swap
  <2> QED
    BY <1>10, <2>1 DEF Swap, TypeOK
<1>11. CASE UNCHANGED vars
  BY <1>11 DEF vars, history, TypeOK
<1> QED
  BY <1>1, <1>2, <1>3, <1>4, <1>5, <1>6, <1>7, <1>8, <1>9, <1>10, <1>11
     DEF Next, Step

(* Every state of every run has the types TypeOK gives its variables.      *)
THEOREM CloneTypeCorrect == Spec => []TypeOK
BY TypeInit, TypeStep, PTL DEF Spec
-----------------------------------------------------------------------------
(* The inductive invariant, in four parts.  Before the restore no tag has  *)
(* changed, and a report that claims so tells the truth;                   *)
Early == {"idle", "load", "preflight", "current", "backup", "restore"}
Refusals == {"risk_not_confirmed", "preflight_failed", "backup_failed",
             "backup_uid_invalid", "unsupported", "no_change"}
UntouchedInv ==
  /\ pc \in Early => mem = orig
  /\ pc # "done" => report.summary = "running" /\ ~ report.success
  /\ report.summary \in Refusals => mem = orig

(* after it a tag holds the whole source;                                  *)
Copy == /\ \E t \in Tags : mem[t] = source
        /\ Undisturbed => mem[field] = source
CopyInv ==
  /\ pc \in {"verify_dump", "verify_uid", "success"} \/ report.success => Copy
  /\ pc \in {"verify_uid", "success"} \/ report.success =>
       (options.verify_dump => report.after = source.uid)

(* with the default_keys check, the tag about to be written is a factory   *)
(* tag, and only such a tag has changed;                                   *)
KeysInv ==
  options.default_keys /\ Undisturbed =>
    /\ pc \in {"backup", "restore"} => mem[field].key = FactoryKeys
    /\ mem[field] # orig[field] => orig[field].key = FactoryKeys

(* and the backup that is due is there when the restore is.                *)
Due == [uid |-> uid, image |-> orig[field]]
BackupInv ==
  KeepsFactory(options) /\ Undisturbed =>
    /\ pc = "restore" => Due \in saved
    /\ mem[field] # orig[field] => Due \in saved

CloneInv == TypeOK /\ UntouchedInv /\ CopyInv /\ KeysInv /\ BackupInv

(* The invariant holds before the first operation.                         *)
LEMMA CloneInit == Init => CloneInv
BY TypeInit DEF Init, CloneInv, UntouchedInv, CopyInv, KeysInv, BackupInv,
   Early, Refusals, NewReport

(* A command that ends the operation before the restore, or a success that *)
(* was found there, leaves the tags as they were.                          *)
LEMMA UntouchedStep ==
  TypeOK /\ UntouchedInv /\ [Next]_vars => UntouchedInv'
<1> SUFFICES ASSUME TypeOK, UntouchedInv, [Next]_vars PROVE UntouchedInv'
  OBVIOUS
<1>a. report \in Report
  BY DEF TypeOK
<1>b. {"stopped", "risk_not_confirmed", "backup_failed", "backup_uid_invalid",
       "restore_failed", "verify_failed", "verify_uid_failed"} \subseteq Summaries
  BY DEF Summaries
<1>1. CASE Start
  BY <1>1 DEF Start, UntouchedInv, NewReport, Refusals
<1>2. CASE Load \/ Preflight \/ Current \/ FactoryBackup
  <2>1. pc \in Early /\ mem' = mem /\ orig' = orig
    BY <1>2 DEF Load, Preflight, Current, FactoryBackup, Keep, history, Early
  <2>2. pc' # "done" => UNCHANGED report
    BY <1>2, PreflightEnds DEF Load, Current, FactoryBackup, Proceed, Finish, Fail
  <2>3. pc # "done"
    BY <2>1 DEF Early
  <2> QED
    BY <2>1, <2>2, <2>3 DEF UntouchedInv
<1>3. CASE Restore
  <2>1. orig' = orig /\ pc' \notin Early
    BY <1>3, StageType DEF Restore, Keep, history, Proceed, Fail, Finish, Early
  <2>2. \/ UNCHANGED report
        \/ pc' = "done" /\ report'.summary \in {"restore_failed", "cancelled", "stopped"}
    BY <1>3, <1>a, <1>b, FailEnds DEF Restore, Proceed
  <2> QED
    BY <1>3, <2>1, <2>2 DEF Restore, UntouchedInv, Refusals
<1>4. CASE VerifyDump
  <2>1. UNCHANGED <<mem, orig>> /\ pc' \notin Early
    BY <1>4, StageType DEF VerifyDump, Keep, history, Fail, Finish, Early
  <2>2. /\ report'.summary \in {"running", "verify_failed", "cancelled", "stopped", "compare_bad"}
        /\ pc' # "done" => report'.summary = report.summary /\ report'.success = report.success
    BY <1>4, <1>a, <1>b, FailEnds DEF VerifyDump, UntouchedInv, Report
  <2> QED
    BY <1>4, <2>1, <2>2 DEF VerifyDump, UntouchedInv, Refusals
<1>5. CASE VerifyUid
  <2>1. UNCHANGED <<mem, orig>> /\ pc' \in {"done", "success"}
    BY <1>5 DEF VerifyUid, Keep, history, Fail, Finish
  <2>2. /\ report'.summary \in {"running", "verify_uid_failed", "cancelled", "stopped"}
        /\ pc' # "done" => report'.summary = report.summary /\ report'.success = report.success
    BY <1>5, <1>a, <1>b, FailEnds DEF VerifyUid, UntouchedInv, Report
  <2> QED
    BY <1>5, <2>1, <2>2 DEF VerifyUid, UntouchedInv, Refusals, Early
<1>6. CASE MarkSuccess
  <2>1. report'.summary = "success"
    BY <1>6, <1>a DEF MarkSuccess, Report
  <2> QED
    BY <1>6, <2>1 DEF MarkSuccess, UntouchedInv, Refusals, Early
<1>7. CASE Swap
  BY <1>7 DEF Swap, UntouchedInv
<1>8. CASE UNCHANGED vars
  BY <1>8 DEF vars, history, UntouchedInv
<1> QED
  BY <1>1, <1>2, <1>3, <1>4, <1>5, <1>6, <1>7, <1>8 DEF Next, Step

(* Once acknowledged block by block, the copy stays whole to the report.   *)
LEMMA CopyStep ==
  TypeOK /\ UntouchedInv /\ CopyInv /\ [Next]_vars => CopyInv'
<1> SUFFICES ASSUME TypeOK, UntouchedInv, CopyInv, [Next]_vars PROVE CopyInv'
  OBVIOUS
<1> USE DEF Copy, Undisturbed
<1>a. report \in Report /\ field \in Tags /\ mem \in [Tags -> Image] /\ swaps \in Nat
      /\ source \in Image
  BY Parameters DEF TypeOK
<1>b. {"stopped", "risk_not_confirmed", "backup_failed", "backup_uid_invalid",
       "restore_failed", "verify_failed", "verify_uid_failed"} \subseteq Summaries
  BY DEF Summaries
<1>1. CASE Start
  BY <1>1 DEF Start, CopyInv, NewReport
<1>2. CASE Load \/ Preflight \/ FactoryBackup
  <2>1. pc' \in {"done", "preflight", "current", "backup", "restore"} /\ ~ report'.success
    <3>1. ~ report.success
      BY <1>2 DEF Load, Preflight, FactoryBackup, UntouchedInv
    <3> QED
      BY <1>2, <3>1, <1>a, <1>b, FinishEnds, FailEnds, PreflightEnds
         DEF Load, FactoryBackup, Proceed
  <2> QED
    BY <2>1 DEF CopyInv
<1>3. CASE Current
  <2>0. /\ UNCHANGED <<mem, field, source, options, swaps>> /\ ~ report.success
    BY <1>3 DEF Current, Keep, history, UntouchedInv
  <2>1. pc' = "done"
    BY <1>3, <1>a, <1>b, FinishEnds, FailEnds DEF Current
  <2>2. CASE ~ report'.success
    BY <2>1, <2>2 DEF CopyInv
  <2>3. CASE report'.success
    <3>1. mem[field] = source /\ mem[field].uid = uid
          /\ report' = [summary |-> "no_change", success |-> TRUE,
                        verified |-> TRUE, after |-> uid]
      BY <1>3, <2>0, <2>3, <1>a, <1>b, FinishEnds, FailEnds DEF Current, Report
    <3> QED
      BY <2>0, <2>1, <3>1, <1>a DEF CopyInv
  <2> QED
    BY <2>2, <2>3
<1>4. CASE Restore
  <2>0. /\ UNCHANGED <<field, source, options, swaps>> /\ ~ report.success
    BY <1>4 DEF Restore, Keep, history, UntouchedInv
  <2>1. CASE Fail("restore_failed")
    <3>1. pc' = "done" /\ ~ report'.success
      BY <2>0, <2>1, <1>a, <1>b, FailEnds
    <3> QED
      BY <3>1 DEF CopyInv
  <2>2. CASE mem' = [mem EXCEPT ![field] = source] /\ Proceed(AfterRestore(options))
    <3>1. mem'[field] = source
      BY <2>2, <1>a
    <3>2. /\ pc' \in {"verify_dump", "verify_uid", "success"} /\ ~ report'.success
          /\ pc' # "verify_dump" => ~ options.verify_dump
      BY <2>0, <2>2, StageType DEF Proceed
    <3> QED
      BY <2>0, <3>1, <3>2, <1>a DEF CopyInv
  <2> QED
    BY <1>4, <2>1, <2>2 DEF Restore
<1>5. CASE VerifyDump
  <2>0. /\ UNCHANGED <<mem, field, source, options, swaps>> /\ ~ report.success /\ Copy
    BY <1>5 DEF VerifyDump, Keep, history, UntouchedInv, CopyInv
  <2>1. CASE Fail("verify_failed")
    <3>1. pc' = "done" /\ ~ report'.success
      BY <2>0, <2>1, <1>a, <1>b, FailEnds
    <3> QED
      BY <3>1 DEF CopyInv
  <2>2. CASE ~ Fail("verify_failed")
    <3>1. /\ report' = [report EXCEPT !.after = mem[field].uid, !.summary =
                          IF mem[field] = source THEN report.summary ELSE "compare_bad"]
          /\ pc' = IF mem[field] = source THEN AfterCompare(options) ELSE "done"
      BY <1>5, <2>2 DEF VerifyDump
    <3>2. ~ report'.success /\ report'.after = mem[field].uid
      BY <2>0, <3>1, <1>a DEF Report
    <3> QED
      BY <2>0, <3>1, <3>2, StageType DEF CopyInv
  <2> QED
    BY <2>1, <2>2
<1>6. CASE VerifyUid
  <2>0. /\ UNCHANGED <<mem, field, source, options, swaps>> /\ ~ report.success /\ Copy
    BY <1>6 DEF VerifyUid, Keep, history, UntouchedInv, CopyInv
  <2>1. CASE Fail("verify_uid_failed")
    <3>1. pc' = "done" /\ ~ report'.success
      BY <2>0, <2>1, <1>a, <1>b, FailEnds
    <3> QED
      BY <3>1 DEF CopyInv
  <2>2. CASE ~ Fail("verify_uid_failed")
    <3>1. /\ ~ report'.success
          /\ pc' = "done" \/ (pc' = "success" /\ report'.after = source.uid)
      BY <1>6, <2>0, <2>2, <1>a DEF VerifyUid, Report
    <3> QED
      BY <2>0, <3>1 DEF CopyInv
  <2> QED
    BY <2>1, <2>2
<1>7. CASE MarkSuccess
  <2>1. /\ UNCHANGED <<mem, field, source, options, swaps>> /\ pc = "success" /\ pc' = "done"
    BY <1>7 DEF MarkSuccess, Keep, history
  <2>2. report'.after = report.after
    BY <1>7, <1>a DEF MarkSuccess, Report
  <2> QED
    BY <2>1, <2>2 DEF CopyInv
<1>8. CASE Swap
  <2>1. swaps' # 0 /\ UNCHANGED <<mem, source, options, report, pc>>
    BY <1>8, <1>a DEF Swap
  <2> QED
    BY <2>1 DEF CopyInv
<1>9. CASE UNCHANGED vars
  BY <1>9 DEF vars, history, CopyInv
<1> QED
  BY <1>1, <1>2, <1>3, <1>4, <1>5, <1>6, <1>7, <1>8, <1>9 DEF Next, Step

(* Only a tag with nothing but factory keys gets as far as the restore.    *)
LEMMA KeysStep ==
  TypeOK /\ UntouchedInv /\ KeysInv /\ [Next]_vars => KeysInv'
<1> SUFFICES ASSUME TypeOK, UntouchedInv, KeysInv, [Next]_vars,
                    options'.default_keys, Undisturbed'
             PROVE  KeysInv'
  BY DEF KeysInv
<1> USE DEF Undisturbed
<1>a. swaps \in Nat
  BY Parameters DEF TypeOK
<1>1. CASE Start
  BY <1>1 DEF Start, KeysInv
<1>2. CASE Preflight
  <2>1. UNCHANGED <<mem, field, options, swaps, orig>> /\ mem = orig
    BY <1>2 DEF Preflight, history, UntouchedInv, Early
  <2>2. pc' \in {"backup", "restore"} => mem[field].key = FactoryKeys
    BY <1>2, <2>1, PreflightEnds, AllFactory
  <2> QED
    BY <2>1, <2>2 DEF KeysInv
<1>3. CASE Restore
  <2>1. UNCHANGED <<field, options, swaps, orig>> /\ mem = orig /\ pc = "restore"
    BY <1>3 DEF Restore, Keep, history, UntouchedInv, Early
  <2>2. orig[field].key = FactoryKeys
    BY <2>1 DEF KeysInv
  <2>3. pc' \notin {"backup", "restore"}
    BY <1>3, StageType DEF Restore, Proceed, Fail, Finish
  <2> QED
    BY <2>1, <2>2, <2>3 DEF KeysInv
<1>4. CASE Load \/ Current \/ FactoryBackup \/ VerifyDump \/ VerifyUid \/ MarkSuccess
  <2>1. UNCHANGED <<mem, field, options, swaps, orig>>
    BY <1>4 DEF Load, Current, FactoryBackup, VerifyDump, VerifyUid, MarkSuccess,
                Keep, history
  <2>2. pc' \in {"backup", "restore"} => pc = "backup"
    BY <1>4, StageType DEF Load, Current, FactoryBackup, VerifyDump, VerifyUid,
                MarkSuccess, Proceed, Fail, Finish
  <2> QED
    BY <2>1, <2>2 DEF KeysInv
<1>5. CASE Swap
  BY <1>5, <1>a DEF Swap
<1>6. CASE UNCHANGED vars
  BY <1>6 DEF vars, history, KeysInv
<1> QED
  BY <1>1, <1>2, <1>3, <1>4, <1>5, <1>6 DEF Next, Step

(* A due backup is read from the tag itself and before the restore.        *)
LEMMA BackupStep ==
  TypeOK /\ UntouchedInv /\ BackupInv /\ [Next]_vars => BackupInv'
<1> SUFFICES ASSUME TypeOK, UntouchedInv, BackupInv, [Next]_vars,
                    KeepsFactory(options)', Undisturbed'
             PROVE  BackupInv'
  BY DEF BackupInv
<1> USE DEF Undisturbed
<1>a. swaps \in Nat
  BY Parameters DEF TypeOK
<1>b. ASSUME UNCHANGED options PROVE KeepsFactory(options)
  BY <1>b
<1>1. CASE Start
  BY <1>1 DEF Start, BackupInv
<1>2. CASE Load \/ Preflight \/ Current
  <2>1. UNCHANGED <<mem, field, options, swaps, orig>> /\ mem = orig
    BY <1>2 DEF Load, Preflight, Current, Keep, history, UntouchedInv, Early
  <2>2. pc' # "restore"
    BY <1>2, <2>1, <1>b, PreflightEnds DEF Load, Current, Proceed, Fail, Finish
  <2> QED
    BY <2>1, <2>2 DEF BackupInv
<1>3. CASE FactoryBackup
  <2>1. UNCHANGED <<mem, field, options, uid, swaps, orig>> /\ mem = orig
    BY <1>3 DEF FactoryBackup, Keep, history, UntouchedInv, Early
  <2>2. pc' = "restore" => [uid |-> uid, image |-> mem[field]] \in saved'
    BY <1>3 DEF FactoryBackup, Fail, Finish
  <2> QED
    BY <2>1, <2>2 DEF BackupInv, Due
<1>4. CASE Restore
  <2>1. UNCHANGED <<field, options, uid, swaps, orig, saved>> /\ pc = "restore"
    BY <1>4 DEF Restore, Keep, history
  <2>2. Due \in saved /\ Due' = Due
    BY <2>1, <1>b DEF BackupInv, Due
  <2> QED
    BY <2>1, <2>2 DEF BackupInv
<1>5. CASE VerifyDump \/ VerifyUid \/ MarkSuccess
  <2>1. UNCHANGED <<mem, field, options, uid, swaps, orig, saved>>
    BY <1>5 DEF VerifyDump, VerifyUid, MarkSuccess, Keep, history
  <2>2. pc' # "restore"
    BY <1>5, StageType DEF VerifyDump, VerifyUid, MarkSuccess, Fail, Finish
  <2> QED
    BY <2>1, <2>2, <1>b DEF BackupInv, Due
<1>6. CASE Swap
  BY <1>6, <1>a DEF Swap
<1>7. CASE UNCHANGED vars
  BY <1>7 DEF vars, history, BackupInv, Due
<1> QED
  BY <1>1, <1>2, <1>3, <1>4, <1>5, <1>6, <1>7 DEF Next, Step
-----------------------------------------------------------------------------
(* The inductive invariant holds of every run of the workflow.             *)
THEOREM CloneInvariant == Spec => []CloneInv
<1>1. CloneInv /\ [Next]_vars => CloneInv'
  BY TypeStep, UntouchedStep, CopyStep, KeysStep, BackupStep DEF CloneInv
<1> QED
  BY <1>1, CloneInit, PTL DEF Spec

(* With the default_keys check on, a programmed or half-written tag is     *)
(* never written, whatever else the options leave out.                     *)
THEOREM ProgrammedSafe == Spec => []ProgrammedIsKept
<1>1. CloneInv => ProgrammedIsKept
  BY DEF CloneInv, KeysInv, ProgrammedIsKept
<1> QED
  BY <1>1, CloneInvariant, PTL

(* A success, verified or not, is a copy of the source, keys included.     *)
THEOREM SuccessIsWhole == Spec => []SuccessIsCopy
<1>1. CloneInv => SuccessIsCopy
  BY DEF CloneInv, CopyInv, Copy, SuccessIsCopy
<1> QED
  BY <1>1, CloneInvariant, PTL

(* A report that says nothing was written is right, for every tag.         *)
THEOREM CloneRefusal == Spec => []RefusalWroteNothing
<1>1. CloneInv => RefusalWroteNothing
  BY DEF CloneInv, UntouchedInv, RefusalWroteNothing, Refusals
<1> QED
  BY <1>1, CloneInvariant, PTL

(* Nothing is written before the backup that is due has been saved.        *)
THEOREM CloneBackup == Spec => []BackupBeforeRestore
<1>1. CloneInv => BackupBeforeRestore
  BY DEF CloneInv, BackupInv, Due, BackupBeforeRestore
<1> QED
  BY <1>1, CloneInvariant, PTL
=============================================================================
