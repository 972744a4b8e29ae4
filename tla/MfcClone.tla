------------------------------ MODULE MfcClone ------------------------------
(***************************************************************************)
(* MfcCloneWorkflow (workflows/mfc_clone.py) with its preflight            *)
(* (workflows/preflight_mifare.py): one source image, keys included, is    *)
(* restored to a MIFARE Classic tag that still has the factory keys; a tag *)
(* that is already programmed is read with its own keys and only compared. *)
(*                                                                         *)
(* A tag holds its UID (block 0) and, per sector, the keys of the trailer  *)
(* and the data.  One action is one PM3 command with the code that runs up *)
(* to the next one; a command may do its work, do a part of it and fail,   *)
(* or be cut short; the tag may be exchanged between two commands.         *)
(***************************************************************************)
EXTENDS Naturals, FiniteSets

CONSTANTS Tags, Sector, FirstSector,
          Uid, Key, Data, FactoryKey,
          Kind,         \* tag -> "cuid" (block 0 writable), "plain" or "other"
          FirstImages,  \* what a tag may hold to begin with
          Sources,      \* images the user may select, with their key files
          Library,      \* folder -> [uid |-> as indexed, source |-> its files]
          Options,      \* the option sets in use
          NoUid,        \* stands for an unknown UID
          MaxSwaps,     \* bound: exchanges of the tag during one operation
          MaxOps        \* bound: operations

VARIABLES field,    \* the tag on the antenna
          mem,      \* what each tag holds
          saved,    \* the backups directory: UID of the name, and the dump
          pc,       \* the workflow's next command
          options,
          source,   \* the selected source
          keyfile,  \* keys of current_source, for a programmed tag
          uid,      \* report.target_uid_before, read by the preflight
          report,   \* the WriteReport
          orig,     \* history: mem when the operation started
          swaps,    \* history: exchanges of the tag during this operation
          ops       \* history: operations started

history == <<orig, swaps, ops>>
vars == <<field, mem, saved, pc, options, source, keyfile, uid, report, history>>

KeyFile == [Sector -> Key]
Image   == [uid : Uid, key : KeyFile, data : [Sector -> Data]]
Backup  == [uid : Uid \cup {NoUid}, image : Image]
FactoryKeys == [s \in Sector |-> FactoryKey]

Stages == {"idle", "load", "preflight", "current", "backup", "restore",
           "verify_dump", "verify_uid", "success", "done"}
Summaries ==
  {"running", "risk_not_confirmed", "preflight_failed", "backup_failed",
   "backup_uid_invalid", "unsupported", "no_change", "restore_failed",
   "verify_failed", "compare_bad", "verify_uid_failed", "cancelled",
   "stopped", "success"}
Report == [summary : Summaries, success : BOOLEAN, verified : BOOLEAN,
           after : Uid \cup {NoUid}]
NewReport == [summary |-> "running", success |-> FALSE, verified |-> FALSE,
              after |-> NoUid]

ASSUME Parameters ==
  /\ FirstSector \in Sector /\ FactoryKey \in Key
  /\ NoUid \notin Uid
  /\ Kind \in [Tags -> {"cuid", "plain", "other"}]
  /\ FirstImages \subseteq Image /\ Sources \subseteq Image
  /\ \A f \in DOMAIN Library : Library[f] \in [uid : Uid, source : Image]
  /\ Tags # {} /\ FirstImages # {} /\ Sources # {} /\ Options # {}
  /\ \A o \in Options :
       /\ o.checks \subseteq {"client_firmware", "tag_type", "magic_type"}
       /\ {o.default_keys, o.backup, o.thorough, o.target_stability,
           o.verify_dump, o.verify_uid} \subseteq BOOLEAN
  /\ MaxSwaps \in Nat /\ MaxOps \in Nat

Init ==
  /\ field \in Tags /\ mem \in [Tags -> FirstImages]
  /\ saved = {} /\ pc = "idle"
  /\ options = CHOOSE o \in Options : TRUE
  /\ source = CHOOSE s \in Sources : TRUE
  /\ keyfile = FactoryKeys /\ uid = NoUid /\ report = NewReport
  /\ orig = mem /\ swaps = 0 /\ ops = 0
-----------------------------------------------------------------------------
Finish(summary) == pc' = "done" /\ report' = [report EXCEPT !.summary = summary]
Fail(summary) == \E s \in {summary, "cancelled", "stopped"} : Finish(s)
Proceed(stage) == pc' = stage /\ UNCHANGED report

(* Sectors that open with the factory keys, and what a dump with a key     *)
(* file demands: all its sectors open.                                     *)
FactorySectors(t) ==
  IF Kind[t] = "other" THEN {} ELSE {s \in Sector : mem[t].key[s] = FactoryKey}
Opens(t, keys) == Kind[t] # "other" /\ mem[t].key = keys

AfterRestore(o) == IF o.verify_dump THEN "verify_dump"
                   ELSE IF o.verify_uid THEN "verify_uid" ELSE "success"
AfterCompare(o) == IF o.verify_uid THEN "verify_uid" ELSE "success"

(* Backups of a factory tag are for the thorough and the custom profile.   *)
KeepsFactory(o) == o.backup /\ o.thorough

(* The user starts an operation with some tag on the antenna.              *)
Start ==
  /\ pc \in {"idle", "done"} /\ ops < MaxOps
  /\ options' \in Options /\ source' \in Sources /\ field' \in Tags
  /\ pc' = "load" /\ report' = NewReport
  /\ keyfile' = FactoryKeys /\ uid' = NoUid
  /\ orig' = mem /\ swaps' = 0 /\ ops' = ops + 1
  /\ UNCHANGED <<mem, saved>>

(* _load_source, which may find the files invalid, and the confirmation.   *)
Load ==
  /\ pc = "load"
  /\ UNCHANGED <<field, mem, saved, options, source, keyfile, uid, history>>
  /\ Finish("stopped") \/ Finish("risk_not_confirmed") \/ Proceed("preflight")

(* The preflight has no command to send when every check is switched off.  *)
(* `hf 14a info` reads the UID; `hf mf info` may show it too.              *)
AsksForUid(o) == "tag_type" \in o.checks \/ o.target_stability \/ o.verify_uid
Asks(o) == o.checks # {} \/ o.default_keys \/ AsksForUid(o)
UidsRead(u) == IF AsksForUid(options) THEN {u}
               ELSE IF "magic_type" \in options.checks THEN {u, NoUid} ELSE {NoUid}

(* _load_current_target_source: the key file of the selected source itself *)
(* or of the only folder the material library lists for the UID.  (The     *)
(* index may be older than the files.)                                     *)
WithUid(u) == {f \in DOMAIN Library : Library[f].uid = u}
KeyFiles(u) ==
  IF u = source.uid THEN {source.key}
  ELSE IF Cardinality(WithUid(u)) = 1
       THEN {Library[f].source.key : f \in WithUid(u)} ELSE {}

(* _prepare_target classifies by the table of the default_keys check.      *)
Fresh(table) == options.default_keys /\ table.complete /\ table.factory = Sector
Programmed(table) == options.default_keys /\ table.complete /\ table.factory = {}

(* What the default_keys check accepts: all the keys or none are factory   *)
(* keys, in a table that is complete.                                      *)
WarnsOfPartialKeys(table) ==      \* mutant: some factory keys are enough
  options.default_keys => table.complete
KeysAccepted(table) == options.default_keys => Fresh(table) \/ Programmed(table)

(* run_mifare_preflight and the start of _prepare_target.                  *)
Preflight ==
  /\ pc = "preflight"
  /\ UNCHANGED <<field, mem, saved, options, source, history>>
  /\ \/ /\ IF Asks(options) THEN Fail("preflight_failed") ELSE Fail("stopped")
        /\ UNCHANGED <<uid, keyfile>>
     \/ \E firmware, magic, complete \in BOOLEAN :
          LET table == [complete |-> complete, factory |-> FactorySectors(field)]
              programmed == Programmed(table)
              passed ==
                /\ "client_firmware" \in options.checks => firmware
                /\ "tag_type" \in options.checks => Kind[field] # "other"
                /\ "magic_type" \in options.checks => magic \/ programmed
                /\ KeysAccepted(table)
          IN  /\ magic => Kind[field] = "cuid"
              /\ complete => Kind[field] # "other"
              /\ uid' \in UidsRead(mem[field].uid)
              /\ \/ /\ passed => programmed /\ uid' # source.uid
                    /\ Finish("preflight_failed") /\ UNCHANGED keyfile
                 \/ /\ passed /\ programmed
                    /\ keyfile' \in KeyFiles(uid')
                    /\ Proceed("current")
                 \/ /\ passed /\ ~ programmed
                    /\ Proceed(IF KeepsFactory(options) THEN "backup" ELSE "restore")
                    /\ UNCHANGED keyfile
-----------------------------------------------------------------------------
Keep == UNCHANGED <<field, options, source, keyfile, uid, history>>

(* _read_programmed_baseline and the rest of _prepare_programmed_target:   *)
(* equal to the source is a success without a write, else unsupported.     *)
Current ==
  /\ pc = "current" /\ Keep /\ UNCHANGED mem
  /\ LET dump == mem[field]
         kept == IF options.backup THEN {[uid |-> dump.uid, image |-> dump]} ELSE {}
     IN  \/ Fail("backup_failed") /\ UNCHANGED saved
         \/ /\ Opens(field, keyfile) /\ dump.uid # uid
            /\ Finish("backup_uid_invalid") /\ UNCHANGED saved
         \/ /\ Opens(field, keyfile) /\ dump.uid = uid
            /\ saved' = saved \cup kept
            /\ pc' = "done"
            /\ report' = IF dump = source
                         THEN [summary |-> "no_change", success |-> TRUE,
                               verified |-> TRUE, after |-> uid]
                         ELSE [report EXCEPT !.summary = "unsupported"]

(* The dump of _prepare_factory_or_unchecked_target.  It is named by the   *)
(* UID of the preflight; nothing compares the two.                         *)
FactoryBackupOrNot ==      \* mutant: a failed dump does not stop the clone
  /\ pc = "backup" /\ Keep /\ UNCHANGED mem
  /\ \/ UNCHANGED saved
     \/ Opens(field, FactoryKeys)
        /\ saved' = saved \cup {[uid |-> uid, image |-> mem[field]]}
  /\ Proceed("restore")
FactoryBackup ==
  /\ pc = "backup" /\ Keep /\ UNCHANGED mem
  /\ \/ Fail("backup_failed") /\ UNCHANGED saved
     \/ /\ Opens(field, FactoryKeys)
        /\ saved' = saved \cup {[uid |-> uid, image |-> mem[field]]}
        /\ Proceed("restore")

(* `hf mf restore` without --ka logs in with the factory keys, sector by   *)
(* sector, and writes data and trailers; block 0 takes only on a CUID.     *)
Copied(image, block0, keys, data) ==
  [uid  |-> IF block0 THEN source.uid ELSE image.uid,
   key  |-> [s \in Sector |-> IF s \in keys THEN source.key[s] ELSE image.key[s]],
   data |-> [s \in Sector |-> IF s \in data THEN source.data[s] ELSE image.data[s]]]
PartlyCopied ==
  \E block0 \in BOOLEAN, keys \in SUBSET FactorySectors(field),
     data \in SUBSET FactorySectors(field) :
    /\ block0 => Kind[field] = "cuid" /\ FirstSector \in FactorySectors(field)
    /\ mem' = [mem EXCEPT ![field] = Copied(@, block0, keys, data)]

(* _restore_source: mfc_restore_succeeded counts an ok for every block.    *)
RestoreAny ==              \* mutant: any ok passes for all of them
  /\ pc = "restore" /\ Keep /\ UNCHANGED saved
  /\ PartlyCopied
  /\ Proceed(AfterRestore(options)) \/ Fail("restore_failed")
RestoreRetried ==          \* mutant: a failed restore begins anew
  /\ pc = "restore" /\ Keep /\ UNCHANGED saved
  /\ \/ /\ Kind[field] = "cuid" /\ FactorySectors(field) = Sector
        /\ mem' = [mem EXCEPT ![field] = source]
        /\ Proceed(AfterRestore(options))
     \/ PartlyCopied /\ Proceed("preflight")
Restore ==
  /\ pc = "restore" /\ Keep /\ UNCHANGED saved
  /\ \/ /\ Kind[field] = "cuid" /\ FactorySectors(field) = Sector
        /\ mem' = [mem EXCEPT ![field] = source]
        /\ Proceed(AfterRestore(options))
     \/ PartlyCopied /\ Fail("restore_failed")

(* _verify_dump, with the keys of the source.                              *)
VerifyDump ==
  /\ pc = "verify_dump" /\ Keep /\ UNCHANGED <<mem, saved>>
  /\ \/ Fail("verify_failed")
     \/ /\ Opens(field, source.key)
        /\ LET passed == mem[field] = source
           IN  /\ pc' = IF passed THEN AfterCompare(options) ELSE "done"
               /\ report' = [report EXCEPT !.after = mem[field].uid,
                               !.summary = IF passed THEN @ ELSE "compare_bad"]

(* _verify_uid: the UID alone, of whatever tag answers.                    *)
VerifyUid ==
  /\ pc = "verify_uid" /\ Keep /\ UNCHANGED <<mem, saved>>
  /\ \/ Fail("verify_uid_failed")
     \/ \E seen \in {NoUid, mem[field].uid} :
          /\ pc' = IF seen = source.uid THEN "success" ELSE "done"
          /\ report' = [report EXCEPT !.after = seen,
                          !.summary = IF seen = source.uid THEN @ ELSE "verify_uid_failed"]

MarkVerified ==            \* mutant: success needs a readback
  /\ pc = "success" /\ Keep /\ UNCHANGED <<mem, saved>>
  /\ options.verify_dump \/ options.verify_uid
  /\ pc' = "done"
  /\ report' = [report EXCEPT !.summary = "success", !.success = TRUE, !.verified = TRUE]
MarkSuccess ==
  /\ pc = "success" /\ Keep /\ UNCHANGED <<mem, saved>>
  /\ pc' = "done"
  /\ report' = [report EXCEPT !.summary = "success", !.success = TRUE,
                  !.verified = options.verify_dump \/ options.verify_uid]

(* The user puts another tag on the antenna while the operation runs.      *)
Swap ==
  /\ pc \notin {"idle", "success", "done"} /\ swaps < MaxSwaps
  /\ field' \in Tags \ {field}
  /\ swaps' = swaps + 1
  /\ UNCHANGED <<mem, saved, pc, options, source, keyfile, uid, report, orig, ops>>

Step == \/ Load \/ Preflight \/ Current \/ FactoryBackup \/ Restore
        \/ VerifyDump \/ VerifyUid \/ MarkSuccess
Next == Start \/ Step \/ Swap

Spec     == Init /\ [][Next]_vars
FairSpec == Spec /\ WF_vars(Step)
-----------------------------------------------------------------------------
TypeOK ==
  /\ field \in Tags
  /\ mem \in [Tags -> Image] /\ orig \in [Tags -> Image]
  /\ saved \subseteq Backup
  /\ pc \in Stages /\ options \in Options /\ source \in Sources
  /\ keyfile \in KeyFile /\ uid \in Uid \cup {NoUid}
  /\ pc = "current" => uid \in Uid      \* the keys are looked up by it
  /\ report \in Report
  /\ swaps \in 0..MaxSwaps /\ ops \in 0..MaxOps

Undisturbed == swaps = 0

(***************************************************************************)
(* With the default_keys check on, a tag is written only while all its     *)
(* keys are factory keys: a programmed tag, and one that an earlier clone  *)
(* left half written, stays exactly as it was.                             *)
(***************************************************************************)
ProgrammedIsKept ==
  /\ options.default_keys /\ Undisturbed
  /\ orig[field].key # FactoryKeys
  => mem[field] = orig[field]

(* A reported success, read back or not, written or found, is a tag that   *)
(* equals the source, keys included; undisturbed it is the one in the      *)
(* field, and after a comparison of the dump it has the reported UID.      *)
SuccessIsCopy ==
  report.success =>
    /\ \E t \in Tags : mem[t] = source
    /\ Undisturbed => mem[field] = source
    /\ options.verify_dump => report.after = source.uid

(* The reports that say nothing was written, or the tag was not changed,   *)
(* are right for every tag, even when tags were exchanged.                 *)
RefusalWroteNothing ==
  report.summary \in {"risk_not_confirmed", "preflight_failed", "backup_failed",
                      "backup_uid_invalid", "unsupported", "no_change"} => mem = orig

(* Where the profile keeps a factory tag, its old content and its UID, if  *)
(* that was read, are in the backups directory before anything is written. *)
BackupBeforeRestore ==
  /\ KeepsFactory(options) /\ Undisturbed
  /\ mem[field] # orig[field]
  => [uid |-> uid, image |-> orig[field]] \in saved

(* "Verify that the tag was not replaced" (locales/en.json:469, the option *)
(* target_stability): so a backup carries the UID of the tag it was read   *)
(* from, or the operation stops there.                                     *)
BackupNamesItsTag ==
  options.target_stability => \A b \in saved : b.uid = b.image.uid

(* Every operation comes to a report.                                      *)
Finishes == (pc = "load") ~> (pc = "done")
=============================================================================
