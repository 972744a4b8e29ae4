--------------------------- MODULE Type2Operation ---------------------------
(***************************************************************************)
(* What the two NFC Type 2 workflows share (workflows/common.py,           *)
(* workflows/preflight_type2.py): the tags and the backups directory, the  *)
(* state of one running operation, its preflight, the outcomes of a page   *)
(* write and the ways an operation ends.  One action of a workflow is one  *)
(* PM3 command with the code that runs up to the next one.  A command may  *)
(* do its work, do a part of it and fail, or do a part of it and be cut    *)
(* short by a cancellation or an exception; the tag on the antenna may be  *)
(* exchanged between two commands.                                         *)
(***************************************************************************)
EXTENDS Type2Tag

CONSTANTS Options,      \* the option sets in use
          FirstImages,  \* what a tag may hold to begin with
          Refused,      \* tag -> names of the preflight checks it fails
          Profile,      \* tag -> its memory profile
          NoProfile,    \* stands for a profile that is not recognised
          NoTag,        \* stands for an unknown UID
          MaxSwaps,     \* bound: exchanges of the tag during one operation
          MaxOps        \* bound: operations

VARIABLES field,    \* the tag on the antenna
          mem,      \* what each tag holds
          saved,    \* dumps in the backups directory
          pc,       \* the workflow's next command
          options,
          uid,      \* tag.uid, read by the preflight
          profile,  \* tag.type2_profile, read by the preflight
          base,     \* plan.baseline_dump
          todo,     \* pages of the plan still to be written
          report,   \* the WriteReport
          orig,     \* history: mem when the operation started
          swaps,    \* history: exchanges of the tag during this operation
          ops       \* history: operations started

history == <<orig, swaps, ops>>
common  == <<field, mem, saved, pc, options, uid, profile, base, todo, report, history>>

Summaries ==
  {"running", "preflight_failed", "ndef_too_large", "backup_failed",
   "layout_unsafe", "uid_mismatch", "invalidate_failed", "body_write_failed",
   "write_failed", "body_verify_failed", "body_mismatch", "commit_failed",
   "verify_failed", "bytes_mismatch", "erase_batch_failed",
   "erase_compare_failed", "cancelled", "stopped", "success"}
Stages ==
  {"idle", "preflight", "baseline", "restore", "invalidate", "body", "direct",
   "precommit", "commit", "final", "success", "done"}
Profiles == {NoProfile} \cup {Profile[t] : t \in Tags}
Report == [summary : Summaries, success : BOOLEAN, verified : BOOLEAN,
           after : Tags \cup {NoTag}]
NewReport == [summary |-> "running", success |-> FALSE, verified |-> FALSE,
              after |-> NoTag]

ASSUME Parameters ==
  /\ Options # {} /\ Tags # {} /\ FirstImages # {}
  /\ FirstImages \subseteq Image
  /\ NoTag \notin Tags
  /\ \A t \in Tags : Profile[t] = NoProfile => "tag_type" \in Refused[t]
  /\ MaxSwaps \in Nat /\ MaxOps \in Nat

CommonInit ==
  /\ field \in Tags
  /\ mem \in [Tags -> FirstImages]
  /\ saved = {}
  /\ pc = "idle"
  /\ options = CHOOSE o \in Options : TRUE
  /\ uid = NoTag /\ profile = NoProfile /\ base = NoDump /\ todo = {}
  /\ report = NewReport
  /\ orig = mem /\ swaps = 0 /\ ops = 0

CommonTypeOK ==
  /\ field \in Tags
  /\ mem \in [Tags -> Image] /\ orig \in [Tags -> Image]
  /\ saved \subseteq Dump
  /\ pc \in Stages
  /\ options \in Options
  /\ uid \in Tags \cup {NoTag}
  /\ profile \in Profiles
  /\ base \in Dump \cup {NoDump}
  /\ pc = "restore" => base \in Dump    \* "restore requires a complete baseline dump"
  /\ todo \subseteq UserPage
  /\ report \in Report
  /\ swaps \in 0..MaxSwaps /\ ops \in 0..MaxOps
-----------------------------------------------------------------------------
(* Every error path: the report is finished unsuccessfully.  A command may *)
(* also be left by OperationCancelledError or by another exception.        *)
Finish(summary) ==
  /\ pc' = "done"
  /\ report' = [report EXCEPT !.summary = summary]
Fail(summary) == \E s \in {summary, "cancelled", "stopped"} : Finish(s)
Proceed(stage) == pc' = stage /\ UNCHANGED report

(* The user starts an operation with some tag on the antenna.              *)
Begin ==
  /\ pc \in {"idle", "done"} /\ ops < MaxOps
  /\ options' \in Options /\ field' \in Tags
  /\ pc' = "preflight"
  /\ uid' = NoTag /\ profile' = NoProfile /\ base' = NoDump /\ todo' = {}
  /\ report' = NewReport
  /\ orig' = mem /\ swaps' = 0 /\ ops' = ops + 1
  /\ UNCHANGED <<mem, saved>>

(* The user puts another tag on the antenna while the operation runs.      *)
Swap ==
  /\ pc \notin {"idle", "success", "done"} /\ swaps < MaxSwaps
  /\ field' \in Tags \ {field}
  /\ swaps' = swaps + 1
  /\ UNCHANGED <<mem, saved, pc, options, uid, profile, base, todo, report, orig, ops>>

(* run_type2_preflight: the command fails, or its answer passes or fails   *)
(* the checks the options name.  A known profile is always demanded, and a *)
(* UID never is: the answer may lack the line that shows it.  The firmware *)
(* check depends on the reader, not on the tag.                            *)
PreflightFails == Fail("preflight_failed") /\ UNCHANGED <<uid, profile>>
Identified == uid' \in {field, NoTag} /\ profile' = Profile[field]
Refuses(tag, firmware) ==
  (options.checks \cup {"tag_type"})
    \cap (Refused[tag] \cup (IF firmware THEN {} ELSE {"client_firmware"})) # {}

(* The dump of the tag on the antenna, read by `hf mfu dump`.              *)
DumpNow == [uid |-> field, page |-> mem[field]]

(* What the baseline dump must share with the preflight: the profile, if   *)
(* the dump shows a known one, and the UID, if the preflight saw one.      *)
SameProfile == Profile[field] \in {NoProfile, profile}
SameUid     == options.target_stability => uid \in {NoTag, field}

(* What the tag keeps of a page write that fails: any of its pages.  (The  *)
(* PM3 goes on with the other pages of a line after one was refused.)      *)
PartlyStored(pages, data) ==
  \E part \in SUBSET pages : mem' = Stored(mem, field, part, data)

(* One batch of _write_pages: acknowledged page by page, or failed.        *)
WriteBatch(pages, data, failure, stage) ==
  \/ mem' = Stored(mem, field, pages, data) /\ Proceed(stage)
  \/ PartlyStored(pages, data) /\ Fail(failure)

(* `hf mfu restore`.  mfu_restore_succeeded demands its first and its last *)
(* message, not one for every page, so a success may leave pages out.      *)
RestorePages(data, failure, stage) ==
  /\ PartlyStored(UserPage, data)
  /\ Proceed(stage) \/ Fail(failure)

(* _mark_success of both workflows.                                        *)
Succeed ==
  /\ pc' = "done"
  /\ report' = [report EXCEPT !.summary = "success", !.success = TRUE,
                              !.verified = options.final_verify]

(* The readback's UID goes into the report; then the comparison decides.   *)
Compared(passed, failure) ==
  /\ pc' = IF passed THEN "success" ELSE "done"
  /\ report' = [report EXCEPT !.after = field,
                              !.summary = IF passed THEN @ ELSE failure]

(* During command stages: the tag that has been on the antenna throughout. *)
Undisturbed == swaps = 0
Paged == options.method # "restore"     \* page writes, raw or wrbl
=============================================================================
