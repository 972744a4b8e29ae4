---------------------------- MODULE MCType2Write ----------------------------
(***************************************************************************)
(* Instances of Type2Write.  The tag is scaled down to four NDEF pages     *)
(* (16 bytes, so that the capability container declares 2 * 8), one user   *)
(* page behind them (an NTAG215 has two, pages 128 and 129) and one page   *)
(* of configuration.                                                       *)
(***************************************************************************)
EXTENDS Type2WriteRefines, TLC

CONSTANTS Good, Other, Plain, Small       \* tags

(* Presets of options.py, and settings the Custom profile allows.          *)
AllChecks == {"client_firmware", "static_lock", "dynamic_lock", "auth0"}
Recommended == [method |-> "raw", thorough |-> FALSE, checks |-> AllChecks,
                backup |-> TRUE, target_stability |-> TRUE, two_phase |-> TRUE,
                precommit_verify |-> FALSE, final_verify |-> TRUE,
                protected_verify |-> TRUE]
Thorough == [Recommended EXCEPT !.thorough = TRUE, !.precommit_verify = TRUE]
Fast == [method |-> "raw", thorough |-> FALSE,
         checks |-> {"static_lock", "dynamic_lock", "auth0"},
         backup |-> FALSE, target_stability |-> FALSE, two_phase |-> FALSE,
         precommit_verify |-> FALSE, final_verify |-> FALSE,
         protected_verify |-> FALSE]
CustomOptions ==
  "recommended" :> Recommended @@ "thorough" :> Thorough @@ "fast" :> Fast
  @@ "restore" :> [Recommended EXCEPT !.method = "restore"]
  @@ "restore_direct" :> [Fast EXCEPT !.method = "restore", !.final_verify = TRUE]
  @@ "wrbl_direct" :> [Recommended EXCEPT !.method = "wrbl", !.two_phase = FALSE]
  @@ "blind" :> [Fast EXCEPT !.two_phase = TRUE, !.precommit_verify = TRUE,
                             !.final_verify = TRUE]
  @@ "unlocked" :> [Fast EXCEPT !.checks = {}]
MCOptions == {CustomOptions[name] : name \in DOMAIN CustomOptions}

(* Messages: `plain` ends inside page 6; `chained` has a body whose bytes, *)
(* behind a zeroed page 4, are malformed TLVs; `decoy` one whose second    *)
(* page reads as an NDEF TLV (as the body of a URI record with a payload   *)
(* of three bytes does); `long` exceeds the capacity.                      *)
AllMessages ==
  "plain" :> <<3, 6, 209, 1,  0, 7, 7, 7,  254>>
  @@ "chained" :> <<3, 8, 209, 1,  4, 84, 7, 7,  7, 7, 254>>
  @@ "decoy" :> <<3, 8, 209, 1,  3, 2, 7, 7,  0, 0, 254>>
  @@ "long" :> <<3, 15, 209, 1,  1, 1, 1, 1,  1, 1, 1, 1,  1, 1, 1, 1,  1, 254>>
MCMessages == {AllMessages[name] : name \in DOMAIN AllMessages}

(* First images: pages 3..9, from the bytes of the NDEF area.              *)
MCImage(cc, area) ==
  [p \in Page |-> CASE p = CcPage -> cc
                    [] p \in NdefPage -> PageOf(area, p)
                    [] p = UserLast -> <<9, 9, 9, 9>>
                    [] OTHER -> <<0, 0, 0, 189>>]
Cc == <<225, 16, 2, 0>>
AllImages ==
  "zero" :> MCImage(Cc, <<>>)
  @@ "empty" :> MCImage(Cc, <<3, 0, 254>>)
  @@ "older" :> MCImage(Cc, <<3, 9, 209, 1,  5, 5, 5, 5,  5, 5, 5, 254>>)
  @@ "same" :> MCImage(Cc, <<3, 6, 209, 1,  0, 7, 7, 7,  254>>)
  @@ "lockctl" :> MCImage(Cc, <<1, 3, 160, 12,  52, 3, 0, 254>>)
  @@ "broken" :> MCImage(Cc, <<3, 99, 1>>)
  @@ "nocc" :> MCImage(ZeroPage, <<3, 99, 1>>)
MCFirstImages == {AllImages[name] : name \in DOMAIN AllImages}

(* `Small` is a locked tag of another profile, `Plain` one of no profile   *)
(* (neither its last page nor its capability container is recognised).     *)
MCRefused == [t \in Tags |-> CASE t = Small -> {"static_lock"}
                               [] t = Plain -> {"tag_type"}
                               [] OTHER -> {}]
MCProfile == [t \in Tags |-> CASE t = Small -> "ntag213"
                               [] t = Plain -> NoProfile
                               [] OTHER -> "ntag215"]
-----------------------------------------------------------------------------
(* A behaviour belongs to one study, which narrows what it starts from:    *)
(* all settings, messages and first images on one tag; the part of these   *)
(* for which the transaction is promised; tags exchanged during a write.   *)
VARIABLE study
Studies ==
  "presets" :> [tags |-> {Good}, options |-> DOMAIN CustomOptions,
                messages |-> DOMAIN AllMessages, images |-> DOMAIN AllImages,
                swaps |-> 0, ops |-> 2]
  @@ "two phases" :> [tags |-> {Good}, options |-> {"recommended", "thorough", "blind"},
                      messages |-> {"plain", "chained", "decoy"},
                      images |-> {"zero", "empty", "older", "same", "lockctl"},
                      swaps |-> 0, ops |-> 2]
  @@ "exchange" :> [tags |-> {Good, Other, Plain, Small},
                    options |-> {"recommended", "thorough", "restore", "fast", "blind"},
                    messages |-> {"plain"}, images |-> {"older", "same"},
                    swaps |-> 2, ops |-> 1]
Chosen == Studies[study]
Named(names, table) == {table[name] : name \in names}

StudyInit ==
  /\ study \in DOMAIN Studies /\ Init
  /\ field \in Chosen.tags
  /\ \A t \in Tags : mem[t] \in IF t \in Chosen.tags THEN Named(Chosen.images, AllImages)
                                                     ELSE {AllImages["zero"]}
StudyStart ==
  /\ ops < Chosen.ops
  /\ Start
  /\ field' \in Chosen.tags
  /\ options' \in Named(Chosen.options, CustomOptions)
  /\ tlv' \in Named(Chosen.messages, AllMessages)
StudyExchange == swaps < Chosen.swaps /\ Exchange
StudyNext == (StudyStart \/ Step \/ StudyExchange) /\ UNCHANGED study
StudySpec == StudyInit /\ [][StudyNext]_<<vars, study>> /\ WF_vars(Step)

(* Every step of a two-phase write by pages on a tag that stays in place,  *)
(* with all its failures, is a step of the transaction, or changes nothing *)
(* a reader or the user can see (workflows/type2_write.py).                *)
Promised == study = "two phases"
Transaction == INSTANCE NdefTransaction
                 WITH shown   <- IF Promised THEN Shown ELSE "nothing",
                      verdict <- IF Promised THEN Verdict ELSE "none"
ImplementsTransaction == Transaction!Spec
=============================================================================
