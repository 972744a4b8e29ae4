---------------------------- MODULE MCType2Erase ----------------------------
(***************************************************************************)
(* Instances of Type2Erase, on the scaled-down tag of MCType2Write: four   *)
(* NDEF pages, one user page behind them, one page of configuration.       *)
(***************************************************************************)
EXTENDS Type2Erase, TLC

CONSTANTS Good, Other, Plain, Small      \* tags

AllChecks == {"client_firmware", "static_lock", "dynamic_lock", "auth0"}
Recommended == [method |-> "raw", scope |-> "ndef", thorough |-> FALSE,
                checks |-> AllChecks, backup |-> TRUE, target_stability |-> TRUE,
                scan_nonzero_pages |-> TRUE, final_verify |-> TRUE,
                protected_verify |-> TRUE]
Fast == [Recommended EXCEPT !.checks = AllChecks \ {"client_firmware"},
           !.backup = FALSE, !.target_stability = FALSE,
           !.scan_nonzero_pages = FALSE, !.final_verify = FALSE,
           !.protected_verify = FALSE]
AllOptions ==
  "recommended" :> Recommended @@ "fast" :> Fast
  @@ "thorough" :> [Recommended EXCEPT !.thorough = TRUE]
  @@ "user" :> [Recommended EXCEPT !.scope = "user"]
  @@ "user_fast" :> [Fast EXCEPT !.scope = "user"]
  @@ "user_all" :> [Recommended EXCEPT !.scope = "user", !.scan_nonzero_pages = FALSE]
  @@ "restore" :> [Recommended EXCEPT !.method = "restore"]
  @@ "user_restore" :> [Fast EXCEPT !.scope = "user", !.method = "restore",
                                    !.final_verify = TRUE]
MCOptions == {AllOptions[name] : name \in DOMAIN AllOptions}

MCImage(cc, area) ==
  [p \in Page |-> CASE p = CcPage -> cc
                    [] p \in NdefPage -> PageOf(area, p)
                    [] p = UserLast -> <<9, 9, 9, 9>>
                    [] OTHER -> <<0, 0, 0, 189>>]
Cc == <<225, 16, 2, 0>>
(* `older` is one NDEF TLV over four pages; `wrapped` has one between a    *)
(* lock control TLV and a proprietary TLV; `twice` has two; the payload of *)
(* `decoy` contains bytes that read as TLVs of their own.                  *)
AllImages ==
  "zero" :> MCImage(Cc, <<>>)
  @@ "empty" :> MCImage(Cc, <<3, 0, 254>>)
  @@ "older" :> MCImage(Cc, <<3, 12, 209, 1,  5, 5, 5, 5,  5, 5, 5, 5, 5, 5, 254>>)
  @@ "wrapped" :> MCImage(Cc, <<1, 2, 160, 12,  3, 4, 7, 7,  7, 7, 253, 2,  8, 8, 254>>)
  @@ "twice" :> MCImage(Cc, <<3, 3, 7, 7,  7, 0, 3, 2,  7, 7, 254>>)
  @@ "decoy" :> MCImage(Cc, <<3, 10, 209, 1,  5, 2, 6, 6,  0, 3, 1, 6,  254>>)
  @@ "nocc" :> MCImage(ZeroPage, <<3, 99, 1>>)
  @@ "broken" :> MCImage(Cc, <<3, 99, 1>>)
MCFirstImages == {AllImages[name] : name \in DOMAIN AllImages}

(* `Plain` is a tag of no profile, `Small` one of another.                 *)
MCRefused == [t \in Tags |-> IF t = Plain THEN {"tag_type"} ELSE {}]
MCProfile == [t \in Tags |-> CASE t = Plain -> NoProfile
                               [] t = Small -> "ntag213"
                               [] OTHER -> "ntag215"]
-----------------------------------------------------------------------------
(* A behaviour belongs to one study, which narrows what it starts from:    *)
(* all settings and first images on one tag, or tags exchanged.            *)
VARIABLE study
Studies ==
  "presets" :> [tags |-> {Good}, options |-> DOMAIN AllOptions,
                images |-> DOMAIN AllImages, swaps |-> 0, ops |-> 2]
  @@ "exchange" :> [tags |-> Tags \ {Small},
                    options |-> {"recommended", "fast", "user", "restore", "user_restore"},
                    images |-> {"older", "wrapped"}, swaps |-> 2, ops |-> 1]
Chosen == Studies[study]

StudyInit ==
  /\ study \in DOMAIN Studies /\ Init
  /\ field \in Chosen.tags
  /\ \A t \in Tags : mem[t] \in IF t \in Chosen.tags
                              THEN {AllImages[name] : name \in Chosen.images}
                              ELSE {AllImages["zero"]}
StudyStart ==
  /\ ops < Chosen.ops
  /\ Start
  /\ field' \in Chosen.tags
  /\ options' \in {AllOptions[name] : name \in Chosen.options}
StudyExchange == swaps < Chosen.swaps /\ Exchange
StudyNext == (StudyStart \/ Step \/ StudyExchange) /\ UNCHANGED study
StudySpec == StudyInit /\ [][StudyNext]_<<vars, study>> /\ WF_vars(Step)
=============================================================================
