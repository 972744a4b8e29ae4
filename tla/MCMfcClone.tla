----------------------------- MODULE MCMfcClone -----------------------------
(***************************************************************************)
(* Instances of MfcClone: two sectors (of sixteen), two Bambu UIDs with    *)
(* their keys, and factory tags with UIDs of their own.                    *)
(***************************************************************************)
EXTENDS MfcClone, TLC

CONSTANTS Blank, Second, Fixed, Ultralight,   \* tags
          OptionSet, ImageSet, SourceSet      \* names in use

MCKind == [t \in Tags |-> IF t = Fixed THEN "plain"
                          ELSE IF t = Ultralight THEN "other" ELSE "cuid"]

MCImage(u, k1, k2, d) ==
  [uid |-> u, key |-> (1 :> k1 @@ 2 :> k2), data |-> [s \in Sector |-> d]]
PlaA == MCImage("uidA", "keysA", "keysA", "pla")
AllImages ==
  "factory" :> MCImage("uid0", "FFFF", "FFFF", "zero")
  @@ "factory1" :> MCImage("uid1", "FFFF", "FFFF", "zero")
  @@ "pla" :> PlaA
  @@ "spool" :> [PlaA EXCEPT !.data[2] = "petg"]   \* same UID, other content
  @@ "petg" :> MCImage("uidB", "keysB", "keysB", "petg")
  @@ "halfA" :> MCImage("uidA", "keysA", "FFFF", "pla")
  @@ "rekeyed" :> MCImage("uid0", "keysA", "keysA", "pla")   \* block 0 was kept
MCFirstImages == {AllImages[name] : name \in ImageSet}
MCSources == {AllImages[name] : name \in SourceSet}

(* The library: a source for uidA, and a folder whose index is out of date.*)
MCLibrary == "folder1" :> [uid |-> "uidA", source |-> PlaA]
          @@ "folder2" :> [uid |-> "uid0", source |-> PlaA]

MfcChecks == {"client_firmware", "tag_type", "magic_type"}
MfcRecommended == [checks |-> MfcChecks, default_keys |-> TRUE, backup |-> TRUE,
                   thorough |-> FALSE, target_stability |-> TRUE,
                   verify_dump |-> TRUE, verify_uid |-> FALSE]
MfcThorough == [MfcRecommended EXCEPT !.thorough = TRUE, !.verify_uid = TRUE]
MfcFast == [MfcRecommended EXCEPT !.checks = {"tag_type", "magic_type"},
              !.backup = FALSE, !.target_stability = FALSE, !.verify_dump = FALSE]
CustomOptions ==
  "recommended" :> MfcRecommended @@ "thorough" :> MfcThorough @@ "fast" :> MfcFast
  @@ "uid_only" :> [MfcThorough EXCEPT !.verify_dump = FALSE]
  @@ "any_keys" :> [MfcThorough EXCEPT !.default_keys = FALSE]
  @@ "keys_only" :> [MfcFast EXCEPT !.checks = {}]
  @@ "magic_only" :> [MfcFast EXCEPT !.checks = {"magic_type"}]
  @@ "unchecked" :> [MfcFast EXCEPT !.checks = {}, !.default_keys = FALSE]
MCOptions == {CustomOptions[name] : name \in OptionSet}
=============================================================================
