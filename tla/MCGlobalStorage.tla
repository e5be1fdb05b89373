-------------------------- MODULE MCGlobalStorage --------------------------
(***************************************************************************)
(* The global storage on rings of a few bytes.  The configurations choose  *)
(* the thresholds: MCGlobalStorage.cfg has the proportions of the default  *)
(* configuration, where the largest page fits above the cleanup threshold; *)
(* MCFullThreshold.cfg has cleanup_threshold = 1.0.                        *)
(***************************************************************************)
EXTENDS GlobalStorageSpec

(* The default proportions leave room for a page above either threshold. *)
ASSUME CleanupAt < Capacity => PageFits
=============================================================================
