----------------------------- MODULE MCWriteBack -----------------------------
(* Small instances of WriteBack for TLC. *)
EXTENDS WriteBack
=============================================================================
