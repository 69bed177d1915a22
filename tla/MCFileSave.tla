----------------------------- MODULE MCFileSave -----------------------------
(***************************************************************************)
(* Model checking instance of FileSave: core files of two and three bytes. *)
(***************************************************************************)
EXTENDS FileSave

MCStreamLens == {2, 3}
=============================================================================
