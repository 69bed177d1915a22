--------------------------- MODULE MCMemoryStore ---------------------------
(***************************************************************************)
(* Model checking instance of MemoryStore: a buffer of three bytes, core   *)
(* files that fill it partly, exactly, and overflow it.                    *)
(***************************************************************************)
EXTENDS MemoryStore

CONSTANT shell

MCOneTask == {shell}
MCStreamLens == {2, 3, 5}
MCGarbledSizes == {1, 4}
=============================================================================
