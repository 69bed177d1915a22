----------------------------- MODULE MCCoreSize -----------------------------
(***************************************************************************)
(* Model checking instance of CoreSize: the writer and the size functions, *)
(* with the threads and the sizes of MCCoreDump.                           *)
(***************************************************************************)
EXTENDS MCCoreDump, CoreSize
=============================================================================
