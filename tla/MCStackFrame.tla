---------------------------- MODULE MCStackFrame ----------------------------
(***************************************************************************)
(* Model checking instance of StackFrame and ThreadNotes: builds, contexts.*)
(***************************************************************************)
EXTENDS ThreadNotes

MCAll ==
  {c \in CaseType : (c.active => c.fpu) /\ (c.below => c.active /\ c.kind = "fault")}

MCCollected == {c \in MCAll : Collectable(c)}

\* Hard faults on armv7m in a build without an FPU.
MCFaultsWithoutFpu == {c \in MCAll : c.kind = "fault" /\ c.arch = "armv7m" /\ ~c.fpu}
=============================================================================
