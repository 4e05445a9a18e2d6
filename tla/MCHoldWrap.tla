----------------------------- MODULE MCHoldWrap -----------------------------
(***************************************************************************)
(* HoldWrap for TLC: model values for the processes, the switches of each  *)
(* run in its .cfg.                                                        *)
(***************************************************************************)
EXTENDS HoldWrap, TLC

\* Instances and cancelWrap calls are interchangeable (safety runs only).
ProcessSymmetry == Permutations(Instances) \cup Permutations(Closers)
=============================================================================
