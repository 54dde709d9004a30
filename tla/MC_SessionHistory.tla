------------------------- MODULE MC_SessionHistory -------------------------
(***************************************************************************)
(* Small instances of SessionHistory for TLC.                              *)
(***************************************************************************)
EXTENDS SessionHistory, TLC

\* A clear and a kill or a write that fails, or a part from the console.
SomeScenarios == {{"clear", "kill"}, {"clear", "full"}, {"rollout"}}

ProcSymmetry == Permutations(Procs)

=============================================================================
