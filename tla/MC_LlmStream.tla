---------------------------- MODULE MC_LlmStream ----------------------------
(***************************************************************************)
(* Small instances of LlmStream for TLC.                                   *)
(***************************************************************************)
EXTENDS LlmStream

CONSTANTS x, y   \* names of tools

ToolSymmetry == Permutations(Tools)

=============================================================================
