--------------------------- MODULE MC_PluginHost ---------------------------
(***************************************************************************)
(* Small instances of PluginHost for TLC.                                  *)
(***************************************************************************)
EXTENDS PluginHost, TLC

=============================================================================
