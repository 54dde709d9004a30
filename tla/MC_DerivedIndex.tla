-------------------------- MODULE MC_DerivedIndex --------------------------
(***************************************************************************)
(* Small instances of DerivedIndex: threads of the daemon, an `ai` process *)
(* and a rebuild.                                                          *)
(***************************************************************************)
EXTENDS DerivedIndex, TLC

CONSTANTS a, b, c, r   \* operations

OneOfEach == a :> "append" @@ c :> "ai" @@ r :> "rebuild"

=============================================================================
