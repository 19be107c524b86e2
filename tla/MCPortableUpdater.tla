------------------------- MODULE MCPortableUpdater -------------------------
(***************************************************************************)
(* Model-checking instances of PortableUpdater.                            *)
(***************************************************************************)
EXTENDS PortableUpdater, TLC

CONSTANTS r1, r2

Rollbacks == {"Rollback"}
=============================================================================
