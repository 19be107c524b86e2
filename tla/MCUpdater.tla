----------------------------- MODULE MCUpdater -----------------------------
(***************************************************************************)
(* Model-checking instances of Updater.                                    *)
(***************************************************************************)
EXTENDS Updater, TLC

CONSTANTS r1, r2

\* Every way in that takes the lock.
LockedEntries == AllEntries \ {"make rollback"}
ServerUpdates == {"server update"}
=============================================================================
