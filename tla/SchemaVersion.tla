---------------------------- MODULE SchemaVersion ----------------------------
(***************************************************************************)
(* What the migrations promise, whoever runs them: the schema of the       *)
(* database goes from one version to the next and never skips one or       *)
(* goes back.                                                              *)
(***************************************************************************)
EXTENDS Naturals

CONSTANT Last \* the newest version there is

VARIABLE version

VersionInit == version = 0

Migrate == version < Last /\ version' = version + 1

VersionSpec == VersionInit /\ [][Migrate]_version
=============================================================================
