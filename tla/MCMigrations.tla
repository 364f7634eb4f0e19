---------------------------- MODULE MCMigrations ----------------------------
(***************************************************************************)
(* A small instance of Migrations, for TLC.                                *)
(***************************************************************************)
EXTENDS Migrations
=============================================================================
