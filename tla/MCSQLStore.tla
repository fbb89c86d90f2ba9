---------------------------- MODULE MCSQLStore ----------------------------
(***************************************************************************)
(* Instances of SQLStore for TLC.                                          *)
(***************************************************************************)
EXTENDS SQLStore

MCVersions == 0 .. 1
MCKinds == OpKinds
=============================================================================
