--------------------------- MODULE MCMemoryStore ---------------------------
(* Two callers of one conversation, few calls, every order of their steps. *)
EXTENDS MemoryStore

MCVersions == 0 .. 1
MCKinds == OpKinds
=============================================================================
