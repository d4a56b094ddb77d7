---------------------------- MODULE MCWorkerLink ----------------------------
(***************************************************************************)
(* Small instances of WorkerLink: a deploy and a teardown are durable, an  *)
(* exec is not.                                                            *)
(***************************************************************************)
EXTENDS WorkerLink

CONSTANTS deploy, teardown, exec

MCDurable == Commands \cap {deploy, teardown}
=============================================================================
