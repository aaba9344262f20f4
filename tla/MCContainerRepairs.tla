-------------------------- MODULE MCContainerRepairs -------------------------
(* ContainerRepairs with a few faults.                                     *)
EXTENDS ContainerRepairs
=============================================================================
