-------------------------- MODULE MCRecoverDriver --------------------------
(* A small instance of RecoverDriver: a time zone ahead of UTC by a quarter or *)
(* half of its window.                                                        *)
EXTENDS RecoverDriver

MCAhead    == 1
MCFarAhead == 2
=============================================================================
