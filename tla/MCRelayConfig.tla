---------------------------- MODULE MCRelayConfig ----------------------------
(* RelayConfig on small instances: lists are model values.                 *)
EXTENDS RelayConfig
CONSTANTS bootstrap, east
=============================================================================
