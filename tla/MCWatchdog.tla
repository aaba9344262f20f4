---------------------------- MODULE MCWatchdog ----------------------------
(* Small instances of Watchdog: everything that may go wrong, with and without *)
(* a connection; and a container alone.                                        *)
EXTENDS Watchdog

MCAllTroubles == AllTroubles
MCContainer   == {"container"}
MCLinks       == {"wan", "none"}
MCWan         == {"wan"}
=============================================================================
