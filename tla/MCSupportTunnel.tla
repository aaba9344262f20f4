--------------------------- MODULE MCSupportTunnel ---------------------------
(* SupportTunnel on small instances.                                       *)
EXTENDS SupportTunnel

\* Only the support server answers, or everything but it: no host answers together with
\* the one whose failure the code has to tell from its own.
MCWeather == {{"support"}, {"discovery", "time"}}
=============================================================================
