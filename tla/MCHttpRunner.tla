---------------------------- MODULE MCHttpRunner ----------------------------
(***************************************************************************)
(* The instance TLC checks for HttpRunner: the inner runner's bounds of    *)
(* MCHttp1Runner (a 2-byte header, bodies up to 2 bytes, clock 0..2), and  *)
(* http and https URLs with and without a host and port.                   *)
(***************************************************************************)
EXTENDS HttpRunner

MCHeaderLen == 2
MCMaxBody == 2
MCMaxChunk == 1
MCMaxCalls == 0
MCMaxTime == 2

=============================================================================
