----------------------------- MODULE MCTlsRunner -----------------------------
(***************************************************************************)
(* TlsRunner on a clock of four instants and pauses of up to two: a pause  *)
(* can outlast a timer that falls due during it.                           *)
(***************************************************************************)
EXTENDS TlsRunner

MCMaxTime == 3
MCMaxPause == 2

=============================================================================
