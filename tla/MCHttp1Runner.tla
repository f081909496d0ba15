--------------------------- MODULE MCHttp1Runner ---------------------------
(* Http1Runner on a small instance: a 2-byte header and bodies of up to 2  *)
(* bytes, so that every write can be split by the transport; a transport-  *)
(* mode caller making up to 2 calls of up to 2 bytes; 3 clock values, so   *)
(* that a shutdown, a write and finish() can happen at distinct instants.  *)
EXTENDS Http1Runner

MCHeaderLen == 2
MCMaxBody == 2
MCMaxChunk == 2
MCMaxCalls == 2
MCMaxTime == 2
=============================================================================
