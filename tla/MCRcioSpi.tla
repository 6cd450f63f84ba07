------------------------------ MODULE MCRcioSpi ------------------------------
(***************************************************************************)
(* Small instances of RcioSpi for TLC: two threads and a board of one or   *)
(* two registers, windows that it has and, in spi_transport, one that it   *)
(* does not, and a call that is too long.                                  *)
(***************************************************************************)
EXTENDS RcioSpi

LinkFault == {"request", "reply", "spi"}
AnyFault  == LinkFault \cup {"late", "low"}
=============================================================================
