--------------------------- MODULE MCRcioLifecycle ---------------------------
(***************************************************************************)
(* An instance of RcioLifecycle for TLC: every board, lives enough for one *)
(* to find what two earlier ones left, and pairs of failures.              *)
(***************************************************************************)
EXTENDS RcioLifecycle

AllBoards == {NAVIO2, EDGE, UNKNOWN}
=============================================================================
