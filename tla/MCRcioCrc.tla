------------------------------ MODULE MCRcioCrc ------------------------------
(***************************************************************************)
(* An instance of RcioCrc for TLC: packets of up to two words, with every  *)
(* code, and every way to change one of their bytes.                       *)
(***************************************************************************)
EXTENDS RcioCrc, Bitwise

\* The arithmetic of RcioCrc is the xor of the community's Bitwise module.
ASSUME XorIsBitwise == \A a, b \in Byte : ByteXor(a, b) = a ^^ b

\* Code, page and offset.  The last is a refusal that one changed byte turns
\* into a reply of one word with the right check value.
SomeHeaders == {<<0, 50, 3>>, <<64, 1, 6>>, <<128, 1, 65>>}
=============================================================================
