----------------------------- MODULE RcioRegs -----------------------------
(***************************************************************************)
(* The registers of the IO board and the windows of them that adapter      *)
(* calls read and write: struct IOPacket and the adapter interface         *)
(* (src/src/protocol.h, src/src/rcio.h).  A page is one run of registers;  *)
(* a call names the first one and how many.                                *)
(***************************************************************************)
EXTENDS Integers

CONSTANTS
  NRegs,     \* registers of the board
  MaxRegs,   \* PKT_MAX_REGS, the longest transaction
  Vals,      \* what callers write
  Fill       \* 0x55aa, the word that pads what is not used

ASSUME RegsAssumption ==
  /\ NRegs \in Nat \ {0}
  /\ MaxRegs \in Nat \ {0}
  /\ Vals # {}
  /\ Fill \notin Vals

Addrs  == 0 .. (NRegs - 1)
Slots  == 0 .. (MaxRegs - 1)
Words  == Vals \cup {Fill}
Blank  == [i \in Slots |-> Fill]

\* The first n words of w, the rest padded.
Payload(w, n) == [i \in Slots |-> IF i < n THEN w[i] ELSE Fill]

\* The words a call carries: none for a read or for one that is too long.
WordsIn(r) == IF r.write /\ r.count <= MaxRegs THEN r.count ELSE 0

\* The calls: register window and, for a write, its words.
Requests ==
  {r \in [write : BOOLEAN, offset : Addrs, count : 1 .. (MaxRegs + 1),
          data : [Slots -> Words]] :
     \A i \in Slots : r.data[i] = Fill <=> i >= WordsIn(r)}

NoRequest == [write |-> FALSE, offset |-> 0, count |-> 1, data |-> Blank]
Failed    == [ok |-> FALSE, data |-> Blank]

InRange(r) == r.count <= MaxRegs /\ r.offset + r.count <= NRegs

\* The registers after r, and what r reads of them.
Written(regs, r) ==
  [a \in Addrs |-> IF r.write /\ a \in r.offset .. (r.offset + r.count - 1)
                   THEN r.data[a - r.offset] ELSE regs[a]]
Seen(regs, r) ==
  IF r.write THEN Blank
  ELSE [i \in Slots |-> IF i < r.count THEN regs[r.offset + i] ELSE Fill]

=============================================================================
