------------------------------- MODULE RcioSpi -------------------------------
(***************************************************************************)
(* The SPI transport of the RCIO driver, src/src/rcio_spi.c, with the      *)
(* packets of protocol.h and the IO board at the other end of the link.    *)
(*                                                                         *)
(* One static packet buffer serves the requests and the replies of all     *)
(* threads; adapter.lock is held from the first byte put in it to the last *)
(* byte taken out.  The board is external: it takes a request when the     *)
(* first leg has delivered it and has its reply ready for the second leg.  *)
(* The link may garble a packet (RcioCrc says when the CRC tells), a leg   *)
(* may fail in the SPI core, the board may have its reply ready too late,  *)
(* or not be there at all.                                                 *)
(***************************************************************************)
EXTENDS RcioRegs

CONSTANTS
  Threads,   \* the threads that call adapter->read and adapter->write
  NoThread,  \* the owner of a free lock
  Faults     \* what may go wrong: "request" or "reply" garbled, a leg of
             \* "spi" fails, the board is "late", or gone and the line "low"

ASSUME SpiAssumption ==
  /\ NoThread \notin Threads
  /\ Faults \subseteq {"request", "reply", "spi", "late", "low"}

\* protocol.h: requests and replies share their code numbers.
PKT_CODE_READ    == 0
PKT_CODE_WRITE   == 64
PKT_CODE_SUCCESS == 0
PKT_CODE_CORRUPT == 64
PKT_CODE_ERROR   == 128

\* count_code is two fields; crc tells whether it matches the rest.
Packets == [code   : {PKT_CODE_SUCCESS, PKT_CODE_CORRUPT, PKT_CODE_ERROR},
            count  : 0 .. MaxRegs,
            offset : Addrs,
            regs   : [Slots -> Words],
            crc    : BOOLEAN]

VARIABLES
  lock,      \* adapter.lock: its owner
  buffer,    \* the shared struct IOPacket
  pc,        \* per thread: where it is in rcio_spi_read or rcio_spi_write
  request,   \* per thread: the arguments of its call
  sent,      \* per thread: wait_complete returned 0
  out,       \* per thread: the outcome of its last call
  regs,      \* board: its registers
  tx,        \* board: the reply it has ready
  taken,     \* history: threads whose request the board acted on ...
  late       \* ... and those to whom it had no answer ready in time

vars == <<lock, buffer, pc, request, sent, out, regs, tx, taken, late>>

Empty == [code |-> PKT_CODE_SUCCESS, count |-> 0, offset |-> 0,
          regs |-> Blank, crc |-> TRUE]

Init ==
  /\ lock = NoThread
  /\ buffer = Empty
  /\ pc = [t \in Threads |-> "idle"]
  /\ request = [t \in Threads |-> NoRequest]
  /\ sent = [t \in Threads |-> FALSE]
  /\ out = [t \in Threads |-> Failed]
  /\ regs \in [Addrs -> Vals]
  /\ tx = Empty
  /\ taken = {}
  /\ late = {}

-----------------------------------------------------------------------------
(* The IO board (external)                                                 *)

Asks(p) == [write |-> p.code = PKT_CODE_WRITE, offset |-> p.offset,
            count |-> p.count, data |-> p.regs]

Accepts(p) == p.crc /\ p.offset + p.count <= NRegs

Reply(p) ==
  IF ~p.crc THEN [Empty EXCEPT !.code = PKT_CODE_CORRUPT]
  ELSE IF ~Accepts(p) THEN [Empty EXCEPT !.code = PKT_CODE_ERROR]
  ELSE [Empty EXCEPT !.count = p.count, !.offset = p.offset,
                     !.regs = Seen(regs, Asks(p))]

\* The board takes packet p, sent by thread t.
BoardTakes(t, p) ==
  /\ regs' = IF Accepts(p) THEN Written(regs, Asks(p)) ELSE regs
  /\ taken' = IF Accepts(p) THEN taken \cup {t} ELSE taken

-----------------------------------------------------------------------------
(* rcio_spi_read and rcio_spi_write                                        *)

Goto(t, from, to) == pc[t] = from /\ pc' = [pc EXCEPT ![t] = to]

Leave(t, from) ==
  /\ Goto(t, from, "idle")
  /\ request' = [request EXCEPT ![t] = NoRequest]

Call(t, r) ==
  /\ Goto(t, "idle", "called")
  /\ request' = [request EXCEPT ![t] = r]
  /\ out' = [out EXCEPT ![t] = Failed]
  /\ UNCHANGED <<lock, buffer, sent, regs, tx, taken, late>>

\* -EINVAL before the lock
TooLong(t) ==
  /\ request[t].count > MaxRegs
  /\ Leave(t, "called")
  /\ UNCHANGED <<lock, buffer, sent, out, regs, tx, taken, late>>

\* Mutants: no length check; no lock.
AcquireAnyLength(t) ==
  /\ lock = NoThread
  /\ Goto(t, "called", "fill")
  /\ lock' = t
  /\ UNCHANGED <<buffer, request, sent, out, regs, tx, taken, late>>
AcquireUnlocked(t) ==
  /\ request[t].count <= MaxRegs
  /\ Goto(t, "called", "fill")
  /\ lock' = t
  /\ UNCHANGED <<buffer, request, sent, out, regs, tx, taken, late>>

Acquire(t) ==
  /\ request[t].count <= MaxRegs
  /\ lock = NoThread
  /\ Goto(t, "called", "fill")
  /\ lock' = t
  /\ UNCHANGED <<buffer, request, sent, out, regs, tx, taken, late>>

\* A read leaves in the buffer the words of the packet before it.
FillBuffer(t) ==
  /\ Goto(t, "fill", "seal")
  /\ buffer' =
       LET r == request[t] IN
       [buffer EXCEPT
          !.code = IF r.write THEN PKT_CODE_WRITE ELSE PKT_CODE_READ,
          !.count = r.count,
          !.offset = r.offset,
          !.regs = IF r.write THEN Payload(r.data, r.count) ELSE buffer.regs]
  /\ UNCHANGED <<lock, request, sent, out, regs, tx, taken, late>>

\* wait_complete, up to the first leg
Seal(t) ==
  /\ Goto(t, "seal", "send")
  /\ buffer' = [buffer EXCEPT !.crc = TRUE]
  /\ UNCHANGED <<lock, request, sent, out, regs, tx, taken, late>>

Send(t) ==
  /\ Goto(t, "send", "receive")
  /\ \E p \in {buffer} \cup (IF "request" \in Faults
                             THEN {[buffer EXCEPT !.crc = FALSE]} ELSE {}) :
       /\ BoardTakes(t, p)
       /\ tx' = Reply(p)
  /\ UNCHANGED <<lock, buffer, request, sent, out, late>>

\* The first leg fails, before or after the board has the packet.
SendFails(t) ==
  /\ "spi" \in Faults
  /\ Goto(t, "send", "finish")
  /\ sent' = [sent EXCEPT ![t] = FALSE]
  /\ \/ BoardTakes(t, buffer) /\ tx' = Reply(buffer)
     \/ UNCHANGED <<regs, tx, taken>>
  /\ UNCHANGED <<lock, buffer, request, out, late>>

\* The board takes the packet and has no new reply after 120 microseconds.
SendLate(t) ==
  /\ "late" \in Faults
  /\ Goto(t, "send", "receive")
  /\ BoardTakes(t, buffer)
  /\ late' = late \cup {t}
  /\ UNCHANGED <<lock, buffer, request, sent, out, tx>>

\* There is no board: the line stays low, and a packet of zeros has the right
\* CRC and the code of a success (RcioCrc).
SendLow(t) ==
  /\ "low" \in Faults
  /\ Goto(t, "send", "receive")
  /\ tx' = Empty
  /\ UNCHANGED <<lock, buffer, request, sent, out, regs, taken, late>>

Receive(t) ==
  /\ Goto(t, "receive", "finish")
  /\ sent' = [sent EXCEPT ![t] = TRUE]
  /\ buffer' \in {tx} \cup (IF "reply" \in Faults
                            THEN {[tx EXCEPT !.crc = FALSE]} ELSE {})
  /\ UNCHANGED <<lock, request, out, regs, tx, taken, late>>

ReceiveFails(t) ==
  /\ "spi" \in Faults
  /\ Goto(t, "receive", "finish")
  /\ sent' = [sent EXCEPT ![t] = FALSE]
  /\ UNCHANGED <<lock, buffer, request, out, regs, tx, taken, late>>

\* Mutant: the count of the reply is not looked at.
SuccessfulAnyCount(t) ==
  sent[t] /\ buffer.crc /\ buffer.code # PKT_CODE_ERROR

\* "successful transaction?"
Successful(t) ==
  /\ sent[t]
  /\ buffer.crc
  /\ buffer.code # PKT_CODE_ERROR
  /\ request[t].write \/ buffer.count = request[t].count

\* Mutant: the error path keeps the lock.
FinishLocked(t) ==
  /\ out' = [out EXCEPT ![t] = [@ EXCEPT !.ok = Successful(t)]]
  /\ Leave(t, "finish")
  /\ lock' = IF Successful(t) THEN NoThread ELSE lock
  /\ taken' = taken \ {t} /\ late' = late \ {t}
  /\ UNCHANGED <<buffer, sent, regs, tx>>

\* The checks, the copy to the caller and mutex_unlock.
Finish(t) ==
  /\ out' = [out EXCEPT ![t] =
               IF ~Successful(t) THEN Failed
               ELSE [ok   |-> TRUE,
                     data |-> IF request[t].write THEN Blank
                              ELSE Payload(buffer.regs, request[t].count)]]
  /\ Leave(t, "finish")
  /\ lock' = NoThread
  /\ taken' = taken \ {t} /\ late' = late \ {t}
  /\ UNCHANGED <<buffer, sent, regs, tx>>

Running(t) ==
  \/ TooLong(t) \/ FillBuffer(t) \/ Seal(t)
  \/ Send(t) \/ SendFails(t) \/ SendLate(t) \/ SendLow(t)
  \/ Receive(t) \/ ReceiveFails(t) \/ Finish(t)

Next ==
  \E t \in Threads :
    \/ \E r \in Requests : Call(t, r)
    \/ Acquire(t)
    \/ Running(t)

Spec == Init /\ [][Next]_vars

\* A thread inside a call is scheduled, and the kernel's mutexes hand over
\* to a waiter that would otherwise starve.  Nobody owes a call.
Fairness == \A t \in Threads : WF_vars(Running(t)) /\ SF_vars(Acquire(t))

FairSpec == Spec /\ Fairness

-----------------------------------------------------------------------------
(* Properties                                                              *)

(* The shape of the driver's and the board's state. *)
TypeOK ==
  /\ lock \in Threads \cup {NoThread}
  /\ buffer \in Packets
  /\ pc \in [Threads -> {"idle", "called", "fill", "seal", "send", "receive",
                         "finish"}]
  /\ request \in [Threads -> Requests]
  /\ sent \in [Threads -> BOOLEAN]
  /\ out \in [Threads -> [ok : BOOLEAN, data : [Slots -> Words]]]
  /\ regs \in [Addrs -> Vals]
  /\ tx \in Packets
  /\ taken \in SUBSET Threads /\ late \in SUBSET Threads

\* Thread t returns from its call with success.
Returns(t) == pc[t] = "finish" /\ pc'[t] = "idle" /\ out'[t].ok

(* A read that succeeds returns what the board's registers hold, unless     *)
(* its own reply was late: not the reply to another thread's request, not   *)
(* the late one to an earlier request, not the words of an older packet     *)
(* left in the shared buffer (rcio_spi.c:83-128).                           *)
FreshRead ==
  [][\A t \in Threads : Returns(t) /\ ~request[t].write /\ t \notin late
                          => out'[t].data = Seen(regs, request[t])]_vars

\* The abstract register file: a call acts while it holds the lock.
File == INSTANCE RegisterFile WITH
  Lossy <- Faults \cap {"request", "low"} # {},
  Slow  <- "late" \in Faults,
  phase <- [t \in Threads |->
              IF pc[t] = "idle" THEN "idle"
              ELSE IF t \in taken THEN "applied" ELSE "pending"],
  seen  <- [t \in Threads |->
              IF t \in taken THEN Seen(regs, request[t]) ELSE Blank]

(* Seen from its callers the transport is a register file: every call acts  *)
(* on the board at one instant or not at all, never twice and never with    *)
(* another thread's words, and success means it acted, except for a write   *)
(* on a link that garbles requests or without a board, and for a call whose *)
(* own reply was late: that does no harm to the next (rcio_spi.c:33-130).    *)
ImplementsFile == File!Spec

(* Every call returns: no thread waits for adapter.lock for ever            *)
(* (rcio_spi.c:41-45, 72, 85-88, 128).                                      *)
CallReturns == \A t \in Threads : pc[t] # "idle" ~> pc[t] = "idle"

-----------------------------------------------------------------------------
(* What comments of the code claim, and the code does not do               *)

(* "successful transaction?" (rcio_spi.c:56) against "bad packet reply"     *)
(* (protocol.h:390): a write reported as successful was not rejected.       *)
AckMeansTaken ==
  [][\A t \in Threads : Returns(t) => t \in taken]_vars
=============================================================================
