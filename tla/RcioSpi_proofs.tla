--------------------------- MODULE RcioSpi_proofs ---------------------------
(***************************************************************************)
(* Proofs about RcioSpi, for any number of threads and registers: the      *)
(* transport implements RegisterFile, whatever the link garbles, whichever *)
(* leg fails and whenever the board is late.                               *)
(*                                                                         *)
(* The argument: the lock holder owns the buffer and the board (LockInv),  *)
(* so the packet it filled is the one the board takes (BufferInv) and the  *)
(* reply it finds is the board's answer to that packet (ReplyInv), unless  *)
(* that answer is late.                                                    *)
(***************************************************************************)
EXTENDS RcioSpi, TLAPS

Holding == {"fill", "seal", "send", "receive", "finish"}

LockInv == \A t \in Threads : pc[t] \in Holding <=> lock = t

CallInv ==
  \A t \in Threads :
    /\ pc[t] = "idle" => request[t] = NoRequest
    /\ pc[t] # "idle" => out[t] = Failed
    /\ pc[t] \in Holding => request[t].count <= MaxRegs
    /\ t \in taken \cup late => pc[t] \in {"receive", "finish"}

\* Packet p is the request of call r.
Carries(p, r) ==
  /\ p.code = IF r.write THEN PKT_CODE_WRITE ELSE PKT_CODE_READ
  /\ p.count = r.count
  /\ p.offset = r.offset
  /\ r.write => p.regs = r.data

BufferInv ==
  \A t \in Threads :
    /\ pc[t] \in {"seal", "send"} => Carries(buffer, request[t])
    /\ pc[t] = "send" => buffer.crc

\* Packet p is the board's answer to thread t's request.
Answers(p, t) ==
  IF t \in taken
  THEN /\ p.code = PKT_CODE_SUCCESS
       /\ p.count = request[t].count
       /\ ~request[t].write => p.regs = Seen(regs, request[t])
  ELSE /\ p.count = 0
       /\ \/ p.code = PKT_CODE_ERROR
          \/ Faults \cap {"request", "low"} # {}

ReplyInv ==
  \A t \in Threads \ late :
    /\ pc[t] = "receive" => Answers(tx, t)
    /\ pc[t] = "finish" /\ sent[t] /\ buffer.crc => Answers(buffer, t)

SpiInv == TypeOK /\ LockInv /\ CallInv /\ BufferInv

-----------------------------------------------------------------------------
(* Windows of registers                                                    *)

LEMMA RequestFacts ==
  ASSUME NEW r \in Requests
  PROVE  /\ r.write \in BOOLEAN
         /\ r.offset \in Nat /\ r.offset \in Addrs
         /\ r.count \in Nat /\ r.count >= 1
         /\ r.data \in [Slots -> Words]
         /\ \A i \in Slots : r.data[i] = Fill <=> i >= WordsIn(r)
  BY RegsAssumption DEF Requests, Addrs

LEMMA BlankFacts == Blank \in [Slots -> Words] /\ NoRequest \in Requests
<1>1. Blank \in [Slots -> Words]
  BY DEF Blank, Words
<1>2. NoRequest \in Requests
  BY <1>1, RegsAssumption DEF NoRequest, Requests, Addrs, WordsIn, Blank, Slots
<1> QED
  BY <1>1, <1>2

(* A write within range leaves values in the registers. *)
LEMMA WrittenType ==
  ASSUME NEW g \in [Addrs -> Vals], NEW r \in Requests, InRange(r)
  PROVE  Written(g, r) \in [Addrs -> Vals]
<1> SUFFICES ASSUME NEW a \in Addrs, r.write,
                    a \in r.offset .. (r.offset + r.count - 1)
             PROVE  r.data[a - r.offset] \in Vals
  BY DEF Written
<1>1. a - r.offset \in Slots /\ a - r.offset < r.count
  BY RequestFacts, RegsAssumption DEF InRange, Slots, Addrs
<1>2. WordsIn(r) = r.count
  BY DEF WordsIn, InRange
<1>3. r.data[a - r.offset] # Fill
  BY <1>1, <1>2, RequestFacts, RegsAssumption DEF Addrs
<1> QED
  BY <1>1, <1>3, RequestFacts DEF Words

(* A read within range sees words. *)
LEMMA SeenType ==
  ASSUME NEW g \in [Addrs -> Vals], NEW r \in Requests, InRange(r)
  PROVE  Seen(g, r) \in [Slots -> Words]
<1>1. ASSUME NEW i \in Slots, i < r.count PROVE g[r.offset + i] \in Words
  <2>1. r.offset + i \in Addrs
    BY <1>1, RequestFacts, RegsAssumption DEF InRange, Slots, Addrs
  <2> QED
    BY <2>1 DEF Words
<1> QED
  BY <1>1, BlankFacts DEF Seen, Words

(* The board does for the packet what the caller asked for. *)
LEMMA AsksSame ==
  ASSUME NEW g, NEW p \in Packets, NEW r \in Requests, Carries(p, r),
         r.count <= MaxRegs
  PROVE  /\ Written(g, Asks(p)) = Written(g, r)
         /\ Seen(g, Asks(p)) = Seen(g, r)
         /\ Accepts(p) <=> p.crc /\ InRange(r)
<1>1. /\ Asks(p).write = r.write
      /\ Asks(p).offset = r.offset
      /\ Asks(p).count = r.count
      /\ r.write => Asks(p).data = r.data
  BY RequestFacts DEF Carries, Asks, PKT_CODE_READ, PKT_CODE_WRITE
<1>2. Written(g, Asks(p)) = Written(g, r)
  BY <1>1 DEF Written
<1>3. Seen(g, Asks(p)) = Seen(g, r)
  BY <1>1 DEF Seen
<1>4. Accepts(p) <=> p.crc /\ InRange(r)
  BY DEF Accepts, InRange, Carries
<1> QED
  BY <1>2, <1>3, <1>4

LEMMA PayloadFacts ==
  ASSUME NEW r \in Requests
  PROVE  /\ r.write /\ r.count <= MaxRegs => Payload(r.data, r.count) = r.data
         /\ \A g : ~r.write => Payload(Seen(g, r), r.count) = Seen(g, r)
         /\ \A w \in [Slots -> Words] : Payload(w, r.count) \in [Slots -> Words]
<1>1. ASSUME r.write, r.count <= MaxRegs
      PROVE  Payload(r.data, r.count) = r.data
  <2>1. \A i \in Slots : ~(i < r.count) => r.data[i] = Fill
    BY <1>1, RequestFacts DEF WordsIn, Slots
  <2> QED
    BY <2>1, RequestFacts DEF Payload
<1>2. ASSUME NEW g, ~r.write PROVE Payload(Seen(g, r), r.count) = Seen(g, r)
  BY <1>2 DEF Payload, Seen
<1>3. ASSUME NEW w \in [Slots -> Words]
      PROVE  Payload(w, r.count) \in [Slots -> Words]
  BY DEF Payload, Words
<1> QED
  BY <1>1, <1>2, <1>3

-----------------------------------------------------------------------------
(* What the board does with the packet of the lock holder                  *)

LEMMA BoardFacts ==
  ASSUME SpiInv, NEW t \in Threads, pc[t] = "send",
         NEW p \in {buffer, [buffer EXCEPT !.crc = FALSE]}, BoardTakes(t, p)
  PROVE  /\ Reply(p) \in Packets
         /\ regs' \in [Addrs -> Vals]
         /\ t \notin taken
         /\ \/ /\ InRange(request[t])
               /\ regs' = Written(regs, request[t])
               /\ Seen(regs', request[t]) = Seen(regs, request[t])
               /\ taken' = taken \cup {t}
               /\ Reply(p).code = PKT_CODE_SUCCESS
               /\ Reply(p).count = request[t].count
               /\ Reply(p).regs = Seen(regs, request[t])
            \/ /\ regs' = regs /\ taken' = taken
               /\ Reply(p).count = 0
               /\ \/ Reply(p).code = PKT_CODE_ERROR
                  \/ Reply(p).code = PKT_CODE_CORRUPT /\ p # buffer
<1> DEFINE r == request[t]
<1>1. r \in Requests /\ r.count <= MaxRegs /\ t \notin taken
  BY DEF SpiInv, TypeOK, CallInv, Holding
<1>2. Carries(buffer, r) /\ buffer.crc /\ buffer \in Packets
  BY DEF SpiInv, BufferInv, TypeOK
<1>3. p \in Packets /\ Carries(p, r) /\ (p.crc <=> p = buffer)
  BY <1>2 DEF Packets, Carries
<1>4. /\ Written(regs, Asks(p)) = Written(regs, r)
      /\ Seen(regs, Asks(p)) = Seen(regs, r)
      /\ Accepts(p) <=> p.crc /\ InRange(r)
  BY <1>1, <1>3, AsksSame
<1>5. regs \in [Addrs -> Vals]
  BY DEF SpiInv, TypeOK
<1>6. Empty \in Packets /\ Empty.count = 0
  BY BlankFacts, RegsAssumption
  DEF Empty, Packets, Addrs, PKT_CODE_SUCCESS, PKT_CODE_ERROR, PKT_CODE_CORRUPT
<1>7. CASE Accepts(p)
  <2>1. InRange(r) /\ p.crc
    BY <1>4, <1>7
  <2>2. Reply(p) = [Empty EXCEPT !.count = p.count, !.offset = p.offset,
                                 !.regs = Seen(regs, r)]
    BY <1>4, <1>7, <2>1 DEF Reply
  <2>3. Seen(regs, r) \in [Slots -> Words]
    BY <1>1, <1>5, <2>1, SeenType
  <2>4. p.count = r.count /\ p.count \in 0 .. MaxRegs /\ p.offset \in Addrs
    BY <1>3 DEF Carries, Packets
  <2>5. Reply(p) \in Packets
    BY <1>6, <2>2, <2>3, <2>4 DEF Packets
  <2>6. /\ Reply(p).code = PKT_CODE_SUCCESS
        /\ Reply(p).count = r.count
        /\ Reply(p).regs = Seen(regs, r)
    BY <2>2, <2>4 DEF Empty
  <2>7. regs' = Written(regs, r) /\ taken' = taken \cup {t}
    BY <1>4, <1>7 DEF BoardTakes
  <2>8. regs' \in [Addrs -> Vals]
    BY <1>1, <1>5, <2>1, <2>7, WrittenType
  <2>9. Seen(regs', r) = Seen(regs, r)
    <3>1. CASE r.write
      BY <3>1 DEF Seen
    <3>2. CASE ~r.write
      BY <1>5, <2>7, <3>2 DEF Written
    <3> QED
      BY <3>1, <3>2
  <2> QED
    BY <1>1, <2>1, <2>5, <2>6, <2>7, <2>8, <2>9
<1>8. CASE ~Accepts(p)
  <2>1. regs' = regs /\ taken' = taken
    BY <1>8 DEF BoardTakes
  <2>2. \/ Reply(p) = [Empty EXCEPT !.code = PKT_CODE_CORRUPT] /\ p # buffer
        \/ Reply(p) = [Empty EXCEPT !.code = PKT_CODE_ERROR]
    BY <1>3, <1>8 DEF Reply
  <2>3. Reply(p) \in Packets /\ Reply(p).count = 0
    BY <1>6, <2>2 DEF Packets
  <2>4. \/ Reply(p).code = PKT_CODE_ERROR
        \/ Reply(p).code = PKT_CODE_CORRUPT /\ p # buffer
    BY <2>2 DEF Empty
  <2> QED
    BY <1>1, <1>5, <2>1, <2>3, <2>4
<1> QED
  BY <1>7, <1>8

-----------------------------------------------------------------------------
(* The invariant SpiInv                                                    *)

LEMMA SpiInit == Init => SpiInv /\ ReplyInv
<1> SUFFICES ASSUME Init PROVE SpiInv /\ ReplyInv
  OBVIOUS
<1>1. Empty \in Packets
  BY BlankFacts, RegsAssumption
  DEF Empty, Packets, Addrs, PKT_CODE_SUCCESS, PKT_CODE_ERROR, PKT_CODE_CORRUPT
<1>2. Failed \in [ok : BOOLEAN, data : [Slots -> Words]]
  BY BlankFacts DEF Failed
<1>3. TypeOK
  BY <1>1, <1>2, BlankFacts DEF Init, TypeOK
<1>4. LockInv /\ CallInv /\ BufferInv /\ ReplyInv
  BY SpiAssumption
  DEF Init, LockInv, Holding, CallInv, BufferInv, ReplyInv
<1> QED
  BY <1>3, <1>4 DEF SpiInv

(* Only the lock holder is between mutex_lock and mutex_unlock. *)
LEMMA Alone ==
  ASSUME SpiInv, NEW t \in Threads, pc[t] \in Holding
  PROVE  lock = t /\ \A u \in Threads : u # t => pc[u] \notin Holding
  BY DEF SpiInv, LockInv

LEMMA LockStep ==
  ASSUME SpiInv, NEW t \in Threads,
         (\E r \in Requests : Call(t, r)) \/ Acquire(t) \/ Running(t)
  PROVE  LockInv'
<1> USE DEF SpiInv, TypeOK, LockInv, Holding, Goto, Leave
<1>1. CASE \E r \in Requests : Call(t, r)
  BY <1>1 DEF Call
<1>2. CASE Acquire(t)
  BY <1>2, SpiAssumption DEF Acquire
<1>3. CASE TooLong(t)
  BY <1>3 DEF TooLong
<1>4. CASE Finish(t)
  BY <1>4, Alone, SpiAssumption DEF Finish
<1>5. CASE \/ FillBuffer(t) \/ Seal(t) \/ Send(t) \/ SendFails(t)
           \/ SendLate(t) \/ SendLow(t) \/ Receive(t) \/ ReceiveFails(t)
  BY <1>5 DEF FillBuffer, Seal, Send, SendFails, SendLate, SendLow, Receive,
              ReceiveFails
<1> QED
  BY <1>1, <1>2, <1>3, <1>4, <1>5 DEF Running

LEMMA CallStep ==
  ASSUME SpiInv, NEW t \in Threads,
         (\E r \in Requests : Call(t, r)) \/ Acquire(t) \/ Running(t)
  PROVE  CallInv'
<1> USE DEF SpiInv, TypeOK, CallInv, Holding, Goto, Leave
<1>1. CASE \E r \in Requests : Call(t, r)
  BY <1>1 DEF Call
<1>2. CASE Acquire(t) \/ TooLong(t)
  BY <1>2 DEF Acquire, TooLong
<1>3. CASE Finish(t)
  BY <1>3 DEF Finish
<1>4. CASE FillBuffer(t) \/ Seal(t) \/ Receive(t) \/ ReceiveFails(t)
  BY <1>4 DEF FillBuffer, Seal, Receive, ReceiveFails
<1>5. CASE Send(t) \/ SendFails(t) \/ SendLate(t) \/ SendLow(t)
  <2>1. /\ taken' \subseteq taken \cup {t} /\ late' \subseteq late \cup {t}
        /\ \/ pc' = [pc EXCEPT ![t] = "receive"]
           \/ pc' = [pc EXCEPT ![t] = "finish"]
        /\ pc[t] = "send"
        /\ UNCHANGED <<request, out>>
    BY <1>5 DEF Send, SendFails, SendLate, SendLow, BoardTakes
  <2> QED
    BY <2>1
<1> QED
  BY <1>1, <1>2, <1>3, <1>4, <1>5 DEF Running

LEMMA BufferStep ==
  ASSUME SpiInv, NEW t \in Threads,
         (\E r \in Requests : Call(t, r)) \/ Acquire(t) \/ Running(t)
  PROVE  BufferInv'
<1> USE DEF SpiInv, TypeOK, BufferInv, Goto, Leave
<1>1. CASE \E r \in Requests : Call(t, r)
  BY <1>1 DEF Call
<1>2. CASE Acquire(t) \/ TooLong(t) \/ Finish(t)
  BY <1>2 DEF Acquire, TooLong, Finish
<1>3. CASE FillBuffer(t)
  <2>1. pc[t] = "fill" /\ pc[t] \in Holding
    BY <1>3 DEF FillBuffer, Holding
  <2>2. request[t] \in Requests /\ request[t].count <= MaxRegs
    BY <2>1 DEF CallInv
  <2>3. Carries(buffer', request[t])
    BY <1>3, <2>2, PayloadFacts DEF FillBuffer, Carries, Packets
  <2>4. \A u \in Threads : u # t => pc[u] \notin Holding
    BY <2>1, Alone
  <2> QED
    BY <1>3, <2>3, <2>4 DEF FillBuffer, Holding
<1>4. CASE Seal(t)
  <2>1. pc[t] = "seal" /\ pc[t] \in Holding
    BY <1>4 DEF Seal, Holding
  <2>2. Carries(buffer', request[t]) /\ buffer'.crc
    BY <1>4, <2>1 DEF Seal, Carries, Packets
  <2>3. \A u \in Threads : u # t => pc[u] \notin Holding
    BY <2>1, Alone
  <2> QED
    BY <1>4, <2>2, <2>3 DEF Seal, Holding
<1>5. CASE Receive(t)
  <2>1. pc[t] = "receive" /\ pc[t] \in Holding
    BY <1>5 DEF Receive, Holding
  <2>2. \A u \in Threads : u # t => pc[u] \notin Holding
    BY <2>1, Alone
  <2> QED
    BY <1>5, <2>2 DEF Receive, Holding
<1>6. CASE \/ Send(t) \/ SendFails(t) \/ SendLate(t) \/ SendLow(t)
           \/ ReceiveFails(t)
  BY <1>6 DEF Send, SendFails, SendLate, SendLow, ReceiveFails
<1> QED
  BY <1>1, <1>2, <1>3, <1>4, <1>5, <1>6 DEF Running

LEMMA TypeStep ==
  ASSUME SpiInv, NEW t \in Threads,
         (\E r \in Requests : Call(t, r)) \/ Acquire(t) \/ Running(t)
  PROVE  TypeOK'
<1> USE DEF TypeOK, Goto, Leave
<1>0. /\ TypeOK
      /\ Failed \in [ok : BOOLEAN, data : [Slots -> Words]]
      /\ NoRequest \in Requests
      /\ request[t] \in Requests
  BY BlankFacts DEF SpiInv, Failed
<1>1. CASE \E r \in Requests : Call(t, r)
  BY <1>0, <1>1 DEF Call
<1>2. CASE Acquire(t)
  BY <1>0, <1>2 DEF Acquire
<1>3. CASE TooLong(t)
  BY <1>0, <1>3 DEF TooLong
<1>4. CASE FillBuffer(t)
  <2>1. request[t].count \in 0 .. MaxRegs
    BY <1>4, RequestFacts, <1>0, RegsAssumption
    DEF FillBuffer, SpiInv, CallInv, Holding
  <2> DEFINE r == request[t]
             code == IF r.write THEN PKT_CODE_WRITE ELSE PKT_CODE_READ
             words == IF r.write THEN Payload(r.data, r.count) ELSE buffer.regs
  <2>2. code \in {PKT_CODE_SUCCESS, PKT_CODE_CORRUPT, PKT_CODE_ERROR}
    BY DEF PKT_CODE_READ, PKT_CODE_WRITE, PKT_CODE_SUCCESS, PKT_CODE_CORRUPT
  <2>3. words \in [Slots -> Words] /\ r.offset \in Addrs
    BY <1>0, RequestFacts, PayloadFacts DEF Packets
  <2>4. buffer' = [buffer EXCEPT !.code = code, !.count = r.count,
                                 !.offset = r.offset, !.regs = words]
    BY <1>4, Zenon DEF FillBuffer
  <2> HIDE DEF code, words
  <2>5. buffer' \in Packets
    BY <1>0, <2>1, <2>2, <2>3, <2>4 DEF Packets
  <2> QED
    BY <1>0, <1>4, <2>5 DEF FillBuffer
<1>5. CASE Seal(t)
  <2>1. buffer' \in Packets
    BY <1>0, <1>5 DEF Seal, Packets
  <2> QED
    BY <1>0, <1>5, <2>1 DEF Seal
<1>6. CASE Send(t)
  <2>1. PICK p \in {buffer, [buffer EXCEPT !.crc = FALSE]} :
          BoardTakes(t, p) /\ tx' = Reply(p)
    BY <1>6 DEF Send
  <2>2. tx' \in Packets /\ regs' \in [Addrs -> Vals]
    BY <1>6, <2>1, BoardFacts DEF Send
  <2>3. taken' \in SUBSET Threads
    BY <1>0, <2>1 DEF BoardTakes
  <2> QED
    BY <1>0, <1>6, <2>2, <2>3 DEF Send
<1>7. CASE SendFails(t)
  <2>1. tx' \in Packets /\ regs' \in [Addrs -> Vals] /\ taken' \in SUBSET Threads
    BY <1>0, <1>7, BoardFacts DEF SendFails
  <2> QED
    BY <1>0, <1>7, <2>1 DEF SendFails
<1>8. CASE SendLate(t)
  <2>1. regs' \in [Addrs -> Vals] /\ taken' \in SUBSET Threads
    BY <1>0, <1>8, BoardFacts DEF SendLate
  <2> QED
    BY <1>0, <1>8, <2>1 DEF SendLate
<1>9. CASE Receive(t)
  <2>1. buffer' \in Packets
    BY <1>0, <1>9 DEF Receive, Packets
  <2> QED
    BY <1>0, <1>9, <2>1 DEF Receive
<1>10. CASE ReceiveFails(t)
  BY <1>0, <1>10 DEF ReceiveFails
<1>11. CASE Finish(t)
  <2>1. Payload(buffer.regs, request[t].count) \in [Slots -> Words]
    BY <1>0, PayloadFacts DEF Packets
  <2>2. out' \in [Threads -> [ok : BOOLEAN, data : [Slots -> Words]]]
    BY <1>0, <1>11, <2>1, BlankFacts DEF Finish
  <2> QED
    BY <1>0, <1>11, <2>2 DEF Finish
<1>12. CASE SendLow(t)
  <2>1. Empty \in Packets
    BY BlankFacts, RegsAssumption DEF Empty, Packets, Addrs
  <2> QED
    BY <1>0, <1>12, <2>1 DEF SendLow
<1> QED
  BY <1>1, <1>2, <1>3, <1>4, <1>5, <1>6, <1>7, <1>8, <1>9, <1>10, <1>11,
     <1>12
  DEF Running

LEMMA SpiStep == SpiInv /\ [Next]_vars => SpiInv'
<1>1. ASSUME SpiInv, NEW t \in Threads,
             (\E r \in Requests : Call(t, r)) \/ Acquire(t) \/ Running(t)
      PROVE  SpiInv'
  BY <1>1, TypeStep, LockStep, CallStep, BufferStep DEF SpiInv
<1>2. ASSUME SpiInv, UNCHANGED vars PROVE SpiInv'
  BY <1>2 DEF SpiInv, TypeOK, LockInv, CallInv, BufferInv, vars
<1> QED
  BY <1>1, <1>2 DEF Next

(* The state of the transport and the board keeps its shape. *)
THEOREM SpiTypeCorrect == Spec => []TypeOK
<1>1. SpiInv => TypeOK
  BY DEF SpiInv
<1> QED
  BY <1>1, SpiInit, SpiStep, PTL DEF Spec

-----------------------------------------------------------------------------
(* The invariant ReplyInv                                                  *)

LEMMA ReplyStep ==
  ASSUME SpiInv, ReplyInv, [Next]_vars
  PROVE  ReplyInv'
<1> USE DEF Goto, Leave
<1>0. TypeOK
  BY DEF SpiInv
<1>1. ASSUME NEW t \in Threads,
             \/ \E r \in Requests : Call(t, r)
             \/ Acquire(t) \/ TooLong(t) \/ FillBuffer(t) \/ Seal(t)
      PROVE  ReplyInv'
  <2>1. /\ pc[t] \notin {"receive", "finish"}
        /\ pc'[t] \notin {"receive", "finish"}
        /\ \A u \in Threads : u # t => pc'[u] = pc[u] /\ request'[u] = request[u]
        /\ UNCHANGED <<sent, regs, tx, taken, late>>
    BY <1>0, <1>1 DEF Call, Acquire, TooLong, FillBuffer, Seal, TypeOK
  <2>2. CASE buffer' = buffer
    BY <2>1, <2>2 DEF ReplyInv, Answers
  <2>3. CASE FillBuffer(t) \/ Seal(t)
    <3>1. \A u \in Threads : u # t => pc[u] \notin Holding
      BY <2>3, Alone DEF FillBuffer, Seal, Holding
    <3> QED
      BY <2>1, <3>1 DEF ReplyInv, Holding
  <2> QED
    BY <1>1, <2>2, <2>3 DEF Call, Acquire, TooLong
<1>2. ASSUME NEW t \in Threads, Send(t) PROVE ReplyInv'
  <2>1. PICK p \in {buffer} \cup (IF "request" \in Faults
                                  THEN {[buffer EXCEPT !.crc = FALSE]} ELSE {}) :
          BoardTakes(t, p) /\ tx' = Reply(p)
    BY <1>2 DEF Send
  <2>2. /\ pc[t] = "send" /\ pc'[t] = "receive"
        /\ UNCHANGED <<request, late>>
        /\ \A u \in Threads : u # t => pc'[u] = pc[u]
    BY <1>0, <1>2 DEF Send, TypeOK
  <2>3. Answers(tx, t)'
    <3>1. p \in {buffer, [buffer EXCEPT !.crc = FALSE]}
          /\ (p # buffer => "request" \in Faults)
      BY <2>1
    <3> QED
      BY <2>1, <2>2, <3>1, BoardFacts DEF Answers
  <2>4. \A u \in Threads : u # t => pc[u] \notin Holding
    BY <2>2, Alone DEF Holding
  <2> QED
    BY <2>2, <2>3, <2>4 DEF ReplyInv, Holding
<1>3. ASSUME NEW t \in Threads, SendFails(t) \/ ReceiveFails(t) PROVE ReplyInv'
  <2>1. /\ pc[t] \in Holding /\ pc'[t] = "finish" /\ ~sent'[t] /\ late' = late
        /\ \A u \in Threads : u # t => pc'[u] = pc[u]
    BY <1>0, <1>3 DEF SendFails, ReceiveFails, TypeOK, Holding
  <2>2. \A u \in Threads : u # t => pc[u] \notin Holding
    BY <2>1, Alone
  <2> QED
    BY <2>1, <2>2 DEF ReplyInv, Holding
<1>4. ASSUME NEW t \in Threads, Receive(t) PROVE ReplyInv'
  <2>1. /\ pc[t] = "receive" /\ pc'[t] = "finish"
        /\ \A u \in Threads : u # t => pc'[u] = pc[u]
        /\ UNCHANGED <<request, regs, taken, late>>
    BY <1>0, <1>4 DEF Receive, TypeOK
  <2>2. t \notin late => Answers(tx, t)
    BY <2>1 DEF ReplyInv
  <2>3. buffer'.crc => buffer' = tx
    BY <1>0, <1>4 DEF Receive, TypeOK, Packets
  <2>4. t \notin late /\ buffer'.crc => Answers(buffer, t)'
    BY <2>1, <2>2, <2>3 DEF Answers
  <2>5. \A u \in Threads : u # t => pc[u] \notin Holding
    BY <2>1, Alone DEF Holding
  <2> QED
    BY <2>1, <2>4, <2>5 DEF ReplyInv, Holding
<1>5. ASSUME NEW t \in Threads, Finish(t) PROVE ReplyInv'
  <2>1. /\ pc[t] \in Holding /\ pc'[t] = "idle"
        /\ late' = late \ {t}
        /\ \A u \in Threads : u # t => pc'[u] = pc[u]
    BY <1>0, <1>5 DEF Finish, TypeOK, Holding
  <2>2. \A u \in Threads : u # t => pc[u] \notin Holding
    BY <2>1, Alone
  <2> QED
    BY <2>1, <2>2 DEF ReplyInv, Holding
<1>6. CASE UNCHANGED vars
  BY <1>6 DEF ReplyInv, Answers, vars
<1>7. ASSUME NEW t \in Threads, SendLate(t) PROVE ReplyInv'
  <2>1. /\ pc[t] \in Holding /\ late' = late \cup {t}
        /\ \A u \in Threads : u # t => pc'[u] = pc[u]
    BY <1>0, <1>7 DEF SendLate, TypeOK, Holding
  <2>2. \A u \in Threads : u # t => pc[u] \notin Holding
    BY <2>1, Alone
  <2> QED
    BY <2>1, <2>2 DEF ReplyInv, Holding
<1>8. ASSUME NEW t \in Threads, SendLow(t) PROVE ReplyInv'
  <2>1. /\ pc[t] = "send" /\ pc'[t] = "receive"
        /\ tx' = Empty /\ "low" \in Faults
        /\ UNCHANGED <<request, taken, late>>
        /\ \A u \in Threads : u # t => pc'[u] = pc[u]
    BY <1>0, <1>8 DEF SendLow, TypeOK
  <2>2. t \notin taken
    BY <2>1 DEF SpiInv, CallInv
  <2>3. Answers(tx, t)'
    BY <2>1, <2>2 DEF Answers, Empty
  <2>4. \A u \in Threads : u # t => pc[u] \notin Holding
    BY <2>1, Alone DEF Holding
  <2> QED
    BY <2>1, <2>3, <2>4 DEF ReplyInv, Holding
<1> QED
  BY <1>1, <1>2, <1>3, <1>4, <1>5, <1>6, <1>7, <1>8 DEF Next, Running

-----------------------------------------------------------------------------
(* The refinement                                                          *)

\* What the abstract register file shows of the transport.
phaseBar == [t \in Threads |-> IF pc[t] = "idle" THEN "idle"
                               ELSE IF t \in taken THEN "applied" ELSE "pending"]
seenBar  == [t \in Threads |-> IF t \in taken THEN Seen(regs, request[t])
                               ELSE Blank]

LEMMA RefineInit == Init => File!Init
<1> SUFFICES ASSUME Init PROVE File!Init
  OBVIOUS
<1>1. phaseBar = [t \in Threads |-> "idle"] /\ seenBar = [t \in Threads |-> Blank]
  BY DEF Init, phaseBar, seenBar
<1> QED
  BY <1>1 DEF Init, phaseBar, seenBar, File!Init, File!Addrs, File!Blank, File!Slots,
              File!Failed, File!NoRequest, Addrs, Blank, Slots, Failed,
              NoRequest

(* A call that begins or acts, as the register file sees it.                *)
LEMMA RefineApply ==
  ASSUME SpiInv, NEW t \in Threads, NEW end \in {"receive", "finish"},
         pc[t] = "send", pc' = [pc EXCEPT ![t] = end],
         UNCHANGED <<request, out>>,
         late' = late \/ (late' = late \cup {t} /\ "late" \in Faults),
         NEW p \in {buffer, [buffer EXCEPT !.crc = FALSE]}, BoardTakes(t, p)
  PROVE  File!Apply(t) \/ File!Refuse(t)
<1>0. TypeOK /\ File!Answer(t)
  BY DEF SpiInv, File!Answer
<1>1. CASE /\ InRange(request[t])
           /\ regs' = Written(regs, request[t])
           /\ Seen(regs', request[t]) = Seen(regs, request[t])
           /\ taken' = taken \cup {t}
  <2>1. t \notin taken
    BY BoardFacts
  <2>2. phaseBar[t] = "pending"
    BY <2>1 DEF phaseBar
  <2>3. phaseBar' = [phaseBar EXCEPT ![t] = "applied"]
    BY <1>0, <1>1 DEF phaseBar, TypeOK
  <2>4. \A u \in Threads : u # t => u \notin taken
    BY Alone DEF Holding, SpiInv, CallInv
  <2>5. seenBar' = [seenBar EXCEPT ![t] = Seen(regs, request[t])]
    BY <1>0, <1>1, <2>1, <2>4 DEF seenBar, TypeOK
  <2>6. File!InRange(request[t]) /\ regs' = File!Written(regs, request[t])
    BY <1>1 DEF InRange, Written, Addrs, File!InRange, File!Written, File!Addrs
  <2>7. File!Seen(regs, request[t]) = Seen(regs, request[t])
    BY DEF Seen, Blank, Slots, File!Seen, File!Blank, File!Slots
  <2> QED
    BY <1>0, <2>2, <2>3, <2>5, <2>6, <2>7 DEF phaseBar, seenBar, File!Apply
<1>2. CASE regs' = regs /\ taken' = taken
  <2>1. phaseBar' = phaseBar /\ seenBar' = seenBar
    BY <1>0, <1>2 DEF phaseBar, seenBar, TypeOK
  <2>2. t \notin taken
    BY DEF SpiInv, CallInv
  <2>3. phaseBar[t] = "pending"
    BY <2>2 DEF phaseBar
  <2> QED
    BY <1>0, <1>2, <2>1, <2>3 DEF phaseBar, seenBar, File!Refuse
<1> QED
  BY <1>1, <1>2, BoardFacts

(* A call that returns.                                                     *)
LEMMA RefineFinish ==
  ASSUME SpiInv, ReplyInv, NEW t \in Threads, Finish(t)
  PROVE  File!Succeed(t) \/ File!SucceedLate(t) \/ File!Fail(t)
<1>0. TypeOK
  BY DEF SpiInv
<1>1. /\ pc[t] = "finish" /\ request[t] \in Requests
      /\ pc' = [pc EXCEPT ![t] = "idle"]
      /\ request' = [request EXCEPT ![t] = NoRequest]
      /\ taken' = taken \ {t}
      /\ late' = late \ {t}
      /\ regs' = regs
  BY <1>0 DEF Finish, Leave, Goto, TypeOK
<1>2. \A u \in Threads : u # t => u \notin taken
  BY <1>1, Alone DEF Holding, SpiInv, CallInv
<1>3. /\ phaseBar' = [phaseBar EXCEPT ![t] = "idle"]
      /\ seenBar' = [seenBar EXCEPT ![t] = Blank]
  BY <1>0, <1>1, <1>2 DEF phaseBar, seenBar, TypeOK
<1>4. File!Leave(t)
  BY <1>1, <1>3 DEF phaseBar, seenBar, File!Leave, NoRequest, Blank, Slots,
                    File!NoRequest, File!Blank, File!Slots
<1>5. CASE ~Successful(t)
  <2>1. out[t] = Failed
    BY <1>1 DEF SpiInv, CallInv
  <2>2. out' = out
    BY <1>0, <1>5, <2>1 DEF Finish, TypeOK
  <2>3. phaseBar[t] # "idle"
    BY <1>1 DEF phaseBar
  <2> QED
    BY <1>4, <2>2, <2>3 DEF phaseBar, File!Fail
<1>6. CASE Successful(t) /\ t \notin late
  <2>1. Answers(buffer, t)
    BY <1>1, <1>6 DEF ReplyInv, Successful
  <2>2. out' = [out EXCEPT ![t] =
                  [ok   |-> TRUE,
                   data |-> IF request[t].write THEN Blank
                            ELSE Payload(buffer.regs, request[t].count)]]
    BY <1>6 DEF Finish
  <2>3. CASE t \in taken
    <3>1. seenBar[t] = IF request[t].write THEN Blank
                       ELSE Payload(buffer.regs, request[t].count)
      <4>1. CASE request[t].write
        BY <2>3, <4>1 DEF seenBar, Seen
      <4>2. CASE ~request[t].write
        BY <1>1, <2>1, <2>3, <4>2, PayloadFacts DEF seenBar, Answers
      <4> QED
        BY <4>1, <4>2
    <3>2. phaseBar[t] = "applied"
      BY <1>1, <2>3 DEF phaseBar
    <3> QED
      BY <1>4, <2>2, <3>1, <3>2 DEF phaseBar, seenBar, File!Succeed
  <2>4. CASE t \notin taken
    <3>1. buffer.count = 0 /\ buffer.code # PKT_CODE_ERROR
      BY <2>1, <2>4, <1>6 DEF Answers, Successful
    <3>2. request[t].write
      BY <1>1, <1>6, <3>1, RequestFacts DEF Successful
    <3>3. Faults \cap {"request", "low"} # {}
      BY <2>1, <2>4, <3>1 DEF Answers
    <3>4. phaseBar[t] = "pending" /\ seenBar[t] = Blank
      BY <1>1, <2>4 DEF phaseBar, seenBar
    <3> QED
      BY <1>4, <2>2, <3>2, <3>3, <3>4 DEF phaseBar, seenBar, File!Succeed
  <2> QED
    BY <2>3, <2>4
<1>7. CASE Successful(t) /\ t \in late
  <2> DEFINE d == IF request[t].write THEN Blank
                  ELSE Payload(buffer.regs, request[t].count)
  <2>1. d \in [Slots -> Words]
    BY <1>0, <1>1, BlankFacts, PayloadFacts DEF TypeOK, Packets
  <2>2. d \in [File!Slots -> File!Words]
    BY <2>1 DEF Slots, Words, File!Slots, File!Words
  <2>3. out' = [out EXCEPT ![t] = [ok |-> TRUE, data |-> d]]
    BY <1>7 DEF Finish
  <2> QED
    BY <1>4, <1>7, <2>2, <2>3 DEF File!SucceedLate
<1> QED
  BY <1>5, <1>6, <1>7

LEMMA RefineStep ==
  ASSUME SpiInv, ReplyInv, [Next]_vars
  PROVE  [File!Next]_File!vars
<1>0. TypeOK
  BY DEF SpiInv
<1>1. ASSUME NEW t \in Threads, NEW r \in Requests, Call(t, r)
      PROVE  File!Call(t, r) /\ r \in File!Requests
  <2>1. /\ pc[t] = "idle" /\ pc' = [pc EXCEPT ![t] = "called"]
        /\ request' = [request EXCEPT ![t] = r]
        /\ out' = [out EXCEPT ![t] = Failed]
        /\ UNCHANGED <<regs, taken, late>>
    BY <1>1 DEF Call, Goto
  <2>2. t \notin taken
    BY <2>1 DEF SpiInv, CallInv
  <2>3. /\ phaseBar[t] = "idle"
        /\ phaseBar' = [phaseBar EXCEPT ![t] = "pending"]
        /\ seenBar' = seenBar
    BY <1>0, <2>1, <2>2 DEF phaseBar, seenBar, TypeOK
  <2>4. r \in File!Requests
    BY DEF Requests, WordsIn, Words, Slots, Addrs, File!Requests,
           File!WordsIn, File!Words, File!Slots, File!Addrs
  <2> QED
    BY <2>1, <2>3, <2>4 DEF phaseBar, seenBar, File!Call, Failed, Blank, Slots,
                            File!Failed, File!Blank, File!Slots
<1>2. ASSUME NEW t \in Threads, TooLong(t) PROVE File!Fail(t)
  <2>1. /\ pc[t] = "called" /\ pc' = [pc EXCEPT ![t] = "idle"]
        /\ request' = [request EXCEPT ![t] = NoRequest]
        /\ UNCHANGED <<out, regs, taken, late>>
    BY <1>2 DEF TooLong, Leave, Goto
  <2>2. t \notin taken /\ t \notin late
    BY <2>1 DEF SpiInv, CallInv
  <2>3. /\ phaseBar[t] # "idle"
        /\ phaseBar' = [phaseBar EXCEPT ![t] = "idle"]
        /\ seenBar' = [seenBar EXCEPT ![t] = Blank]
    BY <1>0, <2>1, <2>2 DEF phaseBar, seenBar, TypeOK
  <2>4. late' = late \ {t}
    BY <2>1, <2>2
  <2> QED
    BY <2>1, <2>3, <2>4 DEF phaseBar, seenBar, File!Fail, File!Leave, NoRequest,
                      Blank, Slots, File!NoRequest, File!Blank, File!Slots
<1>3. ASSUME NEW t \in Threads, Send(t) \/ SendFails(t) \/ SendLate(t)
      PROVE  File!Apply(t) \/ File!Refuse(t) \/ UNCHANGED File!vars
  <2>1. CASE Send(t)
    <3>1. PICK p \in {buffer, [buffer EXCEPT !.crc = FALSE]} : BoardTakes(t, p)
      BY <2>1 DEF Send
    <3> QED
      BY <2>1, <3>1, RefineApply DEF Send, Goto
  <2>2. CASE SendFails(t) /\ BoardTakes(t, buffer)
    BY <2>2, RefineApply DEF SendFails, Goto
  <2>3. CASE SendFails(t) /\ UNCHANGED <<regs, tx, taken>>
    <3>1. /\ pc[t] # "idle" /\ pc' = [pc EXCEPT ![t] = "finish"]
          /\ UNCHANGED <<request, out, regs, taken, late>>
      BY <2>3 DEF SendFails, Goto
    <3>2. phaseBar' = phaseBar /\ seenBar' = seenBar
      BY <1>0, <3>1 DEF phaseBar, seenBar, TypeOK
    <3> QED
      BY <3>1, <3>2 DEF phaseBar, seenBar, File!vars
  <2>4. CASE SendLate(t)
    BY <2>4, RefineApply DEF SendLate, Goto
  <2> QED
    BY <1>3, <2>1, <2>2, <2>3, <2>4 DEF SendFails
<1>4. ASSUME NEW t \in Threads,
             \/ Acquire(t) \/ FillBuffer(t) \/ Seal(t) \/ SendLow(t)
             \/ Receive(t) \/ ReceiveFails(t)
      PROVE  UNCHANGED File!vars
  <2>1. /\ pc[t] # "idle"
        /\ \E to \in {"fill", "seal", "send", "receive", "finish"} :
             pc' = [pc EXCEPT ![t] = to]
        /\ UNCHANGED <<request, out, regs, taken, late>>
    BY <1>4 DEF Acquire, FillBuffer, Seal, SendLow, Receive, ReceiveFails,
                Goto
  <2>2. phaseBar' = phaseBar /\ seenBar' = seenBar
    BY <1>0, <2>1 DEF phaseBar, seenBar, TypeOK
  <2> QED
    BY <2>1, <2>2 DEF phaseBar, seenBar, File!vars
<1>5. CASE UNCHANGED vars
  BY <1>5 DEF vars, phaseBar, seenBar, File!vars
<1>6. ASSUME NEW t \in Threads, Finish(t)
      PROVE  File!Succeed(t) \/ File!SucceedLate(t) \/ File!Fail(t)
  BY <1>6, RefineFinish
<1> QED
  BY <1>1, <1>2, <1>3, <1>4, <1>5, <1>6
  DEF Next, Running, File!Next

(* The transport implements the register file: each call acts at one        *)
(* instant or not at all, success means it acted unless it is a write on a  *)
(* link that garbles requests or has no board, and a read returns what the  *)
(* registers held; a late answer spoils its own call and no other.          *)
THEOREM SpiImplementsFile == Spec => ImplementsFile
<1>1. SpiInv /\ ReplyInv /\ [Next]_vars => ReplyInv'
  BY ReplyStep
<1>2. SpiInv /\ ReplyInv /\ [Next]_vars => [File!Next]_File!vars
  BY RefineStep
<1> QED
  BY <1>1, <1>2, SpiInit, SpiStep, RefineInit, PTL
  DEF Spec, ImplementsFile, File!Spec

-----------------------------------------------------------------------------
(* What a read returns                                                     *)

LEMMA FreshStep ==
  ASSUME SpiInv, ReplyInv, Next, NEW t \in Threads, Returns(t),
         ~request[t].write, t \notin late
  PROVE  out'[t].data = Seen(regs, request[t])
<1>0. TypeOK
  BY DEF SpiInv
<1>1. PICK u \in Threads :
        (\E r \in Requests : Call(u, r)) \/ Acquire(u) \/ Running(u)
  BY DEF Next
<1>2. u = t /\ Finish(t)
  <2>1. \A to : pc' = [pc EXCEPT ![u] = to] => u = t
    BY <1>0 DEF Returns, TypeOK
  <2>2. u = t
    BY <1>1, <2>1
    DEF Call, Acquire, Running, TooLong, FillBuffer, Seal, Send, SendFails,
        SendLate, SendLow, Receive, ReceiveFails, Finish, Leave, Goto
  <2> QED
    BY <1>1, <2>2
    DEF Returns, Call, Acquire, Running, TooLong, FillBuffer, Seal, Send,
        SendFails, SendLate, SendLow, Receive, ReceiveFails, Leave, Goto
<1>3. Successful(t) /\ request[t] \in Requests
  BY <1>0, <1>2 DEF Finish, Returns, Failed, TypeOK
<1>4. Answers(buffer, t)
  BY <1>3 DEF Returns, ReplyInv, Successful
<1>5. t \in taken
  BY <1>3, <1>4, RequestFacts DEF Answers, Successful
<1>6. out'[t].data = Payload(buffer.regs, request[t].count)
  BY <1>0, <1>2, <1>3 DEF Finish, TypeOK
<1> QED
  BY <1>3, <1>4, <1>5, <1>6, PayloadFacts DEF Answers

(* A read that succeeds returns what the registers hold, whatever the link  *)
(* garbles and whoever was answered late before it.                         *)
THEOREM SpiFreshRead == Spec => FreshRead
<1>1. SpiInv /\ ReplyInv /\ [Next]_vars => ReplyInv'
  BY ReplyStep
<1>2. SpiInv /\ ReplyInv /\ [Next]_vars
      => [\A t \in Threads : Returns(t) /\ ~request[t].write /\ t \notin late
            => out'[t].data = Seen(regs, request[t])]_vars
  BY FreshStep
<1> QED
  BY <1>1, <1>2, SpiInit, SpiStep, PTL DEF Spec, FreshRead
=============================================================================
