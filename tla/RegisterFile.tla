---------------------------- MODULE RegisterFile ----------------------------
(***************************************************************************)
(* What the adapter of the RCIO driver promises to its callers             *)
(* (adapter->read and adapter->write, src/src/rcio.h): a file of 16-bit    *)
(* registers on which each call acts at one instant between its start and  *)
(* its return, or not at all.  A call that succeeds has acted, a read that *)
(* succeeds returns what the registers held at that instant, and a call    *)
(* that fails may have acted or not.  Of a call whose answer is late only  *)
(* that it acts at most once is promised.                                  *)
(***************************************************************************)
EXTENDS RcioRegs

CONSTANTS
  Threads,   \* the callers
  Lossy,     \* may a write succeed without having acted?
  Slow       \* may an answer be late?

VARIABLES
  regs,     \* the registers
  request,  \* per thread: its call
  phase,    \* per thread: "idle", "pending" or "applied"
  seen,     \* per thread: what its call read when it acted
  out,      \* per thread: the outcome of its last call
  late      \* the calls whose answer is late

vars == <<regs, request, phase, seen, out, late>>

Init ==
  /\ regs \in [Addrs -> Vals]
  /\ request = [t \in Threads |-> NoRequest]
  /\ phase = [t \in Threads |-> "idle"]
  /\ seen = [t \in Threads |-> Blank]
  /\ out = [t \in Threads |-> Failed]
  /\ late = {}

Call(t, r) ==
  /\ phase[t] = "idle"
  /\ phase' = [phase EXCEPT ![t] = "pending"]
  /\ request' = [request EXCEPT ![t] = r]
  /\ out' = [out EXCEPT ![t] = Failed]
  /\ UNCHANGED <<regs, seen, late>>

\* The answer to t's call may turn out to be late.
Answer(t) == late' \in {late} \cup (IF Slow THEN {late \cup {t}} ELSE {})

Apply(t) ==
  /\ phase[t] = "pending"
  /\ InRange(request[t])
  /\ phase' = [phase EXCEPT ![t] = "applied"]
  /\ regs' = Written(regs, request[t])
  /\ seen' = [seen EXCEPT ![t] = Seen(regs, request[t])]
  /\ Answer(t)
  /\ UNCHANGED <<request, out>>

\* The call does not act, but is answered late.
Refuse(t) ==
  /\ phase[t] = "pending"
  /\ Answer(t)
  /\ UNCHANGED <<regs, request, phase, seen, out>>

Leave(t) ==
  /\ phase' = [phase EXCEPT ![t] = "idle"]
  /\ request' = [request EXCEPT ![t] = NoRequest]
  /\ seen' = [seen EXCEPT ![t] = Blank]
  /\ late' = late \ {t}
  /\ UNCHANGED regs

\* Nothing is known of a success that came with another call's answer.
SucceedLate(t) ==
  /\ t \in late
  /\ \E d \in [Slots -> Words] : out' = [out EXCEPT ![t] = [ok   |-> TRUE,
                                                           data |-> d]]
  /\ Leave(t)

Succeed(t) ==
  /\ \/ phase[t] = "applied"
     \/ phase[t] = "pending" /\ Lossy /\ request[t].write
  /\ out' = [out EXCEPT ![t] = [ok |-> TRUE, data |-> seen[t]]]
  /\ Leave(t)

Fail(t) ==
  /\ phase[t] # "idle"
  /\ UNCHANGED out
  /\ Leave(t)

Next ==
  \E t \in Threads :
    \/ \E r \in Requests : Call(t, r)
    \/ Apply(t) \/ Refuse(t)
    \/ Succeed(t) \/ SucceedLate(t) \/ Fail(t)

Spec == Init /\ [][Next]_vars
=============================================================================
