----------------------------- MODULE UringEngine -----------------------------
(***************************************************************************)
(* UringIoEngine::read_exact (src/src/io_engine.cc): one blocking read     *)
(* over an io_uring.  The call writes an SQE, asks the kernel to submit    *)
(* one entry, and takes the next completion, whichever it is: user_data is *)
(* always 1 and is never compared.                                         *)
(*                                                                         *)
(* The kernel's half (submission, completion, its outcomes) is modelled    *)
(* from how the code uses it.  Requests are numbered in the order of the   *)
(* calls that wrote an SQE for them.                                       *)
(***************************************************************************)
EXTENDS Integers, Sequences, FiniteSets

CONSTANTS
  Entries,            \* entries_, config.io_queue_depth
  RingSize,           \* params.sq_entries: Entries rounded up by the kernel
  IndexSpan,          \* 2^32: ring indices are unsigned
  LengthSpan,         \* 2^32: sqe.len is unsigned, bytes a size_t
  Lengths,            \* tile sizes under study
  RetryAfterFailure,  \* TRUE: a caller that catches; FALSE: the replay tool
  MaxReads,           \* bound on the number of requests
  MaxEnterFailures    \* bound on failing io_uring_enter calls

ASSUME RingAssumption ==
  /\ Entries \in Nat \ {0} /\ RingSize \in Nat /\ IndexSpan \in Nat
  /\ Entries <= RingSize /\ RingSize <= IndexSpan \div 2
  /\ IndexSpan % RingSize = 0
ASSUME BoundAssumption == MaxReads \in Nat /\ MaxEnterFailures \in Nat
ASSUME LengthAssumption == LengthSpan \in Nat \ {0} /\ Lengths \subseteq Nat \ {0}

VARIABLES
  pc,             \* "idle", "enter", "reap", or "dead" after an exception
  tail, head,     \* *sq_tail_, *sq_head_
  sqes,           \* the SQE ring: slot -> request
  inflight,       \* requests the kernel is working on
  cq,             \* completions not yet consumed, oldest first
  issued,         \* number of requests so far; the last one is the current
  bytes,          \* what the current call asked for
  enterFailures,  \* io_uring_enter calls that failed
  filled,         \* requests whose buffer got every byte asked for (history)
  returned        \* requests whose call returned normally (history)

ring == <<tail, head, sqes>>
history == <<filled, returned>>
vars == <<pc, ring, inflight, cq, issued, bytes, enterFailures, history>>

Request == [id : 1..MaxReads, bytes : Lengths, len : 0..LengthSpan - 1]
Slots == 0..RingSize - 1
EmptySlot == [id |-> 0, bytes |-> 0, len |-> 0]

Init ==
  /\ pc = "idle"
  /\ tail = 0 /\ head = 0
  /\ sqes = [s \in Slots |-> EmptySlot]
  /\ inflight = {} /\ cq = <<>>
  /\ issued = 0 /\ bytes = 0 /\ enterFailures = 0
  /\ filled = {} /\ returned = {}

\* tail - head in unsigned arithmetic.
Waiting == (tail - head) % IndexSpan

AfterThrow == IF RetryAfterFailure THEN "idle" ELSE "dead"

-----------------------------------------------------------------------------
\* Mutant: one entry too many is let in.
SqFullLate == Waiting > Entries

SqFull == Waiting >= Entries

Refuse ==
  /\ pc = "idle"
  /\ SqFull
  /\ pc' = AfterThrow
  /\ UNCHANGED <<ring, inflight, cq, issued, bytes, enterFailures, filled,
                 returned>>

\* Mutant: the entry is written to the slot after the published one.
WriteSqeNextSlot(b) ==
  /\ pc = "idle"
  /\ ~SqFull
  /\ issued < MaxReads
  /\ sqes' = [sqes EXCEPT ![(tail + 1) % RingSize] =
                [id |-> issued + 1, bytes |-> b, len |-> b % LengthSpan]]
  /\ tail' = (tail + 1) % IndexSpan
  /\ issued' = issued + 1
  /\ bytes' = b
  /\ pc' = "enter"
  /\ UNCHANGED <<head, inflight, cq, enterFailures, history>>

\* The SQE is filled, its length cut to 32 bits, and sq_tail_ is published.
WriteSqe(b) ==
  /\ pc = "idle"
  /\ ~SqFull
  /\ issued < MaxReads
  /\ sqes' = [sqes EXCEPT ![tail % RingSize] =
                [id |-> issued + 1, bytes |-> b, len |-> b % LengthSpan]]
  /\ tail' = (tail + 1) % IndexSpan
  /\ issued' = issued + 1
  /\ bytes' = b
  /\ pc' = "enter"
  /\ UNCHANGED <<head, inflight, cq, enterFailures, history>>

\* io_uring_enter(fd, 1, 1, GETEVENTS) submits the oldest entry of the ring.
\* It may come back before the completion: the loop after it spins.
Enter ==
  /\ pc = "enter"
  /\ inflight' = inflight \union {sqes[head % RingSize]}
  /\ head' = (head + 1) % IndexSpan
  /\ pc' = "reap"
  /\ UNCHANGED <<tail, sqes, cq, issued, bytes, enterFailures, history>>

\* Mutant: the return value is not looked at.
EnterFailsIgnored ==
  /\ pc = "enter"
  /\ enterFailures < MaxEnterFailures
  /\ enterFailures' = enterFailures + 1
  /\ pc' = "reap"
  /\ UNCHANGED <<ring, inflight, cq, issued, bytes, history>>

\* It fails before submitting anything: the entry stays in the ring.
EnterFails ==
  /\ pc = "enter"
  /\ enterFailures < MaxEnterFailures
  /\ enterFailures' = enterFailures + 1
  /\ pc' = AfterThrow
  /\ UNCHANGED <<ring, inflight, cq, issued, bytes, history>>

\* The kernel finishes a request: an error (-1) or up to len bytes.
Complete ==
  \E r \in inflight : \E res \in -1 .. r.len :
    /\ inflight' = inflight \ {r}
    /\ cq' = Append(cq, [id |-> r.id, res |-> res])
    /\ filled' = IF res = r.bytes THEN filled \union {r.id} ELSE filled
    /\ UNCHANGED <<pc, ring, issued, bytes, enterFailures, returned>>

-----------------------------------------------------------------------------
\* Mutant: the result is compared with the truncated length.
WholeTruncated(res) == res = bytes % LengthSpan

Whole(res) == res = bytes

\* A completion is there: it is consumed, then judged.
ReapReturns ==
  /\ pc = "reap" /\ cq # <<>>
  /\ Whole(Head(cq).res)
  /\ cq' = Tail(cq)
  /\ pc' = "idle"
  /\ returned' = returned \union {issued}
  /\ UNCHANGED <<ring, inflight, issued, bytes, enterFailures, filled>>

ReapThrows ==
  /\ pc = "reap" /\ cq # <<>>
  /\ ~Whole(Head(cq).res)
  /\ cq' = Tail(cq)
  /\ pc' = AfterThrow
  /\ UNCHANGED <<ring, inflight, issued, bytes, enterFailures, history>>

Next ==
  \/ Refuse
  \/ \E b \in Lengths : WriteSqe(b)
  \/ Enter
  \/ EnterFails
  \/ Complete
  \/ ReapReturns
  \/ ReapThrows

\* The call is straight-line code, and the kernel finishes what it accepted.
Fairness ==
  /\ WF_vars(Enter \/ EnterFails \/ ReapReturns \/ ReapThrows)
  /\ WF_vars(Complete)

Spec == Init /\ [][Next]_vars /\ Fairness

-----------------------------------------------------------------------------
\* The types of the state.
TypeOK ==
  /\ pc \in {"idle", "enter", "reap", "dead"}
  /\ {tail, head} \subseteq 0..IndexSpan - 1
  /\ sqes \in [Slots -> Request \union {EmptySlot}]
  /\ inflight \subseteq Request
  /\ cq \in Seq([id : 1..MaxReads, res : -1..LengthSpan - 1])
  /\ issued \in 0..MaxReads
  /\ bytes \in Lengths \union {0}
  /\ enterFailures \in 0..MaxEnterFailures
  /\ {filled, returned} \subseteq SUBSET (1..MaxReads)

\* What read_exact promises: when it returns, the whole tile is in the buffer.
\* It holds as long as io_uring_enter has not failed: a short read, a length
\* cut to 32 bits or an I/O error on an earlier call never turns into success.
ReadsWholeTile == enterFailures = 0 => returned \subseteq filled

\* After failed submissions every call is served the completion of an older
\* request, exactly as many requests back as submissions have failed.
LateByFailedEnters ==
  \A k \in DOMAIN cq : cq[k].id = issued - enterFailures

\* Entries that wait for submission are those of failed calls and of the call
\* in progress; none is overwritten before the kernel takes it, across the
\* wrap-around of the indices.
WaitingSlots == {((head + k) % IndexSpan) % RingSize : k \in 0..Waiting - 1}

EntriesSurvive ==
  /\ Waiting = enterFailures + IF pc = "enter" THEN 1 ELSE 0
  /\ {sqes[s].id : s \in WaitingSlots} = issued - Waiting + 1 .. issued

\* Every call that wrote an SQE returns or throws.
ReadsEnd == pc = "enter" ~> pc \in {"idle", "dead"}

=============================================================================
