--------------------------- MODULE UringEngineProofs ---------------------------
(***************************************************************************)
(* Proofs about UringEngine, for every queue depth, ring size, width of    *)
(* the indices and of lengths, tile sizes and bounds.                      *)
(***************************************************************************)
EXTENDS UringEngine, SequenceTheorems, TLAPS

-----------------------------------------------------------------------------
(* Remainders *)

LEMMA ProductGrows ==
  ASSUME NEW d \in Nat \ {0}, NEW q \in Int, q >= 1
  PROVE  d * q >= d
<1>1. d * (q - 1) >= 0
  BY SMT
<1>2. d * q = d * (q - 1) + d
  BY SMT
<1>3. QED
  BY <1>1, <1>2

LEMMA ModIsRemainder ==
  ASSUME NEW n \in Int, NEW d \in Nat \ {0}
  PROVE  /\ n % d \in 0 .. d - 1
         /\ n = d * (n \div d) + (n % d) /\ n \div d \in Int
<1>1. n % d \in 0 .. d - 1
  BY SMT
<1>2. n \div d \in Int
  BY SMT
<1>3. n = d * (n \div d) + (n % d)
  BY SMT
<1>4. QED
  BY <1>1, <1>2, <1>3

LEMMA RemainderIsMod ==
  ASSUME NEW n \in Int, NEW d \in Nat \ {0}, NEW q \in Int, NEW r \in 0 .. d - 1,
         n = d * q + r
  PROVE  n % d = r
<1> DEFINE p == n \div d
           s == n % d
<1>1. p \in Int /\ s \in 0 .. d - 1 /\ n = d * p + s
  BY ModIsRemainder
<1> HIDE DEF p, s
<1>2. d * (p - q) = r - s /\ d * (q - p) = s - r
  BY <1>1, SMT
<1>3. ~(p - q >= 1)
  BY <1>1, <1>2, ProductGrows
<1>4. ~(q - p >= 1)
  BY <1>1, <1>2, ProductGrows
<1>5. p = q
  BY <1>1, <1>3, <1>4
<1>6. QED
  BY <1>1, <1>5 DEF s

\* Remainders can be taken before or after a number is added.
LEMMA ModAdd ==
  ASSUME NEW n \in Int, NEW k \in Int, NEW d \in Nat \ {0}
  PROVE  ((n % d) + k) % d = (n + k) % d
<1> DEFINE r == n % d
           q == n \div d
           s == (r + k) % d
           p == (r + k) \div d
<1>1. q \in Int /\ r \in 0 .. d - 1 /\ n = d * q + r
  BY ModIsRemainder
<1>2. p \in Int /\ s \in 0 .. d - 1 /\ r + k = d * p + s
  <2>1. r + k \in Int
    BY <1>1
  <2>2. QED
    BY <2>1, ModIsRemainder
<1> HIDE DEF r, q, s, p
<1>3. n + k = d * (q + p) + s /\ q + p \in Int /\ n + k \in Int
  BY <1>1, <1>2, SMT
<1>4. (n + k) % d = s
  BY <1>2, <1>3, RemainderIsMod
<1>5. QED
  BY <1>4 DEF s, r

\* A remainder by a multiple does not change the remainder.
LEMMA ModTwice ==
  ASSUME NEW n \in Int, NEW d \in Nat \ {0}, NEW m \in Nat \ {0}, m % d = 0
  PROVE  (n % m) % d = n % d
<1> DEFINE r == n % m
           q == n \div m
           c == m \div d
           s == r % d
           p == r \div d
<1>1. q \in Int /\ r \in 0 .. m - 1 /\ n = m * q + r
  BY ModIsRemainder
<1>2. c \in Int /\ m = d * c
  BY ModIsRemainder
<1>3. p \in Int /\ s \in 0 .. d - 1 /\ r = d * p + s
  <2>1. r \in Int
    BY <1>1
  <2>2. QED
    BY <2>1, ModIsRemainder
<1> HIDE DEF r, q, c, s, p
<1>4. n = (d * c) * q + (d * p + s)
  BY <1>1, <1>2, <1>3
<1>5. n = d * (c * q + p) + s /\ c * q + p \in Int
  BY <1>1, <1>2, <1>3, <1>4, SMT
<1>6. n % d = s
  BY <1>3, <1>5, RemainderIsMod
<1>7. QED
  BY <1>6 DEF s, r

\* Numbers less than d apart have different remainders ...
LEMMA ModApart ==
  ASSUME NEW d \in Nat \ {0}, NEW i \in Int, NEW j \in Int,
         j <= i, i - j < d, i % d = j % d
  PROVE  i = j
<1> DEFINE r == i % d
           p == i \div d
           q == j \div d
<1>1. p \in Int /\ q \in Int /\ r \in 0 .. d - 1 /\ i = d * p + r /\ j = d * q + r
  BY ModIsRemainder
<1> HIDE DEF r, p, q
<1>2. d * (p - q) = i - j /\ d * (q - p) = j - i
  BY <1>1, SMT
<1>3. ~(p - q >= 1) /\ ~(q - p >= 1)
  BY <1>1, <1>2, ProductGrows
<1>4. p = q
  BY <1>1, <1>3
<1>5. QED
  BY <1>1, <1>4

\* ... and their distance is the difference of their remainders.
LEMMA ModDifference ==
  ASSUME NEW d \in Nat \ {0}, NEW i \in Int, NEW j \in Int, j <= i, i - j < d
  PROVE  ((i % d) - (j % d)) % d = i - j
<1> DEFINE r == i % d
           p == i \div d
           s == j % d
           q == j \div d
<1>1. /\ p \in Int /\ q \in Int /\ r \in 0 .. d - 1 /\ s \in 0 .. d - 1
      /\ i = d * p + r /\ j = d * q + s
  BY ModIsRemainder
<1> HIDE DEF r, p, s, q
<1>2. r - s = d * (q - p) + (i - j) /\ q - p \in Int /\ i - j \in 0 .. d - 1
  BY <1>1, SMT
<1>3. (r - s) % d = i - j
  <2>1. r - s \in Int
    BY <1>1
  <2>2. QED
    BY <2>1, <1>2, RemainderIsMod
<1>4. QED
  BY <1>3 DEF r, s

LEMMA RingFacts ==
  /\ Entries \in Nat \ {0} /\ RingSize \in Nat \ {0} /\ IndexSpan \in Nat \ {0}
  /\ Entries <= RingSize /\ RingSize < IndexSpan /\ IndexSpan % RingSize = 0
BY RingAssumption

\* The index and the slot of the n-th request.
Wrapped(n) == n % IndexSpan
SlotOf(n) == n % RingSize

\* Indices and slots stay in range; the slot of a wrapped index is that of the
\* number; requests less than a ring apart have different slots.
LEMMA RingArithmetic ==
  /\ \A n \in Int : Wrapped(n) \in 0 .. IndexSpan - 1 /\ SlotOf(n) \in Slots
  /\ \A n \in Int : SlotOf(Wrapped(n)) = SlotOf(n)
  /\ \A n, k \in Int : Wrapped(Wrapped(n) + k) = Wrapped(n + k)
  /\ \A i, j \in Int :
       j <= i /\ i - j < RingSize /\ SlotOf(i) = SlotOf(j) => i = j
  /\ \A i, j \in Int :
       j <= i /\ i - j < IndexSpan => Wrapped(Wrapped(i) - Wrapped(j)) = i - j
<1>1. ASSUME NEW n \in Int
      PROVE  Wrapped(n) \in 0 .. IndexSpan - 1 /\ SlotOf(n) \in Slots
  BY RingFacts, ModIsRemainder DEF Wrapped, SlotOf, Slots
<1>2. ASSUME NEW n \in Int PROVE SlotOf(Wrapped(n)) = SlotOf(n)
  <2>1. (n % IndexSpan) % RingSize = n % RingSize
    BY RingFacts, ModTwice
  <2>2. QED
    BY <2>1 DEF Wrapped, SlotOf
<1>3. ASSUME NEW n \in Int, NEW k \in Int
      PROVE  Wrapped(Wrapped(n) + k) = Wrapped(n + k)
  <2>1. ((n % IndexSpan) + k) % IndexSpan = (n + k) % IndexSpan
    BY RingFacts, ModAdd
  <2>2. QED
    BY <2>1 DEF Wrapped
<1>4. ASSUME NEW i \in Int, NEW j \in Int, j <= i, i - j < RingSize,
             SlotOf(i) = SlotOf(j)
      PROVE  i = j
  <2>1. i % RingSize = j % RingSize
    BY <1>4 DEF SlotOf
  <2>2. QED
    BY <2>1, <1>4, RingFacts, ModApart
<1>5. ASSUME NEW i \in Int, NEW j \in Int, j <= i, i - j < IndexSpan
      PROVE  Wrapped(Wrapped(i) - Wrapped(j)) = i - j
  <2>1. ((i % IndexSpan) - (j % IndexSpan)) % IndexSpan = i - j
    BY <1>5, RingFacts, ModDifference
  <2>2. QED
    BY <2>1 DEF Wrapped
<1>6. QED
  BY <1>1, <1>2, <1>3, <1>4, <1>5

-----------------------------------------------------------------------------
(* The inductive invariant *)

\* How many requests the kernel has accepted: the others wait in the ring.
Submitted == issued - enterFailures - (IF pc = "enter" THEN 1 ELSE 0)

\* The requests that wait are in their slots.  The indices are the counters of
\* requests issued and submitted, as far as they go.
RingInv ==
  /\ 0 <= Submitted /\ issued - Submitted <= Entries
  /\ tail = Wrapped(issued) /\ head = Wrapped(Submitted)
  /\ \A j \in Submitted .. issued - 1 :
       sqes[SlotOf(j)] \in Request /\ sqes[SlotOf(j)].id = j + 1
  /\ pc = "enter" => sqes[SlotOf(issued - 1)].bytes = bytes

\* A call that waits has one request outstanding, the latest submitted, and no
\* other call has any.
OutstandingInv ==
  /\ pc # "reap" => inflight = {} /\ cq = <<>>
  /\ pc = "reap" =>
       \/ cq = <<>> /\ \E r \in Request : inflight = {r} /\ r.id = Submitted
       \/ inflight = {} /\ Len(cq) = 1 /\ cq[1].id = Submitted

\* As long as no submission has failed, what is outstanding is the request of
\* the call in progress, and a whole result means a filled buffer.
WholeInv ==
  /\ enterFailures = 0 /\ pc = "reap" =>
       /\ \A r \in inflight : r.bytes = bytes
       /\ \A k \in DOMAIN cq : cq[k].res = bytes => issued \in filled
  /\ enterFailures = 0 => returned \subseteq filled

IInv == TypeOK /\ RingInv /\ OutstandingInv /\ WholeInv

LEMMA SubmittedIsInt == TypeOK => Submitted \in Int
BY BoundAssumption DEF TypeOK, Submitted

\* The difference of the wrapped indices is the number of requests waiting.
LEMMA WaitingIsBacklog ==
  ASSUME TypeOK, RingInv
  PROVE  Waiting = issued - Submitted
<1>1. issued \in Int /\ Submitted \in Int
  BY SubmittedIsInt, BoundAssumption DEF TypeOK
<1>2. Submitted <= issued /\ issued - Submitted < IndexSpan
  BY <1>1, RingFacts, BoundAssumption DEF RingInv, TypeOK, Submitted
<1>3. QED
  <2>1. Waiting = Wrapped(tail - head)
    BY DEF Waiting, Wrapped
  <2>2. QED
    BY <1>1, <1>2, <2>1, RingArithmetic DEF RingInv

LEMMA InitIInv == Init => IInv
<1> SUFFICES ASSUME Init PROVE IInv
  OBVIOUS
<1> USE RingFacts, BoundAssumption DEF Init
<1>1. 0 % IndexSpan = 0
  BY SMT
<1>2. TypeOK
  BY DEF TypeOK
<1>3. RingInv /\ OutstandingInv /\ WholeInv
  BY <1>1 DEF Wrapped, RingInv, OutstandingInv, WholeInv, Submitted
<1>4. QED
  BY <1>2, <1>3 DEF IInv

\* The kernel finishes request r with result res.
Completes(r, res) ==
  /\ inflight' = inflight \ {r}
  /\ cq' = Append(cq, [id |-> r.id, res |-> res])
  /\ filled' = IF res = r.bytes THEN filled \union {r.id} ELSE filled
  /\ UNCHANGED <<pc, ring, issued, bytes, enterFailures, returned>>

LEMMA CompleteCompletes ==
  Complete <=> \E r \in inflight : \E res \in -1 .. r.len : Completes(r, res)
BY DEF Complete, Completes

Completion == [id : 1..MaxReads, res : -1..LengthSpan - 1]

\* A call that waits for a completion has issued a request.
LEMMA ReapingSome ==
  ASSUME TypeOK, RingInv, OutstandingInv, pc = "reap"
  PROVE  issued \in 1 .. MaxReads /\ Submitted = issued - enterFailures
<1>1. Submitted >= 1
  <2>1. CASE \E r \in Request : inflight = {r} /\ r.id = Submitted
    BY <2>1, BoundAssumption DEF Request
  <2>2. CASE Len(cq) = 1 /\ cq[1].id = Submitted
    <3>0. cq \in Seq(Completion)
      BY DEF TypeOK, Completion
    <3>1. cq[1] \in Completion
      <4>1. Len(cq) = 1
        BY <2>2
      <4>2. QED
        BY <3>0, <4>1, ElementOfSeq
    <3>2. QED
      BY <2>2, <3>1, BoundAssumption DEF Completion
  <2>3. QED
    BY <2>1, <2>2 DEF OutstandingInv
<1>2. QED
  BY <1>1, BoundAssumption DEF TypeOK, Submitted

LEMMA TypeOKStep == IInv /\ [Next]_vars => TypeOK'
<1> SUFFICES ASSUME IInv, [Next]_vars PROVE TypeOK'
  OBVIOUS
<1>0. TypeOK /\ RingInv /\ OutstandingInv
  BY DEF IInv
<1> HIDE DEF IInv
<1> USE RingFacts, BoundAssumption DEF TypeOK, ring, history, AfterThrow
<1>1. CASE Refuse
  BY <1>0, <1>1 DEF Refuse
<1>2. ASSUME NEW b \in Lengths, WriteSqe(b) PROVE TypeOK'
  <2>1. b % LengthSpan \in 0 .. LengthSpan - 1
    BY LengthAssumption, ModIsRemainder
  <2>2. [id |-> issued + 1, bytes |-> b, len |-> b % LengthSpan] \in Request
    BY <1>0, <1>2, <2>1 DEF WriteSqe, Request
  <2>3. sqes' \in [Slots -> Request \union {EmptySlot}]
    BY <1>0, <1>2, <2>2 DEF WriteSqe
  <2>4. tail' \in 0 .. IndexSpan - 1
    <3>1. tail + 1 \in Int /\ tail' = (tail + 1) % IndexSpan
      BY <1>0, <1>2 DEF WriteSqe
    <3>2. QED
      BY <3>1, ModIsRemainder
  <2>5. QED
    BY <1>0, <1>2, <2>3, <2>4 DEF WriteSqe
<1>3. CASE Enter
  <2>1. sqes[head % RingSize] \in Request
    <3>1. Submitted = issued - 1 - enterFailures /\ Submitted \in Submitted .. issued - 1
      BY <1>0, <1>3, SubmittedIsInt DEF Enter, Submitted
    <3>2. SlotOf(head) = SlotOf(Submitted)
      BY <1>0, RingArithmetic, SubmittedIsInt DEF RingInv
    <3>3. QED
      BY <1>0, <3>1, <3>2 DEF RingInv, SlotOf
  <2>2. head' \in 0 .. IndexSpan - 1
    <3>1. head + 1 \in Int /\ head' = (head + 1) % IndexSpan
      BY <1>0, <1>3 DEF Enter
    <3>2. QED
      BY <3>1, ModIsRemainder
  <2>3. QED
    BY <1>0, <1>3, <2>1, <2>2 DEF Enter
<1>4. CASE EnterFails
  BY <1>0, <1>4 DEF EnterFails
<1>5. CASE Complete
  <2>0. PICK r \in inflight : \E res \in -1 .. r.len : Completes(r, res)
    BY <1>5, CompleteCompletes
  <2>1. PICK res \in -1 .. r.len : Completes(r, res)
    BY <2>0
  <2>2. r.id \in 1 .. MaxReads /\ res \in -1 .. LengthSpan - 1
    BY <1>0, <2>1, LengthAssumption DEF Request
  <2>3. QED
    BY <1>0, <2>1, <2>2 DEF Completes
<1>6. CASE ReapReturns \/ ReapThrows
  <2>1. issued \in 1 .. MaxReads
    BY <1>0, <1>6, ReapingSome DEF ReapReturns, ReapThrows
  <2>2. cq' \in Seq([id : 1..MaxReads, res : -1..LengthSpan - 1])
    <3>1. cq # <<>> /\ cq' = Tail(cq)
      BY <1>6 DEF ReapReturns, ReapThrows
    <3>2. QED
      BY <1>0, <3>1, HeadTailProperties
  <2>3. QED
    BY <1>0, <1>6, <2>1, <2>2 DEF ReapReturns, ReapThrows
<1>7. CASE UNCHANGED vars
  BY <1>0, <1>7 DEF vars
<1>8. QED
  BY <1>1, <1>2, <1>3, <1>4, <1>5, <1>6, <1>7 DEF Next

LEMMA RingInvStep == IInv /\ [Next]_vars => RingInv'
<1> SUFFICES ASSUME IInv, [Next]_vars PROVE RingInv'
  OBVIOUS
<1>0. TypeOK /\ RingInv /\ OutstandingInv
  BY DEF IInv
<1>a. /\ issued \in Nat /\ enterFailures \in Nat /\ Submitted \in Int
      /\ sqes \in [Slots -> Request \union {EmptySlot}]
  BY <1>0, SubmittedIsInt, BoundAssumption DEF TypeOK
<1> HIDE DEF IInv
<1> USE DEF ring, history
<1>1. ASSUME NEW b \in Lengths, WriteSqe(b) PROVE RingInv'
  <2> DEFINE request == [id |-> issued + 1, bytes |-> b, len |-> b % LengthSpan]
  <2>1. /\ pc = "idle" /\ pc' = "enter" /\ issued' = issued + 1 /\ bytes' = b
        /\ UNCHANGED <<head, enterFailures>> /\ issued < MaxReads
        /\ sqes' = [sqes EXCEPT ![SlotOf(tail)] = request]
        /\ tail' = Wrapped(tail + 1) /\ ~(Waiting >= Entries)
    BY <1>1 DEF WriteSqe, SqFull, SlotOf, Wrapped
  <2>2. Submitted' = Submitted /\ Submitted = issued - enterFailures
    BY <1>a, <2>1 DEF Submitted
  <2>3. Waiting = issued - Submitted
    BY <1>0, WaitingIsBacklog
  <2>4. SlotOf(tail) = SlotOf(issued)
    BY <1>0, <1>a, RingArithmetic DEF RingInv
  <2>5. tail' = Wrapped(issued')
    BY <1>0, <1>a, <2>1, RingArithmetic DEF RingInv
  <2>6. \A j \in Submitted .. issued - 1 : SlotOf(j) # SlotOf(issued)
    BY <1>a, <2>1, <2>2, <2>3, RingFacts, RingArithmetic
  <2>7. SlotOf(issued) \in Slots
    BY <1>a, RingArithmetic
  <2>8. request \in Request /\ request.id = issued + 1 /\ request.bytes = b
    <3>1. b % LengthSpan \in 0 .. LengthSpan - 1
      BY LengthAssumption, ModIsRemainder
    <3>2. QED
      BY <1>a, <2>1, <3>1, BoundAssumption DEF Request
  <2> HIDE DEF request
  <2>9. \A j \in Submitted .. issued - 1 :
          sqes'[SlotOf(j)] \in Request /\ sqes'[SlotOf(j)].id = j + 1
    <3>1. \A j \in Submitted .. issued - 1 :
            SlotOf(j) \in Slots /\ SlotOf(j) # SlotOf(tail)
      <4>1. \A j \in Submitted .. issued - 1 : j \in Int
        BY <1>a
      <4>2. \A j \in Submitted .. issued - 1 : SlotOf(j) \in Slots
        BY <4>1, RingArithmetic
      <4>3. QED
        BY <2>4, <2>6, <4>2
    <3>2. \A j \in Submitted .. issued - 1 :
            sqes'[SlotOf(j)] = sqes[SlotOf(j)]
      BY <1>a, <2>1, <3>1
    <3>3. QED
      BY <1>0, <3>2 DEF RingInv
  <2>10. sqes'[SlotOf(issued)] = request
    BY <1>a, <2>1, <2>4, <2>7
  <2>11. QED
    <3>1. 0 <= Submitted' /\ issued' - Submitted' <= Entries
      BY <1>0, <1>a, <2>1, <2>2, <2>3, RingFacts DEF RingInv
    <3>2. head' = Wrapped(Submitted')
      BY <1>0, <2>1, <2>2 DEF RingInv
    <3>3. \A j \in Submitted' .. issued' - 1 :
            sqes'[SlotOf(j)] \in Request /\ sqes'[SlotOf(j)].id = j + 1
      BY <1>a, <2>1, <2>2, <2>8, <2>9, <2>10
    <3>4. sqes'[SlotOf(issued' - 1)].bytes = bytes'
      BY <1>a, <2>1, <2>8, <2>10
    <3>5. QED
      BY <2>5, <3>1, <3>2, <3>3, <3>4 DEF RingInv
<1>2. CASE Enter
  <2>1. /\ pc = "enter" /\ pc' = "reap" /\ head' = Wrapped(head + 1)
        /\ UNCHANGED <<tail, sqes, issued, bytes, enterFailures>>
    BY <1>2 DEF Enter, Wrapped
  <2>2. Submitted' = Submitted + 1 /\ Submitted <= issued - 1
    BY <1>a, <2>1 DEF Submitted
  <2>3. head' = Wrapped(Submitted + 1)
    BY <1>0, <1>a, <2>1, RingArithmetic DEF RingInv
  <2>4. QED
    <3>1. \A j \in Submitted' .. issued' - 1 : j \in Submitted .. issued - 1
      BY <1>a, <2>1, <2>2
    <3>2. \A j \in Submitted' .. issued' - 1 :
            sqes'[SlotOf(j)] \in Request /\ sqes'[SlotOf(j)].id = j + 1
      BY <1>0, <2>1, <3>1 DEF RingInv
    <3>3. 0 <= Submitted' /\ issued' - Submitted' <= Entries
      BY <1>0, <1>a, <2>1, <2>2, RingFacts DEF RingInv
    <3>4. QED
      BY <1>0, <2>1, <2>2, <2>3, <3>2, <3>3 DEF RingInv
<1>3. CASE EnterFails
  <2>1. /\ pc = "enter" /\ pc' # "enter" /\ enterFailures' = enterFailures + 1
        /\ UNCHANGED <<tail, head, sqes, issued, bytes>>
    BY <1>3 DEF EnterFails, AfterThrow
  <2>2. Submitted' = Submitted
    BY <1>a, <2>1 DEF Submitted
  <2>3. QED
    BY <1>0, <2>1, <2>2 DEF RingInv
<1>4. CASE Complete
  <2>1. UNCHANGED <<pc, tail, head, sqes, issued, bytes, enterFailures>>
    BY <1>4 DEF Complete
  <2>2. QED
    BY <1>0, <2>1 DEF RingInv, Submitted
<1>5. CASE Refuse \/ ReapReturns \/ ReapThrows
  <2>1. /\ pc # "enter" /\ pc' # "enter"
        /\ UNCHANGED <<tail, head, sqes, issued, bytes, enterFailures>>
    BY <1>5 DEF Refuse, ReapReturns, ReapThrows, AfterThrow
  <2>2. QED
    BY <1>0, <2>1 DEF RingInv, Submitted
<1>6. CASE UNCHANGED vars
  BY <1>0, <1>6 DEF RingInv, Submitted, vars
<1>7. QED
  BY <1>1, <1>2, <1>3, <1>4, <1>5, <1>6 DEF Next

LEMMA OutstandingInvStep == IInv /\ [Next]_vars => OutstandingInv' /\ WholeInv'
<1> SUFFICES ASSUME IInv, [Next]_vars PROVE OutstandingInv' /\ WholeInv'
  OBVIOUS
<1>0. TypeOK /\ RingInv /\ OutstandingInv /\ WholeInv
  BY DEF IInv
<1>a. issued \in Nat /\ enterFailures \in Nat /\ Submitted \in Int
  BY <1>0, SubmittedIsInt, BoundAssumption DEF TypeOK
<1> HIDE DEF IInv
<1> USE DEF ring, history, OutstandingInv, WholeInv, AfterThrow
<1>1. CASE Refuse
  BY <1>0, <1>1 DEF Refuse
<1>2. CASE \E b \in Lengths : WriteSqe(b)
  <2>1. /\ pc = "idle" /\ pc' = "enter"
        /\ UNCHANGED <<inflight, cq, enterFailures, filled, returned>>
    BY <1>2 DEF WriteSqe
  <2>2. QED
    BY <1>0, <2>1
<1>3. CASE Enter
  <2> DEFINE request == sqes[SlotOf(head)]
  <2>1. /\ pc = "enter" /\ pc' = "reap" /\ inflight' = inflight \union {request}
        /\ UNCHANGED <<sqes, cq, issued, bytes, enterFailures, filled, returned>>
    BY <1>3 DEF Enter, SlotOf
  <2>2. Submitted' = Submitted + 1 /\ Submitted = issued - 1 - enterFailures
    BY <1>a, <2>1 DEF Submitted
  <2>3. request = sqes[SlotOf(Submitted)]
    BY <1>0, <1>a, RingArithmetic DEF RingInv
  <2>4. request \in Request /\ request.id = Submitted'
    BY <1>0, <1>a, <2>2, <2>3 DEF RingInv
  <2>5. enterFailures = 0 => request.bytes = bytes
    BY <1>0, <1>a, <2>1, <2>2, <2>3 DEF RingInv
  <2> HIDE DEF request
  <2>6. inflight' = {request} /\ cq' = <<>>
    BY <1>0, <2>1
  <2>7. QED
    BY <1>0, <2>1, <2>4, <2>5, <2>6
<1>4. CASE EnterFails
  <2>1. /\ pc = "enter" /\ pc' # "reap" /\ enterFailures' # 0
        /\ UNCHANGED <<inflight, cq>>
    BY <1>4, <1>a DEF EnterFails
  <2>2. QED
    BY <1>0, <2>1
<1>5. CASE Complete
  <2>1. PICK r \in inflight : \E res \in -1 .. r.len : Completes(r, res)
    BY <1>5, CompleteCompletes
  <2>2. PICK res \in -1 .. r.len : Completes(r, res)
    BY <2>1
  <2>3. pc = "reap" /\ cq = <<>> /\ inflight = {r} /\ r.id = Submitted
    BY <1>0, <2>1
  <2>4. Submitted' = Submitted /\ Submitted = issued - enterFailures
    BY <1>a, <2>2, <2>3 DEF Submitted, Completes
  <2>5. cq' = <<[id |-> r.id, res |-> res]>> /\ inflight' = {}
    BY <2>2, <2>3 DEF Completes
  <2>6. OutstandingInv'
    BY <2>2, <2>3, <2>4, <2>5 DEF Completes
  <2>7. WholeInv'
    BY <1>0, <1>a, <2>2, <2>3, <2>4, <2>5 DEF Completes
  <2>8. QED
    BY <2>6, <2>7
<1>6. CASE ReapReturns \/ ReapThrows
  <2>1. /\ pc = "reap" /\ pc' # "reap" /\ cq # <<>> /\ cq' = Tail(cq)
        /\ UNCHANGED <<inflight, enterFailures, filled>>
        /\ \/ returned' = returned
           \/ cq[1].res = bytes /\ returned' = returned \union {issued}
    <3>1. cq # <<>> => Head(cq) = cq[1]
      BY <1>0, HeadTailProperties DEF TypeOK
    <3>2. CASE ReapReturns
      BY <3>1, <3>2 DEF ReapReturns, Whole
    <3>3. CASE ReapThrows
      BY <3>3 DEF ReapThrows
    <3>4. QED
      BY <1>6, <3>2, <3>3
  <2>2. inflight' = {} /\ cq' = <<>> /\ 1 \in DOMAIN cq
    <3>1. inflight = {} /\ Len(cq) = 1
      BY <1>0, <2>1
    <3>2. Tail(cq) = <<>>
      <4>1. cq \in Seq(Completion) /\ cq # <<>>
        BY <1>0, <2>1 DEF TypeOK, Completion
      <4>2. Tail(cq) \in Seq(Completion) /\ Len(Tail(cq)) = 0
        BY <3>1, <4>1, HeadTailProperties
      <4>3. QED
        BY <4>2, EmptySeq
    <3>3. QED
      BY <1>0, <2>1, <3>1, <3>2 DEF TypeOK
  <2>3. QED
    BY <1>0, <2>1, <2>2
<1>7. CASE UNCHANGED vars
  BY <1>0, <1>7 DEF vars, Submitted
<1>8. QED
  BY <1>1, <1>2, <1>3, <1>4, <1>5, <1>6, <1>7 DEF Next

LEMMA IInvAlways == Spec => []IInv
BY InitIInv, TypeOKStep, RingInvStep, OutstandingInvStep, PTL DEF Spec, IInv

-----------------------------------------------------------------------------
(* The theorems *)

\* The indices stay below the span and every slot holds a request or nothing.
THEOREM TypesAreCorrect == Spec => []TypeOK
BY IInvAlways, PTL DEF IInv

\* As long as no submission has failed, a call that returns has read its whole
\* tile: for every queue depth, ring size and index width.
THEOREM WholeTilesAreRead == Spec => []ReadsWholeTile
<1>1. IInv => ReadsWholeTile
  BY DEF IInv, WholeInv, ReadsWholeTile
<1>2. QED
  BY <1>1, IInvAlways, PTL

\* Every call is served the completion of the request that lies as many calls
\* back as submissions have failed.
THEOREM CompletionsAreLate == Spec => []LateByFailedEnters
<1>1. IInv => LateByFailedEnters
  <2> SUFFICES ASSUME IInv, NEW k \in DOMAIN cq
               PROVE  cq[k].id = issued - enterFailures
    BY DEF LateByFailedEnters
  <2>1. TypeOK /\ RingInv /\ OutstandingInv
    BY DEF IInv
  <2>2. pc = "reap" /\ k = 1 /\ cq[1].id = Submitted
    BY <2>1 DEF OutstandingInv, TypeOK
  <2>3. QED
    BY <2>1, <2>2, ReapingSome
<1>2. QED
  BY <1>1, IInvAlways, PTL

\* No entry that waits for submission is overwritten, however often the
\* indices have wrapped around.
THEOREM WaitingEntriesSurvive == Spec => []EntriesSurvive
<1>1. IInv => EntriesSurvive
  <2> SUFFICES ASSUME IInv PROVE EntriesSurvive
    OBVIOUS
  <2>1. TypeOK /\ RingInv
    BY DEF IInv
  <2>2. issued \in Nat /\ enterFailures \in Nat /\ Submitted \in Int
    BY <2>1, SubmittedIsInt, BoundAssumption DEF TypeOK
  <2>3. Waiting = issued - Submitted
    BY <2>1, WaitingIsBacklog
  <2> HIDE DEF IInv
  <2>4. Waiting = enterFailures + IF pc = "enter" THEN 1 ELSE 0
    BY <2>2, <2>3 DEF Submitted
  <2>5. \A k \in 0 .. Waiting - 1 :
          SlotOf(Wrapped(head + k)) = SlotOf(Submitted + k)
    <3>1. head = Wrapped(Submitted) /\ \A k \in 0 .. Waiting - 1 : k \in Int
      BY <2>1, <2>2, <2>3 DEF RingInv
    <3>2. \A k \in Int : Wrapped(head + k) = Wrapped(Submitted + k)
      BY <2>2, <3>1, RingArithmetic
    <3>3. \A k \in Int : Submitted + k \in Int
      BY <2>2
    <3>4. \A k \in Int : SlotOf(Wrapped(Submitted + k)) = SlotOf(Submitted + k)
      BY <3>3, RingArithmetic
    <3>5. QED
      BY <3>1, <3>2, <3>4
  <2>6. \A k \in 0 .. Waiting - 1 :
          sqes[SlotOf(Wrapped(head + k))].id = Submitted + k + 1
    BY <2>1, <2>2, <2>3, <2>5 DEF RingInv
  <2>7. {sqes[s].id : s \in WaitingSlots}
          = {Submitted + k + 1 : k \in 0 .. Waiting - 1}
    <3>1. WaitingSlots = {SlotOf(Wrapped(head + k)) : k \in 0 .. Waiting - 1}
      BY DEF WaitingSlots, SlotOf, Wrapped
    <3>2. QED
      BY <2>6, <3>1
  <2>8. {Submitted + k + 1 : k \in 0 .. Waiting - 1}
          = issued - Waiting + 1 .. issued
    <3>1. \A n \in issued - Waiting + 1 .. issued :
            n - Submitted - 1 \in 0 .. Waiting - 1
              /\ n = Submitted + (n - Submitted - 1) + 1
      BY <2>2, <2>3
    <3>2. \A k \in 0 .. Waiting - 1 :
            Submitted + k + 1 \in issued - Waiting + 1 .. issued
      BY <2>2, <2>3
    <3>3. QED
      BY <3>1, <3>2
  <2>9. QED
    BY <2>4, <2>7, <2>8 DEF EntriesSurvive
<1>2. QED
  BY <1>1, IInvAlways, PTL

=============================================================================
