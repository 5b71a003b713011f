----------------------------- MODULE IpcProofs ------------------------------
(***************************************************************************)
(* Message queues and pipes: the rings of kernel/ipc implement queues and  *)
(* streams, for every number of queues, every size of a buffer and every   *)
(* set of messages and bytes.                                              *)
(***************************************************************************)
EXTENDS Services, SequenceTheorems, TLAPS

(***************************************************************************)
(* Integers modulo the size of a ring.                                     *)
(***************************************************************************)

\* A multiple of m other than zero is at least m away from it.
LEMMA Multiples ==
    ASSUME NEW m \in Nat \ {0}, NEW d \in Int
    PROVE  /\ m * d \in Int
           /\ d >= 1 => m * d >= m
           /\ d <= -1 => m * d <= -m
<1>1. d >= 1 => m * d = m + m * (d - 1) /\ m * (d - 1) >= 0
  OBVIOUS
<1>2. d <= -1 => m * d = -m + m * (d + 1) /\ m * (d + 1) <= 0
  OBVIOUS
<1> QED
  BY <1>1, <1>2

\* Quotient and remainder are the only ones.
LEMMA Remainder ==
    ASSUME NEW m \in Nat \ {0}, NEW a \in Int, NEW q \in Int,
           NEW r \in 0 .. m - 1, a = m * q + r
    PROVE  a % m = r
<1> DEFINE p == a \div m
<1>1. p \in Int /\ a % m \in 0 .. m - 1 /\ a = m * p + (a % m)
  OBVIOUS
<1> HIDE DEF p
<1>2. m * (q - p) = (a % m) - r
  BY <1>1
<1>3. q - p = 0
  BY <1>1, <1>2, Multiples
<1> QED
  BY <1>2, <1>3, <1>1

\* The remainder of a number that is less than one turn away.
LEMMA OneTurn ==
    ASSUME NEW m \in Nat \ {0}, NEW a \in Int
    PROVE  /\ a % m \in 0 .. m - 1
           /\ a \in 0 .. m - 1 => a % m = a
           /\ a \in m .. 2 * m - 1 => a % m = a - m
           /\ a \in -m .. -1 => a % m = a + m
<1>1. a % m \in 0 .. m - 1
  OBVIOUS
<1>2. a \in 0 .. m - 1 => a % m = a
  OBVIOUS
<1>3. a \in m .. 2 * m - 1 => a % m = a - m
  <2>1. a = m * 1 + (a - m)
    OBVIOUS
  <2> QED
    BY <2>1, Remainder
<1>4. a \in -m .. -1 => a % m = a + m
  <2>1. a = m * (-1) + (a + m)
    OBVIOUS
  <2> QED
    BY <2>1, Remainder
<1> QED
  BY <1>1, <1>2, <1>3, <1>4

\* A position that moves on by less than a turn wraps at most once.
LEMMA WrapsOnce ==
    ASSUME NEW m \in Nat \ {0}, NEW a \in 0 .. m - 1, NEW k \in 0 .. m
    PROVE  /\ (a + k) % m \in 0 .. m - 1
           /\ (a + k) % m = a + k \/ (a + k) % m = a + k - m
<1> DEFINE x == a + k
<1>1. x \in Int /\ (x \in 0 .. m - 1 \/ x \in m .. 2 * m - 1)
  OBVIOUS
<1> HIDE DEF x
<1>2. x % m \in 0 .. m - 1 /\ (x % m = x \/ x % m = x - m)
  BY <1>1, OneTurn
<1> QED
  BY <1>2 DEF x

\* Two numbers in the same place of a ring are the same or a turn apart.
LEMMA SamePlace ==
    ASSUME NEW m \in Nat \ {0}, NEW a \in Int, NEW b \in Int,
           a % m = b % m, a - b < m, b - a < m
    PROVE  a = b
<1> DEFINE p == a \div m
           q == b \div m
<1>1. /\ p \in Int /\ a % m \in 0 .. m - 1 /\ a = m * p + (a % m)
      /\ q \in Int /\ b % m \in 0 .. m - 1 /\ b = m * q + (b % m)
  OBVIOUS
<1> HIDE DEF p, q
<1>2. a - b = m * (p - q) /\ p - q \in Int
  BY <1>1
<1>3. p - q = 0
  BY <1>2, Multiples
<1> QED
  BY <1>2, <1>3

\* A whole number of turns changes no place.
LEMMA WholeTurns ==
    ASSUME NEW m \in Nat \ {0}, NEW n \in Nat, n % m = 0, NEW a \in Int
    PROVE  (a + n) % m = a % m
<1> DEFINE p == a \div m
           q == n \div m
           r == a % m
<1>1. p \in Int /\ r \in 0 .. m - 1 /\ a = m * p + r
  OBVIOUS
<1>2. q \in Int /\ n = m * q
  <2>1. q \in Int /\ n = m * q + (n % m)
    OBVIOUS
  <2> HIDE DEF q
  <2>2. m * q \in Int
    BY <2>1
  <2> QED
    BY <2>1, <2>2
<1> HIDE DEF p, q, r
<1>3. m * (p + q) = m * p + m * q /\ m * p \in Int /\ m * q \in Int /\ p + q \in Int
  BY <1>1, <1>2
<1>4. a + n = m * (p + q) + r /\ a + n \in Int
  BY <1>1, <1>2, <1>3
<1>5. (a + n) % m = r
  BY <1>1, <1>3, <1>4, Remainder
<1> QED
  BY <1>5 DEF r

-----------------------------------------------------------------------------
(***************************************************************************)
(* Message queues.                                                         *)
(***************************************************************************)

Content == Msgs \cup {Zero}

\* The inductive invariant: LiveIsIssued is what makes the identifier of a
\* new queue name no other queue.
Inv == TypeOK /\ RingConsistent /\ LiveIsIssued

\* An index at most one turn ahead, brought back into the ring.
LEMMA Wrap ==
    ASSUME NEW a \in Nat, a < 2 * QueueLen
    PROVE  /\ a < QueueLen => a % QueueLen = a
           /\ a >= QueueLen => a % QueueLen = a - QueueLen
           /\ a % QueueLen \in Slots
<1>1. QueueLen \in Nat /\ QueueLen > 0
  BY MsgQueueAssumption
<1>2. CASE a < QueueLen
  BY <1>1, <1>2 DEF Slots
<1>3. CASE a >= QueueLen
  BY <1>1, <1>3 DEF Slots
<1> QED
  BY <1>1, <1>2, <1>3

\* Advancing an index keeps it ahead by one more.
LEMMA Advance ==
    ASSUME NEW h \in Slots, NEW c \in 0 .. QueueLen - 1
    PROVE  /\ (((h + c) % QueueLen) + 1) % QueueLen = (h + (c + 1)) % QueueLen
           /\ (((h + 1) % QueueLen) + c) % QueueLen = (h + (c + 1)) % QueueLen
<1>1. QueueLen \in Nat /\ QueueLen > 0 /\ h \in 0 .. QueueLen - 1
  BY MsgQueueAssumption DEF Slots
<1>2. (h + c) % QueueLen = IF h + c < QueueLen THEN h + c ELSE h + c - QueueLen
  BY <1>1, Wrap
<1>3. (h + (c + 1)) % QueueLen
        = IF h + (c + 1) < QueueLen THEN h + (c + 1) ELSE h + (c + 1) - QueueLen
  BY <1>1, Wrap
<1>4. (h + 1) % QueueLen = IF h + 1 < QueueLen THEN h + 1 ELSE 0
  BY <1>1, Wrap
<1>5. ASSUME NEW b \in 0 .. QueueLen - 1
      PROVE  (b + 1) % QueueLen = IF b + 1 < QueueLen THEN b + 1 ELSE 0
  BY <1>1, Wrap
<1>6. (((h + c) % QueueLen) + 1) % QueueLen = (h + (c + 1)) % QueueLen
  <2> DEFINE b == (h + c) % QueueLen
  <2>1. b \in 0 .. QueueLen - 1
    BY <1>1, <1>2
  <2>2. (b + 1) % QueueLen = IF b + 1 < QueueLen THEN b + 1 ELSE 0
    <3> HIDE DEF b
    <3> QED
      BY <1>5, <2>1
  <2>3. b = IF h + c < QueueLen THEN h + c ELSE h + c - QueueLen
    BY <1>2
  <2> HIDE DEF b
  <2>4. (b + 1) % QueueLen = (h + (c + 1)) % QueueLen
    BY <1>1, <1>3, <2>2, <2>3
  <2> QED
    BY <2>4 DEF b
<1>7. (((h + 1) % QueueLen) + c) % QueueLen = (h + (c + 1)) % QueueLen
  <2>1. CASE h + 1 < QueueLen
    <3>1. ((h + 1) % QueueLen) + c = h + (c + 1)
      BY <1>1, <1>4, <2>1
    <3> QED
      BY <3>1
  <2>2. CASE h + 1 >= QueueLen
    <3>1. ((h + 1) % QueueLen) + c = c
      BY <1>1, <1>4, <2>2
    <3>2. c % QueueLen = c
      BY <1>1, Wrap
    <3>3. (h + (c + 1)) % QueueLen = c
      BY <1>1, <1>3, <2>2
    <3> QED
      BY <3>1, <3>2, <3>3
  <2> QED
    BY <1>1, <2>1, <2>2
<1> QED
  BY <1>6, <1>7

\* Slots that lie behind each other within one turn are different.
LEMMA Apart ==
    ASSUME NEW h \in Slots, NEW a \in 0 .. QueueLen - 1,
           NEW b \in 0 .. QueueLen - 1, a < b
    PROVE  (h + a) % QueueLen # (h + b) % QueueLen
<1>1. QueueLen \in Nat /\ QueueLen > 0 /\ h \in 0 .. QueueLen - 1
  BY MsgQueueAssumption DEF Slots
<1>2. (h + a) % QueueLen = IF h + a < QueueLen THEN h + a ELSE h + a - QueueLen
  BY <1>1, Wrap
<1>3. (h + b) % QueueLen = IF h + b < QueueLen THEN h + b ELSE h + b - QueueLen
  BY <1>1, Wrap
<1> QED
  BY <1>1, <1>2, <1>3

-----------------------------------------------------------------------------
(***************************************************************************)
(* The invariant, action by action.                                        *)
(***************************************************************************)

\* The empty table satisfies the invariant.
LEMMA InitInv == Init => Inv
<1> SUFFICES ASSUME Init PROVE Inv
  OBVIOUS
<1>1. QueueLen \in Nat /\ QueueLen > 0 /\ MaxQueues \in Nat
  BY MsgQueueAssumption
<1>2. TypeOK
  BY <1>1 DEF Init, TypeOK, Outcome, Ops, Slots, Qids
<1>3. 0 % QueueLen = 0
  BY <1>1
<1>4. RingConsistent
  BY <1>3 DEF Init, RingConsistent
<1> QED
  BY <1>2, <1>4 DEF Inv, Init, LiveIsIssued

\* A call that returns an error changes no queue.
LEMMA RefuseInv ==
    ASSUME Inv, NEW op \in Ops, NEW q \in Qids \cup {0}, NEW v \in Int,
           Return(op, q, v), UNCHANGED <<live, ring, next_qid>>
    PROVE  Inv'
  BY DEF Inv, TypeOK, RingConsistent, LiveIsIssued, Return, Outcome, ring

\* A new queue is an empty ring under an identifier that no queue has.
LEMMA CreateInv ==
    ASSUME Inv, msgq_create
    PROVE  Inv'
<1>1. CASE Return("create", 0, -1) /\ UNCHANGED <<live, ring, next_qid>>
  BY <1>1, RefuseInv DEF Ops
<1>2. CASE /\ next_qid < MaxQueues
           /\ live' = live \cup {next_qid}
           /\ messages' = [messages EXCEPT ![next_qid] = [s \in Slots |-> Zero]]
           /\ head' = [head EXCEPT ![next_qid] = 0]
           /\ tail' = [tail EXCEPT ![next_qid] = 0]
           /\ count' = [count EXCEPT ![next_qid] = 0]
           /\ next_qid' = next_qid + 1
           /\ Return("create", 0, next_qid)
  <2>1. /\ QueueLen \in Nat /\ QueueLen > 0 /\ MaxQueues \in Nat
        /\ next_qid \in Qids /\ 0 \in Slots /\ next_qid \in Nat
        /\ 0 \in 0 .. QueueLen
    BY <1>2, MsgQueueAssumption DEF Inv, TypeOK, Qids, Slots
  <2>2. TypeOK'
    BY <1>2, <2>1 DEF Inv, TypeOK, Return, Outcome, Ops
  <2>3. RingConsistent'
    <3>1. 0 % QueueLen = 0
      BY <2>1
    <3> QED
      BY <1>2, <2>1, <3>1 DEF Inv, TypeOK, RingConsistent
  <2>4. LiveIsIssued'
    BY <1>2, <2>1 DEF Inv, TypeOK, LiveIsIssued, Qids
  <2> QED
    BY <2>2, <2>3, <2>4 DEF Inv
<1> QED
  BY <1>1, <1>2 DEF msgq_create

\* What the accepting branch of msgq_send does.
Accept(q, m) ==
    /\ q \in live /\ count[q] < QueueLen
    /\ messages' = [messages EXCEPT ![q][tail[q]] = m]
    /\ tail' = [tail EXCEPT ![q] = (@ + 1) % QueueLen]
    /\ count' = [count EXCEPT ![q] = @ + 1]
    /\ Return("send", q, 0)
    /\ UNCHANGED <<live, head, next_qid>>

\* What the delivering branch of msgq_recv does.
Deliver(q) ==
    /\ q \in live /\ count[q] # 0
    /\ ret' = Outcome("recv", q, 0, messages[q][head[q]])
    /\ head' = [head EXCEPT ![q] = (@ + 1) % QueueLen]
    /\ count' = [count EXCEPT ![q] = @ - 1]
    /\ UNCHANGED <<live, messages, tail, next_qid>>

\* Storing a message moves tail and count together.
LEMMA AcceptInv ==
    ASSUME Inv, NEW q \in Qids, NEW m \in Msgs, Accept(q, m)
    PROVE  Inv'
<1>1. /\ QueueLen \in Nat /\ QueueLen > 0
      /\ head[q] \in Slots /\ tail[q] \in Slots /\ count[q] \in 0 .. QueueLen - 1
  BY MsgQueueAssumption DEF Inv, TypeOK, Accept
<1>2. (tail[q] + 1) % QueueLen \in Slots
  BY <1>1, Wrap DEF Slots
<1>3. TypeOK'
  <2>1. count' \in [Qids -> 0 .. QueueLen]
    BY <1>1 DEF Inv, TypeOK, Accept
  <2>2. tail' \in [Qids -> Slots]
    BY <1>2 DEF Inv, TypeOK, Accept
  <2>3. messages' \in [Qids -> [Slots -> Msgs \cup {Zero}]]
    BY <1>1 DEF Inv, TypeOK, Accept
  <2> QED
    BY <2>1, <2>2, <2>3 DEF Inv, TypeOK, Accept, Return, Outcome, Ops
<1>4. (tail[q] + 1) % QueueLen = (head[q] + (count[q] + 1)) % QueueLen
  <2>1. tail[q] = (head[q] + count[q]) % QueueLen
    BY DEF Inv, RingConsistent
  <2> QED
    BY <1>1, <2>1, Advance
<1>5. RingConsistent'
  <2> SUFFICES ASSUME NEW r \in Qids
               PROVE  tail'[r] = (head'[r] + count'[r]) % QueueLen
    BY DEF RingConsistent
  <2>1. CASE r = q
    <3>1. /\ tail'[q] = (tail[q] + 1) % QueueLen /\ head'[q] = head[q]
          /\ count'[q] = count[q] + 1
      BY DEF Inv, TypeOK, Accept
    <3> QED
      BY <1>4, <2>1, <3>1
  <2>2. CASE r # q
    BY <2>2 DEF Inv, TypeOK, RingConsistent, Accept
  <2> QED
    BY <2>1, <2>2
<1> QED
  BY <1>3, <1>5 DEF Inv, LiveIsIssued, Accept

\* Taking a message moves head and count together.
LEMMA DeliverInv ==
    ASSUME Inv, NEW q \in Qids, Deliver(q)
    PROVE  Inv'
<1> DEFINE c == count[q] - 1
<1>1. /\ QueueLen \in Nat /\ QueueLen > 0
      /\ head[q] \in Slots /\ count[q] \in 1 .. QueueLen
      /\ c \in 0 .. QueueLen - 1 /\ c + 1 = count[q]
  <2>1. count[q] # 0
    BY Zenon DEF Deliver
  <2>2. head[q] \in Slots /\ count[q] \in 0 .. QueueLen
    BY DEF Inv, TypeOK
  <2> QED
    BY <2>1, <2>2, MsgQueueAssumption
<1>2. (head[q] + 1) % QueueLen \in Slots
  BY <1>1, Wrap DEF Slots
<1>3. TypeOK'
  <2>1. count' \in [Qids -> 0 .. QueueLen]
    BY <1>1 DEF Inv, TypeOK, Deliver
  <2>2. head' \in [Qids -> Slots]
    BY <1>2 DEF Inv, TypeOK, Deliver
  <2>3. ret' \in [op : Ops, qid : Qids \cup {0}, val : Int, msg : Msgs \cup {Zero}]
    BY <1>1 DEF Inv, TypeOK, Deliver, Outcome, Ops
  <2> QED
    BY <2>1, <2>2, <2>3 DEF Inv, TypeOK, Deliver
<1>4. (((head[q] + 1) % QueueLen) + c) % QueueLen = (head[q] + (c + 1)) % QueueLen
  BY <1>1, Advance
<1>5. RingConsistent'
  <2> SUFFICES ASSUME NEW r \in Qids
               PROVE  tail'[r] = (head'[r] + count'[r]) % QueueLen
    BY DEF RingConsistent
  <2>1. CASE r = q
    <3>1. head'[q] = (head[q] + 1) % QueueLen /\ count'[q] = c /\ tail'[q] = tail[q]
      BY DEF Inv, TypeOK, Deliver
    <3> HIDE DEF c
    <3> QED
      BY <1>1, <1>4, <2>1, <3>1 DEF Inv, RingConsistent
  <2>2. CASE r # q
    BY <2>2 DEF Inv, TypeOK, RingConsistent, Deliver
  <2> QED
    BY <2>1, <2>2
<1> QED
  BY <1>3, <1>5 DEF Inv, LiveIsIssued, Deliver

\* The branches of msgq_send: refused, or accepted.
LEMMA SendCases ==
    ASSUME NEW q, NEW m, msgq_send(q, m)
    PROVE  \/ q \notin live /\ Return("send", q, -1) /\ UNCHANGED <<live, ring, next_qid>>
           \/ /\ q \in live /\ count[q] >= QueueLen
              /\ Return("send", q, EAGAIN) /\ UNCHANGED <<live, ring, next_qid>>
           \/ Accept(q, m)
  BY Zenon DEF msgq_send, Accept

\* The branches of msgq_recv: refused, or delivered.
LEMMA RecvCases ==
    ASSUME NEW q, msgq_recv(q)
    PROVE  \/ q \notin live /\ Return("recv", q, -1) /\ UNCHANGED <<live, ring, next_qid>>
           \/ /\ q \in live /\ count[q] = 0
              /\ Return("recv", q, EAGAIN) /\ UNCHANGED <<live, ring, next_qid>>
           \/ Deliver(q)
  BY Zenon DEF msgq_recv, Deliver

\* Every call keeps the invariant.
LEMMA NextInv == Inv /\ [Next]_vars => Inv'
<1> SUFFICES ASSUME Inv, [Next]_vars PROVE Inv'
  OBVIOUS
<1>1. CASE UNCHANGED vars
  BY <1>1 DEF vars, Inv, TypeOK, RingConsistent, LiveIsIssued
<1>2. CASE msgq_create
  BY <1>2, CreateInv
<1>3. ASSUME NEW q \in Qids, msgq_destroy(q)
      PROVE  Inv'
  BY <1>3 DEF msgq_destroy, Inv, TypeOK, RingConsistent, LiveIsIssued, Return,
              Outcome, Ops, ring
<1>4. EAGAIN \in Int /\ -1 \in Int
  BY DEF EAGAIN
<1>5. ASSUME NEW q \in Qids, NEW m \in Msgs, msgq_send(q, m)
      PROVE  Inv'
  BY <1>4, <1>5, SendCases, RefuseInv, AcceptInv DEF Ops
<1>6. ASSUME NEW q \in Qids, msgq_recv(q)
      PROVE  Inv'
  BY <1>4, <1>6, RecvCases, RefuseInv, DeliverInv DEF Ops
<1> QED
  BY <1>1, <1>2, <1>3, <1>5, <1>6 DEF Next

\* Head, tail and count of every ring agree, for every capacity.
THEOREM RingSafe == Spec => [](TypeOK /\ RingConsistent)
<1>1. Inv => TypeOK /\ RingConsistent
  BY DEF Inv
<1> QED
  BY <1>1, InitInv, NextInv, PTL DEF Spec

-----------------------------------------------------------------------------
(***************************************************************************)
(* Refinement: Used and Contents are the mapping of MsgQueue!Fifo.         *)
(***************************************************************************)

Used == 0 .. next_qid - 1
Contents == [q \in Qids |-> Pending(q)]

\* A queue whose ring a step leaves alone has the same messages after it.
LEMMA PendingSame ==
    ASSUME NEW q,
           messages'[q] = messages[q], head'[q] = head[q], count'[q] = count[q],
           q \in live' <=> q \in live
    PROVE  Pending(q)' = Pending(q)
  BY DEF Pending

\* What the queues that exist hold: count messages, the oldest at head.
HeldInOrder ==
    \A q \in live :
        /\ Pending(q) \in Seq(Content)
        /\ Len(Pending(q)) = count[q]
        /\ \A i \in 1 .. count[q] :
              Pending(q)[i] = messages[q][(head[q] + (i - 1)) % QueueLen]

\* The refinement mapping reads a ring as a sequence of its count messages.
LEMMA PendingSeq == Inv => HeldInOrder
<1> SUFFICES ASSUME Inv, NEW q \in live
             PROVE  /\ Pending(q) \in Seq(Content)
                    /\ Len(Pending(q)) = count[q]
                    /\ \A i \in 1 .. count[q] :
                          Pending(q)[i] = messages[q][(head[q] + (i - 1)) % QueueLen]
  BY DEF HeldInOrder
<1>1. /\ q \in Qids /\ count[q] \in 0 .. QueueLen /\ head[q] \in Slots
      /\ messages[q] \in [Slots -> Content]
      /\ QueueLen \in Nat /\ QueueLen > 0
  BY MsgQueueAssumption DEF Inv, TypeOK, Content
<1>2. \A i \in 1 .. count[q] :
         /\ head[q] + i - 1 = head[q] + (i - 1)
         /\ (head[q] + (i - 1)) % QueueLen \in Slots
  BY <1>1, Wrap DEF Slots
<1>3. Pending(q) = [i \in 1 .. count[q] |-> messages[q][(head[q] + (i - 1)) % QueueLen]]
  BY <1>2 DEF Pending
<1> QED
  BY <1>1, <1>2, <1>3

\* Storing a message appends it.
LEMMA AcceptAppends ==
    ASSUME Inv, NEW q \in Qids, NEW m \in Msgs, Accept(q, m)
    PROVE  Pending(q)' = Append(Pending(q), m)
<1> DEFINE c == count[q]
           S == Pending(q)
           T == Pending(q)'
<1>1. /\ q \in live /\ c \in 0 .. QueueLen - 1 /\ c \in Nat /\ head[q] \in Slots
      /\ QueueLen \in Nat /\ QueueLen > 0
  <2>1. q \in live /\ count[q] < QueueLen
    BY Zenon DEF Accept
  <2>2. count[q] \in 0 .. QueueLen /\ head[q] \in Slots
    BY DEF Inv, TypeOK
  <2> QED
    BY <2>1, <2>2, MsgQueueAssumption
<1>2. /\ head'[q] = head[q] /\ count'[q] = c + 1 /\ q \in live'
      /\ messages'[q] = [messages[q] EXCEPT ![tail[q]] = m]
      /\ messages[q] \in [Slots -> Content] /\ tail[q] \in Slots
      /\ tail[q] = (head[q] + c) % QueueLen
  BY DEF Inv, TypeOK, RingConsistent, Accept, Content
<1>3. /\ S \in Seq(Content) /\ Len(S) = c
      /\ \A i \in 1 .. c : S[i] = messages[q][(head[q] + (i - 1)) % QueueLen]
  BY <1>1, PendingSeq DEF HeldInOrder
<1>4. /\ T \in Seq(Content) /\ Len(T) = c + 1
      /\ \A i \in 1 .. c + 1 : T[i] = messages'[q][(head[q] + (i - 1)) % QueueLen]
  <2>1. Inv'
    BY AcceptInv
  <2>2. HeldInOrder'
    <3>1. Inv' => HeldInOrder'
      BY PendingSeq, PTL
    <3> QED
      BY <2>1, <3>1
  <2>3. /\ T \in Seq(Content) /\ Len(T) = count'[q]
        /\ \A i \in 1 .. count'[q] :
              T[i] = messages'[q][(head'[q] + (i - 1)) % QueueLen]
    BY <1>2, <2>2, Zenon DEF HeldInOrder
  <2> QED
    BY <1>2, <2>3
<1> HIDE DEF c, S, T
<1>5. T[c + 1] = m
  BY <1>1, <1>2, <1>4
<1>6. ASSUME NEW i \in 1 .. c
      PROVE  T[i] = S[i]
  <2>1. i - 1 \in 0 .. QueueLen - 1 /\ i - 1 < c /\ head[q] + (i - 1) \in Nat
    BY <1>1 DEF Slots
  <2>2. (head[q] + (i - 1)) % QueueLen # tail[q]
    BY <1>1, <1>2, <2>1, Apart
  <2>3. (head[q] + (i - 1)) % QueueLen \in Slots
    BY <1>1, <2>1, Wrap DEF Slots
  <2>4. T[i] = messages'[q][(head[q] + (i - 1)) % QueueLen]
    BY <1>1, <1>4
  <2> QED
    BY <1>2, <1>3, <2>2, <2>3, <2>4
<1>7. T = Append(S, m)
  <2>1. m \in Content
    BY DEF Content
  <2>2. Append(S, m) \in Seq(Content) /\ Len(Append(S, m)) = c + 1
    BY <1>3, <2>1
  <2>3. \A i \in 1 .. c + 1 : T[i] = Append(S, m)[i]
    BY <1>1, <1>3, <1>5, <1>6
  <2> QED
    BY <1>1, <1>4, <2>2, <2>3
<1> QED
  BY <1>7 DEF S, T

\* Taking a message removes the first one and returns it.
LEMMA DeliverTakesHead ==
    ASSUME Inv, NEW q \in Qids, Deliver(q)
    PROVE  /\ Pending(q) # <<>>
           /\ Pending(q)' = Tail(Pending(q))
           /\ messages[q][head[q]] = Head(Pending(q))
<1> DEFINE c == count[q]
           S == Pending(q)
           T == Pending(q)'
<1>1. /\ q \in live /\ c \in 1 .. QueueLen /\ c \in Nat /\ head[q] \in Slots
      /\ QueueLen \in Nat /\ QueueLen > 0
  <2>1. q \in live /\ count[q] # 0
    BY Zenon DEF Deliver
  <2>2. count[q] \in 0 .. QueueLen /\ head[q] \in Slots
    BY DEF Inv, TypeOK
  <2> QED
    BY <2>1, <2>2, MsgQueueAssumption
<1>2. /\ head'[q] = (head[q] + 1) % QueueLen /\ count'[q] = c - 1 /\ q \in live'
      /\ messages'[q] = messages[q]
  BY DEF Inv, TypeOK, Deliver
<1>3. /\ S \in Seq(Content) /\ Len(S) = c
      /\ \A i \in 1 .. c : S[i] = messages[q][(head[q] + (i - 1)) % QueueLen]
  BY <1>1, PendingSeq DEF HeldInOrder
<1>4. /\ T \in Seq(Content) /\ Len(T) = c - 1
      /\ \A i \in 1 .. c - 1 :
            T[i] = messages[q][(((head[q] + 1) % QueueLen) + (i - 1)) % QueueLen]
  <2>1. Inv'
    BY DeliverInv
  <2>2. HeldInOrder'
    <3>1. Inv' => HeldInOrder'
      BY PendingSeq, PTL
    <3> QED
      BY <2>1, <3>1
  <2>3. /\ T \in Seq(Content) /\ Len(T) = count'[q]
        /\ \A i \in 1 .. count'[q] :
              T[i] = messages'[q][(head'[q] + (i - 1)) % QueueLen]
    BY <1>2, <2>2, Zenon DEF HeldInOrder
  <2> QED
    BY <1>2, <2>3
<1> HIDE DEF c, S, T
<1>5. messages[q][head[q]] = S[1]
  <2>1. (head[q] + (1 - 1)) % QueueLen = head[q]
    BY <1>1, Wrap DEF Slots
  <2> QED
    BY <1>1, <1>3, <2>1
<1>6. ASSUME NEW i \in 1 .. c - 1
      PROVE  T[i] = S[i + 1]
  <2>1. i - 1 \in 0 .. QueueLen - 1 /\ (i - 1) + 1 = (i + 1) - 1 /\ i + 1 \in 1 .. c
    BY <1>1
  <2>2. (((head[q] + 1) % QueueLen) + (i - 1)) % QueueLen
           = (head[q] + ((i - 1) + 1)) % QueueLen
    BY <1>1, <2>1, Advance
  <2>3. S[i + 1] = messages[q][(head[q] + ((i + 1) - 1)) % QueueLen]
    BY <1>3, <2>1
  <2> QED
    BY <1>4, <2>1, <2>2, <2>3
<1>7. S # <<>>
  BY <1>1, <1>3
<1>8. T = Tail(S)
  <2>1. Tail(S) \in Seq(Content) /\ Len(Tail(S)) = c - 1
    BY <1>1, <1>3, <1>7
  <2>2. \A i \in 1 .. c - 1 : T[i] = Tail(S)[i]
    BY <1>1, <1>3, <1>6, <1>7
  <2> QED
    BY <1>1, <1>4, <2>1, <2>2
<1> QED
  BY <1>3, <1>5, <1>7, <1>8 DEF S, T

\* A call that is refused leaves the abstract queues alone.
LEMMA RefuseRefines ==
    ASSUME NEW op, NEW q, NEW v, Return(op, q, v), UNCHANGED <<live, ring, next_qid>>
    PROVE  Fifo!Refuse(op, q, v)
<1>1. Contents' = Contents
  BY PendingSame DEF Contents, ring
<1> QED
  BY <1>1
  DEF Fifo!Refuse, Return, Outcome, Fifo!Outcome, Zero, Fifo!NoMsg, Contents, Used

\* Every call of the rings is the call of the same name on the FIFOs.
LEMMA NextRefines == Inv /\ [Next]_vars => [Fifo!Next]_Fifo!fvars
<1> SUFFICES ASSUME Inv, [Next]_vars
             PROVE  [Fifo!Next]_Fifo!fvars
  OBVIOUS
<1> USE DEF Contents
<1>1. CASE UNCHANGED vars
  <2>1. Contents' = Contents
    BY <1>1, PendingSame DEF vars
  <2> QED
    BY <1>1, <2>1 DEF vars, Fifo!fvars
<1>2. CASE msgq_create
  <2>1. CASE Return("create", 0, -1) /\ UNCHANGED <<live, ring, next_qid>>
    BY <2>1, RefuseRefines DEF Fifo!Next, Fifo!Create, Fifo!Fail
  <2>2. CASE /\ next_qid < MaxQueues
             /\ live' = live \cup {next_qid}
             /\ messages' = [messages EXCEPT ![next_qid] = [s \in Slots |-> Zero]]
             /\ head' = [head EXCEPT ![next_qid] = 0]
             /\ tail' = [tail EXCEPT ![next_qid] = 0]
             /\ count' = [count EXCEPT ![next_qid] = 0]
             /\ next_qid' = next_qid + 1
             /\ Return("create", 0, next_qid)
    <3>1. PICK n : n = next_qid
      OBVIOUS
    <3>2. n \in Nat /\ n \in Qids \ Used
      BY <2>2, <3>1, MsgQueueAssumption DEF Inv, TypeOK, Qids, Used
    <3>3. Used' = Used \cup {n}
      BY <2>2, <3>1, <3>2 DEF Used
    <3>4. ASSUME NEW q \in Qids, q # n
          PROVE  Pending(q)' = Pending(q)
      BY <2>2, <3>1, <3>4, PendingSame DEF Inv, TypeOK
    <3>5. Pending(n)' = <<>>
      <4>1. n \in live' /\ count'[n] = 0
        BY <2>2, <3>1, <3>2 DEF Inv, TypeOK
      <4> QED
        BY <4>1 DEF Pending
    <3>6. Contents' = [Contents EXCEPT ![n] = <<>>]
      BY <3>2, <3>4, <3>5
    <3> QED
      BY <2>2, <3>1, <3>2, <3>3, <3>6
      DEF Fifo!Next, Fifo!Create, Fifo!Outcome, Fifo!NoMsg, Return, Outcome,
          Zero, Used
  <2> QED
    BY <1>2, <2>1, <2>2 DEF msgq_create
<1>3. ASSUME NEW q \in Qids, msgq_destroy(q)
      PROVE  Fifo!Next
  <2>1. ASSUME NEW r \in Qids, r # q
        PROVE  Pending(r)' = Pending(r)
    BY <1>3, <2>1, PendingSame DEF msgq_destroy, ring
  <2>2. Pending(q)' = <<>>
    BY <1>3 DEF msgq_destroy, Pending
  <2>3. Fifo!Destroy(q)
    BY <1>3, <2>1, <2>2
    DEF Fifo!Destroy, Fifo!Outcome, Fifo!NoMsg, msgq_destroy, Return, Outcome,
        Zero
  <2> QED
    BY <2>3 DEF Fifo!Next
<1>4. ASSUME NEW q \in Qids, NEW m \in Msgs, msgq_send(q, m)
      PROVE  Fifo!Next
  <2>1. CASE q \notin live /\ Return("send", q, -1) /\ UNCHANGED <<live, ring, next_qid>>
    BY <2>1, RefuseRefines DEF Fifo!Next, Fifo!Send, Fifo!Fail
  <2>2. CASE /\ q \in live /\ count[q] >= QueueLen
             /\ Return("send", q, EAGAIN) /\ UNCHANGED <<live, ring, next_qid>>
    <3>1. Len(Contents[q]) = QueueLen
      BY <2>2, PendingSeq, MsgQueueAssumption DEF HeldInOrder, Inv, TypeOK
    <3>2. Fifo!Refuse("send", q, Fifo!Again)
      BY <2>2, RefuseRefines DEF Fifo!Again, EAGAIN
    <3> QED
      BY <2>2, <3>1, <3>2 DEF Fifo!Next, Fifo!Send
  <2>3. CASE Accept(q, m)
    <3>1. ASSUME NEW r \in Qids, r # q
          PROVE  Pending(r)' = Pending(r)
      BY <2>3, <3>1, PendingSame DEF Accept, Inv, TypeOK
    <3>2. Contents' = [Contents EXCEPT ![q] = Append(@, m)]
      BY <2>3, <3>1, AcceptAppends
    <3>3. Len(Contents[q]) < QueueLen
      BY <2>3, PendingSeq DEF HeldInOrder, Accept
    <3>4. Fifo!Send(q, m)
      BY <2>3, <3>2, <3>3
      DEF Fifo!Send, Fifo!Outcome, Fifo!NoMsg, Accept, Return, Outcome, Zero
    <3> QED
      BY <3>4 DEF Fifo!Next
  <2> QED
    BY <1>4, <2>1, <2>2, <2>3, SendCases
<1>5. ASSUME NEW q \in Qids, msgq_recv(q)
      PROVE  Fifo!Next
  <2>1. CASE q \notin live /\ Return("recv", q, -1) /\ UNCHANGED <<live, ring, next_qid>>
    BY <2>1, RefuseRefines DEF Fifo!Next, Fifo!Recv, Fifo!Fail
  <2>2. CASE /\ q \in live /\ count[q] = 0
             /\ Return("recv", q, EAGAIN) /\ UNCHANGED <<live, ring, next_qid>>
    <3>1. Contents[q] = <<>>
      BY <2>2, PendingSeq DEF HeldInOrder
    <3>2. Fifo!Refuse("recv", q, Fifo!Again)
      BY <2>2, RefuseRefines DEF Fifo!Again, EAGAIN
    <3> QED
      BY <2>2, <3>1, <3>2 DEF Fifo!Next, Fifo!Recv
  <2>3. CASE Deliver(q)
    <3>1. ASSUME NEW r \in Qids, r # q
          PROVE  Pending(r)' = Pending(r)
      BY <2>3, <3>1, PendingSame DEF Deliver, Inv, TypeOK
    <3>2. Contents' = [Contents EXCEPT ![q] = Tail(@)]
      BY <2>3, <3>1, DeliverTakesHead
    <3>3. Contents[q] # <<>> /\ messages[q][head[q]] = Head(Contents[q])
      BY <2>3, DeliverTakesHead
    <3>4. Fifo!Recv(q)
      BY <2>3, <3>2, <3>3 DEF Fifo!Recv, Fifo!Outcome, Deliver, Outcome
    <3> QED
      BY <3>4 DEF Fifo!Next
  <2> QED
    BY <1>5, <2>1, <2>2, <2>3, RecvCases
<1> QED
  BY <1>1, <1>2, <1>3, <1>4, <1>5 DEF Next

\* The message queues of ipc.c, seen through their rings, are FIFO queues of
\* at most QueueLen messages: nothing is lost, duplicated or reordered, a full
\* or empty queue says EAGAIN, and an identifier is never given out twice.
THEOREM QueuesAreFifo == Spec => FifoSpec
<1>1. Init => Fifo!Init
  <2> SUFFICES ASSUME Init PROVE Fifo!Init
    OBVIOUS
  <2>1. 0 .. next_qid - 1 = {}
    BY DEF Init
  <2>2. Contents = [q \in Qids |-> <<>>]
    BY DEF Init, Contents, Pending
  <2> QED
    BY <2>1, <2>2
    DEF Init, Fifo!Init, Outcome, Fifo!Outcome, Zero, Fifo!NoMsg, Contents
<1> QED
  BY <1>1, InitInv, NextInv, NextRefines, PTL DEF Spec, FifoSpec, Fifo!Spec

-----------------------------------------------------------------------------
(***************************************************************************)
(* Pipes.                                                                  *)
(***************************************************************************)

PipeRecords ==
    [exists : BOOLEAN, buf : [Cells -> Bytes \cup {Blank}],
     read_pos : 0 .. PosMod - 1, write_pos : 0 .. PosMod - 1,
     bytes_available : 0 .. PipeSize, write_closed : BOOLEAN, read_closed : BOOLEAN]

PipeInv == pipe \in PipeRecords /\ PositionsAgree

\* Positions and cells.
LEMMA Sizes ==
    /\ PipeSize \in Nat \ {0} /\ PosMod \in Nat \ {0} /\ PipeSize < PosMod
    /\ PosMod % PipeSize = 0 /\ MaxCount \in Nat
  BY PipeAssumption

\* The write position is bytes_available ahead, and stays so when either
\* position moves on and wraps.
LEMMA Distance ==
    ASSUME NEW r \in 0 .. PosMod - 1, NEW w \in 0 .. PosMod - 1,
           NEW n \in 0 .. PipeSize, n = (w - r) % PosMod
    PROVE  /\ w = r + n \/ w = r + n - PosMod
           /\ \A k \in 0 .. PipeSize - n :
                 /\ (w + k) % PosMod \in 0 .. PosMod - 1
                 /\ n + k = (((w + k) % PosMod) - r) % PosMod
           /\ \A k \in 0 .. n :
                 /\ (r + k) % PosMod \in 0 .. PosMod - 1
                 /\ n - k = (w - ((r + k) % PosMod)) % PosMod
<1>1. PipeSize \in Nat \ {0} /\ PosMod \in Nat \ {0} /\ PipeSize < PosMod
  BY Sizes
<1>2. w = r + n \/ w = r + n - PosMod
  <2>1. w - r \in Int /\ (w - r \in 0 .. PosMod - 1 \/ w - r \in -PosMod .. -1)
    BY <1>1
  <2>2. (w - r) % PosMod = w - r \/ (w - r) % PosMod = w - r + PosMod
    BY <1>1, <2>1, OneTurn
  <2> QED
    BY <1>1, <2>2
<1>3. ASSUME NEW k \in 0 .. PipeSize - n
      PROVE  /\ (w + k) % PosMod \in 0 .. PosMod - 1
             /\ n + k = (((w + k) % PosMod) - r) % PosMod
  <2> DEFINE v == (w + k) % PosMod
  <2>0. k \in 0 .. PosMod
    BY <1>1
  <2>1. v \in 0 .. PosMod - 1 /\ (v = w + k \/ v = w + k - PosMod)
    BY <1>1, <2>0, WrapsOnce
  <2> HIDE DEF v
  <2>2. /\ v - r >= 0 => (v - r) % PosMod = v - r
        /\ v - r < 0 => (v - r) % PosMod = v - r + PosMod
    <3>1. /\ v - r \in Int
          /\ v - r >= 0 => v - r \in 0 .. PosMod - 1
          /\ v - r < 0 => v - r \in -PosMod .. -1
      BY <1>1, <2>1
    <3> QED
      BY <1>1, <3>1, OneTurn
  <2>3. n + k = (v - r) % PosMod
    <3> DEFINE u == (v - r) % PosMod
    <3>1. (v - r >= 0 => u = v - r) /\ (v - r < 0 => u = v - r + PosMod)
      BY <2>2
    <3> HIDE DEF u
    <3>2. n + k = u
      BY <1>1, <1>2, <2>1, <3>1
    <3> QED
      BY <3>2 DEF u
  <2> QED
    BY <2>1, <2>3 DEF v
<1>4. ASSUME NEW k \in 0 .. n
      PROVE  /\ (r + k) % PosMod \in 0 .. PosMod - 1
             /\ n - k = (w - ((r + k) % PosMod)) % PosMod
  <2> DEFINE v == (r + k) % PosMod
  <2>0. k \in 0 .. PosMod
    BY <1>1
  <2>1. v \in 0 .. PosMod - 1 /\ (v = r + k \/ v = r + k - PosMod)
    BY <1>1, <2>0, WrapsOnce
  <2> HIDE DEF v
  <2>2. /\ w - v >= 0 => (w - v) % PosMod = w - v
        /\ w - v < 0 => (w - v) % PosMod = w - v + PosMod
    <3>1. /\ w - v \in Int
          /\ w - v >= 0 => w - v \in 0 .. PosMod - 1
          /\ w - v < 0 => w - v \in -PosMod .. -1
      BY <1>1, <2>1
    <3> QED
      BY <1>1, <3>1, OneTurn
  <2>3. n - k = (w - v) % PosMod
    <3> DEFINE u == (w - v) % PosMod
    <3>1. (w - v >= 0 => u = w - v) /\ (w - v < 0 => u = w - v + PosMod)
      BY <2>2
    <3> HIDE DEF u
    <3>2. n - k = u
      BY <1>1, <1>2, <2>1, <3>1
    <3> QED
      BY <3>2 DEF u
  <2> QED
    BY <2>1, <2>3 DEF v
<1> QED
  BY <1>2, <1>3, <1>4

\* The cell of a position is the same before and after the wrap of size_t.
LEMMA SameCell ==
    ASSUME NEW a \in 0 .. 2 * PosMod - 1
    PROVE  (a % PosMod) % PipeSize = a % PipeSize
<1>1. PipeSize \in Nat \ {0} /\ PosMod \in Nat \ {0} /\ PosMod % PipeSize = 0
  BY Sizes
<1>2. CASE a < PosMod
  <2>1. a \in Int /\ a \in 0 .. PosMod - 1
    BY <1>1, <1>2
  <2>2. a % PosMod = a
    BY <1>1, <2>1, OneTurn
  <2> QED
    BY <2>2
<1>3. CASE a >= PosMod
  <2>1. a \in Int /\ a \in PosMod .. 2 * PosMod - 1
    BY <1>1, <1>3
  <2>2. a % PosMod = a - PosMod
    BY <1>1, <2>1, OneTurn
  <2>3. a - PosMod \in Int /\ (a - PosMod) + PosMod = a
    BY <1>1
  <2>4. PosMod \in Nat
    BY <1>1
  <2>5. ((a - PosMod) + PosMod) % PipeSize = (a - PosMod) % PipeSize
    BY <1>1, <2>3, <2>4, WholeTurns
  <2> QED
    BY <2>2, <2>3, <2>5
<1>4. a \in Int /\ PosMod \in Int
  BY <1>1
<1> QED
  BY <1>2, <1>3, <1>4

\* Less is the smaller of the two.
LEMMA LessIsSmaller ==
    ASSUME NEW a \in Nat, NEW b \in Nat
    PROVE  Less(a, b) \in Nat /\ Less(a, b) <= a /\ Less(a, b) <= b
  BY DEF Less

\* A new pipe and no pipe.
LEMMA FreshPipes == NewPipe \in PipeRecords /\ NoPipe \in PipeRecords
<1>1. NewPipe \in PipeRecords
  <2>1. 0 \in 0 .. PosMod - 1 /\ 0 \in 0 .. PipeSize
    BY Sizes
  <2>2. [c \in Cells |-> Blank] \in [Cells -> Bytes \cup {Blank}]
    OBVIOUS
  <2> QED
    BY <2>1, <2>2 DEF NewPipe, PipeRecords
<1>2. NoPipe \in PipeRecords
  BY <1>1 DEF NoPipe, PipeRecords
<1> QED
  BY <1>1, <1>2

\* The first state: no pipe.
LEMMA PipeInitInv == PipeInit => PipeInv
<1>1. 0 % PosMod = 0
  BY Sizes
<1>2. NoPipe.bytes_available = 0 /\ NoPipe.write_pos = 0 /\ NoPipe.read_pos = 0
  BY DEF NoPipe, NewPipe
<1> QED
  BY <1>1, <1>2, FreshPipes DEF PipeInit, PipeInv, PositionsAgree

\* The fields of a pipe.
LEMMA PipeFields ==
    ASSUME NEW p \in PipeRecords
    PROVE  /\ p.exists \in BOOLEAN /\ p.write_closed \in BOOLEAN
           /\ p.read_closed \in BOOLEAN /\ p.buf \in [Cells -> Bytes \cup {Blank}]
           /\ p.read_pos \in 0 .. PosMod - 1 /\ p.write_pos \in 0 .. PosMod - 1
           /\ p.bytes_available \in 0 .. PipeSize
  BY DEF PipeRecords

\* What a buffer of the caller is.
LEMMA BufferSeq ==
    ASSUME NEW d \in Buffers
    PROVE  Len(d) \in Nat /\ d \in [1 .. Len(d) -> Bytes] /\ Len(d) \in Counts
<1>1. PICK n \in 0 .. MaxCount : d \in [1 .. n -> Bytes]
  BY DEF Buffers
<1>2. n \in Nat
  BY Sizes
<1>3. Len(d) = n
  BY <1>1, <1>2
<1> QED
  BY <1>1, <1>2, <1>3 DEF Counts

\* Positions a multiple of the wrap of size_t apart have the same cell.
LEMMA CellAfterWrap ==
    ASSUME NEW a \in Int, NEW b \in Int, b = a \/ b = a - PosMod
    PROVE  b % PipeSize = a % PipeSize
<1>1. PipeSize \in Nat \ {0} /\ PosMod \in Nat /\ PosMod % PipeSize = 0
  BY Sizes
<1>2. CASE b = a
  BY <1>2
<1>3. CASE b = a - PosMod
  <2>1. (b + PosMod) % PipeSize = b % PipeSize
    BY <1>1, WholeTurns
  <2>2. b + PosMod = a
    BY <1>1, <1>3
  <2> QED
    BY <2>1, <2>2
<1> QED
  BY <1>2, <1>3

\* The cells that pipe_write fills are those behind the bytes the ring holds.
LEMMA WriteCells ==
    ASSUME PipeInv
    PROVE  \A j \in 1 .. PipeSize :
              /\ ((pipe.write_pos + j - 1) % PosMod) % PipeSize
                    = (pipe.read_pos + pipe.bytes_available + j - 1) % PipeSize
              /\ ((pipe.read_pos + j - 1) % PosMod) % PipeSize
                    = (pipe.read_pos + j - 1) % PipeSize
              /\ (pipe.read_pos + j - 1) % PipeSize \in Cells
<1> DEFINE r == pipe.read_pos
           w == pipe.write_pos
           n == pipe.bytes_available
<1>1. /\ r \in 0 .. PosMod - 1 /\ w \in 0 .. PosMod - 1 /\ n \in 0 .. PipeSize
      /\ n = (w - r) % PosMod
  BY PipeFields DEF PipeInv, PositionsAgree
<1>2. PipeSize \in Nat \ {0} /\ PosMod \in Nat \ {0} /\ PipeSize < PosMod
  BY Sizes
<1> HIDE DEF r, w, n
<1>3. w = r + n \/ w = r + n - PosMod
  BY <1>1, Distance
<1>4. ASSUME NEW j \in 1 .. PipeSize
      PROVE  /\ ((w + j - 1) % PosMod) % PipeSize = (r + n + j - 1) % PipeSize
             /\ ((r + j - 1) % PosMod) % PipeSize = (r + j - 1) % PipeSize
             /\ (r + j - 1) % PipeSize \in Cells
  <2>1. w + j - 1 \in 0 .. 2 * PosMod - 1 /\ r + j - 1 \in 0 .. 2 * PosMod - 1
    BY <1>1, <1>2
  <2>2. /\ ((w + j - 1) % PosMod) % PipeSize = (w + j - 1) % PipeSize
        /\ ((r + j - 1) % PosMod) % PipeSize = (r + j - 1) % PipeSize
    BY <2>1, SameCell
  <2>3. /\ w + j - 1 \in Int /\ r + n + j - 1 \in Int
        /\ w + j - 1 = r + n + j - 1 \/ w + j - 1 = (r + n + j - 1) - PosMod
    BY <1>1, <1>2, <1>3
  <2>4. (w + j - 1) % PipeSize = (r + n + j - 1) % PipeSize
    BY <2>3, CellAfterWrap
  <2>5. r + j - 1 \in Int
    BY <1>1, <1>2
  <2>6. (r + j - 1) % PipeSize \in Cells
    BY <1>2, <2>5, OneTurn DEF Cells
  <2> QED
    BY <2>2, <2>4, <2>6
<1> QED
  BY <1>4 DEF r, w, n

\* The ring that Stored gives, cell by cell.
LEMMA StoredCells ==
    ASSUME PipeInv, NEW d \in Buffers, NEW k \in 0 .. Len(d), k <= Space
    PROVE  /\ Stored(d, k) \in [Cells -> Bytes \cup {Blank}]
           /\ \A i \in 1 .. pipe.bytes_available :
                 Stored(d, k)[(pipe.read_pos + i - 1) % PipeSize]
                    = pipe.buf[(pipe.read_pos + i - 1) % PipeSize]
           /\ \A i \in 1 .. k :
                 Stored(d, k)[(pipe.read_pos + pipe.bytes_available + i - 1) % PipeSize]
                    = d[i]
<1> DEFINE r == pipe.read_pos
           w == pipe.write_pos
           n == pipe.bytes_available
           Cell(i) == ((w + i - 1) % PosMod) % PipeSize
           SlotOf(i) == (r + i - 1) % PipeSize
<1>1. r \in Nat /\ n \in 0 .. PipeSize /\ pipe.buf \in [Cells -> Bytes \cup {Blank}]
  BY PipeFields, Sizes DEF PipeInv
<1>2. PipeSize \in Nat \ {0} /\ k \in Nat /\ n + k <= PipeSize /\ d \in [1 .. Len(d) -> Bytes]
  BY BufferSeq, Sizes, <1>1 DEF Space
<1>3. \A c \in Cells :
         Stored(d, k)[c] = IF \E i \in 1 .. k : Cell(i) = c
                           THEN d[CHOOSE i \in 1 .. k : Cell(i) = c] ELSE pipe.buf[c]
  BY DEF Stored
<1>4. Stored(d, k) \in [Cells -> Bytes \cup {Blank}]
  <2>1. ASSUME NEW c \in Cells, NEW j \in 1 .. k, Cell(j) = c
        PROVE  d[CHOOSE i \in 1 .. k : Cell(i) = c] \in Bytes
    <3>1. (CHOOSE i \in 1 .. k : Cell(i) = c) \in 1 .. k
      BY <2>1
    <3>2. \A i \in 1 .. k : i \in 1 .. Len(d)
      BY <1>2, BufferSeq
    <3> QED
      BY <1>2, <3>1, <3>2
  <2>2. \A c \in Cells : Stored(d, k)[c] \in Bytes \cup {Blank}
    BY <1>1, <1>3, <2>1
  <2>3. Stored(d, k) = [c \in Cells |-> Stored(d, k)[c]]
    BY DEF Stored
  <2> QED
    BY <2>2, <2>3
<1>5. \A i \in 1 .. PipeSize : Cell(i) = SlotOf(n + i) /\ SlotOf(i) \in Cells
  <2>1. ASSUME NEW i \in 1 .. PipeSize
        PROVE  Cell(i) = SlotOf(n + i) /\ SlotOf(i) \in Cells
    <3>1. r + n + i - 1 = r + (n + i) - 1
      BY <1>1, <1>2
    <3> QED
      BY <3>1, WriteCells
  <2> QED
    BY <2>1
<1>6. ASSUME NEW i \in 1 .. n + k, NEW j \in 1 .. n + k, SlotOf(i) = SlotOf(j)
      PROVE  i = j
  <2>1. r + i - 1 \in Int /\ r + j - 1 \in Int
    BY <1>1, <1>2
  <2>2. (r + i - 1) - (r + j - 1) < PipeSize /\ (r + j - 1) - (r + i - 1) < PipeSize
    <3>1. i \in 1 .. PipeSize /\ j \in 1 .. PipeSize
      BY <1>1, <1>2
    <3>2. \A x \in Nat : \A y, z \in 1 .. PipeSize : (x + y - 1) - (x + z - 1) < PipeSize
      BY <1>2
    <3> QED
      BY <1>1, <3>1, <3>2
  <2>3. r + i - 1 = r + j - 1
    BY <1>2, <1>6, <2>1, <2>2, SamePlace
  <2> QED
    BY <1>1, <1>2, <2>3
<1> HIDE DEF Cell, SlotOf, r, w, n
<1>7. ASSUME NEW i \in 1 .. n
      PROVE  Stored(d, k)[SlotOf(i)] = pipe.buf[SlotOf(i)]
  <2>1. i \in 1 .. n + k /\ i \in 1 .. PipeSize
    BY <1>1, <1>2
  <2>2. ASSUME NEW j \in 1 .. k
        PROVE  Cell(j) # SlotOf(i)
    <3>1. j \in 1 .. PipeSize /\ n + j \in 1 .. n + k /\ i # n + j
      BY <1>1, <1>2
    <3> QED
      BY <1>5, <1>6, <2>1, <3>1
  <2> QED
    BY <1>3, <1>5, <2>1, <2>2
<1>8. ASSUME NEW i \in 1 .. k
      PROVE  Stored(d, k)[SlotOf(n + i)] = d[i]
  <2>1. i \in 1 .. PipeSize /\ n + i \in 1 .. n + k /\ n + i \in 1 .. PipeSize
    BY <1>1, <1>2
  <2>2. Cell(i) = SlotOf(n + i) /\ SlotOf(n + i) \in Cells
    BY <1>5, <2>1
  <2>3. ASSUME NEW j \in 1 .. k, Cell(j) = SlotOf(n + i)
        PROVE  j = i
    <3>1. j \in 1 .. PipeSize /\ n + j \in 1 .. n + k
      BY <1>1, <1>2
    <3>2. n + j = n + i
      BY <1>5, <1>6, <2>1, <2>3, <3>1
    <3> QED
      BY <1>1, <3>2
  <2>4. (CHOOSE j \in 1 .. k : Cell(j) = SlotOf(n + i)) = i
    BY <2>2, <2>3
  <2> QED
    BY <1>3, <2>2, <2>4
<1>9. ASSUME NEW i \in 1 .. k
      PROVE  SlotOf(n + i) = (r + n + i - 1) % PipeSize
  <2>1. r + n + i - 1 = r + (n + i) - 1
    BY <1>1, <1>2
  <2> QED
    BY <2>1 DEF SlotOf
<1> QED
  BY <1>4, <1>7, <1>8, <1>9 DEF SlotOf, r, n

\* How many bytes a call moves.
LEMMA Moved ==
    ASSUME PipeInv, NEW c \in Nat
    PROVE  /\ Less(c, pipe.bytes_available) \in 0 .. pipe.bytes_available
           /\ Less(c, pipe.bytes_available) <= c
           /\ Space \in 0 .. PipeSize
           /\ Less(c, Space) \in 0 .. PipeSize - pipe.bytes_available
           /\ Less(c, Space) \in 0 .. c
<1>1. PipeSize \in Nat /\ pipe.bytes_available \in 0 .. PipeSize
  BY Sizes, PipeFields DEF PipeInv
<1>2. Space \in Nat /\ Space = PipeSize - pipe.bytes_available /\ Space \in 0 .. PipeSize
  BY <1>1 DEF Space
<1>3. Less(c, Space) \in Nat /\ Less(c, Space) <= c /\ Less(c, Space) <= Space
  BY <1>2, LessIsSmaller
<1>4. /\ Less(c, pipe.bytes_available) \in Nat /\ Less(c, pipe.bytes_available) <= c
      /\ Less(c, pipe.bytes_available) <= pipe.bytes_available
  <2>1. pipe.bytes_available \in Nat
    BY <1>1
  <2> QED
    BY <2>1, LessIsSmaller
<1> QED
  BY <1>1, <1>2, <1>3, <1>4

\* What a read that gives bytes does to the pipe.
Taken(k) ==
    /\ k \in 0 .. pipe.bytes_available
    /\ pipe' = [pipe EXCEPT !.read_pos = (@ + k) % PosMod, !.bytes_available = @ - k]

\* What a write that takes bytes does to the pipe.
Put(d, k) ==
    /\ k \in 0 .. Len(d) /\ k \in 0 .. PipeSize - pipe.bytes_available
    /\ pipe' = [pipe EXCEPT !.buf = Stored(d, k), !.write_pos = (@ + k) % PosMod,
                            !.bytes_available = @ + k]

\* Taking and putting keep the count the distance of the positions.
LEMMA MovesKeepPipe ==
    ASSUME PipeInv,
           \/ \E k \in Nat : Taken(k)
           \/ \E d \in Buffers, k \in Nat : Put(d, k)
    PROVE  PipeInv'
<1> DEFINE r == pipe.read_pos
           w == pipe.write_pos
           n == pipe.bytes_available
<1>1. /\ r \in 0 .. PosMod - 1 /\ w \in 0 .. PosMod - 1 /\ n \in 0 .. PipeSize
      /\ n = (w - r) % PosMod /\ pipe \in PipeRecords
  BY PipeFields DEF PipeInv, PositionsAgree
<1>2. PipeSize \in Nat /\ PosMod \in Nat
  BY Sizes
<1>3. ASSUME NEW k \in Nat, Taken(k)
      PROVE  PipeInv'
  <2> DEFINE v == (r + k) % PosMod
  <2>0. k \in 0 .. n
    BY <1>3 DEF Taken
  <2>1. k \in 0 .. n /\ n - k \in 0 .. PipeSize
    BY <1>1, <1>2, <2>0
  <2>2. v \in 0 .. PosMod - 1 /\ n - k = (w - v) % PosMod
    BY <1>1, <2>1, Distance
  <2>3. pipe' = [pipe EXCEPT !.read_pos = v, !.bytes_available = n - k]
    BY <1>3 DEF Taken
  <2> HIDE DEF v
  <2>4. pipe' \in PipeRecords
    BY <1>1, <2>1, <2>2, <2>3 DEF PipeRecords
  <2>5. pipe'.read_pos = v /\ pipe'.write_pos = w /\ pipe'.bytes_available = n - k
    BY <1>1, <2>3 DEF PipeRecords
  <2> QED
    BY <2>2, <2>4, <2>5 DEF PipeInv, PositionsAgree
<1>4. ASSUME NEW d \in Buffers, NEW k \in Nat, Put(d, k)
      PROVE  PipeInv'
  <2> DEFINE v == (w + k) % PosMod
             b == Stored(d, k)
  <2>1. /\ k \in 0 .. Len(d) /\ k \in 0 .. PipeSize - n /\ k <= Space
        /\ n + k \in 0 .. PipeSize
    <3>1. k \in 0 .. Len(d) /\ k \in 0 .. PipeSize - n
      BY <1>4 DEF Put
    <3>2. Space = PipeSize - n
      BY DEF Space
    <3>3. n \in Nat /\ n <= PipeSize /\ PipeSize \in Nat
      BY <1>1, <1>2
    <3> HIDE DEF n
    <3>4. k <= PipeSize - n /\ n + k \in 0 .. PipeSize
      BY <3>1, <3>3
    <3> QED
      BY <3>1, <3>2, <3>4
  <2>2. v \in 0 .. PosMod - 1 /\ n + k = (v - r) % PosMod
    BY <1>1, <2>1, Distance
  <2>3. b \in [Cells -> Bytes \cup {Blank}]
    BY <2>1, StoredCells
  <2>4. pipe' = [pipe EXCEPT !.buf = b, !.write_pos = v, !.bytes_available = n + k]
    BY <1>4 DEF Put
  <2> HIDE DEF v, b
  <2>5. pipe' \in PipeRecords
    BY <1>1, <2>1, <2>2, <2>3, <2>4 DEF PipeRecords
  <2>6. pipe'.read_pos = r /\ pipe'.write_pos = v /\ pipe'.bytes_available = n + k
    BY <1>1, <2>4 DEF PipeRecords
  <2> QED
    BY <2>2, <2>5, <2>6 DEF PipeInv, PositionsAgree
<1> QED
  BY <1>3, <1>4

\* What a call of pipe_read that gives bytes, and of pipe_write that takes
\* some, does.
LEMMA CallsMove ==
    ASSUME PipeInv
    PROVE  /\ \A c \in Counts : pipe_read(c) =>
                 \/ UNCHANGED pipe
                 \/ \E k \in Nat : Taken(k)
           /\ \A d \in Buffers : pipe_write(d) =>
                 \/ UNCHANGED pipe
                 \/ \E k \in Nat : Put(d, k)
<1>1. ASSUME NEW c \in Counts, pipe_read(c)
      PROVE  UNCHANGED pipe \/ \E k \in Nat : Taken(k)
  <2>1. c \in Nat /\ pipe.bytes_available \in Nat
    BY Sizes, PipeFields DEF Counts, PipeInv
  <2>2. Less(c, pipe.bytes_available) \in 0 .. pipe.bytes_available
    BY <2>1, Moved
  <2> DEFINE k == Less(c, pipe.bytes_available)
  <2>3. \/ UNCHANGED pipe
        \/ pipe' = [pipe EXCEPT !.read_pos = (@ + k) % PosMod, !.bytes_available = @ - k]
    BY <1>1, Zenon DEF pipe_read
  <2>4. k \in Nat
    BY <2>1, <2>2
  <2> HIDE DEF k
  <2> QED
    BY <2>2, <2>3, <2>4, Zenon DEF Taken, k
<1>2. ASSUME NEW d \in Buffers, pipe_write(d)
      PROVE  UNCHANGED pipe \/ \E k \in Nat : Put(d, k)
  <2>1. Len(d) \in Nat
    BY BufferSeq
  <2>2. /\ Less(Len(d), Space) \in 0 .. PipeSize - pipe.bytes_available
        /\ Less(Len(d), Space) \in 0 .. Len(d)
    BY <2>1, Moved
  <2>3. Less(Len(d), Space) \in Nat
    BY <2>1, <2>2
  <2> QED
    BY <1>2, <2>2, <2>3 DEF pipe_write, Put
<1> QED
  BY <1>1, <1>2

\* Every step of the pipe keeps the invariant.
LEMMA PipeStep == PipeInv /\ [PipeNext]_pipeVars => PipeInv'
<1> SUFFICES ASSUME PipeInv, [PipeNext]_pipeVars PROVE PipeInv'
  OBVIOUS
<1>1. CASE UNCHANGED pipe
  BY <1>1 DEF PipeInv, PositionsAgree
<1>2. NewPipe \in PipeRecords /\ NoPipe \in PipeRecords
  BY FreshPipes
<1>3. CASE pipe' = NewPipe \/ pipe' = NoPipe
  <2>1. pipe'.read_pos = 0 /\ pipe'.write_pos = 0 /\ pipe'.bytes_available = 0
    <3>1. CASE pipe' = NewPipe
      BY <3>1 DEF NewPipe
    <3>2. CASE pipe' = NoPipe
      BY <3>2 DEF NewPipe, NoPipe
    <3> QED
      BY <1>3, <3>1, <3>2
  <2>2. (0 - 0) % PosMod = 0
    BY Sizes
  <2> QED
    BY <1>2, <1>3, <2>1, <2>2 DEF PipeInv, PositionsAgree
<1>4. ASSUME NEW flag \in {"write_closed", "read_closed"}, close_end(flag)
      PROVE  PipeInv'
  <2>1. pipe \in PipeRecords /\ pipe' = [pipe EXCEPT ![flag] = TRUE]
    BY <1>4 DEF close_end, PipeInv
  <2>2. /\ pipe' \in PipeRecords /\ pipe'.read_pos = pipe.read_pos
        /\ pipe'.write_pos = pipe.write_pos
        /\ pipe'.bytes_available = pipe.bytes_available
    <3>1. CASE flag = "write_closed"
      BY <2>1, <3>1 DEF PipeRecords
    <3>2. CASE flag = "read_closed"
      BY <2>1, <3>2 DEF PipeRecords
    <3> QED
      BY <3>1, <3>2
  <2> QED
    BY <2>2 DEF PipeInv, PositionsAgree
<1>5. ASSUME NEW c \in Counts, pipe_read(c)
      PROVE  PipeInv'
  BY <1>1, <1>5, CallsMove, MovesKeepPipe
<1>6. ASSUME NEW d \in Buffers, pipe_write(d)
      PROVE  PipeInv'
  BY <1>1, <1>6, CallsMove, MovesKeepPipe
<1>7. CASE UNCHANGED pipeVars
  BY <1>1, <1>7 DEF pipeVars
<1> QED
  BY <1>3, <1>4, <1>5, <1>6, <1>7 DEF PipeNext, pipe_create, pipe_destroy

\* The pipe moves only by its own steps.
LEMMA OnlyPipeMovesPipe ==
    [ipc_step \/ console_step]_svars => [PipeNext]_pipeVars
  BY DEF ipc_step, console_step, svars

\* The redundant count of pipe_t is always the distance of its positions,
\* whatever the calls and however often size_t wraps.
THEOREM PipeCountsItsBytes == ServicesSpec => []PositionsAgree
<1>1. ServicesInit => PipeInv
  BY PipeInitInv DEF ServicesInit
<1>2. PipeInv => PositionsAgree
  BY DEF PipeInv
<1> QED
  BY <1>1, <1>2, PipeStep, OnlyPipeMovesPipe, PTL DEF ServicesSpec

-----------------------------------------------------------------------------
(***************************************************************************)
(* The stream of bytes that a pipe is.                                     *)
(***************************************************************************)

\* What the abstract stream holds and which ends are open, for a pipe p.
ContentOf(p) == [i \in 1 .. p.bytes_available |-> p.buf[(p.read_pos + i - 1) % PipeSize]]
EndsOf(p) == {e \in {"read", "write"} :
                 ~p[IF e = "read" THEN "read_closed" ELSE "write_closed"]}

\* The content is a sequence as long as the count says.
LEMMA ContentSeq ==
    ASSUME PipeInv
    PROVE  /\ Len(ContentOf(pipe)) = pipe.bytes_available
           /\ ContentOf(pipe) \in Seq(Bytes \cup {Blank})
           /\ (ContentOf(pipe) = <<>>) <=> (pipe.bytes_available = 0)
<1>1. pipe.bytes_available \in Nat /\ pipe.bytes_available \in 0 .. PipeSize
  BY Sizes, PipeFields DEF PipeInv
<1>2. ASSUME NEW i \in 1 .. pipe.bytes_available
      PROVE  pipe.buf[(pipe.read_pos + i - 1) % PipeSize] \in Bytes \cup {Blank}
  <2>1. i \in 1 .. PipeSize
    BY <1>1, Sizes
  <2>2. (pipe.read_pos + i - 1) % PipeSize \in Cells
    BY <2>1, WriteCells
  <2> QED
    BY <2>2, PipeFields DEF PipeInv
<1>3. Len(ContentOf(pipe)) = pipe.bytes_available
  BY <1>1 DEF ContentOf
<1>4. ContentOf(pipe) \in [1 .. pipe.bytes_available -> Bytes \cup {Blank}]
  BY <1>2 DEF ContentOf
<1>5. ContentOf(pipe) \in Seq(Bytes \cup {Blank})
  BY <1>1, <1>4
<1> QED
  BY <1>1, <1>3, <1>5

\* Which ends are open.
LEMMA OpenEnds ==
    ASSUME NEW p \in PipeRecords
    PROVE  /\ "read" \in EndsOf(p) <=> ~p.read_closed
           /\ "write" \in EndsOf(p) <=> ~p.write_closed
           /\ EndsOf(p) \subseteq {"read", "write"}
  BY DEF EndsOf

\* A read gives the oldest bytes and leaves the others.
LEMMA ReadTakesOldest ==
    ASSUME PipeInv, NEW k \in Nat, Taken(k)
    PROVE  /\ Oldest(k) = SubSeq(ContentOf(pipe), 1, k)
           /\ ContentOf(pipe') = SubSeq(ContentOf(pipe), k + 1, Len(ContentOf(pipe)))
           /\ EndsOf(pipe') = EndsOf(pipe) /\ pipe'.exists = pipe.exists
<1> DEFINE r == pipe.read_pos
           n == pipe.bytes_available
           v == (r + k) % PosMod
           C == ContentOf(pipe)
<1>1. /\ r \in 0 .. PosMod - 1 /\ n \in 0 .. PipeSize /\ pipe \in PipeRecords
      /\ PipeSize \in Nat /\ PosMod \in Nat \ {0} /\ PipeSize < PosMod
  BY PipeFields, Sizes DEF PipeInv
<1>2. k \in 0 .. n /\ pipe' = [pipe EXCEPT !.read_pos = v, !.bytes_available = n - k]
  BY Zenon DEF Taken
<1>3. v \in 0 .. PosMod - 1 /\ (v = r + k \/ v = r + k - PosMod)
  <2>1. k \in 0 .. PosMod
    BY <1>1, <1>2
  <2> QED
    BY <1>1, <2>1, WrapsOnce
<1>4. Len(C) = n /\ C \in Seq(Bytes \cup {Blank})
  BY ContentSeq
<1>5. \A i \in 1 .. n : C[i] = pipe.buf[(r + i - 1) % PipeSize]
  BY DEF ContentOf
<1>6. Oldest(k) = SubSeq(C, 1, k)
  <2>1. ASSUME NEW i \in 1 .. k
        PROVE  /\ pipe.buf[((r + i - 1) % PosMod) % PipeSize] = C[i]
               /\ SubSeq(C, 1, k)[i] = C[i]
    <3>1. i \in 1 .. PipeSize /\ i \in 1 .. n
      BY <1>1, <1>2
    <3>2. ((r + i - 1) % PosMod) % PipeSize = (r + i - 1) % PipeSize
      BY <3>1, WriteCells
    <3>3. SubSeq(C, 1, k)[i] = C[i]
      <4> HIDE DEF C, r, n, v
      <4> QED
        BY <1>1, <1>2, <1>4, <3>1
    <3> QED
      BY <1>5, <3>1, <3>2, <3>3
  <2>2. SubSeq(C, 1, k) = [i \in 1 .. k |-> SubSeq(C, 1, k)[i]]
    <3> HIDE DEF C, r, n, v
    <3> QED
      BY <1>1, <1>2, <1>4
  <2>3. Oldest(k) = [i \in 1 .. k |-> pipe.buf[((r + i - 1) % PosMod) % PipeSize]]
    BY DEF Oldest
  <2> QED
    BY <2>1, <2>2, <2>3
<1>7. /\ pipe'.read_pos = v /\ pipe'.bytes_available = n - k /\ pipe'.buf = pipe.buf
      /\ pipe'.exists = pipe.exists /\ pipe'.read_closed = pipe.read_closed
      /\ pipe'.write_closed = pipe.write_closed
  <2> HIDE DEF v
  <2> QED
    BY <1>1, <1>2 DEF PipeRecords
<1>8. ContentOf(pipe') = [i \in 1 .. n - k |-> pipe.buf[(v + i - 1) % PipeSize]]
  BY <1>7 DEF ContentOf
<1>9. ASSUME NEW i \in 1 .. n - k
      PROVE  /\ pipe.buf[(v + i - 1) % PipeSize] = C[k + i]
             /\ SubSeq(C, k + 1, n)[i] = C[k + i]
  <2>1. k + i \in 1 .. n
    BY <1>1, <1>2
  <2>2. /\ v + i - 1 \in Int /\ r + (k + i) - 1 \in Int
        /\ v + i - 1 = r + (k + i) - 1 \/ v + i - 1 = (r + (k + i) - 1) - PosMod
    <3> HIDE DEF v
    <3> QED
      BY <1>1, <1>2, <1>3
  <2>3. (v + i - 1) % PipeSize = (r + (k + i) - 1) % PipeSize
    BY <2>2, CellAfterWrap
  <2>4. SubSeq(C, k + 1, n)[i] = C[k + i]
    <3> HIDE DEF C, r, n, v
    <3> QED
      BY <1>1, <1>2, <1>4, <2>1
  <2> QED
    BY <1>5, <2>1, <2>3, <2>4
<1>10. SubSeq(C, k + 1, n) = [i \in 1 .. n - k |-> SubSeq(C, k + 1, n)[i]]
  <2> HIDE DEF C, r, n, v
  <2> QED
    BY <1>1, <1>2, <1>4
<1>11. ContentOf(pipe') = SubSeq(C, k + 1, Len(C))
  BY <1>4, <1>8, <1>9, <1>10
<1>12. EndsOf(pipe') = EndsOf(pipe)
  BY <1>7 DEF EndsOf
<1> QED
  BY <1>6, <1>7, <1>11, <1>12

\* A write adds its bytes behind the others.
LEMMA WriteAppends ==
    ASSUME PipeInv, NEW d \in Buffers, NEW k \in Nat, Put(d, k)
    PROVE  /\ ContentOf(pipe') = ContentOf(pipe) \o SubSeq(d, 1, k)
           /\ EndsOf(pipe') = EndsOf(pipe) /\ pipe'.exists = pipe.exists
<1> DEFINE r == pipe.read_pos
           w == pipe.write_pos
           n == pipe.bytes_available
           b == Stored(d, k)
           v == (w + k) % PosMod
           C == ContentOf(pipe)
           D == SubSeq(d, 1, k)
<1>1. /\ r \in 0 .. PosMod - 1 /\ n \in 0 .. PipeSize /\ pipe \in PipeRecords
      /\ PipeSize \in Nat /\ n \in Nat
  BY PipeFields, Sizes DEF PipeInv
<1>2. k \in 0 .. Len(d) /\ k \in 0 .. PipeSize - n /\ k <= Space
  <2>1. k \in 0 .. Len(d) /\ k \in 0 .. PipeSize - n
    BY DEF Put
  <2> QED
    BY <1>1, <2>1 DEF Space
<1>3. pipe' = [pipe EXCEPT !.buf = b, !.write_pos = v, !.bytes_available = n + k]
  BY Zenon DEF Put
<1>4. /\ pipe'.read_pos = r /\ pipe'.bytes_available = n + k /\ pipe'.buf = b
      /\ pipe'.exists = pipe.exists /\ pipe'.read_closed = pipe.read_closed
      /\ pipe'.write_closed = pipe.write_closed
  <2> HIDE DEF b, v
  <2> QED
    BY <1>1, <1>3 DEF PipeRecords
<1>5. /\ \A i \in 1 .. n : b[(r + i - 1) % PipeSize] = pipe.buf[(r + i - 1) % PipeSize]
      /\ \A i \in 1 .. k : b[(r + n + i - 1) % PipeSize] = d[i]
  BY <1>2, StoredCells
<1>6. Len(C) = n /\ C \in Seq(Bytes \cup {Blank})
  BY ContentSeq
<1>7. Len(d) \in Nat /\ d \in Seq(Bytes)
  <2>1. Len(d) \in Nat /\ d \in [1 .. Len(d) -> Bytes]
    BY BufferSeq
  <2> QED
    BY <2>1
<1>8. D \in Seq(Bytes) /\ Len(D) = k /\ \A i \in 1 .. k : D[i] = d[i]
  BY <1>2, <1>7
<1>9. ContentOf(pipe') = [i \in 1 .. n + k |-> b[(r + i - 1) % PipeSize]]
  BY <1>4 DEF ContentOf
<1>10. \A i \in 1 .. n : C[i] = pipe.buf[(r + i - 1) % PipeSize]
  BY DEF ContentOf
<1> HIDE DEF b, v, C, D, r, n, w
<1>11. /\ C \o D = [i \in 1 .. n + k |-> (C \o D)[i]]
       /\ \A i \in 1 .. n : (C \o D)[i] = C[i]
       /\ \A i \in 1 .. k : (C \o D)[n + i] = D[i]
  <2>1. C \in Seq(Bytes \cup {Blank}) /\ D \in Seq(Bytes \cup {Blank})
    BY <1>6, <1>8
  <2>2. C \o D = [i \in 1 .. n + k |-> (C \o D)[i]]
    <3>1. C \o D \in Seq(Bytes \cup {Blank}) /\ Len(C \o D) = Len(C) + Len(D)
      BY <2>1
    <3>2. Len(C \o D) = n + k
      BY <1>6, <1>8, <3>1
    <3> DEFINE E == C \o D
    <3>3. E \in Seq(Bytes \cup {Blank}) /\ Len(E) = n + k
      BY <3>1, <3>2
    <3> HIDE DEF E
    <3>4. E = [i \in 1 .. Len(E) |-> E[i]]
      BY <3>3
    <3> QED
      BY <3>3, <3>4 DEF E
  <2>3. \A i \in 1 .. n : (C \o D)[i] = C[i]
    BY <1>1, <1>6, <1>8, <2>1
  <2>4. \A i \in 1 .. k : (C \o D)[n + i] = D[i]
    BY <1>1, <1>6, <1>8, <2>1
  <2> QED
    BY <2>2, <2>3, <2>4
<1>12. ASSUME NEW i \in 1 .. n + k
       PROVE  b[(r + i - 1) % PipeSize] = (C \o D)[i]
  <2>1. CASE i \in 1 .. n
    BY <2>1, <1>5, <1>10, <1>11
  <2>2. CASE i \notin 1 .. n
    <3>1. PICK j \in 1 .. k : i = n + j
      <4>1. i - n \in 1 .. k /\ i = n + (i - n)
        BY <2>2, <1>1
      <4> QED
        BY <4>1
    <3>2. r + n + j - 1 = r + i - 1
      BY <1>1, <3>1
    <3>3. (C \o D)[i] = D[j]
      BY <1>11, <3>1
    <3> QED
      BY <1>5, <1>8, <3>1, <3>2, <3>3
  <2> QED
    BY <2>1, <2>2
<1>13. ContentOf(pipe') = C \o D
  BY <1>9, <1>11, <1>12
<1>14. EndsOf(pipe') = EndsOf(pipe)
  BY <1>4 DEF EndsOf
<1> QED
  BY <1>4, <1>13, <1>14 DEF C, D

\* A call that changes nothing is refused by the stream too.
LEMMA RefusedCalls ==
    ASSUME PipeInv, UNCHANGED pipe, NEW op, NEW c, NEW code, Answer(op, c, code, <<>>)
    PROVE  Stream!Refuse(op, c, code)
  BY DEF Stream!Refuse, Stream!Answer, Stream!Outcome, Answer, PipeOutcome

\* Every step of the ring is a step of the stream, or none.
LEMMA PipeRefines ==
    PipeInv /\ PipeInv' /\ [PipeNext]_pipeVars => [Stream!Next]_Stream!svars
<1> SUFFICES ASSUME PipeInv, PipeInv', [PipeNext]_pipeVars
             PROVE  [Stream!Next]_Stream!svars
  OBVIOUS
<1>1. /\ pipe \in PipeRecords /\ pipe' \in PipeRecords
      /\ pipe.exists \in BOOLEAN /\ pipe'.exists \in BOOLEAN
  BY PipeFields DEF PipeInv
<1>2. /\ "read" \in EndsOf(pipe) <=> ~pipe.read_closed
      /\ "write" \in EndsOf(pipe) <=> ~pipe.write_closed
      /\ "read" \in EndsOf(pipe') <=> ~pipe'.read_closed
      /\ "write" \in EndsOf(pipe') <=> ~pipe'.write_closed
      /\ EndsOf(pipe) \subseteq {"read", "write"}
      /\ EndsOf(pipe') \subseteq {"read", "write"}
  BY <1>1, OpenEnds
<1>3. /\ Len(ContentOf(pipe)) = pipe.bytes_available
      /\ (ContentOf(pipe) = <<>>) <=> (pipe.bytes_available = 0)
  BY ContentSeq
<1>4. ASSUME NEW a \in Nat, NEW b \in Nat
      PROVE  Stream!Less(a, b) = Less(a, b)
  BY DEF Stream!Less, Less
<1>5. CASE UNCHANGED pipeVars
  BY <1>5 DEF pipeVars, Stream!svars
<1>6. CASE pipe_create
  <2>1. /\ pipe'.exists /\ ~pipe.exists /\ ContentOf(pipe') = <<>>
        /\ EndsOf(pipe') = {"read", "write"}
    <3>1. pipe' = NewPipe /\ ~pipe.exists
      BY <1>6 DEF pipe_create
    <3>2. /\ pipe'.exists /\ pipe'.bytes_available = 0
          /\ ~pipe'.read_closed /\ ~pipe'.write_closed
      BY <3>1 DEF NewPipe
    <3>3. EndsOf(pipe') = {"read", "write"}
      BY <1>2, <3>2
    <3> QED
      BY <3>1, <3>2, <3>3 DEF ContentOf
  <2> QED
    BY <1>6, <2>1
    DEF pipe_create, Answer, PipeOutcome, Stream!Next, Stream!Open, Stream!Answer,
        Stream!Outcome, EndsOf, ContentOf
<1>7. CASE pipe_destroy
  <2>1. pipe.exists /\ ~pipe'.exists /\ ContentOf(pipe') = <<>> /\ EndsOf(pipe') = {}
    <3>1. pipe' = NoPipe /\ pipe.exists
      BY <1>7 DEF pipe_destroy
    <3>2. /\ ~pipe'.exists /\ pipe'.bytes_available = 0
          /\ pipe'.read_closed /\ pipe'.write_closed
      BY <3>1 DEF NewPipe, NoPipe
    <3>3. EndsOf(pipe') = {}
      BY <1>2, <3>2
    <3> QED
      BY <3>1, <3>2, <3>3 DEF ContentOf
  <2> QED
    BY <1>7, <2>1
    DEF pipe_destroy, Answer, PipeOutcome, Stream!Next, Stream!Drop, Stream!Answer,
        Stream!Outcome, EndsOf, ContentOf
<1>8. ASSUME NEW flag \in {"write_closed", "read_closed"}, close_end(flag)
      PROVE  Stream!Next
  <2> DEFINE e == IF flag = "read_closed" THEN "read" ELSE "write"
  <2>1. ~pipe[flag] /\ pipe' = [pipe EXCEPT ![flag] = TRUE] /\ answer' = answer
    BY <1>8 DEF close_end
  <2>2. /\ ContentOf(pipe') = ContentOf(pipe) /\ pipe'.exists = pipe.exists
        /\ e \in EndsOf(pipe) /\ EndsOf(pipe') = EndsOf(pipe) \ {e}
    <3>1. CASE flag = "write_closed"
      <4>1. /\ pipe'.buf = pipe.buf /\ pipe'.read_pos = pipe.read_pos
            /\ pipe'.bytes_available = pipe.bytes_available /\ pipe'.exists = pipe.exists
            /\ pipe'.read_closed = pipe.read_closed /\ pipe'.write_closed
            /\ ~pipe.write_closed
        BY <1>1, <2>1, <3>1 DEF PipeRecords
      <4>2. e = "write"
        BY <3>1
      <4>3. EndsOf(pipe') = EndsOf(pipe) \ {"write"}
        BY <1>2, <4>1
      <4> QED
        BY <1>2, <4>1, <4>2, <4>3 DEF ContentOf
    <3>2. CASE flag = "read_closed"
      <4>1. /\ pipe'.buf = pipe.buf /\ pipe'.read_pos = pipe.read_pos
            /\ pipe'.bytes_available = pipe.bytes_available /\ pipe'.exists = pipe.exists
            /\ pipe'.write_closed = pipe.write_closed /\ pipe'.read_closed
            /\ ~pipe.read_closed
        BY <1>1, <2>1, <3>2 DEF PipeRecords
      <4>2. e = "read"
        BY <3>2
      <4>3. EndsOf(pipe') = EndsOf(pipe) \ {"read"}
        BY <1>2, <4>1
      <4> QED
        BY <1>2, <4>1, <4>2, <4>3 DEF ContentOf
    <3> QED
      BY <3>1, <3>2
  <2> HIDE DEF e
  <2>3. Stream!CloseEnd(e)
    BY <2>1, <2>2 DEF Stream!CloseEnd, EndsOf, ContentOf
  <2> QED
    BY <2>2, <2>3 DEF Stream!Next, EndsOf
<1>9. ASSUME NEW c \in Counts, pipe_read(c)
      PROVE  Stream!Next
  <2> DEFINE k == Less(c, pipe.bytes_available)
  <2>1. c \in Nat /\ pipe.bytes_available \in Nat
    BY Sizes, PipeFields DEF Counts, PipeInv
  <2>2. k \in 0 .. pipe.bytes_available /\ k \in Nat
    BY <2>1, Moved
  <2>3. Stream!Read(c)
    <3>1. CASE pipe.read_closed /\ Answer("read", c, -1, <<>>) /\ UNCHANGED pipe
      <4>1. Stream!Refuse("read", c, -1)
        BY <3>1, RefusedCalls
      <4> QED
        BY <1>2, <3>1, <4>1 DEF Stream!Read, EndsOf
    <3>2. CASE /\ ~pipe.read_closed /\ pipe.bytes_available = 0
               /\ Answer("read", c, IF pipe.write_closed THEN 0 ELSE -11, <<>>)
               /\ UNCHANGED pipe
      <4>1. Stream!Refuse("read", c, IF pipe.write_closed THEN 0 ELSE -11)
        BY <3>2, RefusedCalls
      <4>2. CASE pipe.write_closed
        BY <1>2, <1>3, <3>2, <4>1, <4>2 DEF Stream!Read, EndsOf, ContentOf
      <4>3. CASE ~pipe.write_closed
        BY <1>2, <1>3, <3>2, <4>1, <4>3 DEF Stream!Read, EndsOf, ContentOf
      <4> QED
        BY <4>2, <4>3
    <3>3. CASE /\ ~pipe.read_closed /\ pipe.bytes_available > 0
               /\ pipe' = [pipe EXCEPT !.read_pos = (@ + k) % PosMod,
                                       !.bytes_available = @ - k]
               /\ Answer("read", c, k, Oldest(k))
      <4>1. Taken(k)
        BY <2>2, <3>3, Zenon DEF Taken
      <4> HIDE DEF k
      <4>2. /\ Oldest(k) = SubSeq(ContentOf(pipe), 1, k)
            /\ ContentOf(pipe') = SubSeq(ContentOf(pipe), k + 1, Len(ContentOf(pipe)))
            /\ EndsOf(pipe') = EndsOf(pipe) /\ pipe'.exists = pipe.exists
        BY <2>2, <4>1, ReadTakesOldest
      <4>3. /\ Stream!Less(c, Len(ContentOf(pipe))) = k
            /\ "read" \in EndsOf(pipe) /\ ContentOf(pipe) # <<>>
        <5>1. pipe.bytes_available # 0
          BY <2>1, <3>3
        <5> QED
          BY <1>2, <1>3, <1>4, <2>1, <3>3, <5>1 DEF k
      <4>4. answer' = Stream!Outcome("read", c, k, SubSeq(ContentOf(pipe), 1, k))
        BY <3>3, <4>2 DEF Answer, PipeOutcome, Stream!Outcome
      <4> QED
        BY <4>2, <4>3, <4>4 DEF Stream!Read, Stream!Answer, EndsOf, ContentOf
    <3> QED
      BY <1>9, <3>1, <3>2, <3>3, Zenon DEF pipe_read
  <2> QED
    BY <2>3 DEF Stream!Next
<1>10. ASSUME NEW d \in Buffers, pipe_write(d)
       PROVE  Stream!Next
  <2> DEFINE k == Less(Len(d), Space)
  <2>1. Len(d) \in Nat /\ Len(d) \in Counts /\ Space \in 0 .. PipeSize /\ Space \in Nat
    BY BufferSeq, Moved
  <2>2. /\ k \in 0 .. PipeSize - pipe.bytes_available /\ k \in 0 .. Len(d) /\ k \in Nat
    BY <2>1, Moved
  <2>3. Stream!Room = Space
    BY <1>3 DEF Stream!Room, Space, ContentOf
  <2>4. Stream!Less(Len(d), Stream!Room) = k
    BY <1>4, <2>1, <2>3
  <2>5. CASE pipe.write_closed /\ Answer("write", Len(d), -1, <<>>) /\ UNCHANGED pipe
    <3>1. Stream!Refuse("write", Len(d), -1)
      BY <2>5, RefusedCalls
    <3>2. Stream!RefuseWrite(Len(d))
      BY <1>2, <2>5, <3>1 DEF Stream!RefuseWrite, EndsOf
    <3> QED
      BY <2>1, <3>2 DEF Stream!Next
  <2>6. CASE /\ ~pipe.write_closed /\ k = 0
             /\ Answer("write", Len(d), -11, <<>>) /\ UNCHANGED pipe
    <3>1. Stream!Refuse("write", Len(d), -11)
      BY <2>6, RefusedCalls
    <3>2. Stream!RefuseWrite(Len(d))
      BY <1>2, <2>4, <2>6, <3>1 DEF Stream!RefuseWrite, EndsOf
    <3> QED
      BY <2>1, <3>2 DEF Stream!Next
  <2>7. CASE /\ ~pipe.write_closed /\ k > 0
             /\ pipe' = [pipe EXCEPT !.buf = Stored(d, k),
                                     !.write_pos = (@ + k) % PosMod,
                                     !.bytes_available = @ + k]
             /\ Answer("write", Len(d), k, <<>>)
    <3>1. Put(d, k)
      BY <2>2, <2>7, Zenon DEF Put
    <3> HIDE DEF k
    <3>2. /\ ContentOf(pipe') = ContentOf(pipe) \o SubSeq(d, 1, k)
          /\ EndsOf(pipe') = EndsOf(pipe) /\ pipe'.exists = pipe.exists
      BY <2>2, <3>1, WriteAppends
    <3>3. answer' = Stream!Outcome("write", Len(d), k, <<>>) /\ k > 0
      BY <2>7 DEF Answer, PipeOutcome, Stream!Outcome
    <3>4. Stream!Write(d)
      BY <2>4, <3>2, <3>3 DEF Stream!Write, Stream!Answer, EndsOf, ContentOf
    <3> QED
      BY <1>2, <2>7, <3>4 DEF Stream!Next, EndsOf
  <2> QED
    BY <1>10, <2>5, <2>6, <2>7, Zenon DEF pipe_write
<1> QED
  BY <1>5, <1>6, <1>7, <1>8, <1>9, <1>10 DEF PipeNext

\* The ring of a pipe implements the stream of bytes that ipc.h promises, for
\* every size of the buffer and across the wrap of its positions: bytes come
\* out in the order they went in, once, whatever the sizes of the calls.
THEOREM PipesAreStreams == ServicesSpec => StreamSpec
<1>1. ServicesInit => PipeInv /\ Stream!Init
  <2> SUFFICES ASSUME PipeInit PROVE Stream!Init
    BY PipeInitInv DEF ServicesInit
  <2>1. /\ ~pipe.exists /\ pipe.bytes_available = 0 /\ pipe.read_closed /\ pipe.write_closed
    BY DEF PipeInit, NoPipe, NewPipe
  <2>2. EndsOf(pipe) = {} /\ ContentOf(pipe) = <<>>
    BY <2>1 DEF EndsOf, ContentOf
  <2> QED
    BY <2>1, <2>2 DEF Stream!Init, Stream!Outcome, PipeInit, PipeOutcome, EndsOf, ContentOf
<1> QED
  BY <1>1, PipeStep, OnlyPipeMovesPipe, PipeRefines, PTL
  DEF ServicesSpec, StreamSpec, Stream!Spec

=============================================================================
