------------------------------ MODULE MsgQueue ------------------------------
(***************************************************************************)
(* Message queues, kernel/ipc/ipc.c: a table of heap-allocated rings.      *)
(* live is the set of the non-null entries of msg_queues; the fields of a  *)
(* queue are functions of its identifier.  The memory of a queue comes     *)
(* from kcalloc: zeroed when it exists, of no meaning when it does not.    *)
(***************************************************************************)
EXTENDS Integers, Sequences

CONSTANTS MaxQueues,   \* entries of msg_queues: 64
          QueueLen,    \* MSG_QUEUE_LEN: 64
          Msgs         \* messages (sender, size and data together)

ASSUME MsgQueueAssumption ==
    /\ MaxQueues \in Nat
    /\ QueueLen \in Nat \ {0}

Qids == 0 .. MaxQueues - 1
Slots == 0 .. QueueLen - 1

\* The content of a slot nothing was written to since kcalloc.
Zero == <<>>

ASSUME ZeroAssumption == Zero \notin Msgs

VARIABLES live, messages, head, tail, count, next_qid,
          ret            \* the last call and its outcome: [op, qid, val, msg]

vars == <<live, messages, head, tail, count, next_qid, ret>>
ring == <<messages, head, tail, count>>

EAGAIN == -11
Ops == {"create", "destroy", "send", "recv"}
Outcome(op, qid, val, msg) == [op |-> op, qid |-> qid, val |-> val, msg |-> msg]
Return(op, qid, val) == ret' = Outcome(op, qid, val, Zero)

Init ==
    /\ live = {}
    /\ messages = [q \in Qids |-> [s \in Slots |-> Zero]]
    /\ head = [q \in Qids |-> 0]
    /\ tail = [q \in Qids |-> 0]
    /\ count = [q \in Qids |-> 0]
    /\ next_qid = 0
    /\ ret = Outcome("create", 0, 0, Zero)

\* msgq_create: identifiers are never used again; kcalloc may fail.
msgq_create ==
    \/ /\ next_qid < MaxQueues
       /\ live' = live \cup {next_qid}
       /\ messages' = [messages EXCEPT ![next_qid] = [s \in Slots |-> Zero]]
       /\ head' = [head EXCEPT ![next_qid] = 0]
       /\ tail' = [tail EXCEPT ![next_qid] = 0]
       /\ count' = [count EXCEPT ![next_qid] = 0]
       /\ next_qid' = next_qid + 1
       /\ Return("create", 0, next_qid)
    \/ /\ Return("create", 0, -1)
       /\ UNCHANGED <<live, ring, next_qid>>

\* msgq_destroy, void: kfree and a null entry, or nothing for a bad qid.
msgq_destroy(q) ==
    /\ live' = live \ {q}
    /\ Return("destroy", q, 0)
    /\ UNCHANGED <<ring, next_qid>>

\* Fault: tail is advanced before the message is stored.
msgq_send_advance_first(q, m) ==
    /\ q \in live /\ count[q] < QueueLen
    /\ messages' = [messages EXCEPT ![q][(tail[q] + 1) % QueueLen] = m]
    /\ tail' = [tail EXCEPT ![q] = (@ + 1) % QueueLen]
    /\ count' = [count EXCEPT ![q] = @ + 1]
    /\ Return("send", q, 0)
    /\ UNCHANGED <<live, head, next_qid>>

msgq_send(q, m) ==
    \/ /\ q \notin live
       /\ Return("send", q, -1)
       /\ UNCHANGED <<live, ring, next_qid>>
    \/ /\ q \in live /\ count[q] >= QueueLen
       /\ Return("send", q, EAGAIN)
       /\ UNCHANGED <<live, ring, next_qid>>
    \/ /\ q \in live /\ count[q] < QueueLen
       /\ messages' = [messages EXCEPT ![q][tail[q]] = m]
       /\ tail' = [tail EXCEPT ![q] = (@ + 1) % QueueLen]
       /\ count' = [count EXCEPT ![q] = @ + 1]
       /\ Return("send", q, 0)
       /\ UNCHANGED <<live, head, next_qid>>

\* Fault: count is not decremented.
msgq_recv_keeps_count(q) ==
    /\ q \in live /\ count[q] # 0
    /\ ret' = Outcome("recv", q, 0, messages[q][head[q]])
    /\ head' = [head EXCEPT ![q] = (@ + 1) % QueueLen]
    /\ UNCHANGED <<live, messages, tail, count, next_qid>>

msgq_recv(q) ==
    \/ /\ q \notin live
       /\ Return("recv", q, -1)
       /\ UNCHANGED <<live, ring, next_qid>>
    \/ /\ q \in live /\ count[q] = 0
       /\ Return("recv", q, EAGAIN)
       /\ UNCHANGED <<live, ring, next_qid>>
    \/ /\ q \in live /\ count[q] # 0
       /\ ret' = Outcome("recv", q, 0, messages[q][head[q]])
       /\ head' = [head EXCEPT ![q] = (@ + 1) % QueueLen]
       /\ count' = [count EXCEPT ![q] = @ - 1]
       /\ UNCHANGED <<live, messages, tail, next_qid>>

Next ==
    \/ msgq_create
    \/ \E q \in Qids : msgq_destroy(q)
    \/ \E q \in Qids, m \in Msgs : msgq_send(q, m)
    \/ \E q \in Qids : msgq_recv(q)

Spec == Init /\ [][Next]_vars

-----------------------------------------------------------------------------
(***************************************************************************)
(* Properties.                                                             *)
(***************************************************************************)

\* Every field keeps its type: the indices stay inside the ring and the count
\* within the capacity.
TypeOK ==
    /\ live \subseteq Qids
    /\ messages \in [Qids -> [Slots -> Msgs \cup {Zero}]]
    /\ head \in [Qids -> Slots]
    /\ tail \in [Qids -> Slots]
    /\ count \in [Qids -> 0 .. QueueLen]
    /\ next_qid \in 0 .. MaxQueues
    /\ ret \in [op : Ops, qid : Qids \cup {0}, val : Int, msg : Msgs \cup {Zero}]

\* tail is the slot count places after head: the redundant index and counter
\* of msg_queue_t never part, so full and empty are told apart.
RingConsistent ==
    \A q \in Qids : tail[q] = (head[q] + count[q]) % QueueLen

\* Only identifiers that were handed out name queues.
LiveIsIssued == \A q \in live : q < next_qid

\* The messages in a ring, oldest first.
Pending(q) ==
    IF q \in live
    THEN [i \in 1 .. count[q] |-> messages[q][(head[q] + i - 1) % QueueLen]]
    ELSE <<>>

\* The rings implement the FIFO queues that ipc.h promises.
Fifo == INSTANCE FifoQueues
    WITH used <- 0 .. next_qid - 1,
         content <- [q \in Qids |-> Pending(q)]
FifoSpec == Fifo!Spec

=============================================================================
