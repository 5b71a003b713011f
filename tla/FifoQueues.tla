----------------------------- MODULE FifoQueues -----------------------------
(***************************************************************************)
(* What the message queues of kernel/ipc/ipc.h promise: a queue that was   *)
(* created and not destroyed is a FIFO of at most QueueLen messages; an    *)
(* identifier names one queue for ever; a call on anything else fails and  *)
(* changes nothing.                                                        *)
(***************************************************************************)
EXTENDS Integers, Sequences

CONSTANTS Qids,       \* queue identifiers
          QueueLen,   \* capacity of a queue
          Msgs        \* messages

VARIABLES used,      \* identifiers that were handed out
          live,      \* identifiers of queues that exist
          content,   \* content[q]: the messages in q, oldest first
          ret        \* the last call and its outcome: [op, qid, val, msg]

fvars == <<used, live, content, ret>>

\* Return codes: 0 or an identifier, -1 for an error, -11 for EAGAIN.
Fail  == -1
Again == -11
NoMsg == <<>>
Outcome(op, qid, val, msg) == [op |-> op, qid |-> qid, val |-> val, msg |-> msg]

Init ==
    /\ used = {} /\ live = {}
    /\ content = [q \in Qids |-> <<>>]
    /\ ret = Outcome("create", 0, 0, NoMsg)

\* A call that changes nothing but what it returns.
Refuse(op, qid, code) ==
    ret' = Outcome(op, qid, code, NoMsg) /\ UNCHANGED <<used, live, content>>

Create ==
    \/ \E q \in Qids \ used :
          /\ used' = used \cup {q}
          /\ live' = live \cup {q}
          /\ content' = [content EXCEPT ![q] = <<>>]
          /\ ret' = Outcome("create", 0, q, NoMsg)
    \/ Refuse("create", 0, Fail)

Destroy(q) ==
    /\ live' = live \ {q}
    /\ content' = [content EXCEPT ![q] = <<>>]
    /\ ret' = Outcome("destroy", q, 0, NoMsg)
    /\ UNCHANGED used

Send(q, m) ==
    \/ q \notin live /\ Refuse("send", q, Fail)
    \/ q \in live /\ Len(content[q]) = QueueLen /\ Refuse("send", q, Again)
    \/ /\ q \in live /\ Len(content[q]) < QueueLen
       /\ content' = [content EXCEPT ![q] = Append(@, m)]
       /\ ret' = Outcome("send", q, 0, NoMsg)
       /\ UNCHANGED <<used, live>>

Recv(q) ==
    \/ q \notin live /\ Refuse("recv", q, Fail)
    \/ q \in live /\ content[q] = <<>> /\ Refuse("recv", q, Again)
    \/ /\ q \in live /\ content[q] # <<>>
       /\ ret' = Outcome("recv", q, 0, Head(content[q]))
       /\ content' = [content EXCEPT ![q] = Tail(@)]
       /\ UNCHANGED <<used, live>>

Next ==
    \/ Create
    \/ \E q \in Qids : Destroy(q)
    \/ \E q \in Qids, m \in Msgs : Send(q, m)
    \/ \E q \in Qids : Recv(q)

Spec == Init /\ [][Next]_fvars

=============================================================================
