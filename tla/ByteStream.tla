----------------------------- MODULE ByteStream -----------------------------
(***************************************************************************)
(* What a pipe of kernel/ipc/ipc.h promises: a stream of bytes of bounded  *)
(* length between two ends.  A write takes as much as there is room for, a *)
(* read gives the oldest bytes first, and the end of file is reported only *)
(* when the writing end is closed and nothing is left.                     *)
(***************************************************************************)
EXTENDS Integers, Sequences

CONSTANTS Capacity,   \* bytes a stream holds
          Buffers,    \* sequences of bytes a writer may pass
          Counts      \* numbers of bytes a reader may ask for

VARIABLES ends,       \* the open ends of the stream: "read", "write"
          exists,     \* whether there is a stream
          content,    \* the bytes written and not yet read, oldest first
          answer      \* the last call and its outcome: [op, count, val, data]

svars == <<ends, exists, content, answer>>

Outcome(op, count, val, data) ==
    [op |-> op, count |-> count, val |-> val, data |-> data]
Answer(op, count, val, data) == answer' = Outcome(op, count, val, data)
Less(a, b) == IF a < b THEN a ELSE b

Init ==
    /\ ends = {} /\ ~exists /\ content = <<>>
    /\ answer = Outcome("none", 0, 0, <<>>)

Open ==
    /\ ~exists /\ exists'
    /\ ends' = {"read", "write"} /\ content' = <<>>
    /\ Answer("create", 0, 0, <<>>)

Drop ==
    /\ exists /\ ~exists'
    /\ ends' = {} /\ content' = <<>>
    /\ Answer("none", 0, 0, <<>>)

CloseEnd(e) == e \in ends /\ ends' = ends \ {e} /\ UNCHANGED <<exists, content, answer>>

\* A call that changes nothing: -1 an end that is closed, -11 EAGAIN.
Refuse(op, count, code) ==
    Answer(op, count, code, <<>>) /\ UNCHANGED <<ends, exists, content>>

Room == Capacity - Len(content)

\* Only the length of what was to be written matters.
RefuseWrite(n) ==
    \/ "write" \notin ends /\ Refuse("write", n, -1)
    \/ "write" \in ends /\ Less(n, Room) = 0 /\ Refuse("write", n, -11)

Write(d) ==
    LET k == Less(Len(d), Room)
    IN  /\ k > 0
        /\ content' = content \o SubSeq(d, 1, k)
        /\ Answer("write", Len(d), k, <<>>)
        /\ UNCHANGED <<ends, exists>>

Read(n) ==
    LET k == Less(n, Len(content))
    IN  \/ "read" \notin ends /\ Refuse("read", n, -1)
        \/ "read" \in ends /\ content = <<>> /\ "write" \notin ends /\ Refuse("read", n, 0)
        \/ "read" \in ends /\ content = <<>> /\ "write" \in ends /\ Refuse("read", n, -11)
        \/ /\ "read" \in ends /\ content # <<>>
           /\ content' = SubSeq(content, k + 1, Len(content))
           /\ Answer("read", n, k, SubSeq(content, 1, k))
           /\ UNCHANGED <<ends, exists>>

Next ==
    \/ Open \/ Drop
    \/ \E e \in ends : CloseEnd(e)
    \/ "write" \in ends /\ \E d \in Buffers : Write(d)
    \/ \E n \in Counts : RefuseWrite(n) \/ Read(n)

Spec == Init /\ [][Next]_svars

=============================================================================
