-------------------------------- MODULE Pipe --------------------------------
(***************************************************************************)
(* Pipes, kernel/ipc/ipc.c: a ring of bytes with two positions that only   *)
(* grow, modulo the width of size_t, and a redundant count.  Pipes share   *)
(* nothing with each other, so there is one.                               *)
(***************************************************************************)
EXTENDS Integers, Sequences

CONSTANTS PipeSize,    \* PIPE_BUF_SIZE: 4096
          PosMod,      \* positions are size_t: 2^64
          Bytes,       \* byte values, other than the zero of kcalloc
          MaxCount     \* bound: bytes passed to one call

\* The ring goes on across the wrap of size_t because the size divides 2^64.
ASSUME PipeAssumption ==
    /\ PipeSize \in Nat \ {0} /\ PosMod \in Nat /\ MaxCount \in Nat
    /\ PosMod > PipeSize /\ PosMod % PipeSize = 0

VARIABLES pipe,        \* pipe_t, or NoPipe
          answer       \* the last call and its outcome: [op, count, val, data]

pipeVars == <<pipe, answer>>

Cells == 0 .. PipeSize - 1
Buffers == UNION {[1 .. n -> Bytes] : n \in 0 .. MaxCount}
Counts == 0 .. MaxCount
Less(a, b) == IF a < b THEN a ELSE b

\* What kcalloc returns; and no pipe, of which every field is idle.
Blank == 0
NewPipe == [exists |-> TRUE, buf |-> [c \in Cells |-> Blank],
            read_pos |-> 0, write_pos |-> 0, bytes_available |-> 0,
            write_closed |-> FALSE, read_closed |-> FALSE]
NoPipe == [NewPipe EXCEPT !.exists = FALSE,
                          !.write_closed = TRUE, !.read_closed = TRUE]

PipeOutcome(op, count, val, data) ==
    [op |-> op, count |-> count, val |-> val, data |-> data]
Answer(op, count, val, data) == answer' = PipeOutcome(op, count, val, data)

PipeInit == pipe = NoPipe /\ answer = PipeOutcome("none", 0, 0, <<>>)

\* A kcalloc that fails leaves no pipe and is no step.
pipe_create == ~pipe.exists /\ pipe' = NewPipe /\ Answer("create", 0, 0, <<>>)

pipe_destroy == pipe.exists /\ pipe' = NoPipe /\ Answer("none", 0, 0, <<>>)

\* Nothing in the repository closes an end: the client stores the flag.
close_end(flag) ==
    /\ ~pipe[flag]
    /\ pipe' = [pipe EXCEPT ![flag] = TRUE]
    /\ UNCHANGED answer

\* The k bytes from read_pos on.
Oldest(k) ==
    [i \in 1 .. k |-> pipe.buf[((pipe.read_pos + i - 1) % PosMod) % PipeSize]]

\* Fault: a closed writer is taken for the end of file at once.
pipe_read_eof_first(count) ==
    LET k == Less(count, pipe.bytes_available)
    IN  \/ pipe.read_closed /\ Answer("read", count, -1, <<>>) /\ UNCHANGED pipe
        \/ /\ ~pipe.read_closed /\ pipe.write_closed
           /\ Answer("read", count, 0, <<>>) /\ UNCHANGED pipe
        \/ /\ ~pipe.read_closed /\ ~pipe.write_closed /\ pipe.bytes_available > 0
           /\ pipe' = [pipe EXCEPT !.read_pos = (@ + k) % PosMod,
                                   !.bytes_available = @ - k]
           /\ Answer("read", count, k, Oldest(k))

\* Fault: the position moves by what was asked for.
pipe_read_skips(count) ==
    LET k == Less(count, pipe.bytes_available)
    IN  /\ ~pipe.read_closed /\ pipe.bytes_available > 0
        /\ pipe' = [pipe EXCEPT !.read_pos = (@ + count) % PosMod,
                                !.bytes_available = @ - k]
        /\ Answer("read", count, k, Oldest(k))

pipe_read(count) ==
    LET k == Less(count, pipe.bytes_available)
    IN  \/ pipe.read_closed /\ Answer("read", count, -1, <<>>) /\ UNCHANGED pipe
        \/ /\ ~pipe.read_closed /\ pipe.bytes_available = 0
           /\ Answer("read", count, IF pipe.write_closed THEN 0 ELSE -11, <<>>)
           /\ UNCHANGED pipe
        \/ /\ ~pipe.read_closed /\ pipe.bytes_available > 0
           /\ pipe' = [pipe EXCEPT !.read_pos = (@ + k) % PosMod,
                                   !.bytes_available = @ - k]
           /\ Answer("read", count, k, Oldest(k))

Space == PipeSize - pipe.bytes_available

\* The ring after the first k bytes of d were stored behind write_pos.
Stored(d, k) ==
    LET Cell(i) == ((pipe.write_pos + i - 1) % PosMod) % PipeSize
    IN  [c \in Cells |-> IF \E i \in 1 .. k : Cell(i) = c
                         THEN d[CHOOSE i \in 1 .. k : Cell(i) = c]
                         ELSE pipe.buf[c]]

pipe_write(d) ==
    LET k == Less(Len(d), Space)
    IN  \/ pipe.write_closed /\ Answer("write", Len(d), -1, <<>>) /\ UNCHANGED pipe
        \/ /\ ~pipe.write_closed /\ k = 0
           /\ Answer("write", Len(d), -11, <<>>) /\ UNCHANGED pipe
        \/ /\ ~pipe.write_closed /\ k > 0
           /\ pipe' = [pipe EXCEPT !.buf = Stored(d, k),
                                   !.write_pos = (@ + k) % PosMod,
                                   !.bytes_available = @ + k]
           /\ Answer("write", Len(d), k, <<>>)

PipeNext ==
    \/ pipe_create \/ pipe_destroy
    \/ close_end("write_closed") \/ close_end("read_closed")
    \/ \E n \in Counts : pipe_read(n)
    \/ \E d \in Buffers : pipe_write(d)

-----------------------------------------------------------------------------
(***************************************************************************)
(* Properties, of every specification that takes these steps (Services).   *)
(***************************************************************************)

\* Every field keeps its type: there are never more bytes than the ring holds.
PipeTypeOK ==
    /\ pipe \in [exists : BOOLEAN, buf : [Cells -> Bytes \cup {Blank}],
                 read_pos : 0 .. PosMod - 1, write_pos : 0 .. PosMod - 1,
                 bytes_available : 0 .. PipeSize,
                 write_closed : BOOLEAN, read_closed : BOOLEAN]
    /\ answer.val \in -11 .. PipeSize

\* The redundant count of pipe_t is the distance of the two positions, also
\* when one of them has wrapped and the other has not.
PositionsAgree ==
    pipe.bytes_available = (pipe.write_pos - pipe.read_pos) % PosMod

\* The ring implements the stream that ipc.h promises: what is read is what
\* was written, in order and once, whatever the sizes of the calls, and end of
\* file comes after the last byte.
Stream == INSTANCE ByteStream
    WITH Capacity <- PipeSize,
         exists  <- pipe.exists,
         ends    <- {e \in {"read", "write"} :
                        ~pipe[IF e = "read" THEN "read_closed" ELSE "write_closed"]},
         content <- [i \in 1 .. pipe.bytes_available |->
                        pipe.buf[(pipe.read_pos + i - 1) % PipeSize]]
StreamSpec == Stream!Spec

=============================================================================
