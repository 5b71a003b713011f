------------------------------ MODULE SchedOps ------------------------------
(***************************************************************************)
(* The pure part of kernel/proc/sched.c: process states, pid 0, the weight *)
(* a tick charges, the choice pick_next makes and the wake-up scan of      *)
(* sched_tick.  Sched, SchedPreempt and Kernel build their steps from it.  *)
(*                                                                         *)
(* The run queue is the sequence of pids met when the list is walked from  *)
(* head along next.  A free slot of proc_table is a pid in state "FREE".   *)
(***************************************************************************)
EXTENDS Integers, Sequences, FiniteSets

CONSTANTS MaxProcesses,   \* slots of proc_table, 1024 in process.h
          Quantum,        \* SCHED_DEFAULT_QUANTUM
          VrMod           \* vruntime is a uint32_t: 2^32 in the code

ASSUME SchedOpsAssumption ==
    /\ MaxProcesses \in Nat \ {0}
    /\ Quantum \in Nat \ {0}
    /\ VrMod \in Nat \ {0}

Pids == 0 .. MaxProcesses - 1

\* The process proc_init builds by hand; it is never put on the run queue.
Idle == 0

States == {"FREE", "READY", "RUNNING", "BLOCKED", "SLEEPING", "ZOMBIE"}

\* current->vruntime += (255 - current->priority + 1), in 32 bits.
Charge(vr, prio) == (vr + (255 - prio + 1)) % VrMod

\* Fault: whatever does not wait counts as ready, zombies included.
ReadyAt_lax(queue, state) ==
    {i \in 1 .. Len(queue) : state[queue[i]] \in {"READY", "ZOMBIE"}}

ReadyAt(queue, state) == {i \in 1 .. Len(queue) : state[queue[i]] = "READY"}

\* Fault: the first READY process is taken, whatever its vruntime.
pick_next_first(queue, state, vruntime) ==
    LET ready == ReadyAt(queue, state)
    IN  IF ready = {} THEN Idle
        ELSE queue[CHOOSE i \in ready : \A j \in ready : i <= j]

\* pick_next: of the READY processes on the queue one of least vruntime, the
\* one nearest to the head among equals; the idle process when there is none.
pick_next(queue, state, vruntime) ==
    LET ready == ReadyAt(queue, state)
        least == {i \in ready : \A j \in ready :
                                   vruntime[queue[i]] <= vruntime[queue[j]]}
    IN  IF ready = {} THEN Idle
        ELSE queue[CHOOSE i \in least : \A j \in least : i <= j]

\* The "Wake sleeping processes" loop: it sees only processes on the queue.
Woken(queue, state, sleep_until, now) ==
    [p \in Pids |->
        IF /\ state[p] = "SLEEPING"
           /\ now >= sleep_until[p]
           /\ \E i \in 1 .. Len(queue) : queue[i] = p
        THEN "READY" ELSE state[p]]

\* Fault: the process whose slice is over stays RUNNING.
Preempted_dropped(state, p) == state

\* A process whose slice is over gives up RUNNING, and only RUNNING.
Preempted(state, p) ==
    [state EXCEPT ![p] = IF @ = "RUNNING" THEN "READY" ELSE @]

=============================================================================
