------------------------------- MODULE Sched --------------------------------
(***************************************************************************)
(* Processes, scheduler and signals (kernel/proc/process.c,                *)
(* kernel/proc/sched.c, signal_send of kernel/ipc/ipc.c) as user processes *)
(* reach them: through int 0x80.  The gate is an interrupt gate, so a      *)
(* system call runs with interrupts off from entry to return or to the     *)
(* context switch inside it: each one is one step here, and so is a timer  *)
(* interrupt.  SchedPreempt has the same code called from kernel threads,  *)
(* where interrupts are on.                                                *)
(*                                                                         *)
(* A process switched out inside sys_exit has the rest of sys_exit before  *)
(* it: inExit holds the processes whose saved context lies there.          *)
(***************************************************************************)
EXTENDS SchedOps

CONSTANTS Priorities,   \* priorities proc_create is called with
          SleepTimes,   \* arguments of sys_sleep, in ticks
          Signals,      \* signal numbers sys_kill is called with
          CreateUntil,  \* bound: last tick at which a process is created
          MaxTick       \* bound: timer interrupts in a behaviour

ASSUME SchedAssumption ==
    /\ Priorities \subseteq 0 .. 255
    /\ SleepTimes \subseteq Nat
    /\ CreateUntil \in Nat
    /\ MaxTick \in Nat

VARIABLES state,          \* process_t.state, "FREE" for a null slot
          vruntime,       \* process_t.vruntime
          priority,       \* process_t.priority
          runtime_ticks,  \* process_t.runtime_ticks
          sleep_until,    \* process_t.sleep_until
          queue,          \* g_runqueue.head .. tail
          current,        \* g_runqueue.current
          tick,           \* g_runqueue.tick
          inExit,         \* processes switched out inside sys_exit
          exited,         \* processes proc_exit was called for (history)
          panicked        \* kernel_panic was reached

vars == <<state, vruntime, priority, runtime_ticks, sleep_until, queue,
          current, tick, inExit, exited, panicked>>

\* What no operation but proc_create and the timer interrupt writes.
accounting == <<vruntime, priority, runtime_ticks, tick>>

\* proc_init, then sched_init: only the idle process, READY and current.
Init ==
    /\ state = [p \in Pids |-> IF p = Idle THEN "READY" ELSE "FREE"]
    /\ vruntime = [p \in Pids |-> 0]
    /\ priority = [p \in Pids |-> IF p = Idle THEN 255 ELSE 0]
    /\ runtime_ticks = [p \in Pids |-> 0]
    /\ sleep_until = [p \in Pids |-> 0]
    /\ queue = <<>>
    /\ current = Idle
    /\ tick = 0
    /\ inExit = {}
    /\ exited = {}
    /\ panicked = FALSE

-----------------------------------------------------------------------------
(***************************************************************************)
(* Process creation.                                                       *)
(***************************************************************************)

\* The slot the search of proc_create finds: the lowest null one from 1 up.
FreeSlots == {p \in Pids \ {Idle} : state[p] = "FREE"}

\* Fault: sched_add makes the new process the head and drops the list.
spawn_drops_list(prio) ==
    /\ FreeSlots # {}
    /\ LET pid == CHOOSE p \in FreeSlots : \A q \in FreeSlots : p <= q
       IN  /\ state' = [state EXCEPT ![pid] = "READY"]
           /\ priority' = [priority EXCEPT ![pid] = prio]
           /\ queue' = <<pid>>
    /\ UNCHANGED <<vruntime, runtime_ticks, sleep_until, current, tick,
                   inExit, exited, panicked>>

\* proc_create with a free slot, and the sched_add that both of its callers
\* (kmain, start_service) make next.
spawn(prio) ==
    /\ FreeSlots # {}
    /\ LET pid == CHOOSE p \in FreeSlots : \A q \in FreeSlots : p <= q
       IN  /\ state' = [state EXCEPT ![pid] = "READY"]
           /\ priority' = [priority EXCEPT ![pid] = prio]
           /\ queue' = Append(queue, pid)
    /\ UNCHANGED <<vruntime, runtime_ticks, sleep_until, current, tick,
                   inExit, exited, panicked>>

\* proc_create with every slot taken: pid_t is a uint32_t, so pid keeps the
\* value (uint32_t)-1, "pid < 0" is false, and the function goes on to store
\* into proc_table[0xFFFFFFFF], 32 GiB past the table: a page fault.
spawn_no_slot ==
    /\ FreeSlots = {}
    /\ panicked' = TRUE
    /\ UNCHANGED <<state, vruntime, priority, runtime_ticks, sleep_until,
                   queue, current, tick, inExit, exited>>

-----------------------------------------------------------------------------
(***************************************************************************)
(* The scheduler.                                                          *)
(***************************************************************************)

\* g_runqueue.current = next; next->state = RUNNING; context_switch, unless
\* the process chosen is the one that is running, whose state then stays.
switch_to(next, st) ==
    IF next = current
    THEN state' = st /\ current' = current
    ELSE state' = [st EXCEPT ![next] = "RUNNING"] /\ current' = next

\* Fault: sched_yield leaves the state of the caller as it is.
yield_from_running(st) == switch_to(pick_next(queue, st, vruntime), st)

\* Fault: the successor is chosen before the caller is READY again.
yield_from_late(st) ==
    switch_to(pick_next(queue, st, vruntime), [st EXCEPT ![current] = "READY"])

\* sched_yield called in a state where the processes have states st.
yield_from(st) ==
    LET ready == [st EXCEPT ![current] = "READY"]
    IN  switch_to(pick_next(queue, ready, vruntime), ready)

\* sched_tick, from pit_irq_handler.
sched_tick ==
    /\ tick < MaxTick
    /\ tick' = tick + 1
    /\ runtime_ticks' = [runtime_ticks EXCEPT ![current] = @ + 1]
    /\ vruntime' = [vruntime EXCEPT ![current] = Charge(@, priority[current])]
    /\ LET woken == Woken(queue, state, sleep_until, tick + 1)
           ready == Preempted(woken, current)
       IN  IF runtime_ticks'[current] % Quantum = 0
           THEN switch_to(pick_next(queue, ready, vruntime'), ready)
           ELSE state' = woken /\ current' = current
    /\ UNCHANGED <<priority, sleep_until, queue, inExit, exited, panicked>>

-----------------------------------------------------------------------------
(***************************************************************************)
(* System calls of the current process.                                    *)
(***************************************************************************)

sys_yield ==
    /\ yield_from(state)
    /\ UNCHANGED <<accounting, sleep_until, queue, inExit, exited, panicked>>

\* sched_sleep: SLEEPING and the wake-up tick, then sched_yield.
sys_sleep(ms) ==
    /\ sleep_until' = [sleep_until EXCEPT ![current] = tick + ms]
    /\ yield_from([state EXCEPT ![current] = "SLEEPING"])
    /\ UNCHANGED <<accounting, queue, inExit, exited, panicked>>

\* proc_exit(p), as the current process runs it.
proc_exit(p) ==
    /\ exited' = exited \cup {p}
    /\ yield_from([state EXCEPT ![p] = "ZOMBIE"])

\* sys_exit up to the return of proc_exit.
sys_exit ==
    /\ proc_exit(current)
    /\ inExit' = inExit \cup {current}
    /\ UNCHANGED <<accounting, sleep_until, queue, panicked>>

\* sys_exit after proc_exit has returned: sched_yield again, then return 0.
sys_exit_rest ==
    /\ current \in inExit
    /\ inExit' = inExit \ {current}
    /\ yield_from(state)
    /\ UNCHANGED <<accounting, sleep_until, queue, exited, panicked>>

\* signal_send for a pid that proc_get finds; any other signal is only logged.
signal_send(p, sig) ==
    \/ /\ sig \in {"SIGKILL", "SIGTERM"}
       /\ proc_exit(p)
    \/ /\ sig = "SIGSTOP"
       /\ state' = [state EXCEPT ![p] = "BLOCKED"]
       /\ UNCHANGED <<current, exited>>
    \/ /\ sig = "SIGCONT"
       /\ state' = [state EXCEPT ![p] = IF @ = "BLOCKED" THEN "READY" ELSE @]
       /\ UNCHANGED <<current, exited>>

sys_kill(p, sig) ==
    /\ state[p] # "FREE"
    /\ signal_send(p, sig)
    /\ UNCHANGED <<accounting, sleep_until, queue, inExit, panicked>>

\* Nothing interrupts or precedes the rest of a sys_exit; the idle process
\* makes no call, except that kmain creates init while pid 0 is current.
Syscall ==
    /\ current # Idle
    /\ current \notin inExit
    /\ \/ sys_yield
       \/ \E ms \in SleepTimes : sys_sleep(ms)
       \/ sys_exit
       \/ \E p \in Pids, sig \in Signals : sys_kill(p, sig)

Create ==
    /\ current \notin inExit
    /\ current = Idle => queue = <<>>
    /\ tick <= CreateUntil
    /\ \/ \E prio \in Priorities : spawn(prio)
       \/ spawn_no_slot

Timer == current \notin inExit /\ queue # <<>> /\ sched_tick

Next ==
    /\ ~panicked
    /\ Create \/ Syscall \/ sys_exit_rest \/ Timer

Spec == Init /\ [][Next]_vars

-----------------------------------------------------------------------------
(***************************************************************************)
(* Properties.                                                             *)
(***************************************************************************)

Range(s) == {s[i] : i \in 1 .. Len(s)}

\* The processes that exist and may be given the CPU by pick_next.
Created == {p \in Pids \ {Idle} : state[p] # "FREE"}

\* Every field keeps the type its C declaration gives it.
TypeOK ==
    /\ state \in [Pids -> States]
    /\ vruntime \in [Pids -> 0 .. VrMod - 1]
    /\ priority \in [Pids -> 0 .. 255]
    /\ runtime_ticks \in [Pids -> Nat]
    /\ sleep_until \in [Pids -> Nat]
    /\ queue \in Seq(Pids \ {Idle})
    /\ current \in Pids
    /\ tick \in Nat
    /\ inExit \subseteq Pids
    /\ exited \subseteq Pids
    /\ panicked \in BOOLEAN

\* At most one process is RUNNING, and it is g_runqueue.current: no path
\* through yield, sleep, exit, kill or the tick leaves a second one behind.
RunningIsCurrent == \A p \in Pids : state[p] = "RUNNING" => p = current

\* No process is lost or listed twice: the run queue holds each process that
\* was created, once, whatever its state, and never the idle process.
QueueExact ==
    /\ Range(queue) = Created
    /\ \A i, j \in 1 .. Len(queue) : queue[i] = queue[j] => i = j

\* The CPU is handed to the idle process only when no process on the run
\* queue could use it (pick_next's two fallbacks to proc_get(0)).
IdleIsLastResort ==
    [][current' = Idle /\ current # Idle
          => \A p \in Created : state'[p] # "READY"]_vars

\* A process another one has killed is never dispatched (proc_exit "exited
\* with code"), and only a SIGSTOP, which signal_send stores over any state,
\* makes it something else than a zombie.
KilledStaysDead ==
    [][\A p \in Pids \ {Idle} :
          state[p] = "ZOMBIE"
             => /\ current' # p
                /\ state'[p] = "ZOMBIE" \/ sys_kill(p, "SIGSTOP")]_vars

\* "lowest vruntime" of pick_next: on whichever of its paths the CPU changes
\* hands, no process that is READY has a smaller vruntime than the one that
\* gets it.  Once the 32-bit counter of one has wrapped that is no longer who
\* has run least, but the choice still follows what is stored.
LeastServedFirst ==
    [][current' # current /\ current' # Idle
          => \A q \in Created : state'[q] = "READY"
                                  => vruntime'[current'] <= vruntime'[q]]_vars

\* sched_sleep "Sleep current process", proc_exit "exited with code": whoever
\* gives up the CPU, until a tick or for good, does not have it meanwhile.
StaysOffCpu == current \notin exited /\ tick >= sleep_until[current]

=============================================================================
