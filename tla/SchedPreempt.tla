---------------------------- MODULE SchedPreempt ----------------------------
(***************************************************************************)
(* The scheduler as kernel threads use it.  init, heroshell and heroserved *)
(* call sched_yield, sched_sleep and proc_exit as plain C functions with   *)
(* interrupts on (rflags 0x202), so a timer interrupt may fall between any *)
(* two stores of those functions.  The handler itself runs with interrupts *)
(* off.  A tick may arrive here whenever interrupts are on, and nothing    *)
(* says that one ever does: Kernel adds the interrupt controller.          *)
(*                                                                         *)
(* cpu is what the processor executes: the thread whose stack it is on,    *)
(* the place in that thread's code, the local variable next of sched_yield *)
(* and whether the thread is inside the interrupt handler.  ctx[p] is the  *)
(* same, as context_switch saved it in p->context.                         *)
(*                                                                         *)
(* Counters are kept as what the code compares: runtime_ticks modulo the   *)
(* quantum, and sleep_until as the ticks still to go.                      *)
(***************************************************************************)
EXTENDS SchedOps

CONSTANTS ThreadPriority,  \* proc_create_kernel_thread passes 10
          SleepTicks       \* argument of sched_sleep

\* init is pid 1: the table has a slot for it.
ASSUME SchedPreemptAssumption ==
    /\ MaxProcesses > 1
    /\ ThreadPriority \in 0 .. 255
    /\ SleepTicks \in Nat

VARIABLES state, vruntime, slice, sleep_left, queue, current, ctx, cpu

vars == <<state, vruntime, slice, sleep_left, queue, current, ctx, cpu>>

\* Places: in the thread's own code, or about to execute the named statement.
Places == {"run", "sleep_until", "yield", "pick", "publish", "running",
           "switch"}

\* The context proc_create prepares: the entry point, interrupts on.
Fresh(p) == [thr |-> p, pc |-> "run", nxt |-> Idle, irq |-> FALSE]

priority == [p \in Pids |-> IF p = Idle THEN 255 ELSE ThreadPriority]

\* After kmain: init is on the run queue, the boot code has become idle.
Init ==
    /\ state = [p \in Pids |-> IF p \in {Idle, 1} THEN "READY" ELSE "FREE"]
    /\ vruntime = [p \in Pids |-> 0]
    /\ slice = [p \in Pids |-> 0]
    /\ sleep_left = [p \in Pids |-> 0]
    /\ queue = <<1>>
    /\ current = Idle
    /\ ctx = [p \in Pids |-> Fresh(p)]
    /\ cpu = Fresh(Idle)

-----------------------------------------------------------------------------
(***************************************************************************)
(* Thread code, interrupts on.                                             *)
(***************************************************************************)

At(places) == ~cpu.irq /\ cpu.thr # Idle /\ cpu.pc \in places
Goto(pc) == cpu' = [cpu EXCEPT !.pc = pc]

\* start_service, run by init only: proc_create_kernel_thread and sched_add.
start_service ==
    /\ At({"run"}) /\ cpu.thr = 1
    /\ \E p \in Pids :
          /\ state[p] = "FREE"
          /\ \A q \in 0 .. p - 1 : state[q] # "FREE"
          /\ state' = [state EXCEPT ![p] = "READY"]
          /\ queue' = Append(queue, p)
    /\ UNCHANGED <<vruntime, slice, sleep_left, current, ctx, cpu>>

\* sched_sleep: current->state = PROC_SLEEPING ...
sleep_state ==
    /\ At({"run"})
    /\ state' = [state EXCEPT ![current] = "SLEEPING"]
    /\ Goto("sleep_until")
    /\ UNCHANGED <<vruntime, slice, sleep_left, queue, current, ctx>>

\* ... current->sleep_until = g_runqueue.tick + ms, then sched_yield().
sleep_deadline ==
    /\ At({"sleep_until"})
    /\ sleep_left' = [sleep_left EXCEPT ![current] = SleepTicks]
    /\ Goto("yield")
    /\ UNCHANGED <<state, vruntime, slice, queue, current, ctx>>

\* proc_exit(p): p->state = PROC_ZOMBIE, then sched_yield().
exit_state(p) ==
    /\ At({"run"})
    /\ p # Idle /\ state[p] # "FREE"
    /\ state' = [state EXCEPT ![p] = "ZOMBIE"]
    /\ Goto("yield")
    /\ UNCHANGED <<vruntime, slice, sleep_left, queue, current, ctx>>

\* Fault: a caller that is not RUNNING keeps its state, as in sched_tick.
yield_ready_keeps ==
    /\ At({"run", "yield"})
    /\ state' = [state EXCEPT ![current] = IF @ = "RUNNING" THEN "READY" ELSE @]
    /\ Goto("pick")
    /\ UNCHANGED <<vruntime, slice, sleep_left, queue, current, ctx>>

\* sched_yield: current->state = PROC_READY.
yield_ready ==
    /\ At({"run", "yield"})
    /\ state' = [state EXCEPT ![current] = "READY"]
    /\ Goto("pick")
    /\ UNCHANGED <<vruntime, slice, sleep_left, queue, current, ctx>>

\* next = pick_next(); return if next is the caller.
yield_pick ==
    /\ At({"pick"})
    /\ LET next == pick_next(queue, state, vruntime)
       IN  cpu' = IF next = current
                  THEN [cpu EXCEPT !.pc = "run"]
                  ELSE [cpu EXCEPT !.pc = "publish", !.nxt = next]
    /\ UNCHANGED <<state, vruntime, slice, sleep_left, queue, current, ctx>>

\* Fault: g_runqueue.current keeps naming the process that gives way.
yield_publish_dropped ==
    /\ At({"publish"})
    /\ Goto("running")
    /\ UNCHANGED <<state, vruntime, slice, sleep_left, queue, current, ctx>>

\* g_runqueue.current = next.
yield_publish ==
    /\ At({"publish"})
    /\ current' = cpu.nxt
    /\ Goto("running")
    /\ UNCHANGED <<state, vruntime, slice, sleep_left, queue, ctx>>

\* next->state = PROC_RUNNING.
yield_running ==
    /\ At({"running"})
    /\ state' = [state EXCEPT ![cpu.nxt] = "RUNNING"]
    /\ Goto("switch")
    /\ UNCHANGED <<vruntime, slice, sleep_left, queue, current, ctx>>

\* context_switch(&old->context, &new->context): save what is executing with
\* pc as the place to go on, load what was saved for the other.
context_switch(old, new, saved) ==
    /\ ctx' = [ctx EXCEPT ![old] = saved]
    /\ cpu' = ctx[new]

yield_switch ==
    /\ At({"switch"})
    /\ context_switch(cpu.thr, cpu.nxt, Fresh(cpu.thr))
    /\ UNCHANGED <<state, vruntime, slice, sleep_left, queue, current>>

-----------------------------------------------------------------------------
(***************************************************************************)
(* The timer interrupt.                                                    *)
(***************************************************************************)

\* sched_tick, from pit_irq_handler.
sched_tick ==
    /\ ~cpu.irq
    /\ vruntime' = [vruntime EXCEPT ![current] = Charge(@, priority[current])]
    /\ slice' = [slice EXCEPT ![current] = (@ + 1) % Quantum]
    /\ sleep_left' = [p \in Pids |-> IF sleep_left[p] = 0 THEN 0
                                     ELSE sleep_left[p] - 1]
    /\ LET woken == Woken(queue, state, sleep_left', 0)
           ready == Preempted(woken, current)
           next  == pick_next(queue, ready, vruntime')
       IN  IF slice'[current] # 0 \/ next = current
           THEN /\ state' = IF slice'[current] # 0 THEN woken ELSE ready
                /\ UNCHANGED <<current, ctx, cpu>>
           ELSE /\ state' = [ready EXCEPT ![next] = "RUNNING"]
                /\ current' = next
                /\ context_switch(current, next, [cpu EXCEPT !.irq = TRUE])
    /\ UNCHANGED queue

\* A thread preempted in the handler runs to its end: pic_send_eoi, iretq.
irq_return ==
    /\ cpu.irq
    /\ cpu' = [cpu EXCEPT !.irq = FALSE]
    /\ UNCHANGED <<state, vruntime, slice, sleep_left, queue, current, ctx>>

-----------------------------------------------------------------------------

\* What threads do between two ticks.
Thread ==
    \/ start_service
    \/ sleep_state
    \/ sleep_deadline
    \/ \E p \in Pids : exit_state(p)
    \/ yield_ready
    \/ yield_pick
    \/ yield_publish
    \/ yield_running
    \/ yield_switch

\* Each saved context is that of the process it is stored in.
ContextsSound == \A p \in Pids : ctx[p].thr = p

\* Once a context has been overwritten the machine executes on a stale stack
\* and anything may follow: the model ends there.
Next ==
    /\ ContextsSound
    /\ Thread \/ sched_tick \/ irq_return

Spec == Init /\ [][Next]_vars

-----------------------------------------------------------------------------
(***************************************************************************)
(* Properties.                                                             *)
(***************************************************************************)

Conts == [thr : Pids, pc : Places, nxt : Pids, irq : BOOLEAN]

\* Every variable keeps its type.
TypeOK ==
    /\ state \in [Pids -> States]
    /\ vruntime \in [Pids -> 0 .. VrMod - 1]
    /\ slice \in [Pids -> 0 .. Quantum - 1]
    /\ sleep_left \in [Pids -> 0 .. SleepTicks]
    /\ queue \in Seq(Pids \ {Idle})
    /\ current \in Pids
    /\ ctx \in [Pids -> Conts]
    /\ cpu \in Conts

\* g_runqueue.current is the "Currently executing process", but for the few
\* instructions of sched_yield between the store and the context switch.
CurrentOwnsCpu ==
    ContextsSound => \/ cpu.thr = current
                     \/ cpu.pc \in {"running", "switch"} /\ cpu.nxt = current

\* A thread that leaves the CPU is not left RUNNING, which pick_next never
\* chooses, except by one window: from sched_yield's store to current to its
\* switch a tick, or the switch itself after a stale choice, may lose it.  And
\* no tick, wherever it falls, brings a zombie back.
TickLosesNobody ==
    [][/\ cpu'.thr # cpu.thr /\ state'[cpu.thr] = "RUNNING"
             => cpu.pc \in {"running", "switch"}
       /\ sched_tick => \A p \in Pids \ {Idle} :
                           state[p] = "ZOMBIE" => state'[p] = "ZOMBIE"]_vars

=============================================================================
