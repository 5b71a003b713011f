------------------------------- MODULE Kernel -------------------------------
(***************************************************************************)
(* The kernel as it is booted: the preemptible scheduler of SchedPreempt   *)
(* driven by the interrupt controller (arch/x86_64/cpu/idt.c), the timer   *)
(* and the keyboard, and running the threads of userspace/init/init.c.     *)
(*                                                                         *)
(* pic_remap programs the 8259 without automatic end of interrupt, and     *)
(* irq_common_handler sends the EOI after the handler has returned.  While *)
(* IRQ 0 is in service the controller holds back every IRQ line, timer and *)
(* keyboard included.                                                      *)
(***************************************************************************)
EXTENDS SchedPreempt

CONSTANT KbdBufferSize    \* KBD_BUFFER_SIZE

ASSUME KernelAssumption == KbdBufferSize \in Nat \ {0}

VARIABLES inService,      \* IRQ 0 taken by the CPU, EOI not yet written
          kbdRequest,     \* IRQ 1 latched in the controller
          kbdEvents       \* events in the keyboard ring buffer

kvars == <<vars, inService, kbdRequest, kbdEvents>>

KInit ==
    /\ Init
    /\ inService = FALSE
    /\ kbdRequest = FALSE
    /\ kbdEvents = 0

\* Fault: the EOI precedes the handler.
irq_timer_eoi_first ==
    /\ ~inService
    /\ sched_tick
    /\ inService' = FALSE
    /\ UNCHANGED <<kbdRequest, kbdEvents>>

\* IRQ 0: pit_irq_handler calls sched_tick.  If that returns, the EOI follows;
\* if it switches to another thread the EOI waits for this one's return.
irq_timer ==
    /\ ~inService
    /\ sched_tick
    /\ inService' = (cpu' # cpu)
    /\ UNCHANGED <<kbdRequest, kbdEvents>>

\* A key is pressed: the keyboard raises IRQ 1 (external).
key_press ==
    /\ ~kbdRequest
    /\ kbdRequest' = TRUE
    /\ UNCHANGED <<vars, inService, kbdEvents>>

\* IRQ 1: keyboard_irq_handler returns with nothing buffered (a modifier, a
\* release, a prefix, a full ring) or with one event more; then the EOI.
irq_keyboard ==
    /\ kbdRequest /\ ~inService /\ ~cpu.irq
    /\ kbdRequest' = FALSE
    /\ \/ kbdEvents' = kbdEvents
       \/ /\ kbdEvents + 1 < KbdBufferSize
          /\ kbdEvents' = kbdEvents + 1
    /\ UNCHANGED <<vars, inService>>

\* init_main: start the one autostart service, then sched_sleep(100) for ever.
init_main ==
    /\ cpu.thr = 1
    /\ \/ start_service
       \/ state[2] # "FREE" /\ sleep_state
       \/ sleep_deadline
       \/ cpu.pc = "yield" /\ yield_ready

\* Thread code, or the rest of an interrupted handler, which ends in the EOI.
thread_step ==
    /\ init_main \/ yield_pick \/ yield_publish \/ yield_running
          \/ yield_switch \/ irq_return
    /\ inService' = (inService /\ ~cpu.irq)
    /\ UNCHANGED <<kbdRequest, kbdEvents>>

KNext ==
    \/ irq_timer
    \/ key_press
    \/ irq_keyboard
    \/ thread_step

\* Interrupts that are requested and let through are taken, and the thread
\* that has the CPU executes; nobody has to press a key.
KSpec == /\ KInit /\ [][KNext]_kvars
         /\ WF_kvars(irq_timer)
         /\ WF_kvars(irq_keyboard)
         /\ WF_kvars(thread_step)

-----------------------------------------------------------------------------

\* What the boot really leaves: once the first thread has been dispatched, by
\* the tick that interrupted idle, IRQ 0 stays in service, so no timer and no
\* keyboard interrupt is ever taken again; and with no tick under a thread none
\* of the races of SchedPreempt can happen.
TimerHeldByIdle == (current # Idle => inService) /\ ContextsSound

\* No wake-up is lost, for none is needed: a SLEEPING process is still on the
\* CPU, between sched_sleep's store and sched_yield's.  With no tick under a
\* thread, one switched out SLEEPING, or preempted before its deadline is
\* stored, would wait for a wake-up scan that never comes.
SleepersOnCpu == \A p \in Pids : state[p] = "SLEEPING" => cpu.thr = p

\* init.c "Launch HeroShell for the console": the shell gets the CPU.
ShellStarts == <>(cpu.thr = 2)

=============================================================================
