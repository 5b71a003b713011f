-------------------------------- MODULE Boot --------------------------------
(***************************************************************************)
(* kmain, from the first instruction: it sets up the interrupt tables, the *)
(* timer, the drivers and the scheduler, creates init and switches the     *)
(* interrupts on, after which the machine is that of module Kernel.  Keys  *)
(* may be pressed at any time; the controller keeps the request.           *)
(*                                                                         *)
(* The memory managers and the file system are modules of their own; here  *)
(* they appear as places where kmain gives up.                             *)
(***************************************************************************)
EXTENDS Kernel, Devices

CONSTANT Tags        \* the tag lists a loader may hand over, as types

VARIABLES boot,      \* the step of kmain that comes next
          tags       \* the tag list of this boot

bvars == <<kvars, devVars, boot, tags>>

\* Fault: the timer is set up before the tables are emptied.
Steps_early_timer ==
         <<"pit_init", "idt_init", "kheap_init", "rootfs",
           "keyboard_driver_register", "framebuffer_driver_register", "fb_init",
           "drivers_probe_all", "probing", "proc_init", "sched_init", "create_init",
           "sched_add", "irq_enable", "idle">>

Steps == <<"idt_init", "kheap_init", "pit_init", "rootfs",
           "keyboard_driver_register", "framebuffer_driver_register", "fb_init",
           "drivers_probe_all", "probing", "proc_init", "sched_init", "create_init",
           "sched_add", "irq_enable", "idle">>

InterruptsOn == boot = "idle"
EndTag == 0
MB2_TAG_FRAMEBUFFER == 8

\* A tag of the type comes before the end of the list.
mb2_find_tag(type) ==
    \E i \in DOMAIN tags :
       tags[i] = type /\ \A j \in 1 .. i - 1 : tags[j] # EndTag

\* The bss is zero: no process, nobody on the run queue.
BootInit ==
    /\ state = [p \in Pids |-> "FREE"]
    /\ vruntime = [p \in Pids |-> 0]
    /\ slice = [p \in Pids |-> 0]
    /\ sleep_left = [p \in Pids |-> 0]
    /\ queue = <<>>
    /\ current = Idle
    /\ ctx = [p \in Pids |-> Fresh(p)]
    /\ cpu = Fresh(Idle)
    /\ inService = FALSE /\ kbdRequest = FALSE /\ kbdEvents = 0
    /\ DevInit
    /\ boot = Steps[1]
    /\ tags \in Tags

\* The end of a step of kmain.
Done == boot' = Steps[1 + CHOOSE i \in 1 .. Len(Steps) - 1 : Steps[i] = boot]

\* A step that allocates succeeds or ends in kernel_panic.
DoneOrPanic == Done \/ boot' = "panic"

untouched == <<vruntime, slice, sleep_left, ctx, cpu, inService, kbdRequest, kbdEvents>>

device_step ==
    /\ \/ boot = "idt_init" /\ idt_init /\ Done
       \/ boot = "pit_init" /\ pit_init /\ Done
       \/ boot \in {"kheap_init", "rootfs"} /\ UNCHANGED devVars /\ DoneOrPanic
       \/ boot = "keyboard_driver_register" /\ driver_register("keyboard") /\ Done
       \/ boot = "framebuffer_driver_register" /\ driver_register("framebuffer") /\ Done
       \/ /\ boot = "fb_init" /\ Done
          /\ \E addr \in BOOLEAN : fb_init(mb2_find_tag(MB2_TAG_FRAMEBUFFER) /\ addr)
       \/ boot = "drivers_probe_all" /\ probe_begin /\ Done
       \/ boot = "probing" /\ probe_next /\ UNCHANGED boot
       \/ boot = "probing" /\ probe_end /\ Done
    /\ UNCHANGED <<state, queue, current>>

sched_step ==
    /\ \/ /\ boot = "proc_init" /\ Done
          /\ state' = [p \in Pids |-> IF p = Idle THEN "READY" ELSE "FREE"]
          /\ UNCHANGED <<queue, current>>
       \/ /\ boot = "sched_init" /\ Done
          /\ queue' = <<>> /\ current' = Idle
          /\ UNCHANGED state
       \/ /\ boot = "create_init" /\ DoneOrPanic
          /\ state' = IF boot' = "panic" THEN state ELSE [state EXCEPT ![1] = "READY"]
          /\ UNCHANGED <<queue, current>>
       \/ /\ boot = "sched_add" /\ Done
          /\ queue' = Append(queue, 1)
          /\ UNCHANGED <<state, current>>
       \/ /\ boot = "irq_enable" /\ Done
          /\ UNCHANGED <<state, queue, current>>
    /\ UNCHANGED devVars

kmain == (device_step \/ sched_step) /\ UNCHANGED <<untouched, tags>>

\* kernel_panic: interrupts off, hlt for ever.
kernel_panic == boot = "panic" /\ UNCHANGED bvars

\* Interrupts and threads, once interrupts are on.  irq_common_handler calls
\* whatever handler the line has.  A thread may call the driver registry.
irq_0 == irq_handlers[0] = "pit_irq_handler" /\ irq_timer
irq_1 == irq_handlers[1] = "keyboard_irq_handler" /\ irq_keyboard

Running ==
    /\ InterruptsOn
    /\ \/ (irq_0 \/ irq_1) /\ UNCHANGED devVars
       \/ probing = "idle" /\ thread_step /\ UNCHANGED devVars
       \/ At({"run"}) /\ registry_call /\ UNCHANGED kvars

BootNext ==
    \/ kmain
    \/ kernel_panic
    \/ key_press /\ UNCHANGED <<devVars, boot, tags>>
    \/ Running /\ UNCHANGED <<boot, tags>>

\* kmain runs on; then as in KSpec.
BootSpec ==
    /\ BootInit /\ [][BootNext]_bvars
    /\ WF_bvars(kmain)
    /\ WF_bvars(Running /\ irq_timer /\ UNCHANGED <<boot, tags>>)
    /\ WF_bvars(Running /\ irq_keyboard /\ UNCHANGED <<boot, tags>>)
    /\ WF_bvars(Running /\ thread_step /\ UNCHANGED <<boot, tags>>)

-----------------------------------------------------------------------------

\* The order of kmain holds together: idt_init empties the handlers, so the
\* timer and the keyboard must come after it, and all of it, with the
\* scheduler, before the interrupts.  When these are on every line has a gate
\* behind the remapped controller, timer and keyboard have their handlers, and
\* a process waits on the run queue for the tick.
BootOrder ==
    InterruptsOn =>
       /\ \A i \in Irqs : pic_base + i \in gates \ Exceptions
       /\ irq_handlers[0] = "pit_irq_handler"
       /\ irq_handlers[1] = "keyboard_irq_handler"
       /\ state[Idle] # "FREE" /\ state[1] # "FREE" /\ Range(queue) # {}

\* kmain's "scheduler takes over via PIT IRQ": unless memory runs out during
\* the boot, init gets the CPU; no list and no loop holds the boot up.
BootStartsInit == <>(cpu.thr = 1 \/ boot = "panic")

=============================================================================
