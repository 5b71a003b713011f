------------------------------ MODULE Devices -------------------------------
(***************************************************************************)
(* What the boot sets up for devices: the interrupt descriptor table, the  *)
(* interrupt controller and the handlers of arch/x86_64/cpu/idt.c, and the *)
(* driver registry of drivers/driver.c, a list linked through the drivers  *)
(* themselves.  The drivers are the keyboard, whose probe registers its    *)
(* handler, the framebuffer, whose probe fails if there is none, and one   *)
(* more that has no probe function.                                        *)
(***************************************************************************)
EXTENDS Naturals, Sequences, SequencesExt

VARIABLES gates,              \* vectors with a gate in the IDT
          pic_base,           \* the vector of IRQ 0
          irq_handlers,       \* the handler of each IRQ line
          driver_list_head,
          drv_next,           \* next of each driver_t
          drv_state,          \* state of each driver_t
          g_fb_mem,           \* is there a framebuffer?
          probing,            \* d of drivers_probe_all, "idle" outside it
          registered          \* history: the drivers on the list, newest first

devVars == <<gates, pic_base, irq_handlers, driver_list_head, drv_next, drv_state,
             g_fb_mem, probing, registered>>
regVars == <<driver_list_head, drv_next, drv_state, probing, registered>>

NULL == "NULL"
Drivers == {"keyboard", "framebuffer", "plain"}
Irqs == 0 .. 15
IRQ_BASE == 32
Exceptions == 0 .. 20 \ {9}
Syscall == 128

\* Before kmain: static data, and a controller as the firmware left it.
DevInit ==
    /\ gates = {}
    /\ pic_base = 8
    /\ irq_handlers = [i \in Irqs |-> NULL]
    /\ driver_list_head = NULL
    /\ drv_next = [d \in Drivers |-> NULL]
    /\ drv_state = [d \in Drivers |-> "UNLOADED"]
    /\ g_fb_mem = FALSE
    /\ probing = "idle"
    /\ registered = <<>>

-----------------------------------------------------------------------------
(***************************************************************************)
(* idt.c and pit.c                                                         *)
(***************************************************************************)

\* Empty both tables, remap the controller, install the gates.
idt_init ==
    /\ gates' = Exceptions \cup {Syscall} \cup {IRQ_BASE + i : i \in Irqs}
    /\ irq_handlers' = [i \in Irqs |-> NULL]
    /\ pic_base' = IRQ_BASE
    /\ UNCHANGED <<regVars, g_fb_mem>>

irq_register_handler(irq, handler) ==
    irq_handlers' = [irq_handlers EXCEPT ![irq] = handler]

pit_init ==
    /\ irq_register_handler(0, "pit_irq_handler")
    /\ UNCHANGED <<gates, pic_base, regVars, g_fb_mem>>

\* The framebuffer the loader describes, or none.
fb_init(present) ==
    /\ g_fb_mem' = present
    /\ UNCHANGED <<gates, pic_base, irq_handlers, regVars>>

-----------------------------------------------------------------------------
(***************************************************************************)
(* driver.c                                                                *)
(***************************************************************************)

\* Fault: the new driver takes the head's successor along and drops the head.
driver_register_skip(drv) ==
    /\ drv_next' = [drv_next EXCEPT ![drv] = IF driver_list_head = NULL THEN NULL
                                             ELSE drv_next[driver_list_head]]
    /\ driver_list_head' = drv
    /\ registered' = <<drv>> \o registered
    /\ UNCHANGED <<drv_state, probing, gates, pic_base, irq_handlers, g_fb_mem>>

\* Nothing stops a second registration, which would tie the list into a loop;
\* no caller makes one.
driver_register(drv) ==
    /\ drv_next' = [drv_next EXCEPT ![drv] = driver_list_head]
    /\ driver_list_head' = drv
    /\ registered' = <<drv>> \o registered
    /\ UNCHANGED <<drv_state, probing, gates, pic_base, irq_handlers, g_fb_mem>>

\* The pointer to drv is made to skip it; its own fields stay.  Every driver
\* that is on the list has one predecessor there, or the head.
driver_unregister(drv) ==
    /\ IF driver_list_head = drv
       THEN driver_list_head' = drv_next[drv] /\ UNCHANGED drv_next
       ELSE /\ \E p \in Range(registered) :
                  drv_next[p] = drv /\ drv_next' = [drv_next EXCEPT ![p] = drv_next[drv]]
            /\ UNCHANGED driver_list_head
    /\ \E i \in DOMAIN registered :
          registered[i] = drv /\ registered' = RemoveAt(registered, i)
    /\ UNCHANGED <<drv_state, probing, gates, pic_base, irq_handlers, g_fb_mem>>

\* drivers_probe_all begins at the head.
probe_begin ==
    /\ probing = "idle"
    /\ probing' = driver_list_head
    /\ UNCHANGED <<driver_list_head, drv_next, drv_state, registered, gates,
                   pic_base, irq_handlers, g_fb_mem>>

\* keyboard_probe and fb_probe; a driver without a probe is ready.
ProbeSucceeds(drv) == drv = "framebuffer" => g_fb_mem

\* Fault: the first driver that fails ends the loop.
probe_next_abort ==
    LET d == probing
    IN  /\ d \in Drivers
        /\ drv_state' = [drv_state EXCEPT ![d] = IF ProbeSucceeds(d) THEN "RUNNING" ELSE "ERROR"]
        /\ IF d = "keyboard" THEN irq_register_handler(1, "keyboard_irq_handler")
           ELSE UNCHANGED irq_handlers
        /\ probing' = IF ProbeSucceeds(d) THEN drv_next[d] ELSE NULL
        /\ UNCHANGED <<driver_list_head, drv_next, registered, gates, pic_base, g_fb_mem>>

\* Fault: a driver that fails is tried again.
probe_next_retry ==
    LET d == probing
    IN  /\ d \in Drivers
        /\ drv_state' = [drv_state EXCEPT ![d] = IF ProbeSucceeds(d) THEN "RUNNING" ELSE "ERROR"]
        /\ IF d = "keyboard" THEN irq_register_handler(1, "keyboard_irq_handler")
           ELSE UNCHANGED irq_handlers
        /\ probing' = IF ProbeSucceeds(d) THEN drv_next[d] ELSE d
        /\ UNCHANGED <<driver_list_head, drv_next, registered, gates, pic_base, g_fb_mem>>

\* One round of the loop.
probe_next ==
    LET d == probing
    IN  /\ d \in Drivers
        /\ drv_state' = [drv_state EXCEPT ![d] = IF ProbeSucceeds(d) THEN "RUNNING" ELSE "ERROR"]
        /\ IF d = "keyboard" THEN irq_register_handler(1, "keyboard_irq_handler")
           ELSE UNCHANGED irq_handlers
        /\ probing' = drv_next[d]
        /\ UNCHANGED <<driver_list_head, drv_next, registered, gates, pic_base, g_fb_mem>>

probe_end ==
    /\ probing = NULL
    /\ probing' = "idle"
    /\ UNCHANGED <<driver_list_head, drv_next, drv_state, registered, gates,
                   pic_base, irq_handlers, g_fb_mem>>

\* Code that registers and removes drivers and probes again.
registry_call ==
    \/ probe_begin \/ probe_next \/ probe_end
    \/ /\ probing = "idle"
       /\ \/ \E d \in Drivers \ Range(registered) : driver_register(d)
          \/ \E d \in Range(registered) : driver_unregister(d)

-----------------------------------------------------------------------------

\* The list as the loops of driver.c walk it: d = d->next until d is null.
Follow(d) == IF d = NULL THEN NULL ELSE drv_next[d]
Walk == <<driver_list_head, Follow(driver_list_head),
          Follow(Follow(driver_list_head)),
          Follow(Follow(Follow(driver_list_head)))>>

\* The n-th driver of the list as it was built up, newest first.
Entry(n) == IF n <= Len(registered) THEN registered[n] ELSE NULL

\* Through any registrations and removals the walk meets every driver that is
\* registered, once, newest first, and ends.
RegistryIsList == \A n \in 1 .. 4 : Walk[n] = Entry(n)

\* When drivers_probe_all returns, one driver's failure has not kept another
\* from being probed, and a keyboard that is RUNNING has its handler in place.
ProbeReachesAll ==
    [][probe_end => /\ \A d \in Range(registered) :
                          drv_state[d] = IF d = "framebuffer" /\ ~g_fb_mem
                                         THEN "ERROR" ELSE "RUNNING"
                    /\ "keyboard" \in Range(registered)
                          => irq_handlers[1] = "keyboard_irq_handler"]_devVars

=============================================================================
