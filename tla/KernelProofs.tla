---------------------------- MODULE KernelProofs ----------------------------
(***************************************************************************)
(* The scheduler under kernel threads, and the kernel as it is booted, for *)
(* every number of processes, quantum, priority, sleep and loader.         *)
(***************************************************************************)
EXTENDS Boot, WellFoundedInduction, TLAPS

(***************************************************************************)
(* What the scheduler's operators return.                                  *)
(***************************************************************************)

\* A non-empty set of naturals has a least element.
LEMMA NatMinimum ==
    ASSUME NEW S \in SUBSET Nat, S # {}
    PROVE  \E x \in S : \A y \in S : x <= y
<1>1. PICK x \in S : \A y \in S : ~(<<y, x>> \in OpToRel(<, Nat))
  BY NatLessThanWellFounded, WFMin, Zenon
<1>2. ASSUME NEW y \in S
      PROVE  ~(y < x)
  <2>1. <<y, x>> \in Nat \X Nat
    OBVIOUS
  <2>2. y < x => <<y, x>> \in OpToRel(<, Nat)
    BY <2>1, Zenon DEF OpToRel
  <2> QED
    BY <1>1, <2>2
<1> QED
  BY <1>2

\* pid 0 and pid 1 are slots of the table.
LEMMA SlotPids == Idle \in Pids /\ 1 \in Pids /\ Idle # 1
  BY SchedOpsAssumption, SchedPreemptAssumption DEF Idle, Pids

\* pick_next returns idle or a READY process of the queue.
LEMMA PickNextIsReady ==
    ASSUME NEW q \in Seq(Pids \ {Idle}), NEW st, NEW vr \in [Pids -> Nat]
    PROVE  /\ pick_next(q, st, vr) \in Pids
           /\ \/ pick_next(q, st, vr) = Idle
              \/ st[pick_next(q, st, vr)] = "READY"
<1> DEFINE ready == ReadyAt(q, st)
           least == {i \in ready : \A j \in ready : vr[q[i]] <= vr[q[j]]}
           V == {vr[q[i]] : i \in ready}
           m == CHOOSE i \in least : \A j \in least : i <= j
<1>1. CASE ready = {}
  BY <1>1, SlotPids DEF pick_next
<1>2. CASE ready # {}
  <2>1. ready \in SUBSET (1 .. Len(q)) /\ Len(q) \in Nat
    BY DEF ReadyAt
  <2>2. V \in SUBSET Nat /\ V # {}
    BY <1>2, <2>1
  <2>3. PICK v \in V : \A w \in V : v <= w
    <3> HIDE DEF V
    <3> QED
      BY <2>2, NatMinimum
  <2>4. least # {} /\ least \in SUBSET Nat
    <3>1. least # {}
      BY <2>3
    <3>2. least \in SUBSET Nat
      BY <2>1
    <3> QED
      BY <3>1, <3>2
  <2>5. \E i \in least : \A j \in least : i <= j
    <3> HIDE DEF least
    <3> QED
      BY <2>4, NatMinimum
  <2>6. m \in least
    BY <2>5, Zenon
  <2>7. pick_next(q, st, vr) = q[m]
    BY <1>2, Zenon DEF pick_next
  <2> QED
    BY <2>1, <2>6, <2>7 DEF ReadyAt
<1> QED
  BY <1>1, <1>2

\* vruntime stays in its range: what a tick charges is reduced modulo 2^w.
LEMMA ChargeType ==
    ASSUME NEW v \in 0 .. VrMod - 1, NEW prio \in 0 .. 255
    PROVE  Charge(v, prio) \in 0 .. VrMod - 1
<1>1. VrMod \in Nat /\ VrMod > 0 /\ v + (255 - prio + 1) \in Nat
  BY SchedOpsAssumption
<1>2. ASSUME NEW a \in Nat
      PROVE  a % VrMod \in 0 .. VrMod - 1
  BY <1>1
<1> QED
  BY <1>1, <1>2 DEF Charge

-----------------------------------------------------------------------------
(***************************************************************************)
(* Types.  start_service takes the lowest free slot, which is not pid 0    *)
(* because that one is never free.                                         *)
(***************************************************************************)

TypeInv == TypeOK /\ state[Idle] # "FREE"

\* No slot is freed and no entry of the run queue is dropped.
Grows ==
    /\ \A p \in Pids : state[p] # "FREE" => state'[p] # "FREE"
    /\ Len(queue) <= Len(queue')

\* The context of a process that has not run yet is one of the contexts.
LEMMA FreshType ==
    ASSUME NEW p \in Pids
    PROVE  Fresh(p) \in Conts
  BY SlotPids DEF Fresh, Conts, Places

\* What the tick makes of the table before it chooses.
LEMMA TickTable ==
    ASSUME NEW st \in [Pids -> States], NEW q, NEW left, NEW c \in Pids
    PROVE  LET woken == Woken(q, st, left, 0)
               ready == Preempted(woken, c)
           IN  /\ woken \in [Pids -> States] /\ ready \in [Pids -> States]
               /\ \A p \in Pids : /\ woken[p] = "FREE" <=> st[p] = "FREE"
                                  /\ ready[p] = "FREE" <=> st[p] = "FREE"
                                  /\ woken[p] = "ZOMBIE" <=> st[p] = "ZOMBIE"
                                  /\ ready[p] = "ZOMBIE" <=> st[p] = "ZOMBIE"
               /\ ready[c] # "RUNNING"
<1> DEFINE woken == Woken(q, st, left, 0)
           ready == Preempted(woken, c)
<1>1. /\ woken \in [Pids -> States]
      /\ \A p \in Pids : /\ woken[p] = "FREE" <=> st[p] = "FREE"
                         /\ woken[p] = "ZOMBIE" <=> st[p] = "ZOMBIE"
  BY DEF Woken, States
<1> HIDE DEF woken
<1>2. /\ ready \in [Pids -> States]
      /\ \A p \in Pids : /\ ready[p] = "FREE" <=> woken[p] = "FREE"
                         /\ ready[p] = "ZOMBIE" <=> woken[p] = "ZOMBIE"
      /\ ready[c] # "RUNNING"
  BY <1>1 DEF Preempted, States
<1> HIDE DEF ready
<1> QED
  BY <1>1, <1>2 DEF woken, ready

\* What a tick does: it leaves the CPU where it is, or it switches to a process
\* that pick_next chose and that is not the one it interrupted.
TickCases ==
    /\ state' \in [Pids -> States]
    /\ \A p \in Pids : state[p] # "FREE" => state'[p] # "FREE"
    /\ \A p \in Pids \ {Idle} : state[p] = "ZOMBIE" => state'[p] = "ZOMBIE"
    /\ \/ UNCHANGED <<current, ctx, cpu>>
       \/ /\ current' \in Pids /\ current' # current
          /\ ctx' = [ctx EXCEPT ![current] = [cpu EXCEPT !.irq = TRUE]]
          /\ cpu' = ctx[current']
          /\ state'[current] # "RUNNING"

\* The tick, step by step.
LEMMA TickStep ==
    ASSUME TypeInv, sched_tick
    PROVE  TickCases /\ vruntime' \in [Pids -> 0 .. VrMod - 1]
<1> DEFINE woken == Woken(queue, state, sleep_left', 0)
           ready == Preempted(woken, current)
           next == pick_next(queue, ready, vruntime')
<1>1. state \in [Pids -> States] /\ current \in Pids /\ queue \in Seq(Pids \ {Idle})
  BY DEF TypeInv, TypeOK
<1>2. vruntime' \in [Pids -> 0 .. VrMod - 1] /\ vruntime' \in [Pids -> Nat]
  <2>1. priority[current] \in 0 .. 255
    BY <1>1, SchedPreemptAssumption DEF priority
  <2>2. Charge(vruntime[current], priority[current]) \in 0 .. VrMod - 1
    BY <1>1, <2>1, ChargeType DEF TypeInv, TypeOK
  <2> QED
    BY <2>2, SchedOpsAssumption DEF sched_tick, TypeInv, TypeOK
<1>3. /\ woken \in [Pids -> States] /\ ready \in [Pids -> States]
      /\ \A p \in Pids : /\ woken[p] = "FREE" <=> state[p] = "FREE"
                         /\ ready[p] = "FREE" <=> state[p] = "FREE"
                         /\ woken[p] = "ZOMBIE" <=> state[p] = "ZOMBIE"
                         /\ ready[p] = "ZOMBIE" <=> state[p] = "ZOMBIE"
      /\ ready[current] # "RUNNING"
  BY <1>1, TickTable
<1>4. \/ /\ state' = woken \/ state' = ready
         /\ UNCHANGED <<current, ctx, cpu>>
      \/ /\ next # current
         /\ state' = [ready EXCEPT ![next] = "RUNNING"]
         /\ current' = next
         /\ context_switch(current, next, [cpu EXCEPT !.irq = TRUE])
  BY Zenon DEF sched_tick
<1> HIDE DEF woken, ready
<1>5. next \in Pids /\ (next = Idle \/ ready[next] = "READY")
  BY <1>1, <1>2, PickNextIsReady
<1> HIDE DEF next
<1>6. CASE (state' = woken \/ state' = ready) /\ UNCHANGED <<current, ctx, cpu>>
  BY <1>2, <1>3, <1>6 DEF TickCases
<1>7. ASSUME next # current,
             state' = [ready EXCEPT ![next] = "RUNNING"],
             current' = next,
             context_switch(current, next, [cpu EXCEPT !.irq = TRUE])
      PROVE  TickCases
  <2>1. state' \in [Pids -> States]
    BY <1>3, <1>7 DEF States
  <2>2. \A p \in Pids : state'[p] = IF p = next THEN "RUNNING" ELSE ready[p]
    BY <1>3, <1>7
  <2>3. /\ \A p \in Pids : state[p] # "FREE" => state'[p] # "FREE"
        /\ \A p \in Pids \ {Idle} : state[p] = "ZOMBIE" => state'[p] = "ZOMBIE"
        /\ state'[current] # "RUNNING"
    BY <1>1, <1>3, <1>5, <1>7, <2>2
  <2> QED
    BY <1>5, <1>7, <2>1, <2>3 DEF TickCases, context_switch
<1> QED
  BY <1>2, <1>4, <1>6, <1>7

\* Every step of SchedPreempt keeps the types, and frees nothing.
LEMMA TypeStep ==
    ASSUME TypeInv, Thread \/ sched_tick \/ irq_return
    PROVE  TypeInv' /\ Grows
<1>1. /\ state \in [Pids -> States] /\ vruntime \in [Pids -> 0 .. VrMod - 1]
      /\ slice \in [Pids -> 0 .. Quantum - 1]
      /\ sleep_left \in [Pids -> 0 .. SleepTicks]
      /\ queue \in Seq(Pids \ {Idle}) /\ current \in Pids
      /\ ctx \in [Pids -> Conts] /\ cpu \in Conts
      /\ state[Idle] # "FREE" /\ Idle \in Pids
  BY SlotPids DEF TypeInv, TypeOK
<1>2. ASSUME NEW p \in Pids, NEW s \in States \ {"FREE"},
             state' = [state EXCEPT ![p] = s]
      PROVE  /\ state' \in [Pids -> States] /\ state'[Idle] # "FREE"
             /\ \A q \in Pids : state[q] # "FREE" => state'[q] # "FREE"
  BY <1>1, <1>2
<1>3. ASSUME NEW pc \in Places, Goto(pc)
      PROVE  cpu' \in Conts
  BY <1>1, <1>3 DEF Goto, Conts
<1>4. CASE start_service
  <2>1. PICK p \in Pids : /\ state[p] = "FREE"
                          /\ state' = [state EXCEPT ![p] = "READY"]
                          /\ queue' = Append(queue, p)
    BY <1>4 DEF start_service
  <2>2. p # Idle
    BY <1>1, <2>1
  <2>3. queue' \in Seq(Pids \ {Idle}) /\ Len(queue) <= Len(queue')
    BY <1>1, <2>1, <2>2
  <2>4. /\ state' \in [Pids -> States] /\ state'[Idle] # "FREE"
        /\ \A q \in Pids : state[q] # "FREE" => state'[q] # "FREE"
    BY <1>2, <2>1 DEF States
  <2>5. UNCHANGED <<vruntime, slice, sleep_left, current, ctx, cpu>>
    BY <1>4 DEF start_service
  <2> QED
    BY <1>1, <2>3, <2>4, <2>5, Zenon DEF TypeInv, TypeOK, Grows
<1>5. CASE sleep_state
  <2>1. /\ state' \in [Pids -> States] /\ state'[Idle] # "FREE"
        /\ \A q \in Pids : state[q] # "FREE" => state'[q] # "FREE"
    BY <1>1, <1>2, <1>5 DEF sleep_state, States
  <2>2. cpu' \in Conts
    BY <1>3, <1>5 DEF sleep_state, Places
  <2>3. UNCHANGED <<vruntime, slice, sleep_left, queue, current, ctx>>
    BY <1>5 DEF sleep_state
  <2> QED
    BY <1>1, <2>1, <2>2, <2>3 DEF TypeInv, TypeOK, Grows
<1>6. CASE sleep_deadline
  <2>1. sleep_left' \in [Pids -> 0 .. SleepTicks]
    BY <1>1, <1>6, SchedPreemptAssumption DEF sleep_deadline
  <2>2. cpu' \in Conts
    BY <1>3, <1>6 DEF sleep_deadline, Places
  <2>3. UNCHANGED <<state, vruntime, slice, queue, current, ctx>>
    BY <1>6 DEF sleep_deadline
  <2> QED
    BY <1>1, <2>1, <2>2, <2>3 DEF TypeInv, TypeOK, Grows
<1>7. ASSUME NEW p \in Pids, exit_state(p)
      PROVE  TypeInv' /\ Grows
  <2>1. /\ state' \in [Pids -> States] /\ state'[Idle] # "FREE"
        /\ \A q \in Pids : state[q] # "FREE" => state'[q] # "FREE"
    BY <1>1, <1>2, <1>7 DEF exit_state, States
  <2>2. cpu' \in Conts
    BY <1>3, <1>7 DEF exit_state, Places
  <2>3. UNCHANGED <<vruntime, slice, sleep_left, queue, current, ctx>>
    BY <1>7 DEF exit_state
  <2> QED
    BY <1>1, <2>1, <2>2, <2>3 DEF TypeInv, TypeOK, Grows
<1>8. CASE yield_ready
  <2>1. /\ state' \in [Pids -> States] /\ state'[Idle] # "FREE"
        /\ \A q \in Pids : state[q] # "FREE" => state'[q] # "FREE"
    BY <1>1, <1>2, <1>8 DEF yield_ready, States
  <2>2. cpu' \in Conts
    BY <1>3, <1>8 DEF yield_ready, Places
  <2>3. UNCHANGED <<vruntime, slice, sleep_left, queue, current, ctx>>
    BY <1>8 DEF yield_ready
  <2> QED
    BY <1>1, <2>1, <2>2, <2>3 DEF TypeInv, TypeOK, Grows
<1>9. CASE yield_pick
  <2> DEFINE next == pick_next(queue, state, vruntime)
  <2>1. vruntime \in [Pids -> Nat]
    BY <1>1, SchedOpsAssumption
  <2>2. next \in Pids
    BY <1>1, <2>1, PickNextIsReady
  <2>3. cpu' = IF next = current THEN [cpu EXCEPT !.pc = "run"]
               ELSE [cpu EXCEPT !.pc = "publish", !.nxt = next]
    BY <1>9 DEF yield_pick
  <2> HIDE DEF next
  <2>4. cpu' \in Conts
    BY <1>1, <2>2, <2>3 DEF Conts, Places
  <2>5. UNCHANGED <<state, vruntime, slice, sleep_left, queue, current, ctx>>
    BY <1>9 DEF yield_pick
  <2> QED
    BY <1>1, <2>4, <2>5 DEF TypeInv, TypeOK, Grows
<1>10. CASE yield_publish
  <2>1. cpu' \in Conts
    BY <1>3, <1>10 DEF yield_publish, Places
  <2>2. current' \in Pids
    BY <1>1, <1>10 DEF yield_publish, Conts
  <2>3. UNCHANGED <<state, vruntime, slice, sleep_left, queue, ctx>>
    BY <1>10 DEF yield_publish
  <2> QED
    BY <1>1, <2>1, <2>2, <2>3 DEF TypeInv, TypeOK, Grows
<1>11. CASE yield_running
  <2>1. cpu.nxt \in Pids
    BY <1>1 DEF Conts
  <2>2. /\ state' \in [Pids -> States] /\ state'[Idle] # "FREE"
        /\ \A q \in Pids : state[q] # "FREE" => state'[q] # "FREE"
    BY <1>2, <1>11, <2>1 DEF yield_running, States
  <2>3. cpu' \in Conts
    BY <1>3, <1>11 DEF yield_running, Places
  <2>4. UNCHANGED <<vruntime, slice, sleep_left, queue, current, ctx>>
    BY <1>11 DEF yield_running
  <2> QED
    BY <1>1, <2>2, <2>3, <2>4 DEF TypeInv, TypeOK, Grows
<1>12. CASE yield_switch
  <2>1. cpu.thr \in Pids /\ cpu.nxt \in Pids
    BY <1>1 DEF Conts
  <2>2. Fresh(cpu.thr) \in Conts
    BY <2>1, FreshType
  <2>3. ctx' \in [Pids -> Conts] /\ cpu' \in Conts
    BY <1>1, <1>12, <2>1, <2>2 DEF yield_switch, context_switch
  <2>4. UNCHANGED <<state, vruntime, slice, sleep_left, queue, current>>
    BY <1>12 DEF yield_switch
  <2> QED
    BY <1>1, <2>3, <2>4 DEF TypeInv, TypeOK, Grows
<1>13. CASE sched_tick
  <2>1. TickCases /\ vruntime' \in [Pids -> 0 .. VrMod - 1]
    BY <1>13, TickStep
  <2>2. slice' \in [Pids -> 0 .. Quantum - 1]
    <3>1. \A n \in Nat : n % Quantum \in 0 .. Quantum - 1
      BY SchedOpsAssumption
    <3>2. slice[current] + 1 \in Nat
      BY <1>1, SchedOpsAssumption
    <3>3. slice' = [slice EXCEPT ![current] = (slice[current] + 1) % Quantum]
      BY <1>13 DEF sched_tick
    <3> QED
      BY <1>1, <3>1, <3>2, <3>3
  <2>3. sleep_left' \in [Pids -> 0 .. SleepTicks] /\ queue' = queue
    <3>1. /\ sleep_left' = [p \in Pids |-> IF sleep_left[p] = 0 THEN 0
                                           ELSE sleep_left[p] - 1]
          /\ queue' = queue
      BY <1>13 DEF sched_tick
    <3>2. \A p \in Pids : sleep_left[p] \in 0 .. SleepTicks /\ SleepTicks \in Nat
      BY <1>1, SchedPreemptAssumption
    <3> QED
      BY <3>1, <3>2
  <2>4. [cpu EXCEPT !.irq = TRUE] \in Conts
    BY <1>1 DEF Conts
  <2>5. current' \in Pids /\ ctx' \in [Pids -> Conts] /\ cpu' \in Conts
    <3>1. CASE UNCHANGED <<current, ctx, cpu>>
      BY <1>1, <3>1
    <3> DEFINE saved == [cpu EXCEPT !.irq = TRUE]
    <3>2. ASSUME current' \in Pids, ctx' = [ctx EXCEPT ![current] = saved],
                 cpu' = ctx[current']
          PROVE  current' \in Pids /\ ctx' \in [Pids -> Conts] /\ cpu' \in Conts
      <4> HIDE DEF saved
      <4> QED
        BY <1>1, <2>4, <3>2 DEF saved
    <3> QED
      BY <2>1, <3>1, <3>2, Zenon DEF TickCases
  <2>6. state' \in [Pids -> States] /\ state'[Idle] # "FREE"
    BY <1>1, <2>1 DEF TickCases
  <2> QED
    <3>1. Grows
      BY <1>1, <2>1, <2>3 DEF TickCases, Grows
    <3> QED
      BY <1>1, <2>1, <2>2, <2>3, <2>5, <2>6, <3>1, Zenon DEF TypeInv, TypeOK
<1>14. CASE irq_return
  <2>1. cpu' \in Conts
    BY <1>1, <1>14 DEF irq_return, Conts
  <2>2. UNCHANGED <<state, vruntime, slice, sleep_left, queue, current, ctx>>
    BY <1>14 DEF irq_return
  <2> QED
    BY <1>1, <2>1, <2>2 DEF TypeInv, TypeOK, Grows
<1> QED
  BY <1>4, <1>5, <1>6, <1>7, <1>8, <1>9, <1>10, <1>11, <1>12, <1>13, <1>14, Zenon
  DEF Thread

-----------------------------------------------------------------------------
(***************************************************************************)
(* Who has the CPU, with a tick possible between any two stores.           *)
(***************************************************************************)

\* Between pick_next and the switch, next is not the thread itself.
Underway(c) == c.pc \in {"publish", "running", "switch"} => c.nxt # c.thr

\* A thread is switched out inside sched_yield before it has published its
\* choice, or not at all: a tick after that would save the thread's state in
\* the context of the process chosen, which ContextsSound excludes.
CpuInv ==
    /\ Underway(cpu) /\ \A p \in Pids : Underway(ctx[p])
    /\ \A p \in Pids : ctx[p].pc \notin {"running", "switch"}
    /\ IF cpu.pc \in {"running", "switch"} THEN cpu.nxt = current
                                           ELSE cpu.thr = current

PreemptInv == TypeInv /\ (ContextsSound => CpuInv)

\* Thread code.
LEMMA ThreadCpu ==
    ASSUME TypeInv, ContextsSound, CpuInv, Thread
    PROVE  CpuInv'
<1>1. /\ current \in Pids /\ ctx \in [Pids -> Conts] /\ cpu \in Conts
      /\ cpu.thr \in Pids /\ cpu.nxt \in Pids
  BY DEF TypeInv, TypeOK, Conts
<1>2. ASSUME cpu.pc \notin {"running", "switch"}, UNCHANGED <<current, ctx>>,
             NEW pc \in {"run", "sleep_until", "yield", "pick"}, Goto(pc)
      PROVE  CpuInv'
  BY <1>1, <1>2 DEF CpuInv, Underway, Goto, Conts
<1>3. CASE start_service
  BY <1>3 DEF start_service, CpuInv, Underway
<1>4. CASE sleep_state \/ sleep_deadline \/ yield_ready \/ \E p \in Pids : exit_state(p)
  BY <1>2, <1>4 DEF sleep_state, sleep_deadline, yield_ready, exit_state, At
<1>5. CASE yield_pick
  <2> DEFINE next == pick_next(queue, state, vruntime)
  <2>1. /\ cpu' = IF next = current THEN [cpu EXCEPT !.pc = "run"]
                  ELSE [cpu EXCEPT !.pc = "publish", !.nxt = next]
        /\ cpu.pc = "pick" /\ UNCHANGED <<current, ctx>>
    BY <1>5 DEF yield_pick, At
  <2> HIDE DEF next
  <2> QED
    BY <1>1, <2>1 DEF CpuInv, Underway, Conts
<1>6. CASE yield_publish
  BY <1>1, <1>6 DEF yield_publish, At, Goto, CpuInv, Underway, Conts
<1>7. CASE yield_running
  BY <1>1, <1>7 DEF yield_running, At, Goto, CpuInv, Underway, Conts
<1>8. CASE yield_switch
  <2>1. /\ ctx' = [ctx EXCEPT ![cpu.thr] = Fresh(cpu.thr)]
        /\ cpu' = ctx[cpu.nxt] /\ current' = current /\ cpu.pc = "switch"
    BY <1>8 DEF yield_switch, context_switch, At
  <2>2. cpu'.thr = current
    BY <1>1, <2>1 DEF ContextsSound, CpuInv
  <2> QED
    BY <1>1, <2>1, <2>2 DEF CpuInv, Underway, Fresh
<1> QED
  BY <1>3, <1>4, <1>5, <1>6, <1>7, <1>8 DEF Thread

\* The tick: when it switches, the context it saves is sound only if the
\* thread it interrupts is the current one.
LEMMA TickCpu ==
    ASSUME TypeInv, ContextsSound, CpuInv, sched_tick, ContextsSound'
    PROVE  CpuInv'
<1>1. /\ current \in Pids /\ ctx \in [Pids -> Conts] /\ cpu \in Conts
  BY DEF TypeInv, TypeOK
<1>2. TickCases
  BY TickStep
<1>3. CASE UNCHANGED <<current, ctx, cpu>>
  BY <1>3 DEF CpuInv, Underway
<1>4. ASSUME current' \in Pids,
             ctx' = [ctx EXCEPT ![current] = [cpu EXCEPT !.irq = TRUE]],
             cpu' = ctx[current']
      PROVE  CpuInv'
  <2>1. ctx'[current].thr = cpu.thr /\ ctx'[current].thr = current
    BY <1>1, <1>4 DEF ContextsSound, Conts
  <2>2. cpu.pc \notin {"running", "switch"}
    BY <2>1 DEF CpuInv, Underway
  <2>3. cpu'.thr = current'
    BY <1>4 DEF ContextsSound
  <2> QED
    BY <1>1, <1>4, <2>2, <2>3 DEF CpuInv, Underway, Conts
<1> QED
  BY <1>2, <1>3, <1>4 DEF TickCases

\* The first state.
LEMMA PreemptInit == Init => PreemptInv
<1> SUFFICES ASSUME Init
             PROVE  PreemptInv
  OBVIOUS
<1>1. \A p \in Pids : Fresh(p) \in Conts
  BY FreshType
<1>2. state \in [Pids -> States] /\ state[Idle] # "FREE"
  BY SlotPids DEF Init, States
<1>3. /\ vruntime \in [Pids -> 0 .. VrMod - 1] /\ slice \in [Pids -> 0 .. Quantum - 1]
      /\ sleep_left \in [Pids -> 0 .. SleepTicks]
  BY SchedOpsAssumption, SchedPreemptAssumption DEF Init
<1>4. queue \in Seq(Pids \ {Idle}) /\ current \in Pids
  BY SlotPids DEF Init
<1>5. ctx \in [Pids -> Conts] /\ cpu \in Conts
  BY <1>1, SlotPids DEF Init
<1>6. CpuInv
  BY SlotPids DEF Init, CpuInv, Underway, Fresh
<1> QED
  BY <1>2, <1>3, <1>4, <1>5, <1>6 DEF PreemptInv, TypeInv, TypeOK

\* Every step.
LEMMA PreemptNext == PreemptInv /\ [Next]_vars => PreemptInv'
<1> SUFFICES ASSUME PreemptInv, [Next]_vars
             PROVE  PreemptInv'
  OBVIOUS
<1>1. CASE UNCHANGED vars
  BY <1>1 DEF vars, PreemptInv, TypeInv, TypeOK, ContextsSound, CpuInv, Underway
<1>2. CASE Next
  <2>1. TypeInv /\ ContextsSound /\ CpuInv
    BY <1>2 DEF Next, PreemptInv
  <2>2. TypeInv'
    BY <1>2, <2>1, TypeStep DEF Next
  <2>3. ASSUME irq_return
        PROVE  CpuInv'
    BY <2>1, <2>3 DEF irq_return, CpuInv, Underway, TypeInv, TypeOK, Conts
  <2>4. ContextsSound' => CpuInv'
    BY <1>2, <2>1, <2>3, ThreadCpu, TickCpu DEF Next
  <2> QED
    BY <2>2, <2>4 DEF PreemptInv
<1> QED
  BY <1>1, <1>2

\* The invariant holds in every reachable state.
LEMMA PreemptHolds == Spec => []PreemptInv
  BY PreemptInit, PreemptNext, PTL DEF Spec

\* With a tick possible between any two stores of sched_yield, sched_sleep and
\* proc_exit, g_runqueue.current names the thread on the CPU, or the one it is
\* about to switch to, as long as no context has been overwritten.
THEOREM CurrentIsOnCpu == Spec => []CurrentOwnsCpu
<1>1. PreemptInv => CurrentOwnsCpu
  BY DEF PreemptInv, CpuInv, CurrentOwnsCpu
<1> QED
  BY <1>1, PreemptHolds, PTL

\* In every state with sound contexts a thread can leave the CPU RUNNING only
\* out of the window between sched_yield's store to current and its switch,
\* and a tick, wherever it falls, revives no zombie.
THEOREM TickKeepsRunnable == Spec => TickLosesNobody
<1>1. PreemptInv /\ [Next]_vars
         => [/\ cpu'.thr # cpu.thr /\ state'[cpu.thr] = "RUNNING"
                   => cpu.pc \in {"running", "switch"}
             /\ sched_tick => \A p \in Pids \ {Idle} :
                                 state[p] = "ZOMBIE" => state'[p] = "ZOMBIE"]_vars
  <2> SUFFICES ASSUME PreemptInv, Next
               PROVE  /\ cpu'.thr # cpu.thr /\ state'[cpu.thr] = "RUNNING"
                            => cpu.pc \in {"running", "switch"}
                      /\ sched_tick => \A p \in Pids \ {Idle} :
                                          state[p] = "ZOMBIE" => state'[p] = "ZOMBIE"
    OBVIOUS
  <2>1. TypeInv /\ CpuInv /\ cpu \in Conts
    BY DEF PreemptInv, Next, TypeInv, TypeOK
  <2>2. sched_tick => TickCases
    BY <2>1, TickStep
  <2>3. ASSUME sched_tick, cpu'.thr # cpu.thr, state'[cpu.thr] = "RUNNING"
        PROVE  cpu.pc \in {"running", "switch"}
    BY <2>1, <2>2, <2>3 DEF TickCases, CpuInv
  <2>4. irq_return => cpu'.thr = cpu.thr
    BY <2>1 DEF irq_return, Conts
  <2>5. ASSUME Thread, cpu'.thr # cpu.thr
        PROVE  cpu.pc = "switch"
    <3>1. CASE start_service \/ sleep_state \/ sleep_deadline \/ yield_ready
                  \/ (\E p \in Pids : exit_state(p)) \/ yield_publish \/ yield_running
      <4>1. cpu' = cpu \/ \E pc \in Places : Goto(pc)
        BY <3>1
        DEF start_service, sleep_state, sleep_deadline, yield_ready, exit_state,
            yield_publish, yield_running, Places
      <4>2. cpu'.thr = cpu.thr
        BY <2>1, <4>1 DEF Goto, Conts
      <4> QED
        BY <2>5, <4>2
    <3>2. CASE yield_pick
      <4> DEFINE next == pick_next(queue, state, vruntime)
      <4>1. cpu' = IF next = current THEN [cpu EXCEPT !.pc = "run"]
                   ELSE [cpu EXCEPT !.pc = "publish", !.nxt = next]
        BY <3>2 DEF yield_pick
      <4> HIDE DEF next
      <4>2. cpu'.thr = cpu.thr
        BY <2>1, <4>1 DEF Conts
      <4> QED
        BY <2>5, <4>2
    <3>3. CASE yield_switch
      BY <3>3 DEF yield_switch, At
    <3> QED
      BY <2>5, <3>1, <3>2, <3>3, Zenon DEF Thread
  <2> QED
    BY <2>2, <2>3, <2>4, <2>5 DEF Next, TickCases
<1> QED
  BY <1>1, PreemptHolds, PTL DEF Spec, TickLosesNobody

-----------------------------------------------------------------------------
(***************************************************************************)
(* The driver registry.  registered is the list from its head; the links   *)
(* follow it, no driver is on it twice, and a round of drivers_probe_all   *)
(* stands at one of its entries, or behind the last, with all earlier ones *)
(* probed.                                                                 *)
(***************************************************************************)

Linked ==
    /\ driver_list_head = Entry(1)
    /\ \A n \in 1 .. Len(registered) : drv_next[registered[n]] = Entry(n + 1)

Distinct ==
    \A i, j \in 1 .. Len(registered) : registered[i] = registered[j] => i = j

\* What one round of the loop leaves behind.
Probed(d) ==
    /\ drv_state[d] = IF d = "framebuffer" /\ ~g_fb_mem THEN "ERROR" ELSE "RUNNING"
    /\ d = "keyboard" => irq_handlers[1] = "keyboard_irq_handler"

AtEntry(k) == probing = Entry(k) /\ \A j \in 1 .. k - 1 : Probed(registered[j])

DevTypes ==
    /\ registered \in Seq(Drivers)
    /\ drv_next \in [Drivers -> Drivers \cup {NULL}]
    /\ drv_state \in [Drivers -> {"UNLOADED", "RUNNING", "ERROR"}]
    /\ irq_handlers \in [Irqs -> {NULL, "pit_irq_handler", "keyboard_irq_handler"}]

DevInv ==
    /\ DevTypes /\ Linked /\ Distinct
    /\ probing # "idle" => \E k \in 1 .. Len(registered) + 1 : AtEntry(k)

\* A concatenation, entry by entry.
LEMMA Joined ==
    ASSUME NEW S, NEW a \in Seq(S), NEW b \in Seq(S)
    PROVE  /\ a \o b \in Seq(S) /\ Len(a \o b) = Len(a) + Len(b)
           /\ \A j \in 1 .. Len(a) + Len(b) :
                 (a \o b)[j] = IF j <= Len(a) THEN a[j] ELSE b[j - Len(a)]
<1>1. a \o b \in Seq(S)
  OBVIOUS
<1>2. Len(a \o b) = Len(a) + Len(b)
  OBVIOUS
<1>3. \A j \in 1 .. Len(a) + Len(b) :
         (a \o b)[j] = IF j <= Len(a) THEN a[j] ELSE b[j - Len(a)]
  OBVIOUS
<1> QED
  BY <1>1, <1>2, <1>3

\* The entries of the list without its i-th.
LEMMA Without ==
    ASSUME NEW S, NEW s \in Seq(S), NEW i \in 1 .. Len(s)
    PROVE  /\ RemoveAt(s, i) \in Seq(S)
           /\ Len(RemoveAt(s, i)) = Len(s) - 1
           /\ \A j \in 1 .. Len(s) - 1 :
                 RemoveAt(s, i)[j] = IF j < i THEN s[j] ELSE s[j + 1]
<1> DEFINE a == SubSeq(s, 1, i - 1)
           b == SubSeq(s, i + 1, Len(s))
<1>1. /\ a \in Seq(S) /\ Len(a) = i - 1
      /\ \A j \in 1 .. i - 1 : a[j] = s[j]
  OBVIOUS
<1>2. /\ b \in Seq(S) /\ Len(b) = Len(s) - i
      /\ \A j \in 1 .. Len(s) - i : b[j] = s[j + i]
  OBVIOUS
<1>3. RemoveAt(s, i) = a \o b
  BY DEF RemoveAt
<1> HIDE DEF a, b
<1>4. /\ a \o b \in Seq(S) /\ Len(a \o b) = Len(s) - 1
      /\ \A j \in 1 .. Len(s) - 1 :
            (a \o b)[j] = IF j <= Len(a) THEN a[j] ELSE b[j - Len(a)]
  <2>1. /\ a \o b \in Seq(S) /\ Len(a \o b) = Len(a) + Len(b)
        /\ \A j \in 1 .. Len(a) + Len(b) :
              (a \o b)[j] = IF j <= Len(a) THEN a[j] ELSE b[j - Len(a)]
    BY <1>1, <1>2, Joined
  <2>2. Len(a) + Len(b) = Len(s) - 1
    BY <1>1, <1>2
  <2> QED
    BY <2>1, <2>2
<1>5. ASSUME NEW j \in 1 .. Len(s) - 1
      PROVE  (a \o b)[j] = IF j < i THEN s[j] ELSE s[j + 1]
  <2>1. CASE j < i
    BY <1>1, <1>4, <2>1
  <2>2. CASE ~(j < i)
    <3>1. j - (i - 1) \in 1 .. Len(s) - i /\ j - (i - 1) + i = j + 1
      BY <2>2
    <3>2. b[j - (i - 1)] = s[j + 1]
      BY <1>2, <3>1
    <3> QED
      BY <1>1, <1>4, <2>2, <3>2
  <2> QED
    BY <2>1, <2>2
<1> QED
  BY <1>3, <1>4, <1>5

\* A registered driver becomes the head and points at the old one.
LEMMA RegisterStep ==
    ASSUME DevInv, probing = "idle", NEW d \in Drivers \ Range(registered),
           driver_register(d)
    PROVE  DevInv' /\ registered' = <<d>> \o registered
<1>1. /\ registered \in Seq(Drivers) /\ Len(registered) \in Nat
      /\ drv_next \in [Drivers -> Drivers \cup {NULL}]
  BY DEF DevInv, DevTypes
<1>2. \A i \in 1 .. Len(registered) : registered[i] # d /\ registered[i] \in Drivers
  BY <1>1 DEF Range
<1>3. /\ drv_next' = [drv_next EXCEPT ![d] = driver_list_head]
      /\ driver_list_head' = d /\ registered' = <<d>> \o registered
      /\ UNCHANGED <<drv_state, probing, irq_handlers>>
  BY DEF driver_register
<1>4. /\ registered' \in Seq(Drivers) /\ Len(registered') = Len(registered) + 1
      /\ registered'[1] = d
      /\ \A i \in 1 .. Len(registered) : registered'[i + 1] = registered[i]
  BY <1>1, <1>3
<1>5. \A i \in 2 .. Len(registered') : registered'[i] = registered[i - 1]
                                        /\ i - 1 \in 1 .. Len(registered)
  BY <1>1, <1>4
<1>6. Distinct'
  <2> SUFFICES ASSUME NEW i \in 1 .. Len(registered'), NEW j \in 1 .. Len(registered'),
                      registered'[i] = registered'[j]
               PROVE  i = j
    BY DEF Distinct
  <2>1. i = 1 \/ i \in 2 .. Len(registered')
    BY <1>1, <1>4
  <2>2. j = 1 \/ j \in 2 .. Len(registered')
    BY <1>1, <1>4
  <2>3. CASE i = 1 \/ j = 1
    BY <1>2, <1>4, <1>5, <2>1, <2>2, <2>3
  <2>4. ASSUME i \in 2 .. Len(registered'), j \in 2 .. Len(registered')
        PROVE  i = j
    <3>1. registered[i - 1] = registered[j - 1]
      BY <1>5, <2>4
    <3>2. i - 1 = j - 1
      BY <1>5, <2>4, <3>1 DEF DevInv, Distinct
    <3> QED
      BY <3>2, <2>4
  <2> QED
    BY <2>1, <2>2, <2>3, <2>4
<1>7. driver_list_head = Entry(1) /\ driver_list_head \in Drivers \cup {NULL}
  BY <1>1, <1>2 DEF DevInv, Linked, Entry
<1>8. Entry(1)' = d /\ \A n \in 1 .. Len(registered) + 1 : Entry(n + 1)' = Entry(n)
  BY <1>1, <1>4 DEF Entry
<1>9. Linked'
  <2> SUFFICES ASSUME NEW n \in 1 .. Len(registered')
               PROVE  drv_next'[registered'[n]] = Entry(n + 1)'
    BY <1>3, <1>8 DEF Linked
  <2>1. CASE n = 1
    BY <1>1, <1>3, <1>4, <1>7, <1>8, <2>1
  <2>2. CASE n \in 2 .. Len(registered')
    <3>1. drv_next'[registered[n - 1]] = drv_next[registered[n - 1]]
      BY <1>1, <1>2, <1>3, <1>5, <2>2
    <3>2. drv_next[registered[n - 1]] = Entry(n - 1 + 1)
      BY <1>5, <2>2 DEF DevInv, Linked
    <3>3. Entry(n + 1)' = Entry(n)
      BY <1>1, <1>4, <1>8
    <3>4. n - 1 + 1 = n
      OBVIOUS
    <3> QED
      BY <1>5, <2>2, <3>1, <3>2, <3>3, <3>4
  <2> QED
    BY <1>1, <1>4, <2>1, <2>2
<1>10. DevTypes'
  BY <1>1, <1>3, <1>4, <1>7 DEF DevTypes, DevInv
<1> QED
  BY <1>3, <1>6, <1>9, <1>10 DEF DevInv

\* The predecessor of a driver, or the head, is made to skip it.
LEMMA UnregisterStep ==
    ASSUME DevInv, probing = "idle", NEW d \in Range(registered),
           driver_unregister(d)
    PROVE  DevInv'
<1>1. /\ registered \in Seq(Drivers) /\ Len(registered) \in Nat
      /\ drv_next \in [Drivers -> Drivers \cup {NULL}]
      /\ \A k \in 1 .. Len(registered) : registered[k] \in Drivers
  BY DEF DevInv, DevTypes
<1>2. PICK i \in 1 .. Len(registered) : /\ registered[i] = d
                                        /\ registered' = RemoveAt(registered, i)
  BY <1>1 DEF driver_unregister
<1>3. UNCHANGED <<drv_state, probing, irq_handlers>>
  BY DEF driver_unregister
<1>4. /\ registered' \in Seq(Drivers) /\ Len(registered') = Len(registered) - 1
      /\ \A j \in 1 .. Len(registered) - 1 :
            registered'[j] = IF j < i THEN registered[j] ELSE registered[j + 1]
  BY <1>1, <1>2, Without
<1>5. /\ driver_list_head = Entry(1)
      /\ \A n \in 1 .. Len(registered) : drv_next[registered[n]] = Entry(n + 1)
      /\ \A k, j \in 1 .. Len(registered) : registered[k] = registered[j] => k = j
  BY DEF DevInv, Linked, Distinct
<1>6. Distinct'
  <2> SUFFICES ASSUME NEW k \in 1 .. Len(registered'), NEW j \in 1 .. Len(registered'),
                      registered'[k] = registered'[j]
               PROVE  k = j
    BY DEF Distinct
  <2> QED
    BY <1>1, <1>2, <1>4, <1>5
<1>7. \A n \in Nat \ {0} : Entry(n)' = IF n < i THEN Entry(n) ELSE Entry(n + 1)
  BY <1>1, <1>2, <1>4 DEF Entry
<1>8. CASE i = 1
  <2>1. driver_list_head' = drv_next[d] /\ drv_next' = drv_next
    BY <1>1, <1>2, <1>5, <1>8 DEF driver_unregister, Entry
  <2>2. driver_list_head' = Entry(1)'
    BY <1>2, <1>5, <1>7, <1>8, <2>1
  <2>3. ASSUME NEW n \in 1 .. Len(registered')
        PROVE  drv_next'[registered'[n]] = Entry(n + 1)'
    <3>1. registered'[n] = registered[n + 1] /\ n + 1 \in 1 .. Len(registered)
      BY <1>1, <1>4, <1>8
    <3>2. Entry(n + 1)' = Entry(n + 1 + 1)
      BY <1>7, <1>8
    <3> QED
      BY <1>5, <2>1, <3>1, <3>2
  <2>4. Linked'
    BY <2>2, <2>3 DEF Linked
  <2> QED
    BY <1>3, <1>4, <1>6, <2>1, <2>4 DEF DevInv, DevTypes
<1>9. CASE i # 1
  <2>1. driver_list_head # d
    BY <1>1, <1>2, <1>5, <1>9 DEF Entry
  <2>2. PICK k \in 1 .. Len(registered) :
           /\ drv_next[registered[k]] = d
           /\ drv_next' = [drv_next EXCEPT ![registered[k]] = drv_next[d]]
           /\ driver_list_head' = driver_list_head
    BY <1>1, <2>1 DEF driver_unregister, Range
  <2>3. k + 1 = i
    <3>1. Entry(k + 1) = d
      BY <1>5, <2>2
    <3>2. k + 1 <= Len(registered)
      BY <1>1, <1>2, <3>1 DEF Entry, Drivers, NULL
    <3> QED
      BY <1>1, <1>2, <1>5, <3>1, <3>2 DEF Entry
  <2>4. driver_list_head' = Entry(1)'
    BY <1>2, <1>5, <1>7, <1>9, <2>2
  <2>5. ASSUME NEW n \in 1 .. Len(registered')
        PROVE  drv_next'[registered'[n]] = Entry(n + 1)'
    <3>1. CASE n < k
      <4>1. registered'[n] = registered[n] /\ n + 1 < i /\ registered[n] # registered[k]
        BY <1>1, <1>4, <1>5, <2>3, <3>1
      <4>2. Entry(n + 1)' = Entry(n + 1)
        BY <1>7, <4>1
      <4>3. n \in 1 .. Len(registered)
        BY <1>1, <1>4
      <4>4. drv_next'[registered[n]] = drv_next[registered[n]]
        BY <1>1, <2>2, <4>1, <4>3
      <4> QED
        BY <1>5, <4>1, <4>2, <4>3, <4>4
    <3>2. CASE n = k
      <4>1. registered'[n] = registered[k] /\ n + 1 = i
        BY <1>4, <2>3, <3>2
      <4>2. drv_next'[registered[k]] = Entry(i + 1)
        BY <1>1, <1>2, <1>5, <2>2
      <4>3. Entry(i)' = Entry(i + 1)
        BY <1>2, <1>7
      <4> QED
        BY <4>1, <4>2, <4>3
    <3>3. CASE n > k
      <4>1. /\ registered'[n] = registered[n + 1] /\ registered[n + 1] # registered[k]
            /\ n + 1 \in 1 .. Len(registered)
        BY <1>1, <1>4, <1>5, <2>3, <3>3
      <4>2. Entry(n + 1)' = Entry(n + 1 + 1)
        BY <1>7, <2>3, <3>3
      <4>3. drv_next'[registered[n + 1]] = Entry(n + 1 + 1)
        BY <1>1, <1>5, <2>2, <4>1
      <4> QED
        BY <4>1, <4>2, <4>3
    <3> QED
      BY <3>1, <3>2, <3>3
  <2>6. Linked'
    BY <2>4, <2>5 DEF Linked
  <2>7. drv_next' \in [Drivers -> Drivers \cup {NULL}]
    BY <1>1, <1>2, <2>2
  <2> QED
    BY <1>3, <1>4, <1>6, <2>6, <2>7 DEF DevInv, DevTypes
<1> QED
  BY <1>8, <1>9

\* drivers_probe_all begins at the head, and one round brings it from one
\* entry to the next, whether or not the probe succeeds.
LEMMA ProbeStep ==
    ASSUME DevInv, probe_begin \/ probe_next \/ probe_end
    PROVE  DevInv' /\ registered' = registered
<1>1. /\ registered \in Seq(Drivers) /\ Len(registered) \in Nat
      /\ drv_next \in [Drivers -> Drivers \cup {NULL}]
      /\ drv_state \in [Drivers -> {"UNLOADED", "RUNNING", "ERROR"}]
      /\ irq_handlers \in [Irqs -> {NULL, "pit_irq_handler", "keyboard_irq_handler"}]
  BY DEF DevInv, DevTypes
<1>2. UNCHANGED <<registered, drv_next, driver_list_head, g_fb_mem>>
  BY DEF probe_begin, probe_next, probe_end
<1>3. Linked' /\ Distinct'
  BY <1>2 DEF DevInv, Linked, Distinct, Entry
<1>4. CASE probe_begin
  <2>1. AtEntry(1)' /\ UNCHANGED <<drv_state, irq_handlers>>
    BY <1>1, <1>4 DEF probe_begin, AtEntry, DevInv, Linked, Entry
  <2> QED
    BY <1>1, <1>2, <1>3, <2>1 DEF DevInv, DevTypes
<1>5. CASE probe_end
  BY <1>1, <1>2, <1>3, <1>5 DEF probe_end, DevInv, DevTypes
<1>6. CASE probe_next
  <2>1. /\ probing \in Drivers
        /\ drv_state' = [drv_state EXCEPT ![probing] =
                            IF ProbeSucceeds(probing) THEN "RUNNING" ELSE "ERROR"]
        /\ irq_handlers' = IF probing = "keyboard"
                           THEN [irq_handlers EXCEPT ![1] = "keyboard_irq_handler"]
                           ELSE irq_handlers
        /\ probing' = drv_next[probing]
    BY <1>6 DEF probe_next, irq_register_handler
  <2>2. PICK k \in 1 .. Len(registered) + 1 : AtEntry(k)
    BY <2>1 DEF DevInv, Drivers
  <2>3. k \in 1 .. Len(registered) /\ registered[k] = probing
    BY <1>1, <2>1, <2>2 DEF AtEntry, Entry, Drivers, NULL
  <2>4. probing' = Entry(k + 1)
    BY <2>1, <2>3 DEF DevInv, Linked
  <2>5. irq_handlers' \in [Irqs -> {NULL, "pit_irq_handler", "keyboard_irq_handler"}]
    BY <1>1, <2>1 DEF Irqs
  <2>6. drv_state' \in [Drivers -> {"UNLOADED", "RUNNING", "ERROR"}]
    BY <1>1, <2>1
  <2>7. ASSUME NEW j \in 1 .. k
        PROVE  Probed(registered[j])'
    <3> DEFINE d == registered[j]
    <3>1. d \in Drivers /\ d' = d /\ g_fb_mem' = g_fb_mem
      BY <1>1, <1>2, <2>3
    <3>2. CASE j = k
      BY <1>1, <2>1, <2>3, <3>1, <3>2 DEF Probed, ProbeSucceeds, Irqs
    <3>3. CASE j # k
      <4>1. Probed(d) /\ d # probing
        BY <2>2, <2>3, <3>3 DEF AtEntry, DevInv, Distinct
      <4>2. drv_state'[d] = drv_state[d]
        BY <1>1, <2>1, <3>1, <4>1
      <4>3. d = "keyboard" => irq_handlers'[1] = irq_handlers[1]
        BY <2>1, <4>1
      <4> QED
        BY <3>1, <4>1, <4>2, <4>3 DEF Probed
    <3> QED
      BY <3>2, <3>3
  <2>8. Entry(k + 1)' = Entry(k + 1)
    BY <1>2 DEF Entry
  <2>9. AtEntry(k + 1)'
    BY <2>3, <2>4, <2>7, <2>8 DEF AtEntry
  <2>10. k + 1 \in 1 .. Len(registered') + 1
    BY <1>1, <1>2, <2>3
  <2>11. \E m \in 1 .. Len(registered') + 1 : AtEntry(m)'
    BY <2>9, <2>10
  <2> QED
    BY <1>1, <1>2, <1>3, <2>5, <2>6, <2>11 DEF DevInv, DevTypes
<1> QED
  BY <1>4, <1>5, <1>6

\* Behind the last entry every driver of the list has been probed.
LEMMA EndOfProbe ==
    ASSUME DevInv, probing = NULL
    PROVE  \A d \in Range(registered) : Probed(d)
<1>1. registered \in Seq(Drivers) /\ Len(registered) \in Nat
  BY DEF DevInv, DevTypes
<1>2. PICK k \in 1 .. Len(registered) + 1 : AtEntry(k)
  BY DEF DevInv, NULL
<1>3. k = Len(registered) + 1
  <2>1. Entry(k) = NULL
    BY <1>2 DEF AtEntry
  <2>2. ~(k <= Len(registered))
    BY <1>1, <2>1 DEF Entry, Drivers, NULL
  <2> QED
    BY <1>1, <2>2
<1> QED
  BY <1>1, <1>2, <1>3 DEF AtEntry, Range

\* Code that calls the registry keeps the list.
LEMMA RegistryStep ==
    ASSUME DevInv, registry_call
    PROVE  DevInv'
  BY ProbeStep, RegisterStep, UnregisterStep, Zenon DEF registry_call

-----------------------------------------------------------------------------
(***************************************************************************)
(* The timer once interrupts are on.  The only tick that is ever taken     *)
(* falls in the idle loop; if it switches, idle keeps the interrupt in     *)
(* service in its saved context until it is dispatched again.              *)
(***************************************************************************)

Held == [Fresh(Idle) EXCEPT !.irq = TRUE]

\* A thread other than idle executes, with interrupts on but none delivered.
ThreadRuns ==
    /\ cpu.thr # Idle /\ ~cpu.irq
    /\ Underway(cpu)
    /\ IF cpu.pc \in {"running", "switch"} THEN cpu.nxt = current
                                           ELSE cpu.thr = current

HeldInv ==
    /\ inService \in BOOLEAN
    /\ \A p \in Pids \ {Idle} : ctx[p] = Fresh(p)
    /\ ctx[Idle] \in {Fresh(Idle), Held}
    /\ ~inService => cpu = Fresh(Idle) /\ current = Idle
    /\ inService => /\ ctx[Idle] = Held
                    /\ (cpu = Held /\ current = Idle) \/ ThreadRuns

\* What the fields of the two contexts of idle are.
LEMMA Contexts ==
    /\ \A p \in Pids : /\ Fresh(p).thr = p /\ Fresh(p).pc = "run"
                       /\ Fresh(p).irq = FALSE
    /\ Held.thr = Idle /\ Held.pc = "run" /\ Held.irq = TRUE
    /\ [Held EXCEPT !.irq = FALSE] = Fresh(Idle)
<1>1. \A p \in Pids : Fresh(p).thr = p /\ Fresh(p).pc = "run" /\ Fresh(p).irq = FALSE
  BY DEF Fresh
<1>2. /\ Fresh(Idle) \in Conts /\ Held \in Conts
      /\ [Held EXCEPT !.irq = FALSE] \in Conts
  <2>1. Fresh(Idle) \in Conts
    BY SlotPids, FreshType
  <2>2. \A c \in Conts, b \in BOOLEAN : [c EXCEPT !.irq = b] \in Conts
    BY DEF Conts
  <2> QED
    BY <2>1, <2>2 DEF Held
<1>3. /\ Held.thr = Idle /\ Held.pc = "run" /\ Held.irq = TRUE
      /\ Held.nxt = Fresh(Idle).nxt
  <2> DEFINE f == Fresh(Idle)
  <2>1. f \in Conts /\ f.thr = Idle /\ f.pc = "run"
    BY <1>1, <1>2, SlotPids
  <2> HIDE DEF f
  <2>2. LET h == [f EXCEPT !.irq = TRUE]
        IN  h.thr = f.thr /\ h.pc = f.pc /\ h.irq = TRUE /\ h.nxt = f.nxt
    BY <2>1 DEF Conts
  <2> QED
    BY <2>1, <2>2, Zenon DEF Held, f
<1>4. [Held EXCEPT !.irq = FALSE] = Fresh(Idle)
  <2>1. \A c, d \in Conts :
           c.thr = d.thr /\ c.pc = d.pc /\ c.nxt = d.nxt /\ c.irq = d.irq => c = d
    BY DEF Conts
  <2>2. \A c \in Conts : LET h == [c EXCEPT !.irq = FALSE]
                         IN  /\ h.thr = c.thr /\ h.pc = c.pc /\ h.irq = FALSE
                             /\ h.nxt = c.nxt
    BY DEF Conts
  <2> DEFINE h == [Held EXCEPT !.irq = FALSE]
             f == Fresh(Idle)
  <2>3. h.thr = Held.thr /\ h.pc = Held.pc /\ h.irq = FALSE /\ h.nxt = Held.nxt
    BY <1>2, <2>2
  <2>4. f.thr = Idle /\ f.pc = "run" /\ f.irq = FALSE
    BY <1>1, SlotPids
  <2>5. h \in Conts /\ f \in Conts /\ Held.nxt = f.nxt
    BY <1>2, <1>3
  <2> HIDE DEF h, f
  <2>6. h = f
    BY <1>3, <2>1, <2>3, <2>4, <2>5
  <2> QED
    BY <2>6 DEF h, f
<1> QED
  BY <1>1, <1>3, <1>4

\* A timer interrupt is taken in the idle loop, if at all.
LEMMA TimerHeld ==
    ASSUME TypeInv, HeldInv, irq_timer
    PROVE  HeldInv'
<1>1. ~inService /\ cpu = Fresh(Idle) /\ current = Idle
  BY DEF HeldInv, irq_timer
<1>2. inService' = (cpu' # cpu)
  BY DEF irq_timer
<1>3. TickCases /\ Idle \in Pids /\ ctx \in [Pids -> Conts]
  BY TickStep, SlotPids DEF irq_timer, TypeInv, TypeOK
<1>4. CASE UNCHANGED <<current, ctx, cpu>>
  BY <1>1, <1>2, <1>4 DEF HeldInv
<1>5. ASSUME current' \in Pids, current' # current,
             ctx' = [ctx EXCEPT ![current] = [cpu EXCEPT !.irq = TRUE]],
             cpu' = ctx[current']
      PROVE  HeldInv'
  <2>1. cpu' = Fresh(current') /\ current' # Idle
    BY <1>1, <1>5 DEF HeldInv
  <2>2. inService' = TRUE
    <3>1. cpu'.thr = current' /\ cpu.thr = Idle
      BY <1>1, <1>3, <1>5, <2>1, Contexts
    <3>2. cpu' # cpu
      BY <2>1, <3>1
    <3> QED
      BY <1>2, <3>2
  <2>3. ctx' = [ctx EXCEPT ![Idle] = Held]
    BY <1>1, <1>5 DEF Held
  <2>4. ctx'[Idle] = Held /\ \A p \in Pids \ {Idle} : ctx'[p] = ctx[p]
    BY <1>3, <2>3
  <2>5. ThreadRuns'
    BY <1>5, <2>1, Contexts DEF ThreadRuns, Underway
  <2> QED
    BY <2>2, <2>4, <2>5 DEF HeldInv
<1> QED
  BY <1>3, <1>4, <1>5 DEF TickCases

\* Thread code runs only while IRQ 0 is in service.
LEMMA ThreadHeld ==
    ASSUME TypeInv, HeldInv, thread_step
    PROVE  HeldInv' /\ (Thread \/ irq_return)
<1>1. /\ current \in Pids /\ ctx \in [Pids -> Conts] /\ cpu \in Conts
      /\ cpu.thr \in Pids /\ cpu.nxt \in Pids /\ Idle \in Pids
  BY SlotPids DEF TypeInv, TypeOK, Conts
<1>2. Thread \/ irq_return
  BY Zenon DEF thread_step, init_main, Thread
<1>3. inService' = (inService /\ ~cpu.irq)
  BY DEF thread_step
<1>4. CASE irq_return
  <2>1. cpu.irq /\ cpu' = [cpu EXCEPT !.irq = FALSE] /\ UNCHANGED <<current, ctx>>
    BY <1>4 DEF irq_return
  <2>2. inService /\ cpu = Held /\ current = Idle
    BY <1>1, <2>1, Contexts DEF HeldInv, ThreadRuns
  <2>3. cpu' = Fresh(Idle)
    BY <2>1, <2>2, Contexts
  <2>4. inService' = FALSE
    BY <1>3, <2>1
  <2> QED
    BY <1>2, <2>1, <2>2, <2>3, <2>4 DEF HeldInv
<1>5. ASSUME Thread
      PROVE  HeldInv'
  <2>1. ~cpu.irq /\ cpu.thr # Idle
    BY <1>5
    DEF Thread, start_service, sleep_state, sleep_deadline, exit_state,
        yield_ready, yield_pick, yield_publish, yield_running, yield_switch, At
  <2>2. inService /\ ThreadRuns /\ ctx[Idle] = Held
    BY <1>1, <2>1, Contexts DEF HeldInv
  <2>3. inService' = TRUE
    BY <1>3, <2>1, <2>2
  <2>4. ASSUME ThreadRuns', UNCHANGED ctx
        PROVE  HeldInv'
    BY <2>2, <2>3, <2>4 DEF HeldInv
  <2>5. ASSUME cpu.pc \notin {"running", "switch"}, UNCHANGED <<current, ctx>>,
               NEW pc \in {"run", "sleep_until", "yield", "pick"}, Goto(pc)
        PROVE  HeldInv'
    <3>1. ThreadRuns'
      BY <1>1, <2>2, <2>5 DEF ThreadRuns, Underway, Goto, Conts
    <3> QED
      BY <2>4, <2>5, <3>1
  <2>6. CASE start_service
    BY <2>2, <2>4, <2>6 DEF start_service, ThreadRuns, Underway
  <2>7. CASE sleep_state \/ sleep_deadline \/ yield_ready \/ \E p \in Pids : exit_state(p)
    BY <2>5, <2>7 DEF sleep_state, sleep_deadline, yield_ready, exit_state, At
  <2>8. CASE yield_pick
    <3> DEFINE next == pick_next(queue, state, vruntime)
    <3>1. /\ cpu' = IF next = current THEN [cpu EXCEPT !.pc = "run"]
                    ELSE [cpu EXCEPT !.pc = "publish", !.nxt = next]
          /\ cpu.pc = "pick" /\ UNCHANGED <<current, ctx>>
      BY <2>8 DEF yield_pick, At
    <3> HIDE DEF next
    <3>2. ThreadRuns'
      BY <1>1, <2>2, <3>1 DEF ThreadRuns, Underway, Conts
    <3> QED
      BY <2>4, <3>1, <3>2
  <2>9. CASE yield_publish
    <3>1. ThreadRuns' /\ UNCHANGED ctx
      BY <1>1, <2>2, <2>9 DEF yield_publish, At, Goto, ThreadRuns, Underway, Conts
    <3> QED
      BY <2>4, <3>1
  <2>10. CASE yield_running
    <3>1. ThreadRuns' /\ UNCHANGED ctx
      BY <1>1, <2>2, <2>10 DEF yield_running, At, Goto, ThreadRuns, Underway, Conts
    <3> QED
      BY <2>4, <3>1
  <2>11. CASE yield_switch
    <3>1. /\ ctx' = [ctx EXCEPT ![cpu.thr] = Fresh(cpu.thr)]
          /\ cpu' = ctx[cpu.nxt] /\ current' = current /\ cpu.pc = "switch"
      BY <2>11 DEF yield_switch, context_switch, At
    <3>2. cpu.nxt = current
      BY <2>2, <3>1 DEF ThreadRuns
    <3>3. ctx'[Idle] = Held /\ \A p \in Pids \ {Idle} : ctx'[p] = Fresh(p)
      BY <1>1, <2>1, <2>2, <3>1 DEF HeldInv
    <3>4. CASE current = Idle
      BY <2>2, <2>3, <3>1, <3>2, <3>3, <3>4 DEF HeldInv
    <3>5. CASE current # Idle
      <4>1. cpu' = Fresh(current)
        BY <1>1, <3>1, <3>2, <3>5 DEF HeldInv
      <4>2. ThreadRuns'
        BY <1>1, <3>1, <3>5, <4>1, Contexts DEF ThreadRuns, Underway
      <4> QED
        BY <2>3, <3>3, <4>2 DEF HeldInv
    <3> QED
      BY <3>4, <3>5
  <2> QED
    BY <1>5, <2>6, <2>7, <2>8, <2>9, <2>10, <2>11, Zenon DEF Thread
<1> QED
  BY <1>2, <1>4, <1>5

-----------------------------------------------------------------------------
(***************************************************************************)
(* kmain: what has been set up when a step comes next.  A boot that ends   *)
(* in kernel_panic promises nothing.                                       *)
(***************************************************************************)

\* Done goes on to the next step of kmain.
LEMMA DoneStep ==
    ASSUME NEW k \in 1 .. 14, boot = Steps[k], Done
    PROVE  boot' = Steps[k + 1]
<1>1. 1 .. Len(Steps) - 1 = 1 .. 14
  BY DEF Steps
<1>2. \A i, j \in 1 .. 14 : Steps[i] = Steps[j] => i = j
  BY DEF Steps
<1>3. (CHOOSE i \in 1 .. 14 : Steps[i] = boot) = k
  BY <1>2
<1>4. boot' = Steps[1 + k]
  BY <1>1, <1>3, Zenon DEF Done
<1> QED
  BY <1>4

\* The same, step by step.
LEMMA DoneSteps ==
    ASSUME Done
    PROVE  /\ boot = "idt_init" => boot' = "kheap_init"
           /\ boot = "kheap_init" => boot' = "pit_init"
           /\ boot = "pit_init" => boot' = "rootfs"
           /\ boot = "rootfs" => boot' = "keyboard_driver_register"
           /\ boot = "keyboard_driver_register" => boot' = "framebuffer_driver_register"
           /\ boot = "framebuffer_driver_register" => boot' = "fb_init"
           /\ boot = "fb_init" => boot' = "drivers_probe_all"
           /\ boot = "drivers_probe_all" => boot' = "probing"
           /\ boot = "probing" => boot' = "proc_init"
           /\ boot = "proc_init" => boot' = "sched_init"
           /\ boot = "sched_init" => boot' = "create_init"
           /\ boot = "create_init" => boot' = "sched_add"
           /\ boot = "sched_add" => boot' = "irq_enable"
           /\ boot = "irq_enable" => boot' = "idle"
<1>1. \A k \in 1 .. 14 : boot = Steps[k] => boot' = Steps[k + 1]
  BY DoneStep
<1> QED
  BY <1>1 DEF Steps

Tables ==
    /\ boot \notin {"idt_init", "panic"}
          => gates = Exceptions \cup {Syscall} \cup {IRQ_BASE + i : i \in Irqs}
             /\ pic_base = IRQ_BASE
    /\ boot \notin {"idt_init", "kheap_init", "pit_init", "panic"}
          => irq_handlers[0] = "pit_irq_handler"
    /\ boot \in {"proc_init", "sched_init", "create_init", "sched_add",
                 "irq_enable", "idle"}
          => irq_handlers[1] = "keyboard_irq_handler"

DriversOn ==
    /\ boot \in {"idt_init", "kheap_init", "pit_init", "rootfs",
                 "keyboard_driver_register"} => registered = <<>>
    /\ boot = "framebuffer_driver_register" => registered = <<"keyboard">>
    /\ boot \in {"fb_init", "drivers_probe_all", "probing"}
          => "keyboard" \in Range(registered)
    /\ boot \notin {"probing", "idle"} => probing = "idle"

Processes ==
    /\ boot \in {"sched_init", "create_init", "sched_add", "irq_enable", "idle"}
          => state[Idle] # "FREE"
    /\ boot \in {"sched_add", "irq_enable", "idle"} => state[1] # "FREE"
    /\ boot \in {"irq_enable", "idle"} => Len(queue) > 0
    /\ boot # "idle" => inService = FALSE

BootInv == TypeOK /\ HeldInv /\ DevInv /\ Tables /\ DriversOn /\ Processes

\* The first state: the zeroed bss.
LEMMA BootInitInv == BootInit => BootInv
<1> SUFFICES ASSUME BootInit
             PROVE  BootInv
  OBVIOUS
<1>1. \A p \in Pids : Fresh(p) \in Conts
  BY FreshType
<1>2. TypeOK
  <2>1. /\ state \in [Pids -> States] /\ current \in Pids
        /\ queue \in Seq(Pids \ {Idle})
    BY SlotPids DEF BootInit, States
  <2>2. /\ vruntime \in [Pids -> 0 .. VrMod - 1] /\ slice \in [Pids -> 0 .. Quantum - 1]
        /\ sleep_left \in [Pids -> 0 .. SleepTicks]
    BY SchedOpsAssumption, SchedPreemptAssumption DEF BootInit
  <2>3. ctx \in [Pids -> Conts] /\ cpu \in Conts
    BY <1>1, SlotPids DEF BootInit
  <2> QED
    BY <2>1, <2>2, <2>3 DEF TypeOK
<1>3. HeldInv
  BY SlotPids DEF BootInit, HeldInv
<1>4. DevInv
  BY DEF BootInit, DevInit, DevInv, DevTypes, Linked, Distinct, Entry
<1>5. boot = "idt_init"
  BY DEF BootInit, Steps
<1>6. Tables /\ DriversOn /\ Processes
  BY <1>5 DEF BootInit, DevInit, Tables, DriversOn, Processes
<1> QED
  BY <1>2, <1>3, <1>4, <1>6 DEF BootInv

\* The steps of kmain that set up devices.
LEMMA DeviceStep ==
    ASSUME BootInv, device_step, UNCHANGED <<untouched, tags>>
    PROVE  BootInv'
<1>1. UNCHANGED <<state, queue, current, vruntime, slice, sleep_left, ctx, cpu, inService>>
  BY DEF device_step, untouched
<1>2. TypeOK' /\ HeldInv'
  BY <1>1 DEF BootInv, TypeOK, HeldInv, ThreadRuns, Underway
<1>3. DevInv /\ DevTypes /\ Tables /\ DriversOn /\ Processes
  BY DEF BootInv, DevInv
<1>4. irq_handlers \in [Irqs -> {NULL, "pit_irq_handler", "keyboard_irq_handler"}]
  BY <1>3 DEF DevTypes
<1>5. ASSUME boot = "idt_init", idt_init, Done
      PROVE  DevInv' /\ Tables' /\ DriversOn' /\ Processes'
  <2>1. boot' = "kheap_init" /\ UNCHANGED regVars /\ probing = "idle"
    BY <1>3, <1>5, DoneSteps DEF idt_init, DriversOn
  <2>2. DevInv'
    BY <1>3, <1>5, <2>1
    DEF idt_init, regVars, DevInv, DevTypes, Linked, Distinct, Entry
  <2>3. Tables' /\ DriversOn' /\ Processes'
    BY <1>1, <1>3, <1>5, <2>1
    DEF idt_init, regVars, Tables, DriversOn, Processes
  <2> QED
    BY <2>2, <2>3
<1>6. ASSUME boot = "pit_init", pit_init, Done
      PROVE  DevInv' /\ Tables' /\ DriversOn' /\ Processes'
  <2>1. boot' = "rootfs" /\ probing = "idle"
        /\ UNCHANGED <<gates, pic_base, regVars, g_fb_mem>>
        /\ irq_handlers' = [irq_handlers EXCEPT ![0] = "pit_irq_handler"]
    BY <1>3, <1>6, DoneSteps DEF pit_init, irq_register_handler, DriversOn
  <2>2. /\ irq_handlers' \in [Irqs -> {NULL, "pit_irq_handler", "keyboard_irq_handler"}]
        /\ irq_handlers'[0] = "pit_irq_handler"
    BY <1>4, <2>1 DEF Irqs
  <2>3. DevInv'
    BY <1>3, <2>1, <2>2 DEF regVars, DevInv, DevTypes, Linked, Distinct, Entry
  <2>4. Tables' /\ DriversOn' /\ Processes'
    BY <1>1, <1>3, <1>6, <2>1, <2>2 DEF regVars, Tables, DriversOn, Processes
  <2> QED
    BY <2>3, <2>4
<1>7. ASSUME boot \in {"kheap_init", "rootfs"}, UNCHANGED devVars, DoneOrPanic
      PROVE  DevInv' /\ Tables' /\ DriversOn' /\ Processes'
  <2>1. \/ boot = "kheap_init" /\ boot' = "pit_init"
        \/ boot = "rootfs" /\ boot' = "keyboard_driver_register"
        \/ boot' = "panic"
    BY <1>7, DoneSteps DEF DoneOrPanic
  <2>2. DevInv'
    BY <1>3, <1>7
    DEF devVars, DevInv, DevTypes, Linked, Distinct, Entry, AtEntry, Probed
  <2>3. Tables' /\ DriversOn' /\ Processes'
    BY <1>1, <1>3, <1>7, <2>1 DEF devVars, Tables, DriversOn, Processes
  <2> QED
    BY <2>2, <2>3
<1>8. ASSUME boot = "keyboard_driver_register", driver_register("keyboard"), Done
      PROVE  DevInv' /\ Tables' /\ DriversOn' /\ Processes'
  <2>1. /\ boot' = "framebuffer_driver_register"
        /\ registered = <<>> /\ probing = "idle"
        /\ UNCHANGED <<probing, gates, pic_base, irq_handlers>>
    BY <1>3, <1>8, DoneSteps DEF driver_register, DriversOn
  <2>2. "keyboard" \in Drivers \ Range(registered)
    BY <2>1 DEF Drivers, Range
  <2>3. DevInv' /\ registered' = <<"keyboard">> \o registered
    BY <1>3, <1>8, <2>1, <2>2, RegisterStep
  <2>4. registered' = <<"keyboard">>
    BY <2>1, <2>3
  <2>5. Tables' /\ DriversOn' /\ Processes'
    BY <1>1, <1>3, <1>8, <2>1, <2>4 DEF Tables, DriversOn, Processes
  <2> QED
    BY <2>3, <2>5
<1>9. ASSUME boot = "framebuffer_driver_register", driver_register("framebuffer"), Done
      PROVE  DevInv' /\ Tables' /\ DriversOn' /\ Processes'
  <2>1. /\ boot' = "fb_init" /\ registered = <<"keyboard">> /\ probing = "idle"
        /\ UNCHANGED <<probing, gates, pic_base, irq_handlers>>
    BY <1>3, <1>9, DoneSteps DEF driver_register, DriversOn
  <2>2. "framebuffer" \in Drivers \ Range(registered)
    BY <2>1 DEF Drivers, Range
  <2>3. DevInv' /\ registered' = <<"framebuffer">> \o registered
    BY <1>3, <1>9, <2>1, <2>2, RegisterStep
  <2>4. Len(registered') = 2 /\ registered'[2] = "keyboard"
    BY <2>1, <2>3
  <2>5. "keyboard" \in Range(registered')
    BY <2>3, <2>4 DEF Range, DevInv, DevTypes
  <2>6. Tables' /\ DriversOn' /\ Processes'
    BY <1>1, <1>3, <1>9, <2>1, <2>5 DEF Tables, DriversOn, Processes
  <2> QED
    BY <2>3, <2>6
<1>10. ASSUME boot = "fb_init", NEW b, fb_init(b), Done
       PROVE  DevInv' /\ Tables' /\ DriversOn' /\ Processes'
  <2>1. /\ boot' = "drivers_probe_all" /\ probing = "idle"
        /\ UNCHANGED <<gates, pic_base, irq_handlers, regVars>>
    BY <1>3, <1>10, DoneSteps DEF fb_init, DriversOn
  <2>2. DevInv'
    BY <1>3, <2>1 DEF regVars, DevInv, DevTypes, Linked, Distinct, Entry
  <2>3. Tables' /\ DriversOn' /\ Processes'
    BY <1>1, <1>3, <1>10, <2>1 DEF regVars, Tables, DriversOn, Processes
  <2> QED
    BY <2>2, <2>3
<1>11. ASSUME boot = "drivers_probe_all", probe_begin, Done
       PROVE  DevInv' /\ Tables' /\ DriversOn' /\ Processes'
  <2>1. boot' = "probing" /\ UNCHANGED <<gates, pic_base, irq_handlers, registered>>
    BY <1>11, DoneSteps DEF probe_begin
  <2>2. DevInv'
    BY <1>3, <1>11, ProbeStep
  <2>3. Tables' /\ DriversOn' /\ Processes'
    BY <1>1, <1>3, <1>11, <2>1 DEF Tables, DriversOn, Processes
  <2> QED
    BY <2>2, <2>3
<1>12. ASSUME boot = "probing", probe_next, UNCHANGED boot
       PROVE  DevInv' /\ Tables' /\ DriversOn' /\ Processes'
  <2>1. DevInv' /\ registered' = registered
    BY <1>3, <1>12, ProbeStep
  <2>2. /\ UNCHANGED <<gates, pic_base>>
        /\ irq_handlers' = IF probing = "keyboard"
                           THEN [irq_handlers EXCEPT ![1] = "keyboard_irq_handler"]
                           ELSE irq_handlers
    BY <1>12 DEF probe_next, irq_register_handler
  <2>3. irq_handlers'[0] = irq_handlers[0]
    BY <1>4, <2>2 DEF Irqs
  <2>4. Tables' /\ DriversOn' /\ Processes'
    BY <1>1, <1>3, <1>12, <2>1, <2>2, <2>3 DEF Tables, DriversOn, Processes
  <2> QED
    BY <2>1, <2>4
<1>13. ASSUME boot = "probing", probe_end, Done
       PROVE  DevInv' /\ Tables' /\ DriversOn' /\ Processes'
  <2>1. /\ boot' = "proc_init" /\ probing = NULL /\ probing' = "idle"
        /\ UNCHANGED <<gates, pic_base, irq_handlers, registered>>
    BY <1>13, DoneSteps DEF probe_end
  <2>2. DevInv'
    BY <1>3, <1>13, ProbeStep
  <2>3. \A d \in Range(registered) : Probed(d)
    BY <1>3, <2>1, EndOfProbe
  <2>4. irq_handlers[1] = "keyboard_irq_handler"
    BY <1>3, <1>13, <2>3 DEF DriversOn, Probed
  <2>5. Tables' /\ DriversOn' /\ Processes'
    BY <1>1, <1>3, <1>13, <2>1, <2>4 DEF Tables, DriversOn, Processes
  <2> QED
    BY <2>2, <2>5
<1> QED
  <2>1. DevInv' /\ Tables' /\ DriversOn' /\ Processes'
    <3>1. CASE /\ boot = "fb_init" /\ Done
               /\ \E addr \in BOOLEAN :
                     fb_init(mb2_find_tag(MB2_TAG_FRAMEBUFFER) /\ addr)
      <4>1. PICK addr \in BOOLEAN : fb_init(mb2_find_tag(MB2_TAG_FRAMEBUFFER) /\ addr)
        BY <3>1
      <4> QED
        BY <1>10, <3>1, <4>1, Zenon
    <3> QED
      BY <1>5, <1>6, <1>7, <1>8, <1>9, <1>11, <1>12, <1>13, <3>1, Zenon DEF device_step
  <2> QED
    BY <1>2, <2>1 DEF BootInv

\* The steps of kmain that set up processes.
LEMMA SchedStep ==
    ASSUME BootInv, sched_step, UNCHANGED <<untouched, tags>>
    PROVE  BootInv'
<1>1. /\ UNCHANGED <<vruntime, slice, sleep_left, ctx, cpu, inService>>
      /\ UNCHANGED devVars
  BY DEF sched_step, untouched
<1>2. /\ TypeOK /\ HeldInv /\ DevInv /\ Tables /\ DriversOn /\ Processes
      /\ state \in [Pids -> States] /\ queue \in Seq(Pids \ {Idle}) /\ current \in Pids
      /\ Idle \in Pids /\ 1 \in Pids /\ 1 # Idle
  BY SlotPids DEF BootInv, TypeOK
<1>3. DevInv'
  BY <1>1, <1>2
  DEF devVars, DevInv, DevTypes, Linked, Distinct, Entry, AtEntry, Probed
<1>4. ASSUME boot' # boot, boot' # "probing", boot' # "idt_init",
             boot \in {"proc_init", "sched_init", "create_init", "sched_add",
                       "irq_enable"},
             boot' \in {"sched_init", "create_init", "sched_add", "irq_enable",
                        "idle", "panic"}
      PROVE  Tables' /\ DriversOn'
  BY <1>1, <1>2, <1>4 DEF devVars, Tables, DriversOn
<1>5. ASSUME state' \in [Pids -> States], queue' \in Seq(Pids \ {Idle}),
             current' = Idle \/ current' = current, boot # "idle"
      PROVE  TypeOK' /\ HeldInv'
  <2>1. current' \in Pids
    BY <1>2, <1>5
  <2>2. TypeOK'
    BY <1>1, <1>2, <1>5, <2>1 DEF TypeOK
  <2>3. ~inService /\ current' = Idle
    BY <1>2, <1>5 DEF Processes, HeldInv
  <2> QED
    BY <1>1, <1>2, <2>2, <2>3 DEF HeldInv
<1>6. CASE boot = "proc_init"
  <2>1. /\ boot' = "sched_init" /\ UNCHANGED <<queue, current>>
        /\ state' = [p \in Pids |-> IF p = Idle THEN "READY" ELSE "FREE"]
    BY <1>6, DoneSteps DEF sched_step
  <2>2. state' \in [Pids -> States] /\ state'[Idle] # "FREE"
    BY <1>2, <2>1 DEF States
  <2>3. Processes'
    BY <1>1, <1>2, <1>6, <2>1, <2>2 DEF Processes
  <2> QED
    BY <1>2, <1>3, <1>4, <1>5, <1>6, <2>1, <2>2, <2>3 DEF BootInv
<1>7. CASE boot = "sched_init"
  <2>1. boot' = "create_init" /\ queue' = <<>> /\ current' = Idle /\ state' = state
    BY <1>7, DoneSteps DEF sched_step
  <2>2. queue' \in Seq(Pids \ {Idle})
    BY <2>1
  <2>3. Processes'
    BY <1>1, <1>2, <1>7, <2>1 DEF Processes
  <2> QED
    BY <1>2, <1>3, <1>4, <1>5, <1>7, <2>1, <2>2, <2>3 DEF BootInv
<1>8. CASE boot = "create_init"
  <2>1. /\ boot' = "sched_add" \/ boot' = "panic"
        /\ state' = IF boot' = "panic" THEN state ELSE [state EXCEPT ![1] = "READY"]
        /\ UNCHANGED <<queue, current>>
    BY <1>8, DoneSteps DEF sched_step, DoneOrPanic
  <2>2. /\ state' \in [Pids -> States] /\ state'[Idle] = state[Idle]
        /\ boot' # "panic" => state'[1] # "FREE"
    BY <1>2, <2>1 DEF States
  <2>3. Processes'
    BY <1>1, <1>2, <1>8, <2>1, <2>2 DEF Processes
  <2> QED
    BY <1>2, <1>3, <1>4, <1>5, <1>8, <2>1, <2>2, <2>3 DEF BootInv
<1>9. CASE boot = "sched_add"
  <2>1. boot' = "irq_enable" /\ queue' = Append(queue, 1) /\ UNCHANGED <<state, current>>
    BY <1>9, DoneSteps DEF sched_step
  <2>2. queue' \in Seq(Pids \ {Idle}) /\ Len(queue') > 0
    BY <1>2, <2>1
  <2>3. Processes'
    BY <1>1, <1>2, <1>9, <2>1, <2>2 DEF Processes
  <2> QED
    BY <1>2, <1>3, <1>4, <1>5, <1>9, <2>1, <2>2, <2>3 DEF BootInv
<1>10. CASE boot = "irq_enable"
  <2>1. boot' = "idle" /\ UNCHANGED <<state, queue, current>>
    BY <1>10, DoneSteps DEF sched_step
  <2>2. Processes'
    BY <1>1, <1>2, <1>10, <2>1 DEF Processes
  <2> QED
    BY <1>2, <1>3, <1>4, <1>5, <1>10, <2>1, <2>2 DEF BootInv
<1> QED
  BY <1>6, <1>7, <1>8, <1>9, <1>10 DEF sched_step

\* After the boot: interrupts, threads, and calls of the registry by threads.
LEMMA RunningStep ==
    ASSUME BootInv, Running, UNCHANGED <<boot, tags>>
    PROVE  BootInv'
<1>1. /\ TypeInv /\ HeldInv /\ DevInv /\ Tables /\ DriversOn /\ Processes
      /\ boot = "idle" /\ boot' = "idle" /\ Idle \in Pids /\ 1 \in Pids
      /\ queue \in Seq(Pids \ {Idle})
  BY SlotPids DEF BootInv, Running, InterruptsOn, Processes, TypeInv, TypeOK
<1>2. ASSUME TypeInv', Grows, HeldInv', UNCHANGED devVars
      PROVE  BootInv'
  <2>1. DevInv' /\ Tables' /\ DriversOn'
    BY <1>1, <1>2
    DEF devVars, DevInv, DevTypes, Linked, Distinct, Entry, AtEntry, Probed,
        Tables, DriversOn
  <2>2. Processes'
    <3>1. queue' \in Seq(Pids \ {Idle})
      BY <1>2 DEF TypeInv, TypeOK
    <3>2. Len(queue) \in Nat /\ Len(queue') \in Nat
      BY <1>1, <3>1
    <3> QED
      BY <1>1, <1>2, <3>2 DEF Processes, Grows
  <2> QED
    BY <1>2, <2>1, <2>2 DEF BootInv, TypeInv
<1>3. ASSUME irq_timer, UNCHANGED devVars
      PROVE  BootInv'
  <2>1. TypeInv' /\ Grows
    BY <1>1, <1>3, TypeStep DEF irq_timer
  <2>2. HeldInv'
    BY <1>1, <1>3, TimerHeld
  <2> QED
    BY <1>2, <1>3, <2>1, <2>2
<1>4. ASSUME irq_keyboard, UNCHANGED devVars
      PROVE  BootInv'
  <2>1. UNCHANGED <<vars, inService>>
    BY <1>4 DEF irq_keyboard
  <2>2. TypeInv' /\ HeldInv'
    BY <1>1, <2>1 DEF vars, TypeInv, TypeOK, HeldInv, ThreadRuns, Underway
  <2>3. Grows
    BY <1>1, <2>1 DEF vars, Grows
  <2> QED
    BY <1>2, <1>4, <2>2, <2>3
<1>5. ASSUME thread_step, UNCHANGED devVars
      PROVE  BootInv'
  <2>1. HeldInv' /\ (Thread \/ irq_return)
    BY <1>1, <1>5, ThreadHeld
  <2>2. TypeInv' /\ Grows
    BY <1>1, <2>1, TypeStep
  <2> QED
    BY <1>2, <1>5, <2>1, <2>2
<1>6. ASSUME registry_call, UNCHANGED kvars
      PROVE  BootInv'
  <2>1. DevInv'
    BY <1>1, <1>6, RegistryStep
  <2>2. TypeOK' /\ HeldInv' /\ Processes'
    BY <1>1, <1>6
    DEF kvars, vars, TypeInv, TypeOK, HeldInv, ThreadRuns, Underway, Processes
  <2>3. UNCHANGED <<gates, pic_base>> /\ irq_handlers'[0] = irq_handlers[0]
        /\ (irq_handlers[1] = "keyboard_irq_handler"
              => irq_handlers'[1] = "keyboard_irq_handler")
    <3>1. \/ UNCHANGED <<gates, pic_base, irq_handlers>>
          \/ /\ UNCHANGED <<gates, pic_base>>
             /\ irq_handlers' = [irq_handlers EXCEPT ![1] = "keyboard_irq_handler"]
      <4>1. ASSUME probe_next
            PROVE  /\ UNCHANGED <<gates, pic_base>>
                   /\ \/ UNCHANGED irq_handlers
                      \/ irq_handlers' = [irq_handlers EXCEPT ![1] = "keyboard_irq_handler"]
        BY <4>1, Zenon DEF probe_next, irq_register_handler
      <4>2. ASSUME probe_begin \/ probe_end
            PROVE  UNCHANGED <<gates, pic_base, irq_handlers>>
        BY <4>2 DEF probe_begin, probe_end
      <4>3. ASSUME NEW d, driver_register(d) \/ driver_unregister(d)
            PROVE  UNCHANGED <<gates, pic_base, irq_handlers>>
        BY <4>3 DEF driver_register, driver_unregister
      <4> QED
        BY <1>6, <4>1, <4>2, <4>3, Zenon DEF registry_call
    <3>2. irq_handlers \in [Irqs -> {NULL, "pit_irq_handler", "keyboard_irq_handler"}]
      BY <1>1 DEF DevInv, DevTypes
    <3> QED
      BY <3>1, <3>2 DEF Irqs
  <2>4. Tables' /\ DriversOn'
    BY <1>1, <2>3 DEF Tables, DriversOn
  <2> QED
    BY <2>1, <2>2, <2>4 DEF BootInv
<1> QED
  BY <1>3, <1>4, <1>5, <1>6, Zenon DEF Running, irq_0, irq_1

\* Every step of the machine.
LEMMA BootNextInv == BootInv /\ [BootNext]_bvars => BootInv'
<1> SUFFICES ASSUME BootInv, [BootNext]_bvars
             PROVE  BootInv'
  OBVIOUS
<1>1. ASSUME UNCHANGED <<vars, inService, devVars, boot>>
      PROVE  BootInv'
  <2>1. TypeOK' /\ HeldInv'
    BY <1>1 DEF vars, BootInv, TypeOK, HeldInv, ThreadRuns, Underway
  <2>2. DevInv'
    BY <1>1
    DEF devVars, BootInv, DevInv, DevTypes, Linked, Distinct, Entry, AtEntry, Probed
  <2>3. Tables' /\ DriversOn' /\ Processes'
    BY <1>1 DEF vars, devVars, BootInv, Tables, DriversOn, Processes
  <2> QED
    BY <2>1, <2>2, <2>3 DEF BootInv
<1>2. CASE kmain
  BY <1>2, DeviceStep, SchedStep DEF kmain
<1>3. CASE kernel_panic \/ UNCHANGED bvars
  BY <1>1, <1>3 DEF kernel_panic, bvars, kvars
<1>4. CASE key_press /\ UNCHANGED <<devVars, boot, tags>>
  BY <1>1, <1>4 DEF key_press
<1>5. CASE Running /\ UNCHANGED <<boot, tags>>
  BY <1>5, RunningStep
<1> QED
  BY <1>2, <1>3, <1>4, <1>5 DEF BootNext

\* The invariant holds in every reachable state.
LEMMA BootHolds == BootSpec => []BootInv
  BY BootInitInv, BootNextInv, PTL DEF BootSpec

\* For any number of processes: from the tick that first dispatches a thread,
\* IRQ 0 stays in service until idle runs again, so no tick falls under a
\* thread, and no context is ever overwritten.
THEOREM NoTickUnderThreads == BootSpec => []TimerHeldByIdle
<1>1. BootInv => TimerHeldByIdle
  <2> SUFFICES ASSUME BootInv
               PROVE  TimerHeldByIdle
    OBVIOUS
  <2>1. HeldInv
    BY DEF BootInv
  <2>2. current # Idle => inService
    BY <2>1 DEF HeldInv
  <2>3. ASSUME NEW p \in Pids
        PROVE  ctx[p].thr = p
    BY <2>1, Contexts DEF HeldInv
  <2> QED
    BY <2>2, <2>3 DEF TimerHeldByIdle, ContextsSound
<1> QED
  BY <1>1, BootHolds, PTL

-----------------------------------------------------------------------------
(***************************************************************************)
(* Sleepers.  A SLEEPING process executes the statements between the store *)
(* of that state and the one sched_yield begins with.                      *)
(***************************************************************************)

SleepInv ==
    \A p \in Pids : state[p] = "SLEEPING"
                       => cpu.thr = p /\ cpu.pc \in {"sleep_until", "yield"}

\* A tick puts nobody to sleep.
LEMMA TickAwakes ==
    ASSUME TypeInv, sched_tick, NEW p \in Pids, state'[p] = "SLEEPING"
    PROVE  state[p] = "SLEEPING"
<1> DEFINE woken == Woken(queue, state, sleep_left', 0)
           ready == Preempted(woken, current)
           next  == pick_next(queue, ready, vruntime')
<1>1. state' \in {woken, ready, [ready EXCEPT ![next] = "RUNNING"]}
  BY DEF sched_tick
<1>2. woken[p] # state[p] => woken[p] = "READY"
  BY DEF Woken
<1>3. ready[p] # woken[p] => ready[p] = "READY"
  <2>1. DOMAIN woken = Pids
    BY DEF Woken
  <2> HIDE DEF woken
  <2> QED
    BY <2>1 DEF Preempted
<1>4. DOMAIN ready = Pids
  BY DEF Preempted, Woken
<1> HIDE DEF ready, next, woken
<1>5. [ready EXCEPT ![next] = "RUNNING"][p] \in {ready[p], "RUNNING"}
  BY <1>4
<1> QED
  BY <1>1, <1>2, <1>3, <1>5

\* Thread code: SLEEPING is stored by the thread that executes, and READY over
\* it before that thread can switch.
LEMMA ThreadSleeps ==
    ASSUME TypeInv, HeldInv, SleepInv, Thread \/ irq_return
    PROVE  SleepInv'
<1>1. /\ cpu \in Conts /\ state \in [Pids -> States] /\ current \in Pids
  BY DEF TypeInv, TypeOK
<1>2. CASE irq_return
  BY <1>1, <1>2 DEF irq_return, SleepInv, Conts
<1>3. ASSUME Thread
      PROVE  SleepInv'
  <2>1. ~cpu.irq /\ cpu.thr # Idle
    BY <1>3
    DEF Thread, start_service, sleep_state, sleep_deadline, exit_state,
        yield_ready, yield_pick, yield_publish, yield_running, yield_switch, At
  <2>2. cpu.pc \notin {"running", "switch"} => cpu.thr = current
    BY <1>1, <2>1, Contexts DEF HeldInv, ThreadRuns
  <2>3. ASSUME cpu.pc \notin {"sleep_until", "yield"},
               \A p \in Pids : state'[p] = "SLEEPING" => state[p] = "SLEEPING"
        PROVE  SleepInv'
    BY <2>3 DEF SleepInv
  <2>4. CASE start_service \/ \E p \in Pids : exit_state(p)
    BY <1>1, <2>3, <2>4 DEF start_service, exit_state, At
  <2>5. CASE sleep_state
    BY <1>1, <2>2, <2>5 DEF sleep_state, At, Goto, SleepInv, Conts
  <2>6. CASE sleep_deadline
    BY <1>1, <2>6 DEF sleep_deadline, At, Goto, SleepInv, Conts
  <2>7. CASE yield_ready
    BY <1>1, <2>2, <2>7 DEF yield_ready, At, Goto, SleepInv, Conts
  <2>8. CASE yield_pick \/ yield_publish \/ yield_running \/ yield_switch
    BY <1>1, <2>3, <2>8 DEF yield_pick, yield_publish, yield_running, yield_switch, At
  <2> QED
    BY <1>3, <2>4, <2>5, <2>6, <2>7, <2>8, Zenon DEF Thread
<1> QED
  BY <1>2, <1>3

\* Every step of the machine.
LEMMA SleepNext == BootInv /\ SleepInv /\ [BootNext]_bvars => SleepInv'
<1> SUFFICES ASSUME BootInv, SleepInv, [BootNext]_bvars
             PROVE  SleepInv'
  OBVIOUS
<1>1. ASSUME UNCHANGED <<state, cpu>>
      PROVE  SleepInv'
  BY <1>1 DEF SleepInv
<1>2. CASE kmain
  <2>1. UNCHANGED cpu
    BY <1>2 DEF kmain, untouched
  <2>2. CASE device_step
    BY <1>1, <2>1, <2>2 DEF device_step
  <2>3. CASE sched_step
    <3>1. \A p \in Pids : state'[p] = "SLEEPING" => state[p] = "SLEEPING"
      BY <2>3 DEF sched_step, BootInv, TypeOK
    <3> QED
      BY <2>1, <3>1 DEF SleepInv
  <2> QED
    BY <1>2, <2>2, <2>3 DEF kmain
<1>3. CASE kernel_panic \/ UNCHANGED bvars \/ key_press
  BY <1>1, <1>3 DEF kernel_panic, key_press, bvars, kvars, vars
<1>4. CASE Running
  <2>1. TypeInv /\ HeldInv
    BY <1>4, SlotPids DEF BootInv, Running, InterruptsOn, Processes, TypeInv
  <2>2. CASE irq_timer
    <3>1. cpu = Fresh(Idle)
      BY <2>1, <2>2 DEF HeldInv, irq_timer
    <3>2. \A p \in Pids : state[p] # "SLEEPING"
      BY <3>1, SlotPids, Contexts DEF SleepInv
    <3> QED
      BY <2>1, <2>2, <3>2, TickAwakes DEF irq_timer, SleepInv
  <2>3. CASE irq_keyboard
    BY <1>1, <2>3 DEF irq_keyboard, vars
  <2>4. CASE thread_step
    <3>1. Thread \/ irq_return
      BY <2>1, <2>4, ThreadHeld
    <3> QED
      BY <2>1, <3>1, ThreadSleeps
  <2>5. CASE UNCHANGED kvars
    BY <1>1, <2>5 DEF kvars, vars
  <2> QED
    BY <1>4, <2>2, <2>3, <2>4, <2>5, Zenon DEF Running, irq_0, irq_1
<1> QED
  BY <1>2, <1>3, <1>4 DEF BootNext

\* For any number of processes: as the kernel is booted nobody is ever away
\* from the CPU and SLEEPING, so the missing ticks lose no wake-up.
THEOREM SleepersNeedNoWakeUp == BootSpec => []SleepersOnCpu
<1>1. BootInit => SleepInv
  BY DEF BootInit, SleepInv
<1>2. SleepInv => SleepersOnCpu
  BY DEF SleepInv, SleepersOnCpu
<1> QED
  BY <1>1, <1>2, BootHolds, SleepNext, PTL DEF BootSpec

-----------------------------------------------------------------------------

\* When kmain switches interrupts on, gates, controller, handlers and
\* scheduler are in place, and they stay so.
THEOREM BootIsOrdered == BootSpec => []BootOrder
<1>1. BootInv => BootOrder
  <2> SUFFICES ASSUME BootInv, InterruptsOn
               PROVE  /\ \A i \in Irqs : pic_base + i \in gates \ Exceptions
                      /\ irq_handlers[0] = "pit_irq_handler"
                      /\ irq_handlers[1] = "keyboard_irq_handler"
                      /\ state[Idle] # "FREE" /\ state[1] # "FREE"
                      /\ Range(queue) # {}
    BY DEF BootOrder
  <2>1. boot = "idle" /\ Tables /\ Processes
    BY DEF InterruptsOn, BootInv
  <2>2. \A i \in Irqs : pic_base + i \in gates \ Exceptions
    BY <2>1 DEF Tables, IRQ_BASE, Irqs, Exceptions
  <2>3. queue \in Seq(Pids \ {Idle}) /\ Len(queue) > 0
    BY <2>1 DEF BootInv, TypeOK, Processes
  <2>4. Range(queue) # {}
    <3>1. 1 \in DOMAIN queue
      BY <2>3
    <3> QED
      BY <3>1, Zenon DEF Range
  <2> QED
    BY <2>1, <2>2, <2>4 DEF Tables, Processes
<1> QED
  BY <1>1, BootHolds, PTL

\* Walking the links from the head meets the registered drivers, newest first.
THEOREM RegistryStaysList == BootSpec => []RegistryIsList
<1>1. BootInv => RegistryIsList
  <2> SUFFICES ASSUME BootInv
               PROVE  RegistryIsList
    OBVIOUS
  <2>1. /\ driver_list_head = Entry(1)
        /\ \A n \in 1 .. Len(registered) : drv_next[registered[n]] = Entry(n + 1)
        /\ \A n \in 1 .. Len(registered) : registered[n] # NULL
        /\ Len(registered) \in Nat
    BY DEF BootInv, DevInv, DevTypes, Linked, Drivers, NULL
  <2>2. ASSUME NEW n \in 1 .. 3
        PROVE  Follow(Entry(n)) = Entry(n + 1)
    BY <2>1 DEF Follow, Entry
  <2>3. Follow(Entry(1)) = Entry(2) /\ Follow(Entry(2)) = Entry(3) /\ Follow(Entry(3)) = Entry(4)
    BY <2>2
  <2>4. Walk = <<Entry(1), Entry(2), Entry(3), Entry(4)>>
    BY <2>1, <2>3, Zenon DEF Walk
  <2>5. \A n \in 1 .. 4 : n = 1 \/ n = 2 \/ n = 3 \/ n = 4
    OBVIOUS
  <2>6. Walk[1] = Entry(1) /\ Walk[2] = Entry(2) /\ Walk[3] = Entry(3) /\ Walk[4] = Entry(4)
    BY <2>4
  <2> QED
    BY <2>5, <2>6, Zenon DEF RegistryIsList
<1> QED
  BY <1>1, BootHolds, PTL

\* drivers_probe_all reaches every driver of the list, whichever of them fail.
THEOREM EveryDriverIsProbed == BootSpec => ProbeReachesAll
<1>1. BootInv /\ [BootNext]_bvars
         => [probe_end => /\ \A d \in Range(registered) :
                                drv_state[d] = IF d = "framebuffer" /\ ~g_fb_mem
                                               THEN "ERROR" ELSE "RUNNING"
                          /\ "keyboard" \in Range(registered)
                                => irq_handlers[1] = "keyboard_irq_handler"]_devVars
  <2> SUFFICES ASSUME BootInv, probe_end
               PROVE  \A d \in Range(registered) : Probed(d)
    BY DEF Probed
  <2> QED
    BY EndOfProbe DEF BootInv, probe_end
<1> QED
  BY <1>1, BootHolds, PTL DEF BootSpec, ProbeReachesAll

=============================================================================
