---------------------------- MODULE SchedProofs -----------------------------
(***************************************************************************)
(* Safety of the scheduler with interrupts off, for every number of        *)
(* processes, quantum, width of vruntime, priority, signal and bound.      *)
(***************************************************************************)
EXTENDS Sched, WellFoundedInduction, TLAPS

(***************************************************************************)
(* Lemmas about the operators of SchedOps.                                 *)
(***************************************************************************)

\* A non-empty set of naturals has a least element.
LEMMA NatMinimum ==
    ASSUME NEW S \in SUBSET Nat, S # {}
    PROVE  \E x \in S : \A y \in S : x <= y
<1>1. PICK x \in S : \A y \in S : ~(<<y, x>> \in OpToRel(<, Nat))
  BY NatLessThanWellFounded, WFMin, Zenon
<1>2. ASSUME NEW y \in S
      PROVE  ~(y < x)
  <2>1. <<y, x>> \in Nat \X Nat
    OBVIOUS
  <2>2. y < x => <<y, x>> \in OpToRel(<, Nat)
    BY <2>1, Zenon DEF OpToRel
  <2> QED
    BY <1>1, <2>2
<1> QED
  BY <1>2

\* pick_next returns a READY process of the queue that no READY process of
\* the queue precedes in vruntime, or idle when there is none.
LEMMA PickNext ==
    ASSUME NEW q \in Seq(Pids \ {Idle}), NEW st, NEW vr \in [Pids -> Nat]
    PROVE  \/ /\ pick_next(q, st, vr) = Idle
              /\ ReadyAt(q, st) = {}
           \/ \E i \in ReadyAt(q, st) :
                 /\ pick_next(q, st, vr) = q[i]
                 /\ \A j \in ReadyAt(q, st) : vr[q[i]] <= vr[q[j]]
<1> DEFINE ready == ReadyAt(q, st)
           least == {i \in ready : \A j \in ready : vr[q[i]] <= vr[q[j]]}
<1>1. CASE ready = {}
  BY <1>1 DEF pick_next
<1>2. CASE ready # {}
  <2>1. ready \in SUBSET (1 .. Len(q)) /\ Len(q) \in Nat
    BY DEF ReadyAt
  <2>2. \A i \in ready : vr[q[i]] \in Nat
    BY <2>1
  <2> DEFINE V == {vr[q[i]] : i \in ready}
  <2>3. V \in SUBSET Nat /\ V # {}
    BY <1>2, <2>2
  <2>4. PICK v \in V : \A w \in V : v <= w
    <3> HIDE DEF V
    <3> QED
      BY <2>3, NatMinimum
  <2>5. least # {}
    BY <2>4
  <2>6. least \in SUBSET Nat
    BY <2>1
  <2> DEFINE m == CHOOSE i \in least : \A j \in least : i <= j
  <2>7. \E i \in least : \A j \in least : i <= j
    <3> HIDE DEF least
    <3> QED
      BY <2>5, <2>6, NatMinimum
  <2>8. m \in least
    BY <2>7, Zenon
  <2>9. pick_next(q, st, vr) = q[m]
    BY <1>2, Zenon DEF pick_next
  <2> QED
    BY <2>8, <2>9
<1> QED
  BY <1>1, <1>2

\* vruntime stays in its range: what a tick charges is reduced modulo 2^w.
LEMMA ChargeType ==
    ASSUME NEW v \in 0 .. VrMod - 1, NEW prio \in 0 .. 255
    PROVE  Charge(v, prio) \in 0 .. VrMod - 1
<1>1. VrMod \in Nat /\ VrMod > 0 /\ v + (255 - prio + 1) \in Nat
  BY SchedOpsAssumption
<1>2. ASSUME NEW a \in Nat
      PROVE  a % VrMod \in 0 .. VrMod - 1
  BY <1>1
<1> QED
  BY <1>1, <1>2 DEF Charge

\* pid 0 is a slot of the table.
LEMMA IdleIsPid == Idle \in Pids
  BY SchedOpsAssumption DEF Idle, Pids

-----------------------------------------------------------------------------
(***************************************************************************)
(* The inductive invariant.  QueueExact speaks of the slots in use, so the *)
(* proof needs that no step frees one: pid 0 and current are never free.   *)
(***************************************************************************)

SlotsInUse == state[Idle] # "FREE" /\ state[current] # "FREE"

Inv == TypeOK /\ RunningIsCurrent /\ QueueExact /\ SlotsInUse

\* What a step that hands over the CPU does to the table: the slots in use
\* stay the same, and idle gets the CPU only if nothing on the queue wants it.
HandOver ==
    /\ state' \in [Pids -> States]
    /\ current' \in Pids
    /\ RunningIsCurrent'
    /\ \A p \in Pids : state'[p] = "FREE" <=> state[p] = "FREE"
    /\ state'[current'] # "FREE"
    /\ current' = Idle => \A p \in Created : state'[p] # "READY"

\* switch_to the process pick_next chooses, from a table st with the slots of
\* state and with nothing RUNNING, is a hand-over.
LEMMA SwitchToPicked ==
    ASSUME Inv,
           NEW st \in [Pids -> States], NEW vr \in [Pids -> Nat],
           \A p \in Pids : st[p] = "FREE" <=> state[p] = "FREE",
           \A p \in Pids : st[p] # "RUNNING",
           switch_to(pick_next(queue, st, vr), st)
    PROVE  HandOver
<1> DEFINE next == pick_next(queue, st, vr)
<1>1. /\ queue \in Seq(Pids \ {Idle}) /\ current \in Pids
      /\ state \in [Pids -> States]
  BY DEF Inv, TypeOK
<1>2. \/ next = Idle /\ ReadyAt(queue, st) = {}
      \/ \E i \in ReadyAt(queue, st) : next = queue[i]
  BY <1>1, PickNext, ZenonT(60)
<1>3. next \in Pids /\ st[next] # "FREE"
  <2>1. CASE next = Idle
    BY <2>1, IdleIsPid DEF Inv, SlotsInUse
  <2>2. ASSUME NEW i \in ReadyAt(queue, st), next = queue[i]
        PROVE  next \in Pids /\ st[next] # "FREE"
    BY <1>1, <2>2 DEF ReadyAt
  <2> QED
    BY <1>2, <2>1, <2>2
<1>4. next = Idle => \A p \in Created : st[p] # "READY"
  <2> SUFFICES ASSUME next = Idle, NEW p \in Created
               PROVE  st[p] # "READY"
    OBVIOUS
  <2>1. ASSUME NEW i \in ReadyAt(queue, st), next = queue[i]
        PROVE  FALSE
    BY <1>1, <2>1 DEF ReadyAt
  <2>2. ReadyAt(queue, st) = {}
    BY <1>2, <2>1
  <2>3. PICK i \in 1 .. Len(queue) : queue[i] = p
    BY DEF Inv, QueueExact, Range
  <2> QED
    BY <2>2, <2>3 DEF ReadyAt
<1> HIDE DEF next
<1>5. CASE next = current
  <2>1. state' = st /\ current' = current
    BY <1>5 DEF switch_to, next
  <2> QED
    BY <1>1, <1>3, <1>4, <1>5, <2>1 DEF HandOver, RunningIsCurrent
<1>6. CASE next # current
  <2>1. state' = [st EXCEPT ![next] = "RUNNING"] /\ current' = next
    BY <1>6 DEF switch_to, next
  <2>2. state' \in [Pids -> States]
    BY <2>1 DEF States
  <2> QED
    BY <1>1, <1>3, <1>4, <2>1, <2>2 DEF HandOver, RunningIsCurrent
<1> QED
  BY <1>5, <1>6

\* sched_yield from any table with the slots of state and nothing RUNNING but
\* the caller is a hand-over.
LEMMA YieldFrom ==
    ASSUME Inv,
           NEW st \in [Pids -> States],
           \A p \in Pids : st[p] = "FREE" <=> state[p] = "FREE",
           \A p \in Pids : st[p] = "RUNNING" => p = current,
           yield_from(st)
    PROVE  HandOver
<1> DEFINE ready == [st EXCEPT ![current] = "READY"]
<1>1. ready \in [Pids -> States]
  BY DEF States
<1>2. \A p \in Pids : ready[p] = "FREE" <=> state[p] = "FREE"
  BY DEF Inv, SlotsInUse, TypeOK
<1>3. \A p \in Pids : ready[p] # "RUNNING"
  OBVIOUS
<1>4. vruntime \in [Pids -> Nat]
  BY SchedOpsAssumption DEF Inv, TypeOK
<1>5. switch_to(pick_next(queue, ready, vruntime), ready)
  BY Zenon DEF yield_from
<1> HIDE DEF ready
<1> QED
  BY <1>1, <1>2, <1>3, <1>4, <1>5, SwitchToPicked

\* A hand-over that leaves the run queue alone keeps the properties of the
\* table.
LEMMA HandOverKeeps ==
    ASSUME Inv, HandOver, UNCHANGED queue
    PROVE  RunningIsCurrent' /\ QueueExact' /\ SlotsInUse'
<1>1. Created' = Created
  BY IdleIsPid DEF HandOver, Created
<1>2. Range(queue)' = Range(queue)
  BY DEF Range
<1> QED
  BY <1>1, <1>2, IdleIsPid DEF Inv, HandOver, QueueExact, SlotsInUse

\* With the fields that only a tick or a creation writes left alone, the
\* types of the others are all that is left to show.
LEMMA SyscallKeeps ==
    ASSUME Inv, HandOver, UNCHANGED <<accounting, queue, panicked>>,
           sleep_until' \in [Pids -> Nat],
           inExit' \subseteq Pids, exited' \subseteq Pids
    PROVE  Inv'
<1>1. RunningIsCurrent' /\ QueueExact' /\ SlotsInUse'
  BY HandOverKeeps, Zenon
<1>2. TypeOK'
  BY Zenon DEF Inv, TypeOK, HandOver, accounting
<1> QED
  BY <1>1, <1>2 DEF Inv

-----------------------------------------------------------------------------
(***************************************************************************)
(* Every action keeps the invariant.                                       *)
(***************************************************************************)

\* sys_yield hands the CPU over and writes nothing else.
LEMMA YieldStep ==
    ASSUME Inv, sys_yield
    PROVE  HandOver /\ Inv'
<1>1. HandOver
  BY YieldFrom DEF Inv, TypeOK, RunningIsCurrent, sys_yield
<1>2. Inv'
  BY <1>1, SyscallKeeps, Zenon DEF Inv, TypeOK, sys_yield
<1> QED
  BY <1>1, <1>2

\* sys_sleep hands the CPU over from a table where the caller sleeps.
LEMMA SleepStep ==
    ASSUME Inv, NEW ms \in SleepTimes, sys_sleep(ms)
    PROVE  HandOver /\ Inv'
<1> DEFINE st == [state EXCEPT ![current] = "SLEEPING"]
<1>1. /\ st \in [Pids -> States]
      /\ \A p \in Pids : st[p] = "FREE" <=> state[p] = "FREE"
      /\ \A p \in Pids : st[p] = "RUNNING" => p = current
  BY DEF Inv, TypeOK, RunningIsCurrent, SlotsInUse, States
<1>2. yield_from(st)
  BY DEF sys_sleep
<1>3. HandOver
  <2> HIDE DEF st
  <2> QED
    BY <1>1, <1>2, YieldFrom
<1>4. sleep_until' \in [Pids -> Nat]
  BY SchedAssumption DEF Inv, TypeOK, sys_sleep
<1>5. Inv'
  BY <1>3, <1>4, SyscallKeeps, Zenon DEF Inv, TypeOK, sys_sleep
<1> QED
  BY <1>3, <1>5

\* proc_exit of a process in use hands the CPU over.
LEMMA ExitStep ==
    ASSUME Inv, NEW p \in Pids, state[p] # "FREE", proc_exit(p)
    PROVE  HandOver /\ exited' \subseteq Pids
<1> DEFINE st == [state EXCEPT ![p] = "ZOMBIE"]
<1>1. /\ st \in [Pids -> States]
      /\ \A q \in Pids : st[q] = "FREE" <=> state[q] = "FREE"
      /\ \A q \in Pids : st[q] = "RUNNING" => q = current
  BY DEF Inv, TypeOK, RunningIsCurrent, States
<1>2. yield_from(st)
  BY DEF proc_exit
<1>3. HandOver
  <2> HIDE DEF st
  <2> QED
    BY <1>1, <1>2, YieldFrom
<1>4. exited' \subseteq Pids
  BY DEF Inv, TypeOK, proc_exit
<1> QED
  BY <1>3, <1>4

\* sys_exit, both halves.
LEMMA SysExitStep ==
    ASSUME Inv, sys_exit \/ sys_exit_rest
    PROVE  HandOver /\ Inv'
<1>1. current \in Pids /\ state[current] # "FREE" /\ inExit \subseteq Pids
  BY DEF Inv, TypeOK, SlotsInUse
<1>2. CASE sys_exit
  <2>1. HandOver /\ exited' \subseteq Pids
    BY <1>1, <1>2, ExitStep DEF sys_exit
  <2>2. inExit' \subseteq Pids
    BY <1>1, <1>2 DEF sys_exit
  <2>3. Inv'
    BY <1>2, <2>1, <2>2, SyscallKeeps, Zenon DEF Inv, TypeOK, sys_exit
  <2> QED
    BY <2>1, <2>3
<1>3. CASE sys_exit_rest
  <2>1. HandOver
    BY <1>3, YieldFrom DEF Inv, TypeOK, RunningIsCurrent, sys_exit_rest
  <2>2. inExit' \subseteq Pids
    BY <1>1, <1>3 DEF sys_exit_rest
  <2>3. Inv'
    BY <1>3, <2>1, <2>2, SyscallKeeps, Zenon DEF Inv, TypeOK, sys_exit_rest
  <2> QED
    BY <2>1, <2>3
<1> QED
  BY <1>2, <1>3

\* A signal either ends a process, which hands the CPU over, or changes the
\* state of one process in use and leaves the CPU where it is.
LEMMA KillStep ==
    ASSUME Inv, NEW p \in Pids, NEW sig \in Signals, sys_kill(p, sig)
    PROVE  (HandOver \/ current' = current) /\ Inv'
<1>1. state[p] # "FREE" /\ UNCHANGED <<accounting, sleep_until, queue, inExit, panicked>>
  BY DEF sys_kill
<1>2. CASE proc_exit(p)
  <2>1. HandOver /\ exited' \subseteq Pids
    BY <1>1, <1>2, ExitStep
  <2>2. Inv'
    BY <1>1, <2>1, SyscallKeeps, Zenon DEF Inv, TypeOK
  <2> QED
    BY <2>1, <2>2
<1>3. ASSUME NEW s \in {"BLOCKED", "READY", state[p]},
             state' = [state EXCEPT ![p] = s],
             UNCHANGED <<current, exited>>
      PROVE  current' = current /\ Inv'
  <2>1. /\ state' \in [Pids -> States]
        /\ \A q \in Pids : state'[q] = "FREE" <=> state[q] = "FREE"
        /\ RunningIsCurrent' /\ SlotsInUse'
    BY <1>1, <1>3, IdleIsPid
    DEF Inv, TypeOK, RunningIsCurrent, SlotsInUse, States
  <2>2. Created' = Created /\ Range(queue)' = Range(queue)
    BY <1>1, <2>1 DEF Created, Range
  <2>3. QueueExact'
    BY <1>1, <2>2 DEF Inv, QueueExact
  <2>4. TypeOK'
    BY <1>1, <1>3, <2>1, Zenon DEF Inv, TypeOK, accounting
  <2> QED
    BY <1>3, <2>1, <2>3, <2>4 DEF Inv
<1> QED
  <2>1. \/ proc_exit(p)
        \/ \E s \in {"BLOCKED", "READY", state[p]} :
              state' = [state EXCEPT ![p] = s] /\ UNCHANGED <<current, exited>>
    BY Zenon DEF sys_kill, signal_send
  <2> QED
    BY <1>2, <1>3, <2>1

\* A tick that ends no slice changes no state but SLEEPING to READY; one that
\* does hands the CPU over.
LEMMA TickStep ==
    ASSUME Inv, sched_tick
    PROVE  (HandOver \/ current' = current) /\ Inv'
<1> DEFINE woken == Woken(queue, state, sleep_until, tick + 1)
           ready == Preempted(woken, current)
<1>1. /\ state \in [Pids -> States] /\ current \in Pids
      /\ \A p \in Pids : state[p] = "RUNNING" => p = current
  BY DEF Inv, TypeOK, RunningIsCurrent
<1>2. /\ woken \in [Pids -> States]
      /\ \A p \in Pids : woken[p] = "FREE" <=> state[p] = "FREE"
      /\ \A p \in Pids : woken[p] = "RUNNING" <=> state[p] = "RUNNING"
  BY <1>1 DEF Woken, States
<1>3. vruntime' \in [Pids -> 0 .. VrMod - 1]
  <2>1. Charge(vruntime[current], priority[current]) \in 0 .. VrMod - 1
    BY ChargeType DEF Inv, TypeOK
  <2> QED
    BY <2>1 DEF sched_tick, Inv, TypeOK
<1>4. runtime_ticks' \in [Pids -> Nat] /\ tick' \in Nat
  BY DEF sched_tick, Inv, TypeOK
<1>5. \/ switch_to(pick_next(queue, ready, vruntime'), ready)
      \/ state' = woken /\ current' = current
  BY Zenon DEF sched_tick
<1> HIDE DEF woken
<1>6. /\ ready \in [Pids -> States]
      /\ \A p \in Pids : ready[p] = "FREE" <=> state[p] = "FREE"
      /\ \A p \in Pids : ready[p] # "RUNNING"
  BY <1>1, <1>2 DEF Preempted, States
<1> HIDE DEF ready
<1>7. /\ HandOver \/ current' = current
      /\ state' \in [Pids -> States] /\ current' \in Pids
      /\ RunningIsCurrent' /\ QueueExact' /\ SlotsInUse'
  <2>1. CASE switch_to(pick_next(queue, ready, vruntime'), ready)
    <3>1. vruntime' \in [Pids -> Nat]
      BY <1>3, SchedOpsAssumption
    <3>2. HandOver
      BY <1>6, <2>1, <3>1, SwitchToPicked
    <3> QED
      BY <3>2, HandOverKeeps DEF HandOver, sched_tick
  <2>2. CASE state' = woken /\ current' = current
    <3>1. Created' = Created /\ Range(queue)' = Range(queue)
      BY <1>2, <2>2 DEF Created, Range, sched_tick
    <3>2. QueueExact'
      BY <3>1 DEF Inv, QueueExact, sched_tick
    <3> QED
      BY <1>1, <1>2, <2>2, <3>2, IdleIsPid
      DEF Inv, RunningIsCurrent, SlotsInUse
  <2> QED
    BY <1>5, <2>1, <2>2
<1>8. TypeOK'
  BY <1>3, <1>4, <1>7, Zenon DEF Inv, TypeOK, sched_tick
<1> QED
  BY <1>7, <1>8 DEF Inv

\* The slot a new process gets was free, so the queue did not hold it.
LEMMA SpawnStep ==
    ASSUME Inv, NEW prio \in Priorities, spawn(prio)
    PROVE  current' = current /\ Inv'
<1> DEFINE pid == CHOOSE p \in FreeSlots : \A q \in FreeSlots : p <= q
<1>1. pid \in FreeSlots
  <2>1. FreeSlots \in SUBSET Nat /\ FreeSlots # {}
    BY DEF FreeSlots, Pids, spawn
  <2>2. \E p \in FreeSlots : \A q \in FreeSlots : p <= q
    BY <2>1, NatMinimum
  <2> QED
    BY <2>2, Zenon
<1>2. /\ state' = [state EXCEPT ![pid] = "READY"]
      /\ priority' = [priority EXCEPT ![pid] = prio]
      /\ queue' = Append(queue, pid)
      /\ UNCHANGED <<vruntime, runtime_ticks, sleep_until, current, tick,
                     inExit, exited, panicked>>
  BY Zenon DEF spawn
<1> HIDE DEF pid
<1>3. pid \in Pids /\ pid # Idle /\ state[pid] = "FREE"
  BY <1>1 DEF FreeSlots
<1>4. state \in [Pids -> States] /\ queue \in Seq(Pids \ {Idle}) /\ current \in Pids
  BY DEF Inv, TypeOK
<1>5. /\ state' \in [Pids -> States] /\ RunningIsCurrent' /\ SlotsInUse'
  BY <1>2, <1>3, <1>4, IdleIsPid DEF Inv, RunningIsCurrent, SlotsInUse, States
<1>6. priority' \in [Pids -> 0 .. 255]
  BY <1>2, SchedAssumption DEF Inv, TypeOK
<1>7. /\ queue' \in Seq(Pids \ {Idle})
      /\ Len(queue') = Len(queue) + 1 /\ Len(queue) \in Nat
      /\ \A i \in 1 .. Len(queue) : queue'[i] = queue[i]
      /\ queue'[Len(queue) + 1] = pid
  BY <1>2, <1>3, <1>4
<1>8. Created' = Created \cup {pid} /\ pid \notin Created
  BY <1>2, <1>3, <1>4 DEF Created
<1>9. Range(queue)' = Range(queue) \cup {pid}
  <2>1. Range(queue)' = {queue'[i] : i \in 1 .. Len(queue')}
    BY DEF Range
  <2>2. \A i \in 1 .. Len(queue') : i \in 1 .. Len(queue) \/ i = Len(queue) + 1
    BY <1>7
  <2>3. 1 .. Len(queue) \subseteq 1 .. Len(queue') /\ Len(queue) + 1 \in 1 .. Len(queue')
    BY <1>7
  <2> QED
    BY <1>7, <2>1, <2>2, <2>3 DEF Range
<1>10. QueueExact'
  <2>1. \A i \in 1 .. Len(queue) : queue[i] # pid
    BY <1>8 DEF Inv, QueueExact, Range
  <2>2. ASSUME NEW i \in 1 .. Len(queue'), NEW j \in 1 .. Len(queue'),
               queue'[i] = queue'[j]
        PROVE  i = j
    BY <1>7, <2>1, <2>2 DEF Inv, QueueExact
  <2> QED
    BY <1>8, <1>9, <2>2 DEF Inv, QueueExact
<1>11. TypeOK'
  BY <1>2, <1>5, <1>6, <1>7, Zenon DEF Inv, TypeOK
<1> QED
  BY <1>2, <1>5, <1>10, <1>11 DEF Inv

-----------------------------------------------------------------------------
(***************************************************************************)
(* The theorems.                                                           *)
(***************************************************************************)

\* The table proc_init and sched_init leave satisfies the invariant.
LEMMA InitInv == Init => Inv
<1> SUFFICES ASSUME Init PROVE Inv
  OBVIOUS
<1>1. vruntime \in [Pids -> 0 .. VrMod - 1]
  BY SchedOpsAssumption DEF Init
<1>2. priority \in [Pids -> 0 .. 255]
  BY DEF Init
<1>3. /\ state \in [Pids -> States] /\ queue \in Seq(Pids \ {Idle})
      /\ current \in Pids /\ tick \in Nat
      /\ runtime_ticks \in [Pids -> Nat] /\ sleep_until \in [Pids -> Nat]
  BY IdleIsPid DEF Init, States
<1>4. TypeOK
  BY <1>1, <1>2, <1>3, Zenon DEF Init, TypeOK
<1>5. RunningIsCurrent /\ SlotsInUse
  BY IdleIsPid DEF Init, RunningIsCurrent, SlotsInUse
<1>6. QueueExact
  <2>1. Len(queue) = 0
    BY DEF Init
  <2> QED
    BY <2>1 DEF Init, QueueExact, Range, Created
<1> QED
  BY <1>4, <1>5, <1>6 DEF Inv

\* Every step keeps the invariant, and a step that moves the CPU hands it over.
LEMMA NextInv == Inv /\ [Next]_vars => Inv' /\ (HandOver \/ current' = current)
<1> SUFFICES ASSUME Inv, [Next]_vars
             PROVE  Inv' /\ (HandOver \/ current' = current)
  OBVIOUS
<1>1. CASE UNCHANGED vars
  <2>1. TypeOK'
    BY <1>1, Zenon DEF vars, Inv, TypeOK
  <2>2. RunningIsCurrent' /\ QueueExact' /\ SlotsInUse'
    BY <1>1
    DEF vars, Inv, RunningIsCurrent, QueueExact, SlotsInUse, Range, Created
  <2> QED
    BY <1>1, <2>1, <2>2 DEF Inv, vars
<1>2. ASSUME NEW prio \in Priorities, spawn(prio)
      PROVE  Inv' /\ current' = current
  BY <1>2, SpawnStep
<1>3. ASSUME spawn_no_slot
      PROVE  Inv' /\ current' = current
  <2>1. TypeOK'
    BY <1>3, Zenon DEF spawn_no_slot, Inv, TypeOK
  <2>2. RunningIsCurrent' /\ QueueExact' /\ SlotsInUse'
    BY <1>3
    DEF spawn_no_slot, Inv, RunningIsCurrent, QueueExact, SlotsInUse, Range,
        Created
  <2> QED
    BY <1>3, <2>1, <2>2 DEF Inv, spawn_no_slot
<1>4. ASSUME Syscall
      PROVE  Inv' /\ (HandOver \/ current' = current)
  BY <1>4, YieldStep, SleepStep, SysExitStep, KillStep, Zenon DEF Syscall
<1>5. ASSUME sys_exit_rest
      PROVE  Inv' /\ HandOver
  BY <1>5, SysExitStep
<1>6. ASSUME Timer
      PROVE  Inv' /\ (HandOver \/ current' = current)
  BY <1>6, TickStep DEF Timer
<1> QED
  BY <1>1, <1>2, <1>3, <1>4, <1>5, <1>6, Zenon DEF Next, Create

\* The invariant holds in every reachable state.
LEMMA InvHolds == Spec => []Inv
<1>1. Inv /\ [Next]_vars => Inv'
  BY NextInv
<1> QED
  BY <1>1, InitInv, PTL DEF Spec

\* Every field of the table and of the run queue keeps its C type.
THEOREM SchedTypes == Spec => []TypeOK
<1>1. Inv => TypeOK
  BY DEF Inv
<1> QED
  BY <1>1, InvHolds, PTL

\* For any number of processes and any use of the calls, at most one process
\* is RUNNING, and it is g_runqueue.current.
THEOREM OneRuns == Spec => []RunningIsCurrent
<1>1. Inv => RunningIsCurrent
  BY DEF Inv
<1> QED
  BY <1>1, InvHolds, PTL

\* sched_add and nothing else writes the run queue: it holds every process
\* that was created exactly once, whatever becomes of the process.
THEOREM NobodyIsLost == Spec => []QueueExact
<1>1. Inv => QueueExact
  BY DEF Inv
<1> QED
  BY <1>1, InvHolds, PTL

\* The idle process is given the CPU only when no created process is READY,
\* by sched_yield and by sched_tick alike.
THEOREM IdleOnlyWhenNothingReady == Spec => IdleIsLastResort
<1>1. Inv /\ [Next]_vars => Inv'
  BY NextInv
<1>2. Inv /\ [Next]_vars
         => [current' = Idle /\ current # Idle
                => \A p \in Created : state'[p] # "READY"]_vars
  BY NextInv, Zenon DEF HandOver
<1> QED
  BY <1>1, <1>2, InitInv, PTL DEF Spec, IdleIsLastResort

-----------------------------------------------------------------------------
(***************************************************************************)
(* Killed processes.  A zombie that has the CPU could be made READY by its *)
(* own next yield, so the invariant has to exclude it.                     *)
(***************************************************************************)

DeadOffCpu == current = Idle \/ state[current] # "ZOMBIE"

DeadStays ==
    \A p \in Pids \ {Idle} :
        state[p] = "ZOMBIE"
           => /\ current' # p
              /\ state'[p] = "ZOMBIE" \/ sys_kill(p, "SIGSTOP")

\* switch_to the process pick_next chooses from st dispatches no zombie of st
\* but, at most, idle, and leaves the zombies of st what they are.
LEMMA SwitchDead ==
    ASSUME Inv,
           NEW st \in [Pids -> States], NEW vr \in [Pids -> Nat],
           switch_to(pick_next(queue, st, vr), st)
    PROVE  /\ DeadOffCpu'
           /\ \A p \in Pids \ {Idle} :
                 p # current /\ st[p] = "ZOMBIE"
                    => current' # p /\ state'[p] = "ZOMBIE"
<1> DEFINE next == pick_next(queue, st, vr)
<1>1. queue \in Seq(Pids \ {Idle}) /\ current \in Pids
  BY DEF Inv, TypeOK
<1>2. \/ next = Idle
      \/ \E i \in ReadyAt(queue, st) : next = queue[i]
  BY <1>1, PickNext, Zenon
<1>3. next \in Pids /\ (next = Idle \/ st[next] = "READY")
  BY <1>1, <1>2, IdleIsPid DEF ReadyAt
<1> HIDE DEF next
<1>4. \/ next = current /\ state' = st /\ current' = current
      \/ state' = [st EXCEPT ![next] = "RUNNING"] /\ current' = next
  BY DEF switch_to, next
<1> QED
  BY <1>3, <1>4 DEF DeadOffCpu

\* The same for sched_yield, which makes only its caller READY.
LEMMA YieldDead ==
    ASSUME Inv, NEW st \in [Pids -> States], yield_from(st)
    PROVE  /\ DeadOffCpu'
           /\ \A p \in Pids \ {Idle} :
                 p # current /\ st[p] = "ZOMBIE"
                    => current' # p /\ state'[p] = "ZOMBIE"
<1> DEFINE ready == [st EXCEPT ![current] = "READY"]
<1>1. ready \in [Pids -> States] /\ vruntime \in [Pids -> Nat]
  BY SchedOpsAssumption DEF States, Inv, TypeOK
<1>2. switch_to(pick_next(queue, ready, vruntime), ready)
  BY Zenon DEF yield_from
<1>3. \A p \in Pids : p # current => ready[p] = st[p]
  OBVIOUS
<1> HIDE DEF ready
<1> QED
  BY <1>1, <1>2, <1>3, SwitchDead

\* proc_exit of any process makes one more zombie and yields.
LEMMA ExitDead ==
    ASSUME Inv, DeadOffCpu, NEW q \in Pids, proc_exit(q)
    PROVE  DeadOffCpu' /\ DeadStays
<1> DEFINE st == [state EXCEPT ![q] = "ZOMBIE"]
<1>1. /\ st \in [Pids -> States]
      /\ \A p \in Pids : state[p] = "ZOMBIE" => st[p] = "ZOMBIE"
  BY DEF Inv, TypeOK, States
<1>2. yield_from(st)
  BY DEF proc_exit
<1> HIDE DEF st
<1> QED
  BY <1>1, <1>2, YieldDead DEF DeadOffCpu, DeadStays

\* Of the signals only SIGSTOP touches a zombie.
LEMMA KillDead ==
    ASSUME Inv, DeadOffCpu, NEW q \in Pids, NEW sig, sys_kill(q, sig)
    PROVE  DeadOffCpu' /\ DeadStays
<1>1. state \in [Pids -> States] /\ current \in Pids
  BY DEF Inv, TypeOK
<1>2. CASE proc_exit(q)
  BY <1>2, ExitDead
<1>3. CASE /\ sig = "SIGSTOP"
           /\ state' = [state EXCEPT ![q] = "BLOCKED"] /\ UNCHANGED current
  BY <1>1, <1>3 DEF DeadOffCpu, DeadStays
<1>4. CASE /\ state' = [state EXCEPT ![q] = IF @ = "BLOCKED" THEN "READY" ELSE @]
           /\ UNCHANGED current
  BY <1>1, <1>4 DEF DeadOffCpu, DeadStays
<1> QED
  BY <1>2, <1>3, <1>4, Zenon DEF sys_kill, signal_send

\* A tick wakes sleepers and preempts the RUNNING process, never a zombie.
LEMMA TickDead ==
    ASSUME Inv, DeadOffCpu, sched_tick
    PROVE  DeadOffCpu' /\ DeadStays
<1> DEFINE woken == Woken(queue, state, sleep_until, tick + 1)
           ready == Preempted(woken, current)
<1>1. state \in [Pids -> States] /\ current \in Pids
  BY DEF Inv, TypeOK
<1>2. /\ woken \in [Pids -> States]
      /\ \A p \in Pids : woken[p] = "ZOMBIE" <=> state[p] = "ZOMBIE"
  BY <1>1 DEF Woken, States
<1>3. vruntime' \in [Pids -> Nat]
  <2>1. Charge(vruntime[current], priority[current]) \in 0 .. VrMod - 1
    BY ChargeType DEF Inv, TypeOK
  <2> QED
    BY <2>1, SchedOpsAssumption DEF sched_tick, Inv, TypeOK
<1>4. \/ switch_to(pick_next(queue, ready, vruntime'), ready)
      \/ state' = woken /\ current' = current
  BY Zenon DEF sched_tick
<1> HIDE DEF woken
<1>5. /\ ready \in [Pids -> States]
      /\ \A p \in Pids : ready[p] = "ZOMBIE" <=> state[p] = "ZOMBIE"
  BY <1>1, <1>2 DEF Preempted, States
<1> HIDE DEF ready
<1>6. CASE switch_to(pick_next(queue, ready, vruntime'), ready)
  BY <1>3, <1>5, <1>6, SwitchDead DEF DeadOffCpu, DeadStays
<1>7. CASE state' = woken /\ current' = current
  BY <1>1, <1>2, <1>7 DEF DeadOffCpu, DeadStays
<1> QED
  BY <1>4, <1>6, <1>7

\* Every step keeps zombies off the CPU and, but for SIGSTOP, zombies.
LEMMA NextDead == Inv /\ DeadOffCpu /\ [Next]_vars => DeadOffCpu' /\ DeadStays
<1> SUFFICES ASSUME Inv, DeadOffCpu, [Next]_vars
             PROVE  DeadOffCpu' /\ DeadStays
  OBVIOUS
<1>1. state \in [Pids -> States] /\ current \in Pids
  BY DEF Inv, TypeOK
<1>2. ASSUME UNCHANGED <<state, current>>
      PROVE  DeadOffCpu' /\ DeadStays
  BY <1>2 DEF DeadOffCpu, DeadStays
<1>3. ASSUME NEW prio \in Priorities, spawn(prio)
      PROVE  DeadOffCpu' /\ DeadStays
  <2> DEFINE pid == CHOOSE p \in FreeSlots : \A q \in FreeSlots : p <= q
  <2>1. FreeSlots \in SUBSET Nat /\ FreeSlots # {}
    BY <1>3 DEF FreeSlots, Pids, spawn
  <2>2. \E p \in FreeSlots : \A q \in FreeSlots : p <= q
    BY <2>1, NatMinimum
  <2>3. pid \in FreeSlots
    BY <2>2, Zenon
  <2>4. state' = [state EXCEPT ![pid] = "READY"] /\ current' = current
    BY <1>3, Zenon DEF spawn
  <2> HIDE DEF pid
  <2> QED
    BY <1>1, <2>3, <2>4 DEF FreeSlots, DeadOffCpu, DeadStays
<1>4. ASSUME NEW ms \in SleepTimes, sys_sleep(ms)
      PROVE  DeadOffCpu' /\ DeadStays
  <2> DEFINE st == [state EXCEPT ![current] = "SLEEPING"]
  <2>1. /\ st \in [Pids -> States]
        /\ \A p \in Pids : p # current => st[p] = state[p]
    BY <1>1 DEF States
  <2>2. yield_from(st)
    BY <1>4 DEF sys_sleep
  <2> HIDE DEF st
  <2> QED
    BY <2>1, <2>2, YieldDead DEF DeadOffCpu, DeadStays
<1>5. ASSUME yield_from(state)
      PROVE  DeadOffCpu' /\ DeadStays
  BY <1>1, <1>5, YieldDead DEF DeadOffCpu, DeadStays
<1>6. ASSUME Syscall
      PROVE  DeadOffCpu' /\ DeadStays
  <2>1. CASE sys_yield
    BY <1>5, <2>1 DEF sys_yield
  <2>2. CASE sys_exit
    BY <1>1, <2>2, ExitDead DEF sys_exit
  <2> QED
    BY <1>4, <1>6, <2>1, <2>2, KillDead, Zenon DEF Syscall
<1>7. ASSUME Create
      PROVE  DeadOffCpu' /\ DeadStays
  <2>1. CASE spawn_no_slot
    BY <1>2, <2>1 DEF spawn_no_slot
  <2> QED
    BY <1>3, <1>7, <2>1, Zenon DEF Create
<1>8. CASE UNCHANGED vars
  BY <1>2, <1>8 DEF vars
<1>9. CASE sys_exit_rest
  BY <1>5, <1>9 DEF sys_exit_rest
<1>10. CASE Timer
  BY <1>10, TickDead DEF Timer
<1> QED
  BY <1>6, <1>7, <1>8, <1>9, <1>10, Zenon DEF Next

\* A process that was killed is never dispatched again and stays a zombie
\* until somebody sends it SIGSTOP, whatever else the kernel does.
THEOREM DeadNeverRun == Spec => KilledStaysDead
<1>1. Init => Inv /\ DeadOffCpu
  BY InitInv DEF Init, DeadOffCpu
<1>2. Inv /\ DeadOffCpu /\ [Next]_vars => (Inv /\ DeadOffCpu)'
  BY NextInv, NextDead
<1>3. Inv /\ DeadOffCpu /\ [Next]_vars
         => [\A p \in Pids \ {Idle} :
                state[p] = "ZOMBIE"
                   => /\ current' # p
                      /\ state'[p] = "ZOMBIE" \/ sys_kill(p, "SIGSTOP")]_vars
  BY NextDead, Zenon DEF DeadStays
<1> QED
  BY <1>1, <1>2, <1>3, PTL DEF Spec, KilledStaysDead

-----------------------------------------------------------------------------
(***************************************************************************)
(* Who is served next.  QueueExact brings the choice pick_next makes among *)
(* the entries of the queue to all processes that were created.            *)
(***************************************************************************)

Served ==
    current' # current /\ current' # Idle
       => \A q \in Created : state'[q] = "READY"
                               => vruntime'[current'] <= vruntime'[q]

\* A switch to the choice of pick_next by the new vruntimes serves the least.
LEMMA SwitchServes ==
    ASSUME Inv,
           NEW st \in [Pids -> States], vruntime' \in [Pids -> Nat],
           switch_to(pick_next(queue, st, vruntime'), st)
    PROVE  Served
<1> DEFINE next == pick_next(queue, st, vruntime')
<1>1. /\ queue \in Seq(Pids \ {Idle}) /\ current \in Pids
      /\ Range(queue) = Created
  BY DEF Inv, TypeOK, QueueExact
<1>2. \/ next = Idle
      \/ \E i \in ReadyAt(queue, st) :
            /\ next = queue[i]
            /\ \A j \in ReadyAt(queue, st) : vruntime'[queue[i]] <= vruntime'[queue[j]]
  BY <1>1, PickNext, Zenon
<1> HIDE DEF next
<1>3. \/ next = current /\ current' = current
      \/ state' = [st EXCEPT ![next] = "RUNNING"] /\ current' = next
  BY DEF switch_to, next
<1>4. SUFFICES ASSUME current' # current, current' # Idle,
                      NEW q \in Created, state'[q] = "READY"
               PROVE  vruntime'[current'] <= vruntime'[q]
  BY DEF Served
<1>5. PICK j \in 1 .. Len(queue) : queue[j] = q
  BY <1>1 DEF Range
<1>6. q \in Pids /\ st[q] = "READY"
  BY <1>3, <1>4 DEF Created, States
<1> QED
  BY <1>2, <1>3, <1>4, <1>5, <1>6 DEF ReadyAt

\* sched_yield leaves the vruntimes alone.
LEMMA YieldServes ==
    ASSUME Inv, NEW st \in [Pids -> States], yield_from(st), UNCHANGED vruntime
    PROVE  Served
<1> DEFINE ready == [st EXCEPT ![current] = "READY"]
<1>1. ready \in [Pids -> States] /\ vruntime' \in [Pids -> Nat]
  BY SchedOpsAssumption DEF States, Inv, TypeOK
<1>2. switch_to(pick_next(queue, ready, vruntime'), ready)
  BY Zenon DEF yield_from
<1> HIDE DEF ready
<1> QED
  BY <1>1, <1>2, SwitchServes

\* sched_tick charges first and chooses by what it has charged.
LEMMA TickServes ==
    ASSUME Inv, sched_tick
    PROVE  Served
<1> DEFINE woken == Woken(queue, state, sleep_until, tick + 1)
           ready == Preempted(woken, current)
<1>1. woken \in [Pids -> States]
  BY DEF Woken, States, Inv, TypeOK
<1>2. vruntime' \in [Pids -> Nat]
  <2>1. Charge(vruntime[current], priority[current]) \in 0 .. VrMod - 1
    BY ChargeType DEF Inv, TypeOK
  <2> QED
    BY <2>1, SchedOpsAssumption DEF sched_tick, Inv, TypeOK
<1>3. \/ switch_to(pick_next(queue, ready, vruntime'), ready)
      \/ current' = current
  BY Zenon DEF sched_tick
<1> HIDE DEF woken
<1>4. ready \in [Pids -> States]
  BY <1>1 DEF Preempted, States
<1> HIDE DEF ready
<1> QED
  BY <1>2, <1>3, <1>4, SwitchServes DEF Served

\* The CPU changes hands by sched_yield or by the tick only.
LEMMA NextServes == Inv /\ [Next]_vars => Served
<1> SUFFICES ASSUME Inv, [Next]_vars
             PROVE  Served
  OBVIOUS
<1>1. state \in [Pids -> States] /\ current \in Pids
  BY DEF Inv, TypeOK
<1>2. ASSUME UNCHANGED current
      PROVE  Served
  BY <1>2 DEF Served
<1>3. ASSUME NEW p \in Pids, proc_exit(p), UNCHANGED vruntime
      PROVE  Served
  <2>1. [state EXCEPT ![p] = "ZOMBIE"] \in [Pids -> States]
    BY <1>1 DEF States
  <2> QED
    BY <1>3, <2>1, YieldServes DEF proc_exit
<1>4. ASSUME NEW ms \in SleepTimes, sys_sleep(ms)
      PROVE  Served
  <2>1. [state EXCEPT ![current] = "SLEEPING"] \in [Pids -> States]
    BY <1>1 DEF States
  <2> QED
    BY <1>4, <2>1, YieldServes DEF sys_sleep, accounting
<1>5. ASSUME NEW p \in Pids, NEW sig, sys_kill(p, sig)
      PROVE  Served
  <2>1. UNCHANGED vruntime /\ (proc_exit(p) \/ UNCHANGED current)
    BY <1>5 DEF sys_kill, signal_send, accounting
  <2> QED
    BY <1>2, <1>3, <2>1
<1>6. ASSUME Syscall
      PROVE  Served
  <2>1. CASE sys_yield
    BY <1>1, <2>1, YieldServes DEF sys_yield, accounting
  <2>2. CASE sys_exit
    BY <1>1, <1>3, <2>2 DEF sys_exit, accounting
  <2> QED
    BY <1>4, <1>5, <1>6, <2>1, <2>2, Zenon DEF Syscall
<1>7. ASSUME Create
      PROVE  Served
  BY <1>2, <1>7 DEF Create, spawn, spawn_no_slot
<1>8. CASE UNCHANGED vars
  BY <1>2, <1>8 DEF vars
<1>9. CASE sys_exit_rest
  BY <1>1, <1>9, YieldServes DEF sys_exit_rest, accounting
<1>10. CASE Timer
  BY <1>10, TickServes DEF Timer
<1> QED
  BY <1>6, <1>7, <1>8, <1>9, <1>10, Zenon DEF Next

\* Whoever is given the CPU has run least of all that are READY then.
THEOREM LeastIsServed == Spec => LeastServedFirst
<1>1. Inv /\ [Next]_vars => Inv'
  BY NextInv
<1>2. Inv /\ [Next]_vars
         => [current' # current /\ current' # Idle
                => \A q \in Created : state'[q] = "READY"
                                        => vruntime'[current'] <= vruntime'[q]]_vars
  BY NextServes, Zenon DEF Served
<1> QED
  BY <1>1, <1>2, InitInv, PTL DEF Spec, LeastServedFirst

=============================================================================
