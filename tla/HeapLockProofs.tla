--------------------------- MODULE HeapLockProofs ---------------------------
(***************************************************************************)
(* The heap's lock is exclusive, puts the interrupt flag back and keeps    *)
(* the assertions of int_enable and int_disable, for any number of tasks.  *)
(***************************************************************************)
EXTENDS HeapLock, TLAPS

\* While kmain runs, interrupts are off, no task has begun and enable_int is
\* false behind the lock; afterwards kmain is in none of its functions.
BootInv ==
    IF current = BOOT
    THEN /\ ~iflag
         /\ pc[BOOT] \in {"run", "clear", "inside"}
         /\ pc[BOOT] = "inside" => ~enable_int
         /\ \A t \in Tasks : pc[t] = "run"
    ELSE pc[BOOT] = "run"

\* A task in the heap is the one that runs, with interrupts off and enable_int
\* as it has set it; the one that runs elsewhere has interrupts on.  This is
\* what makes exclusion inductive: nobody else runs until the task leaves.
TaskInv ==
    \A t \in Tasks :
        /\ pc[t] # "clear"
        /\ InHeap(t) => current = t /\ enable_int
        /\ current = t => iflag = ~InHeap(t)

\* Between the setting of enable_int and the cli the flag is set, whoever ran
\* in between: a task that finds interrupts on never clears it.
FlagInv == \A t \in Tasks : pc[t] = "cli" => enable_int

IInv == TypeOK /\ BootInv /\ TaskInv /\ FlagInv /\ ~panicked

LEMMA InitIInv == Init => IInv
<1> SUFFICES ASSUME Init PROVE IInv
  OBVIOUS
<1>1. 0 \in 0 .. (TickSpace - 1) /\ 0 \in 0 .. TickSpace
  BY HeapLockAssumption
<1>2. pc \in [Callers -> Labels]
  BY DEF Init, Labels
<1>3. /\ end_ticks \in [Tasks -> 0 .. (TickSpace - 1)]
      /\ wanted \in [Tasks -> Durations \cup {0}]
      /\ elapsed \in [Tasks -> 0 .. TickSpace]
      /\ wrapped \in [Tasks -> BOOLEAN]
  BY <1>1 DEF Init
<1>4. TypeOK
  BY <1>1, <1>2, <1>3 DEF Init, TypeOK, Callers
<1>5. BootInv /\ TaskInv /\ FlagInv /\ ~panicked
  BY HeapLockAssumption DEF Init, BootInv, TaskInv, FlagInv, Callers, InHeap
<1>6. QED
  BY <1>4, <1>5 DEF IInv

\* The part of the state that ticks and sleeps do not touch.
LEMMA LockType ==
  ASSUME TypeOK, NEW c \in Callers, NEW from, NEW to \in Labels,
         Goto(c, from, to), iflag' \in BOOLEAN, enable_int' \in BOOLEAN,
         panicked' \in BOOLEAN
  PROVE  TypeOK'
  BY DEF TypeOK, Goto, sleepVars

LEMMA HeapStepIInv ==
  ASSUME IInv, NEW c \in Callers, HeapStep(c)
  PROVE  IInv'
<1> USE HeapLockAssumption DEF IInv, Callers
<1>1. CASE Lock(c)
  <2>1. TypeOK' BY <1>1, LockType DEF Lock, lockVars, Labels, TypeOK
  <2>2. QED
    BY <1>1, <2>1 DEF Lock, Goto, TypeOK, BootInv, TaskInv, FlagInv, InHeap, lockVars
<1>2. CASE SetFlag(c)
  <2>1. TypeOK' BY <1>2, LockType DEF SetFlag, Labels, TypeOK
  <2>2. QED
    BY <1>2, <2>1 DEF SetFlag, Goto, TypeOK, BootInv, TaskInv, FlagInv, InHeap
<1>3. CASE Cli(c)
  <2>1. c \in Tasks /\ iflag
    BY <1>3 DEF Cli, Goto, TypeOK, BootInv, TaskInv, InHeap
  <2>2. TypeOK' BY <1>3, LockType DEF Cli, Labels, TypeOK
  <2>3. QED
    BY <1>3, <2>1, <2>2
    DEF Cli, Goto, TypeOK, BootInv, TaskInv, FlagInv, InHeap
<1>4. CASE ClearFlag(c)
  <2>1. c = BOOT BY <1>4 DEF ClearFlag, Goto, TaskInv
  <2>2. TypeOK' BY <1>4, LockType DEF ClearFlag, Labels, TypeOK
  <2>3. QED
    BY <1>4, <2>1, <2>2
    DEF ClearFlag, Goto, TypeOK, BootInv, TaskInv, FlagInv, InHeap
<1>5. CASE Unlock(c)
  <2>1. TypeOK' BY <1>5, LockType DEF Unlock, lockVars, Labels, TypeOK
  <2>2. QED
    BY <1>5, <2>1
    DEF Unlock, Goto, TypeOK, BootInv, TaskInv, FlagInv, InHeap, lockVars
<1>6. CASE Sti(c)
  <2>1. c \in Tasks /\ ~iflag
    BY <1>6 DEF Sti, Goto, TypeOK, BootInv, TaskInv, InHeap
  <2>2. TypeOK' BY <1>6, LockType DEF Sti, Labels, TypeOK
  <2>3. QED
    BY <1>6, <2>1, <2>2
    DEF Sti, Goto, TypeOK, BootInv, TaskInv, FlagInv, InHeap
<1>7. QED
  BY <1>1, <1>2, <1>3, <1>4, <1>5, <1>6 DEF HeapStep

\* The ends of a round of timer_sleep's loop leave the lock alone.
LEMMA LoopIInv ==
  ASSUME IInv, NEW t \in Tasks, Wake(t) \/ Spin(t)
  PROVE  IInv'
<1> USE HeapLockAssumption DEF IInv, Callers
<1>1. CASE Wake(t)
  <2>1. TypeOK' BY <1>1, LockType DEF Wake, lockVars, Labels, TypeOK
  <2>2. QED
    BY <1>1, <2>1 DEF Wake, Goto, TypeOK, BootInv, TaskInv, FlagInv, InHeap, lockVars
<1>2. CASE Spin(t)
  <2>1. TypeOK' BY <1>2, LockType DEF Spin, lockVars, Labels, TypeOK
  <2>2. QED
    BY <1>2, <2>1 DEF Spin, Goto, TypeOK, BootInv, TaskInv, FlagInv, InHeap, lockVars
<1>3. QED BY <1>1, <1>2

LEMMA SleepIInv ==
  ASSUME IInv, NEW t \in Tasks, NEW n \in Durations, Sleep(t, n)
  PROVE  IInv'
<1> USE HeapLockAssumption DEF IInv, Callers
<1>1. (system_ticks + n) % TickSpace \in 0 .. (TickSpace - 1)
  BY DEF TypeOK
<1>2. (system_ticks + n >= TickSpace) \in BOOLEAN
  OBVIOUS
<1>3. TypeOK'
  BY <1>1, <1>2 DEF Sleep, TypeOK, lockVars, Labels
<1>4. QED
  BY <1>3 DEF Sleep, TypeOK, BootInv, TaskInv, FlagInv, InHeap, lockVars

LEMMA TickIInv ==
  ASSUME IInv, NEW t \in Tasks, Tick(t)
  PROVE  IInv'
<1> USE HeapLockAssumption DEF IInv, Callers
<1>1. (system_ticks + 1) % TickSpace \in 0 .. (TickSpace - 1)
  BY DEF TypeOK
<1>2. elapsed' \in [Tasks -> 0 .. TickSpace]
  BY DEF Tick, TypeOK
<1>3. wrapped' \in [Tasks -> BOOLEAN]
  BY DEF Tick, TypeOK
<1>4. TypeOK'
  BY <1>1, <1>2, <1>3 DEF Tick, TypeOK, lockVars
<1>5. current # BOOT /\ \A s \in Tasks : ~InHeap(s)
  BY DEF Tick, TypeOK, BootInv, TaskInv
<1>6. QED
  BY <1>4, <1>5 DEF Tick, TypeOK, BootInv, TaskInv, FlagInv, InHeap, lockVars

LEMMA StartIInv ==
  ASSUME IInv, NEW t \in Tasks, StartTasks(t)
  PROVE  IInv'
<1> USE HeapLockAssumption DEF IInv, Callers
<1>1. TypeOK' BY DEF StartTasks, TypeOK, sleepVars
<1>2. QED
  BY <1>1 DEF StartTasks, TypeOK, BootInv, TaskInv, FlagInv, InHeap

LEMMA NextIInv == IInv /\ [Next]_vars => IInv'
<1> SUFFICES ASSUME IInv, [Next]_vars PROVE IInv'
  OBVIOUS
<1>1. CASE UNCHANGED vars
  BY <1>1 DEF IInv, TypeOK, BootInv, TaskInv, FlagInv, InHeap, vars, lockVars, sleepVars
<1>2. CASE Next
  BY <1>2, HeapStepIInv, LoopIInv, SleepIInv, TickIInv, StartIInv DEF Next
<1>3. QED BY <1>1, <1>2

\* The inductive invariant holds in every reachable state.
THEOREM LockInvariance == Spec => []IInv
  BY InitIInv, NextIInv, PTL DEF Spec

\* Every variable of the lock and of the clock keeps its type, the counter
\* and the ends of sleeps their width.
THEOREM LockTypeCorrect == Spec => []TypeOK
<1>1. IInv => TypeOK BY DEF IInv
<1>2. QED BY <1>1, LockInvariance, PTL

\* liballoc_lock excludes: no two of any number of callers are in the heap.
THEOREM LockExcludes == Spec => []HeapExclusive
<1>1. IInv => HeapExclusive
  BY HeapLockAssumption
  DEF IInv, TypeOK, BootInv, TaskInv, HeapExclusive, InHeap, Callers
<1>2. QED BY <1>1, LockInvariance, PTL

\* liballoc_unlock gives every caller back the interrupt flag it had.
THEOREM FlagRestored == Spec => []InterruptsRestored
<1>1. IInv => InterruptsRestored
  BY HeapLockAssumption
  DEF IInv, TypeOK, BootInv, TaskInv, InterruptsRestored, InHeap, Callers
<1>2. QED BY <1>1, LockInvariance, PTL

\* int_enable and int_disable never find the flag in the state they exclude.
THEOREM AssertionsHold == Spec => []LockAssertionsHold
<1>1. IInv => LockAssertionsHold BY DEF IInv, LockAssertionsHold
<1>2. QED BY <1>1, LockInvariance, PTL

-----------------------------------------------------------------------------
(* Sleeping.                                                               *)

\* As long as the counter does not pass its end, a sleeping task has seen as
\* many ticks of its sleep as lie between the counter now and at the call.
SleepInv ==
    \A t \in Tasks :
        pc[t] = "sleep" /\ ~wrapped[t] =>
            /\ elapsed[t] =< system_ticks
            /\ end_ticks[t] - wanted[t] = system_ticks - elapsed[t]

LEMMA ModSmall ==
  ASSUME NEW m \in Nat \ {0}, NEW a \in 0 .. (m - 1)
  PROVE  a % m = a
  OBVIOUS

LEMMA ModNext ==
  ASSUME NEW a \in 0 .. (TickSpace - 1)
  PROVE  (a + 1) % TickSpace = IF a + 1 = TickSpace THEN 0 ELSE a + 1
<1> USE HeapLockAssumption
<1>1. CASE a + 1 = TickSpace
  BY <1>1
<1>2. CASE a + 1 # TickSpace
  <2>1. a + 1 \in 0 .. (TickSpace - 1) BY <1>2
  <2>2. QED BY <1>2, <2>1, ModSmall
<1>3. QED BY <1>1, <1>2

LEMMA SleepNumbers ==
  ASSUME TypeOK, NEW t \in Tasks
  PROVE  /\ elapsed[t] \in Int /\ system_ticks \in 0 .. (TickSpace - 1)
         /\ end_ticks[t] \in Int /\ wanted[t] \in Int
<1>1. elapsed[t] \in 0 .. TickSpace /\ end_ticks[t] \in 0 .. (TickSpace - 1)
  BY DEF TypeOK
<1>2. wanted[t] \in Durations \cup {0}
  BY DEF TypeOK
<1>3. \A n \in Durations : n \in Int
  BY HeapLockAssumption
<1>4. QED BY <1>1, <1>2, <1>3 DEF TypeOK

LEMMA SleepNext == IInv /\ SleepInv /\ [Next]_vars => SleepInv'
<1> SUFFICES ASSUME IInv, SleepInv, [Next]_vars,
                    NEW t \in Tasks, pc'[t] = "sleep", ~wrapped'[t]
             PROVE  /\ elapsed'[t] =< system_ticks'
                    /\ end_ticks'[t] - wanted'[t] = system_ticks' - elapsed'[t]
  BY DEF SleepInv
<1> USE HeapLockAssumption DEF IInv, Callers
<1>t. /\ elapsed[t] \in Int /\ system_ticks \in 0 .. (TickSpace - 1)
      /\ end_ticks[t] \in Int /\ wanted[t] \in Int
  BY SleepNumbers
<1>1. ASSUME NEW c \in Callers, NEW from, NEW to, Goto(c, from, to),
             to = "sleep" => from = "sleep"
      PROVE  /\ elapsed'[t] =< system_ticks'
             /\ end_ticks'[t] - wanted'[t] = system_ticks' - elapsed'[t]
  <2>1. pc[t] = "sleep" BY <1>1 DEF Goto, TypeOK
  <2>2. UNCHANGED sleepVars BY <1>1 DEF Goto
  <2>3. QED BY <2>1, <2>2 DEF SleepInv, sleepVars
<1>2. CASE \E c \in Callers : HeapStep(c)
  BY <1>1, <1>2 DEF HeapStep, Lock, SetFlag, Cli, ClearFlag, Unlock, Sti
<1>3. CASE \E s \in Tasks : Wake(s) \/ Spin(s)
  BY <1>1, <1>3 DEF Wake, Spin
<1>4. ASSUME NEW s \in Tasks, Tick(s)
      PROVE  /\ elapsed'[t] =< system_ticks'
             /\ end_ticks'[t] - wanted'[t] = system_ticks' - elapsed'[t]
  <2>1. /\ pc[t] = "sleep" /\ ~wrapped[t] /\ system_ticks' # 0
        /\ end_ticks' = end_ticks /\ wanted' = wanted
    BY <1>4 DEF Tick
  <2>2. system_ticks' = system_ticks + 1
    BY <1>4, <1>t, <2>1, ModNext DEF Tick
  <2>3. /\ elapsed[t] =< system_ticks
        /\ end_ticks[t] - wanted[t] = system_ticks - elapsed[t]
    BY <2>1 DEF SleepInv
  <2>4. elapsed'[t] = elapsed[t] + 1
    BY <1>4, <1>t, <2>1, <2>3 DEF Tick
  <2>5. QED BY <1>t, <2>1, <2>2, <2>3, <2>4
<1>5. CASE \E s \in Tasks : StartTasks(s)
  BY <1>5 DEF StartTasks, SleepInv, sleepVars
<1>6. ASSUME NEW s \in Tasks, NEW n \in Durations, Sleep(s, n)
      PROVE  /\ elapsed'[t] =< system_ticks'
             /\ end_ticks'[t] - wanted'[t] = system_ticks' - elapsed'[t]
  <2>1. CASE t # s
    BY <1>6, <2>1 DEF Sleep, SleepInv, TypeOK
  <2>2. CASE t = s
    <3>1. /\ elapsed'[t] = 0 /\ wanted'[t] = n /\ system_ticks' = system_ticks
          /\ end_ticks'[t] = (system_ticks + n) % TickSpace
      BY <1>6, <2>2 DEF Sleep, TypeOK
    <3>2. ~(system_ticks + n >= TickSpace)
      <4>1. wrapped'[t] = (system_ticks + n >= TickSpace)
        BY <1>6, <2>2 DEF Sleep, TypeOK
      <4>2. QED BY <4>1, Zenon
    <3>3. n \in 0 .. (TickSpace - 1)
      OBVIOUS
    <3>4. system_ticks + n \in 0 .. (TickSpace - 1)
      BY <1>t, <3>2, <3>3
    <3>5. (system_ticks + n) % TickSpace = system_ticks + n
      BY <3>4, ModSmall
    <3>6. QED BY <1>t, <3>1, <3>3, <3>5
  <2>3. QED BY <2>1, <2>2
<1>7. CASE UNCHANGED vars
  BY <1>7 DEF SleepInv, vars, sleepVars
<1>8. QED
  BY <1>2, <1>3, <1>4, <1>5, <1>6, <1>7 DEF Next

\* timer_sleep returns no earlier than asked, for any width of the counter
\* and any number of tasks, unless the counter passes its end meanwhile.
THEOREM SleepInFull == Spec => SleepsInFull
<1>1. Init => SleepInv
  BY HeapLockAssumption DEF Init, SleepInv, Callers
<1>2. ASSUME IInv, SleepInv, [Next]_vars
      PROVE  [\A t \in Tasks : Woken(t) /\ ~wrapped[t] => elapsed[t] >= wanted[t]]_vars
  <2> SUFFICES ASSUME Next, NEW t \in Tasks, Woken(t), ~wrapped[t]
               PROVE  elapsed[t] >= wanted[t]
    BY <1>2
  <2> USE HeapLockAssumption DEF IInv, Callers
  <2>1. /\ elapsed[t] \in Int /\ system_ticks \in Int
        /\ end_ticks[t] \in Int /\ wanted[t] \in Int
    BY <1>2, SleepNumbers
  <2>2. end_ticks[t] - wanted[t] = system_ticks - elapsed[t]
    BY <1>2 DEF SleepInv, Woken
  <2>3. ASSUME NEW c \in Callers, NEW from, NEW to, Goto(c, from, to)
        PROVE  c = t /\ from = "sleep" /\ to = "run"
    BY <1>2, <2>3 DEF Goto, Woken, TypeOK
  <2>4. ~ \E c \in Callers : HeapStep(c)
    BY <2>3 DEF HeapStep, Lock, SetFlag, Cli, ClearFlag, Unlock, Sti
  <2>5. ~ \E s \in Tasks : Tick(s) \/ StartTasks(s)
    BY DEF Tick, StartTasks, Woken
  <2>6. ~ \E s \in Tasks, n \in Durations : Sleep(s, n)
    BY <1>2 DEF Sleep, Woken, TypeOK
  <2>7. PICK s \in Tasks : Wake(s) \/ Spin(s)
    BY <2>4, <2>5, <2>6 DEF Next
  <2>8. s = t /\ system_ticks >= end_ticks[t]
    BY <2>3, <2>7 DEF Wake, Spin
  <2>9. QED BY <2>1, <2>2, <2>8
<1>3. QED
  BY <1>1, <1>2, SleepNext, LockInvariance, PTL DEF Spec, SleepsInFull

=============================================================================
