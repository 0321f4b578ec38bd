-------------------------- MODULE SchedulerProofs --------------------------
(***************************************************************************)
(* Safety of the scheduler for every set of workers, every quantum and any *)
(* depth of nested regions: the inductive invariant IInv, its proof, and   *)
(* the properties of Scheduler that follow from it.                        *)
(***************************************************************************)
EXTENDS Scheduler, SequenceTheorems, TLAPS

MaskLabels == {"MaskTest", "MaskRaw", "MaskCmp", "MaskOut", "MaskStore"}

UnmaskLabels == {"UnmaskTest", "UnmaskRaw", "UnmaskCmp", "UnmaskOut",
                 "UnmaskStore"}

TopLabels == Calls \cup {"WaitTest", "Hlt", "Halted"}

-----------------------------------------------------------------------------
(* The inductive invariant.                                                *)

\* Interrupts stay off, and no task runs, until kmain has set both up.
BootInv ==
    /\ boot # "done" => iflag = FALSE /\ current = NULL /\ queue = <<>>
    /\ boot \in {"scheduler_init", "init_system_task"} => ~picMask /\ ~irqMask
    /\ boot = "done" => iflag = TRUE /\ current \in Queued

QueueInv == \A i, j \in 1 .. Len(queue) : queue[i] = queue[j] => i = j

\* A task's statement and its open regions go together.
StackOK(label, s) ==
    /\ label \in TopLabels <=> s = <<>>
    /\ label \in MaskLabels \cup UnmaskLabels => Last(s).lock
    /\ label \in UnlockLabels => Last(s).done
    /\ label = "LockRead" => ~Last(s).lock
    /\ \A i \in 1 .. Len(s) : s[i].call = "Nested" <=> i > 1

StackInv == \A t \in Tasks : StackOK(pc[t], stack[t])

Locked(s) == \E i \in 1 .. Len(s) : s[i].lock

\* With the timer masked, the running task is either about to record it in the
\* shadow or the shadow agrees; and it is at no statement that would undo this.
MaskInv ==
    boot = "done" /\ picMask =>
       /\ Locked(stack[current])
       /\ \/ pc[current] = "MaskStore"
          \/ irqMask /\ pc[current] \notin (MaskLabels \cup {"UnmaskStore"})

ShadowInv == boot = "done" /\ irqMask => \E t \in Tasks : Locked(stack[t])

NeverSpawns(label, s) ==
    /\ label \notin {"Spawn", "Add"}
    /\ \A i \in 1 .. Len(s) : s[i].call \notin {"Spawn", "Add"}

OnlySystemSpawns == \A w \in Workers : NeverSpawns(pc[w], stack[w])

\* On the way to the work of spawn_init, or between it and its last call.
SpawningAt(label, s) ==
    \/ label = "Spawn"
    \/ \E i \in 1 .. Len(s) : s[i].call = "Spawn"

SpawnedAt(label, s) ==
    \/ label = "Add"
    \/ \E i \in 1 .. Len(s) : \/ s[i].call = "Spawn" /\ s[i].done
                              \/ s[i].call = "Add" /\ ~s[i].done

ContextInv ==
    /\ QueueResumable
    /\ SpawningAt(pc[SYSTEM], stack[SYSTEM]) => ~(Workers \subseteq Queued)
    /\ SpawnedAt(pc[SYSTEM], stack[SYSTEM]) =>
          ~(Workers \subseteq Queued) /\ ctx[NextWorker]

IInv == /\ TypeOK /\ BootInv /\ QueueInv /\ StackInv /\ MaskInv
        /\ ShadowInv /\ OnlySystemSpawns /\ ContextInv

-----------------------------------------------------------------------------
(* Facts about the stacks of open regions.                                 *)

\* A nonempty stack has a last frame.
LEMMA LastFacts ==
    ASSUME NEW s \in Seq(Frames), s # <<>>
    PROVE  /\ Len(s) \in Nat /\ Len(s) > 0
           /\ Last(s) = s[Len(s)]
           /\ Last(s) \in Frames
  BY DEF Last

\* A task inside int_mask_irq or int_unmask_irq has a region with lock set.
LEMMA TopLocked ==
    ASSUME NEW s \in Seq(Frames), NEW label \in MaskLabels \cup UnmaskLabels,
           StackOK(label, s)
    PROVE  s # <<>> /\ Locked(s)
  <1>1. s # <<>> /\ Last(s).lock
    BY DEF StackOK, TopLabels, Calls, MaskLabels, UnmaskLabels
  <1>2. Len(s) \in 1 .. Len(s) /\ Last(s) = s[Len(s)]
    BY <1>1, LastFacts
  <1>3. QED
    BY <1>1, <1>2 DEF Locked

\* Setting a field of an activation record yields an activation record.
LEMMA FrameFacts ==
    ASSUME NEW f \in Frames, NEW b \in BOOLEAN
    PROVE  /\ [f EXCEPT !.lock = b] \in Frames
           /\ [f EXCEPT !.lock = b].lock = b
           /\ [f EXCEPT !.lock = b].call = f.call
           /\ [f EXCEPT !.lock = b].done = f.done
           /\ [f EXCEPT !.done = b] \in Frames
           /\ [f EXCEPT !.done = b].lock = f.lock
           /\ [f EXCEPT !.done = b].call = f.call
           /\ [f EXCEPT !.done = b].done = b
  BY DEF Frames

\* A new activation holds no lock yet.
LEMMA NewFrameFacts ==
    ASSUME NEW c \in Calls \cup {"Nested"}
    PROVE  /\ NewFrame(c) \in Frames
           /\ NewFrame(c).call = c
           /\ NewFrame(c).lock = FALSE
           /\ c \in {"Spawn", "Add"} => NewFrame(c).done = FALSE
  <1>1. Prints(c) \in BOOLEAN
    BY DEF Prints
  <1>2. c \in {"Spawn", "Add"} => Prints(c) = FALSE
    BY DEF Prints
  <1>3. QED
    BY <1>1, <1>2 DEF NewFrame, Frames

\* What is left of a stack when its innermost activation returns.
LEMMA FrontFacts ==
    ASSUME NEW s \in Seq(Frames), s # <<>>
    PROVE  /\ Front(s) \in Seq(Frames)
           /\ Len(Front(s)) = Len(s) - 1
           /\ \A i \in 1 .. Len(s) - 1 : Front(s)[i] = s[i]
           /\ Front(s) = <<>> <=> ~(Len(s) > 1)
  <1>1. Len(s) \in Nat /\ Len(s) > 0
    BY LastFacts
  <1>2. Front(s) \in Seq(Frames)
    BY <1>1 DEF Front
  <1>3. Len(Front(s)) = Len(s) - 1
    <2>1. Len(s) - 1 \in Int /\ \A i \in 1 .. Len(s) - 1 : s[i] \in Frames
      BY <1>1
    <2>2. Len(SubSeq(s, 1, Len(s) - 1)) =
             IF 1 <= Len(s) - 1 THEN (Len(s) - 1) - 1 + 1 ELSE 0
      BY <2>1, SubSeqProperties
    <2>3. \A k \in Nat : k > 0 =>
             (IF 1 <= k - 1 THEN (k - 1) - 1 + 1 ELSE 0) = k - 1
      OBVIOUS
    <2>4. QED
      BY <1>1, <2>2, <2>3, Zenon DEF Front
  <1>4. \A i \in 1 .. Len(s) - 1 : Front(s)[i] = s[i]
    BY <1>1 DEF Front
  <1>5. Front(s) = <<>> <=> ~(Len(s) > 1)
    BY <1>1, <1>2, <1>3
  <1>6. QED
    BY <1>2, <1>3, <1>4, <1>5

\* What a stack is after its innermost activation was replaced.
LEMMA WithTopFacts ==
    ASSUME NEW s \in Seq(Frames), s # <<>>, NEW f \in Frames
    PROVE  /\ WithTop(s, f) \in Seq(Frames)
           /\ Len(WithTop(s, f)) = Len(s)
           /\ WithTop(s, f) # <<>>
           /\ \A i \in 1 .. Len(s) :
                 WithTop(s, f)[i] = IF i = Len(s) THEN f ELSE s[i]
           /\ Last(WithTop(s, f)) = f
  <1>1. Len(s) \in 1 .. Len(s) /\ Len(s) > 0
    BY LastFacts
  <1>2. /\ WithTop(s, f) \in Seq(Frames)
        /\ Len(WithTop(s, f)) = Len(s)
        /\ \A i \in 1 .. Len(s) :
              WithTop(s, f)[i] = IF i = Len(s) THEN f ELSE s[i]
    BY <1>1, ExceptSeq DEF WithTop
  <1>3. QED
    BY <1>1, <1>2 DEF Last

\* Opening a region.
LEMMA PushFacts ==
    ASSUME NEW s \in Seq(Frames), NEW label, StackOK(label, s),
           NEW c \in Calls \cup {"Nested"},
           IF c = "Nested" THEN s # <<>> ELSE label = c
    PROVE  LET p == Append(s, NewFrame(c)) IN
           /\ p \in Seq(Frames)
           /\ StackOK("LockRead", p)
           /\ Locked(p) <=> Locked(s)
           /\ NeverSpawns(label, s) => NeverSpawns("LockRead", p)
           /\ SpawningAt("LockRead", p) => SpawningAt(label, s)
           /\ SpawnedAt("LockRead", p) => SpawnedAt(label, s)
  <1> DEFINE p == Append(s, NewFrame(c))
  <1>1. /\ NewFrame(c) \in Frames
        /\ NewFrame(c).call = c /\ NewFrame(c).lock = FALSE
        /\ c \in {"Spawn", "Add"} => NewFrame(c).done = FALSE
    BY NewFrameFacts
  <1>2. /\ p \in Seq(Frames) /\ Len(p) = Len(s) + 1 /\ p # <<>>
        /\ \A i \in 1 .. Len(s) : p[i] = s[i]
        /\ p[Len(s) + 1] = NewFrame(c)
    BY <1>1, AppendProperties
  <1>3. /\ Len(s) \in Nat
        /\ s = <<>> <=> Len(s) = 0
        /\ s = <<>> <=> c # "Nested"
    BY DEF StackOK, TopLabels, Calls
  <1> HIDE DEF p
  <1>4. StackOK("LockRead", p)
    BY <1>1, <1>2, <1>3
       DEF StackOK, Last, TopLabels, Calls, MaskLabels, UnmaskLabels, UnlockLabels
  <1>5. Locked(p) <=> Locked(s)
    BY <1>1, <1>2, <1>3 DEF Locked
  <1>6. NeverSpawns(label, s) => NeverSpawns("LockRead", p)
    BY <1>1, <1>2, <1>3 DEF NeverSpawns, Calls
  <1>7. SpawningAt("LockRead", p) => SpawningAt(label, s)
    BY <1>1, <1>2, <1>3 DEF SpawningAt, Calls
  <1>8. SpawnedAt("LockRead", p) => SpawnedAt(label, s)
    BY <1>1, <1>2, <1>3 DEF SpawnedAt, Calls
  <1>9. QED
    BY <1>2, <1>4, <1>5, <1>6, <1>7, <1>8 DEF p

\* Closing a region.
LEMMA ReturnFacts ==
    ASSUME NEW s \in Seq(Frames), NEW label \in UnlockLabels, StackOK(label, s)
    PROVE  LET n == IF Len(s) > 1 THEN "Body" ELSE AfterCall(Last(s).call) IN
           /\ Front(s) \in Seq(Frames)
           /\ n \in Labels \ (LockLabels \cup UnlockLabels)
           /\ StackOK(n, Front(s))
           /\ Locked(s) /\ ~Last(s).lock => Locked(Front(s))
           /\ NeverSpawns(label, s) => NeverSpawns(n, Front(s))
           /\ SpawningAt(n, Front(s)) =>
                 SpawningAt(label, s) \/ ~(Workers \subseteq Queued)
           /\ SpawnedAt(n, Front(s)) => SpawnedAt(label, s)
  <1> DEFINE n == IF Len(s) > 1 THEN "Body" ELSE AfterCall(Last(s).call)
             r == Front(s)
  <1>1. s # <<>>
    BY DEF StackOK, UnlockLabels, TopLabels, Calls
  <1>2. /\ Len(s) \in Nat /\ Len(s) > 0 /\ Last(s) = s[Len(s)]
        /\ Last(s) \in Frames
    BY <1>1, LastFacts
  <1>3. /\ r \in Seq(Frames) /\ Len(r) = Len(s) - 1
        /\ \A i \in 1 .. Len(r) : r[i] = s[i]
        /\ r = <<>> <=> ~(Len(s) > 1)
    BY <1>1, <1>2, FrontFacts
  <1> HIDE DEF r
  <1>4. ~(Len(s) > 1) => Last(s).call \in Calls
    BY <1>2 DEF StackOK, Frames
  <1>5. /\ Len(s) > 1 => n = "Body"
        /\ ~(Len(s) > 1) => n = AfterCall(Last(s).call)
    OBVIOUS
  <1> HIDE DEF n
  <1>6. /\ n \in {"Body", "Add", "Print", "Spawn", "PrintEsp", "Yield", "WaitTest"}
        /\ n = "Body" <=> Len(s) > 1
        /\ n = "Add" => Last(s).call = "Spawn"
        /\ n = "Spawn" => Last(s).call = "Add" /\ ~(Workers \subseteq Queued)
    BY <1>4, <1>5 DEF AfterCall, Calls
  <1>7. /\ n \in Labels \ (LockLabels \cup UnlockLabels)
        /\ n \in TopLabels <=> ~(Len(s) > 1)
    BY <1>6 DEF Labels, LockLabels, UnlockLabels, Calls, TopLabels
  <1>8. StackOK(n, r)
    BY <1>2, <1>3, <1>7
       DEF StackOK, LockLabels, UnlockLabels, MaskLabels, UnmaskLabels
  <1>9. Locked(s) /\ ~Last(s).lock => Locked(r)
    BY <1>2, <1>3 DEF Locked
  <1>10. NeverSpawns(label, s) => NeverSpawns(n, r)
    BY <1>2, <1>3, <1>6 DEF NeverSpawns
  <1>11. SpawningAt(n, r) => SpawningAt(label, s) \/ ~(Workers \subseteq Queued)
    BY <1>2, <1>3, <1>6 DEF SpawningAt
  <1>12. SpawnedAt(n, r) => SpawnedAt(label, s)
    BY <1>2, <1>3, <1>6 DEF SpawnedAt, StackOK
  <1>13. QED
    BY <1>3, <1>7, <1>8, <1>9, <1>10, <1>11, <1>12 DEF r, n

\* Replacing the innermost frame of a task that stays inside its region.
LEMMA ReplaceFacts ==
    ASSUME NEW s \in Seq(Frames), s # <<>>, NEW f \in Frames,
           f.call = Last(s).call,
           NEW label, StackOK(label, s),
           NEW l \in Labels \ TopLabels,
           l \in MaskLabels \cup UnmaskLabels => f.lock,
           l \in UnlockLabels => f.done,
           l # "LockRead"
    PROVE  LET w == WithTop(s, f) IN
           /\ w \in Seq(Frames)
           /\ StackOK(l, w)
           /\ f.lock => Locked(w)
           /\ Locked(s) /\ (Last(s).lock => f.lock) => Locked(w)
           /\ NeverSpawns(label, s) => NeverSpawns(l, w)
           /\ SpawningAt(l, w) => SpawningAt(label, s)
           /\ SpawnedAt(l, w) =>
                 \/ SpawnedAt(label, s)
                 \/ f.call = "Spawn" /\ f.done
                 \/ f.call = "Add" /\ ~f.done
  <1> DEFINE w == WithTop(s, f)
  <1>1. Len(s) \in Nat /\ Len(s) > 0 /\ Last(s) = s[Len(s)]
    BY LastFacts
  <1>2. /\ w \in Seq(Frames) /\ Len(w) = Len(s) /\ w # <<>> /\ Last(w) = f
        /\ \A i \in 1 .. Len(s) : w[i] = IF i = Len(s) THEN f ELSE s[i]
    BY WithTopFacts
  <1> HIDE DEF w
  <1>3. StackOK(l, w)
    BY <1>1, <1>2 DEF StackOK
  <1>4. f.lock => Locked(w)
    BY <1>1, <1>2 DEF Locked
  <1>5. Locked(s) /\ (Last(s).lock => f.lock) => Locked(w)
    BY <1>1, <1>2 DEF Locked
  <1>6. l \notin {"Spawn", "Add"}
    BY DEF TopLabels, Calls
  <1>7. NeverSpawns(label, s) => NeverSpawns(l, w)
    BY <1>1, <1>2, <1>6 DEF NeverSpawns
  <1>8. SpawningAt(l, w) => SpawningAt(label, s)
    BY <1>1, <1>2, <1>6 DEF SpawningAt
  <1>9. SpawnedAt(l, w) => \/ SpawnedAt(label, s)
                           \/ f.call = "Spawn" /\ f.done
                           \/ f.call = "Add" /\ ~f.done
    BY <1>1, <1>2, <1>6 DEF SpawnedAt
  <1>10. QED
    BY <1>2, <1>3, <1>4, <1>5, <1>7, <1>8, <1>9 DEF w

-----------------------------------------------------------------------------
(* Steps of the running task.                                              *)

\* The next statement and the stack of the running task t keep the invariant.
StackStep(t) ==
    /\ pc' \in [Tasks -> Labels]
    /\ stack' \in [Tasks -> Seq(Frames)]
    /\ \A u \in Tasks \ {t} : pc'[u] = pc[u] /\ stack'[u] = stack[u]
    /\ StackOK(pc'[t], stack'[t])
    /\ NeverSpawns(pc[t], stack[t]) => NeverSpawns(pc'[t], stack'[t])

SpawnStep(t) ==
    /\ SpawningAt(pc'[t], stack'[t]) =>
          SpawningAt(pc[t], stack[t]) \/ ~(Workers \subseteq Queued)
    /\ SpawnedAt(pc'[t], stack'[t]) => SpawnedAt(pc[t], stack[t])

MaskStep(t) ==
    /\ picMask' \in BOOLEAN
    /\ irqMask' \in BOOLEAN
    /\ picMask' => /\ Locked(stack'[t])
                   /\ \/ pc'[t] = "MaskStore"
                      \/ irqMask' /\ pc'[t] \notin (MaskLabels \cup {"UnmaskStore"})
    /\ irqMask' => \/ Locked(stack'[t])
                   \/ irqMask /\ ~Locked(stack[t])

\* Part of IInv that a step of the running task inside its regions keeps,
\* whatever it does to the queue and the contexts.
LEMMA MaskFrame ==
    ASSUME IInv, NEW t \in Tasks, iflag, current = t,
           UNCHANGED <<bootVars, current>>, StackStep(t), MaskStep(t)
    PROVE  StackInv' /\ MaskInv' /\ ShadowInv' /\ OnlySystemSpawns'
  <1>1. StackInv'
    BY DEF IInv, StackInv, StackStep
  <1>2. MaskInv'
    BY DEF MaskInv, MaskStep, bootVars
  <1>3. ShadowInv'
    <2>1. boot = "done"
      BY DEF IInv, BootInv
    <2>2. SUFFICES ASSUME irqMask' PROVE \E u \in Tasks : Locked(stack'[u])
      BY DEF ShadowInv
    <2>3. CASE Locked(stack'[t])
      BY <2>3
    <2>4. CASE irqMask /\ ~Locked(stack[t])
      <3>1. PICK u \in Tasks : Locked(stack[u])
        BY <2>1, <2>4 DEF IInv, ShadowInv
      <3>2. stack'[u] = stack[u]
        BY <2>4, <3>1 DEF StackStep
      <3>3. QED
        BY <3>1, <3>2
    <2>5. QED
      BY <2>2, <2>3, <2>4 DEF MaskStep
  <1>4. OnlySystemSpawns'
    BY DEF IInv, OnlySystemSpawns, StackStep, Tasks
  <1>5. QED
    BY <1>1, <1>2, <1>3, <1>4

\* A step of the running task that leaves the scheduler's own state alone.
LEMMA TaskFrame ==
    ASSUME IInv, NEW t \in Tasks, iflag, current = t,
           UNCHANGED <<bootVars, schedVars, irr>>,
           StackStep(t), MaskStep(t), SpawnStep(t)
    PROVE  IInv'
  <1>1. TypeOK'
    BY DEF IInv, TypeOK, bootVars, schedVars, StackStep, MaskStep
  <1>2. BootInv'
    BY DEF IInv, BootInv, bootVars, schedVars, Queued
  <1>3. QueueInv'
    BY DEF IInv, QueueInv, schedVars
  <1>4. ContextInv'
    <2>1. QueueResumable'
      BY DEF IInv, ContextInv, QueueResumable, Queued, schedVars
    <2>2. Queued' = Queued /\ NextWorker' = NextWorker /\ ctx' = ctx
      BY DEF Queued, NextWorker, schedVars
    <2>3. SYSTEM \in Tasks
      BY DEF Tasks
    <2>4. QED
      BY <2>1, <2>2, <2>3 DEF IInv, ContextInv, StackStep, SpawnStep
  <1>5. QED
    BY <1>1, <1>2, <1>3, <1>4, MaskFrame DEF IInv, schedVars

\* What the invariant says of the running task.
LEMMA RunningFacts ==
    ASSUME IInv, NEW t \in Tasks, NEW l, Running(t, l)
    PROVE  /\ iflag /\ current = t /\ boot = "done" /\ pc[t] = l
           /\ stack[t] \in Seq(Frames)
           /\ StackOK(l, stack[t])
           /\ picMask \in BOOLEAN /\ irqMask \in BOOLEAN
           /\ pc \in [Tasks -> Labels] /\ stack \in [Tasks -> Seq(Frames)]
           /\ picMask => /\ Locked(stack[t])
                         /\ \/ l = "MaskStore"
                            \/ irqMask /\ l \notin (MaskLabels \cup {"UnmaskStore"})
  BY DEF IInv, TypeOK, BootInv, StackInv, MaskInv, Running

\* A jump inside a region, or at the top level.
LEMMA GotoFrame ==
    ASSUME IInv, NEW t \in Tasks, NEW l0, Running(t, l0),
           NEW l \in Labels, Goto(t, l), UNCHANGED stack,
           StackOK(l, stack[t]), l \notin {"Spawn", "Add"}
    PROVE  StackStep(t) /\ SpawnStep(t) /\ pc'[t] = l /\ stack'[t] = stack[t]
  BY RunningFacts DEF Goto, StackStep, SpawnStep, NeverSpawns, SpawningAt, SpawnedAt

\* A region is opened.
LEMMA PushFrame ==
    ASSUME IInv, NEW t \in Tasks, NEW l0, Running(t, l0),
           NEW c \in Calls \cup {"Nested"},
           IF c = "Nested" THEN stack[t] # <<>> ELSE l0 = c,
           Push(t, c)
    PROVE  /\ StackStep(t) /\ SpawnStep(t) /\ pc'[t] = "LockRead"
           /\ Locked(stack'[t]) <=> Locked(stack[t])
  <1>1. "LockRead" \in Labels
    BY DEF Labels, LockLabels
  <1>2. pc'[t] = "LockRead" /\ stack'[t] = Append(stack[t], NewFrame(c))
    BY RunningFacts DEF Push, Goto
  <1> DEFINE p == Append(stack[t], NewFrame(c))
  <1>3. /\ p \in Seq(Frames) /\ StackOK("LockRead", p)
        /\ Locked(p) <=> Locked(stack[t])
        /\ NeverSpawns(l0, stack[t]) => NeverSpawns("LockRead", p)
        /\ SpawningAt("LockRead", p) => SpawningAt(l0, stack[t])
        /\ SpawnedAt("LockRead", p) => SpawnedAt(l0, stack[t])
    BY RunningFacts, PushFacts
  <1> HIDE DEF p
  <1>4. /\ stack' = [stack EXCEPT ![t] = p]
        /\ pc' = [pc EXCEPT ![t] = "LockRead"]
        /\ pc[t] = l0
    BY RunningFacts DEF Push, Goto, p
  <1>5. QED
    BY <1>1, <1>3, <1>4, RunningFacts DEF StackStep, SpawnStep

\* A region is closed.
LEMMA ReturnFrame ==
    ASSUME IInv, NEW t \in Tasks, NEW l0 \in UnlockLabels, Running(t, l0),
           Return(t)
    PROVE  /\ StackStep(t) /\ SpawnStep(t)
           /\ pc'[t] \notin LockLabels \cup UnlockLabels
           /\ Locked(stack[t]) /\ ~Top(t).lock => Locked(stack'[t])
  <1> DEFINE r == Front(stack[t])
             n == IF Len(stack[t]) > 1 THEN "Body" ELSE AfterCall(Last(stack[t]).call)
  <1>1. /\ r \in Seq(Frames) /\ n \in Labels \ (LockLabels \cup UnlockLabels)
        /\ StackOK(n, r)
        /\ Locked(stack[t]) /\ ~Last(stack[t]).lock => Locked(r)
        /\ NeverSpawns(l0, stack[t]) => NeverSpawns(n, r)
        /\ SpawningAt(n, r) => SpawningAt(l0, stack[t]) \/ ~(Workers \subseteq Queued)
        /\ SpawnedAt(n, r) => SpawnedAt(l0, stack[t])
    BY RunningFacts, ReturnFacts
  <1>2. /\ stack' = [stack EXCEPT ![t] = r]
        /\ pc' = [pc EXCEPT ![t] = n]
        /\ pc[t] = l0
        /\ Top(t) = Last(stack[t])
    BY RunningFacts DEF Return, Goto, Depth, Top
  <1> HIDE DEF r, n
  <1>3. QED
    BY <1>1, <1>2, RunningFacts DEF StackStep, SpawnStep

\* A task that calls a function with a region keeps the invariant.
LEMMA CallStep ==
    ASSUME IInv, NEW t \in Tasks, Call(t)
    PROVE  IInv'
  <1>1. PICK c \in Calls : Running(t, c) /\ Push(t, c)
    BY DEF Call
  <1>2. c # "Nested" /\ c \notin MaskLabels \cup {"UnmaskStore"}
    BY <1>1 DEF Calls, MaskLabels
  <1>3. /\ StackStep(t) /\ SpawnStep(t) /\ pc'[t] = "LockRead"
        /\ Locked(stack'[t]) <=> Locked(stack[t])
    BY <1>1, <1>2, PushFrame
  <1>4. MaskStep(t)
    BY <1>1, <1>2, <1>3, RunningFacts DEF MaskStep, Call, maskVars, MaskLabels
  <1>5. QED
    BY <1>1, <1>3, <1>4, RunningFacts, TaskFrame DEF Call

\* Reading int_irq_enabled(IRQ_PIT) into lock keeps the invariant.
LEMMA LockReadStep ==
    ASSUME IInv, NEW t \in Tasks, LockRead(t)
    PROVE  IInv'
  <1>1. Running(t, "LockRead")
    BY DEF LockRead
  <1> DEFINE s == stack[t]
             f == [Last(s) EXCEPT !.lock = ~irqMask]
             l == IF irqMask THEN "Body" ELSE "MaskTest"
             w == WithTop(s, f)
  <1>2. s \in Seq(Frames) /\ s # <<>> /\ ~Last(s).lock /\ StackOK("LockRead", s)
    BY <1>1, RunningFacts DEF StackOK, TopLabels, Calls
  <1>3. /\ f \in Frames /\ f.call = Last(s).call /\ (f.lock <=> ~irqMask)
        /\ f.done = Last(s).done
    <2>1. Last(s) \in Frames /\ (~irqMask) \in BOOLEAN
      BY <1>2, LastFacts
    <2>2. CASE irqMask
      <3>1. f = [Last(s) EXCEPT !.lock = FALSE]
        BY <2>2
      <3> HIDE DEF f
      <3>2. /\ [Last(s) EXCEPT !.lock = FALSE] \in Frames
            /\ [Last(s) EXCEPT !.lock = FALSE].lock = FALSE
            /\ [Last(s) EXCEPT !.lock = FALSE].call = Last(s).call
            /\ [Last(s) EXCEPT !.lock = FALSE].done = Last(s).done
        BY <2>1, FrameFacts, Zenon
      <3>3. QED
        BY <2>2, <3>1, <3>2
    <2>3. CASE ~irqMask
      <3>1. f = [Last(s) EXCEPT !.lock = TRUE]
        BY <2>3
      <3> HIDE DEF f
      <3>2. /\ [Last(s) EXCEPT !.lock = TRUE] \in Frames
            /\ [Last(s) EXCEPT !.lock = TRUE].lock = TRUE
            /\ [Last(s) EXCEPT !.lock = TRUE].call = Last(s).call
            /\ [Last(s) EXCEPT !.lock = TRUE].done = Last(s).done
        BY <2>1, FrameFacts, Zenon
      <3>3. QED
        BY <2>3, <3>1, <3>2
    <2>4. QED
      BY <2>2, <2>3
  <1>4. /\ stack' = [stack EXCEPT ![t] = w]
        /\ pc' = [pc EXCEPT ![t] = l]
        /\ pc[t] = "LockRead"
    BY <1>1, RunningFacts DEF LockRead, Goto, Top
  <1>5. /\ l \in Labels \ TopLabels /\ l \notin UnlockLabels /\ l # "LockRead"
        /\ l \in MaskLabels \cup UnmaskLabels => ~irqMask
        /\ irqMask => l \notin MaskLabels \cup {"UnmaskStore"}
    BY DEF Labels, LockLabels, TopLabels, Calls, UnlockLabels, MaskLabels, UnmaskLabels
  <1> HIDE DEF f, l
  <1>6. /\ w \in Seq(Frames) /\ StackOK(l, w)
        /\ Locked(s) => Locked(w)
        /\ NeverSpawns("LockRead", s) => NeverSpawns(l, w)
        /\ SpawningAt(l, w) => SpawningAt("LockRead", s)
        /\ SpawnedAt(l, w) => \/ SpawnedAt("LockRead", s)
                              \/ f.call = "Spawn" /\ f.done
                              \/ f.call = "Add" /\ ~f.done
    BY <1>2, <1>3, <1>5, ReplaceFacts
  <1>7. SpawnedAt(l, w) => SpawnedAt("LockRead", s)
    <2>1. Last(s) = s[Len(s)] /\ Len(s) \in 1 .. Len(s)
      BY <1>2, LastFacts
    <2>2. QED
      BY <1>3, <1>6, <2>1 DEF SpawnedAt
  <1> HIDE DEF w
  <1>8. StackStep(t) /\ SpawnStep(t)
    <2>1. pc'[t] = l /\ stack'[t] = w
      BY <1>1, <1>4, RunningFacts
    <2>2. /\ pc' \in [Tasks -> Labels] /\ stack' \in [Tasks -> Seq(Frames)]
          /\ \A u \in Tasks \ {t} : pc'[u] = pc[u] /\ stack'[u] = stack[u]
      BY <1>1, <1>4, <1>5, <1>6, RunningFacts
    <2>3. QED
      BY <1>4, <1>6, <1>7, <2>1, <2>2 DEF StackStep, SpawnStep
  <1>9. MaskStep(t)
    <2>1. pc'[t] = l /\ stack'[t] = w
      BY <1>1, <1>4, RunningFacts
    <2>2. picMask => irqMask /\ Locked(s)
      BY <1>1, RunningFacts
    <2>3. UNCHANGED maskVars /\ picMask \in BOOLEAN /\ irqMask \in BOOLEAN
      BY <1>1, RunningFacts DEF LockRead
    <2>4. QED
      BY <1>5, <1>6, <2>1, <2>2, <2>3 DEF MaskStep, maskVars
  <1>10. QED
    BY <1>1, <1>8, <1>9, RunningFacts, TaskFrame DEF LockRead

\* The first test of set_raw_mask, when masking, keeps the invariant.
LEMMA MaskRawStep ==
    ASSUME IInv, NEW t \in Tasks, MaskRaw(t)
    PROVE  IInv'
  <1>1. Running(t, "MaskRaw")
    BY DEF MaskRaw
  <1> DEFINE l == IF irqMask THEN "Body" ELSE "MaskCmp"
  <1>2. /\ l \in Labels /\ l \notin {"Spawn", "Add"} /\ Goto(t, l)
        /\ UNCHANGED stack /\ StackOK(l, stack[t])
    BY <1>1, RunningFacts
       DEF MaskRaw, StackOK, Top, Labels, LockLabels, UnlockLabels, TopLabels, Calls, MaskLabels, UnmaskLabels
  <1>3. /\ StackStep(t) /\ SpawnStep(t) /\ pc'[t] = l /\ stack'[t] = stack[t]
    BY <1>1, <1>2, GotoFrame
  <1>4. MaskStep(t)
    BY <1>1, <1>3, RunningFacts
       DEF MaskRaw, MaskStep, maskVars, Labels, LockLabels, UnlockLabels, TopLabels, Calls, MaskLabels, UnmaskLabels
  <1>5. QED
    BY <1>1, <1>3, <1>4, RunningFacts, TaskFrame DEF MaskRaw

\* The byte comparison of set_raw_mask, when masking, keeps the invariant.
LEMMA MaskCmpStep ==
    ASSUME IInv, NEW t \in Tasks, MaskCmp(t)
    PROVE  IInv'
  <1>1. Running(t, "MaskCmp")
    BY DEF MaskCmp
  <1> DEFINE l == IF irqMask THEN "MaskStore" ELSE "MaskOut"
  <1>2. /\ l \in Labels /\ l \notin {"Spawn", "Add"} /\ Goto(t, l)
        /\ UNCHANGED stack /\ StackOK(l, stack[t])
    BY <1>1, RunningFacts
       DEF MaskCmp, StackOK, Top, Labels, LockLabels, UnlockLabels, TopLabels, Calls, MaskLabels, UnmaskLabels
  <1>3. /\ StackStep(t) /\ SpawnStep(t) /\ pc'[t] = l /\ stack'[t] = stack[t]
    BY <1>1, <1>2, GotoFrame
  <1>4. MaskStep(t)
    BY <1>1, <1>3, RunningFacts
       DEF MaskCmp, MaskStep, maskVars, Labels, LockLabels, UnlockLabels, TopLabels, Calls, MaskLabels, UnmaskLabels
  <1>5. QED
    BY <1>1, <1>3, <1>4, RunningFacts, TaskFrame DEF MaskCmp

\* The outb that masks the timer keeps the invariant.
LEMMA MaskOutStep ==
    ASSUME IInv, NEW t \in Tasks, MaskOut(t)
    PROVE  IInv'
  <1>1. Running(t, "MaskOut")
    BY DEF MaskOut
  <1> DEFINE l == "MaskStore"
  <1>2. /\ l \in Labels /\ l \notin {"Spawn", "Add"} /\ Goto(t, l)
        /\ UNCHANGED stack /\ StackOK(l, stack[t])
    BY <1>1, RunningFacts
       DEF MaskOut, StackOK, Top, Labels, LockLabels, UnlockLabels, TopLabels, Calls, MaskLabels, UnmaskLabels
  <1>3. /\ StackStep(t) /\ SpawnStep(t) /\ pc'[t] = l /\ stack'[t] = stack[t]
    BY <1>1, <1>2, GotoFrame
  <1>4. MaskStep(t)
    <2>1. Locked(stack[t])
      BY <1>1, RunningFacts, TopLocked DEF MaskLabels
    <2>2. QED
      BY <1>1, <1>3, <2>1, RunningFacts
         DEF MaskOut, MaskStep, maskVars, Labels, LockLabels, UnlockLabels, TopLabels, Calls, MaskLabels, UnmaskLabels
  <1>5. QED
    BY <1>1, <1>3, <1>4, RunningFacts, TaskFrame DEF MaskOut

\* The store to irq_mask that follows it keeps the invariant.
LEMMA MaskStoreStep ==
    ASSUME IInv, NEW t \in Tasks, MaskStore(t)
    PROVE  IInv'
  <1>1. Running(t, "MaskStore")
    BY DEF MaskStore
  <1> DEFINE l == "Body"
  <1>2. /\ l \in Labels /\ l \notin {"Spawn", "Add"} /\ Goto(t, l)
        /\ UNCHANGED stack /\ StackOK(l, stack[t])
    BY <1>1, RunningFacts
       DEF MaskStore, StackOK, Top, Labels, LockLabels, UnlockLabels, TopLabels, Calls, MaskLabels, UnmaskLabels
  <1>3. /\ StackStep(t) /\ SpawnStep(t) /\ pc'[t] = l /\ stack'[t] = stack[t]
    BY <1>1, <1>2, GotoFrame
  <1>4. MaskStep(t)
    <2>1. Locked(stack[t])
      BY <1>1, RunningFacts, TopLocked DEF MaskLabels
    <2>2. QED
      BY <1>1, <1>3, <2>1, RunningFacts
         DEF MaskStore, MaskStep, maskVars, Labels, LockLabels, UnlockLabels, TopLabels, Calls, MaskLabels, UnmaskLabels
  <1>5. QED
    BY <1>1, <1>3, <1>4, RunningFacts, TaskFrame DEF MaskStore

\* Reaching the end of a region's work keeps the invariant.
LEMMA LeaveStep ==
    ASSUME IInv, NEW t \in Tasks, Leave(t)
    PROVE  IInv'
  <1>1. Running(t, "Body")
    BY DEF Leave
  <1> DEFINE l == "Unlock"
  <1>2. /\ l \in Labels /\ l \notin {"Spawn", "Add"} /\ Goto(t, l)
        /\ UNCHANGED stack /\ StackOK(l, stack[t])
    BY <1>1, RunningFacts
       DEF Leave, StackOK, Top, Labels, LockLabels, UnlockLabels, TopLabels, Calls, MaskLabels, UnmaskLabels
  <1>3. /\ StackStep(t) /\ SpawnStep(t) /\ pc'[t] = l /\ stack'[t] = stack[t]
    BY <1>1, <1>2, GotoFrame
  <1>4. MaskStep(t)
    BY <1>1, <1>3, RunningFacts
       DEF Leave, MaskStep, maskVars, Labels, LockLabels, UnlockLabels, TopLabels, Calls, MaskLabels, UnmaskLabels
  <1>5. QED
    BY <1>1, <1>3, <1>4, RunningFacts, TaskFrame DEF Leave

\* The byte comparison of set_raw_mask, when unmasking, keeps the invariant.
LEMMA UnmaskCmpStep ==
    ASSUME IInv, NEW t \in Tasks, UnmaskCmp(t)
    PROVE  IInv'
  <1>1. Running(t, "UnmaskCmp")
    BY DEF UnmaskCmp
  <1> DEFINE l == IF irqMask THEN "UnmaskOut" ELSE "UnmaskStore"
  <1>2. /\ l \in Labels /\ l \notin {"Spawn", "Add"} /\ Goto(t, l)
        /\ UNCHANGED stack /\ StackOK(l, stack[t])
    BY <1>1, RunningFacts
       DEF UnmaskCmp, StackOK, Top, Labels, LockLabels, UnlockLabels, TopLabels, Calls, MaskLabels, UnmaskLabels
  <1>3. /\ StackStep(t) /\ SpawnStep(t) /\ pc'[t] = l /\ stack'[t] = stack[t]
    BY <1>1, <1>2, GotoFrame
  <1>4. MaskStep(t)
    BY <1>1, <1>3, RunningFacts
       DEF UnmaskCmp, MaskStep, maskVars, Labels, LockLabels, UnlockLabels, TopLabels, Calls, MaskLabels, UnmaskLabels
  <1>5. QED
    BY <1>1, <1>3, <1>4, RunningFacts, TaskFrame DEF UnmaskCmp

\* The outb that unmasks the timer keeps the invariant.
LEMMA UnmaskOutStep ==
    ASSUME IInv, NEW t \in Tasks, UnmaskOut(t)
    PROVE  IInv'
  <1>1. Running(t, "UnmaskOut")
    BY DEF UnmaskOut
  <1> DEFINE l == "UnmaskStore"
  <1>2. /\ l \in Labels /\ l \notin {"Spawn", "Add"} /\ Goto(t, l)
        /\ UNCHANGED stack /\ StackOK(l, stack[t])
    BY <1>1, RunningFacts
       DEF UnmaskOut, StackOK, Top, Labels, LockLabels, UnlockLabels, TopLabels, Calls, MaskLabels, UnmaskLabels
  <1>3. /\ StackStep(t) /\ SpawnStep(t) /\ pc'[t] = l /\ stack'[t] = stack[t]
    BY <1>1, <1>2, GotoFrame
  <1>4. MaskStep(t)
    BY <1>1, <1>3, RunningFacts
       DEF UnmaskOut, MaskStep, maskVars, Labels, LockLabels, UnlockLabels, TopLabels, Calls, MaskLabels, UnmaskLabels
  <1>5. QED
    BY <1>1, <1>3, <1>4, RunningFacts, TaskFrame DEF UnmaskOut

\* The test of a yielding task's wait loop keeps the invariant.
LEMMA WaitTestStep ==
    ASSUME IInv, NEW t \in Tasks, WaitTest(t)
    PROVE  IInv'
  <1>1. Running(t, "WaitTest")
    BY DEF WaitTest
  <1> DEFINE l == IF yield[t] THEN "Hlt" ELSE "Print"
  <1>2. /\ l \in Labels /\ l \notin {"Spawn", "Add"} /\ Goto(t, l)
        /\ UNCHANGED stack /\ StackOK(l, stack[t])
    BY <1>1, RunningFacts
       DEF WaitTest, StackOK, Top, Labels, LockLabels, UnlockLabels, TopLabels, Calls, MaskLabels, UnmaskLabels
  <1>3. /\ StackStep(t) /\ SpawnStep(t) /\ pc'[t] = l /\ stack'[t] = stack[t]
    BY <1>1, <1>2, GotoFrame
  <1>4. MaskStep(t)
    BY <1>1, <1>3, RunningFacts
       DEF WaitTest, MaskStep, maskVars, Labels, LockLabels, UnlockLabels, TopLabels, Calls, MaskLabels, UnmaskLabels
  <1>5. QED
    BY <1>1, <1>3, <1>4, RunningFacts, TaskFrame DEF WaitTest

\* So does its hlt.
LEMMA AsmHltStep ==
    ASSUME IInv, NEW t \in Tasks, AsmHlt(t)
    PROVE  IInv'
  <1>1. Running(t, "Hlt")
    BY DEF AsmHlt
  <1> DEFINE l == "Halted"
  <1>2. /\ l \in Labels /\ l \notin {"Spawn", "Add"} /\ Goto(t, l)
        /\ UNCHANGED stack /\ StackOK(l, stack[t])
    BY <1>1, RunningFacts
       DEF AsmHlt, StackOK, Top, Labels, LockLabels, UnlockLabels, TopLabels, Calls, MaskLabels, UnmaskLabels
  <1>3. /\ StackStep(t) /\ SpawnStep(t) /\ pc'[t] = l /\ stack'[t] = stack[t]
    BY <1>1, <1>2, GotoFrame
  <1>4. MaskStep(t)
    BY <1>1, <1>3, RunningFacts
       DEF AsmHlt, MaskStep, maskVars, Labels, LockLabels, UnlockLabels, TopLabels, Calls, MaskLabels, UnmaskLabels
  <1>5. QED
    BY <1>1, <1>3, <1>4, RunningFacts, TaskFrame DEF AsmHlt

\* The innermost region is open.
LEMMA InRegion ==
    ASSUME IInv, NEW t \in Tasks, NEW l \in Labels \ TopLabels, Running(t, l)
    PROVE  stack[t] # <<>>
  BY RunningFacts DEF StackOK

\* int_mask_irq's test, with the message of worry(), keeps the invariant.
LEMMA MaskTestStep ==
    ASSUME IInv, NEW t \in Tasks, MaskTest(t)
    PROVE  IInv'
  <1>1. Running(t, "MaskTest") /\ stack[t] # <<>> /\ Locked(stack[t])
    BY RunningFacts, TopLocked DEF MaskTest, MaskLabels
  <1>2. UNCHANGED <<bootVars, schedVars, irr>> /\ UNCHANGED maskVars
    BY DEF MaskTest
  <1>3. CASE Push(t, "Nested")
    <2>1. /\ StackStep(t) /\ SpawnStep(t) /\ pc'[t] = "LockRead"
          /\ Locked(stack'[t])
      BY <1>1, <1>3, PushFrame
    <2>2. MaskStep(t)
      BY <1>1, <1>2, <2>1, RunningFacts DEF MaskStep, maskVars, MaskLabels
    <2>3. QED
      BY <1>1, <1>2, <2>1, <2>2, RunningFacts, TaskFrame
  <1>4. ASSUME NEW l \in {"Body", "MaskRaw"}, Goto(t, l), UNCHANGED stack
        PROVE  IInv'
    <2>1. l \in Labels /\ l \notin {"Spawn", "Add"} /\ StackOK(l, stack[t])
      BY <1>1, RunningFacts
         DEF StackOK, Labels, LockLabels, UnlockLabels, TopLabels, Calls,
             MaskLabels, UnmaskLabels
    <2>2. StackStep(t) /\ SpawnStep(t) /\ pc'[t] = l /\ stack'[t] = stack[t]
      BY <1>1, <1>4, <2>1, GotoFrame
    <2>3. MaskStep(t)
      BY <1>1, <1>2, <2>2, RunningFacts DEF MaskStep, maskVars, MaskLabels
    <2>4. QED
      BY <1>1, <1>2, <2>2, <2>3, RunningFacts, TaskFrame
  <1>5. \/ Push(t, "Nested")
        \/ Goto(t, "Body") /\ UNCHANGED stack
        \/ Goto(t, "MaskRaw") /\ UNCHANGED stack
    <2>1. MaxDepth \in Nat /\ Depth(t) \in Nat
      BY <1>1, RunningFacts, BoundsAssumption DEF Depth
    <2>2. QED
      BY <2>1 DEF MaskTest
  <1>6. QED
    BY <1>3, <1>4, <1>5

\* A printing function's inner region keeps the invariant.
LEMMA NestedCallStep ==
    ASSUME IInv, NEW t \in Tasks, NestedCall(t)
    PROVE  IInv'
  <1>1. Running(t, "Body") /\ stack[t] # <<>>
    BY RunningFacts DEF NestedCall, StackOK, TopLabels, Calls
  <1>2. /\ StackStep(t) /\ SpawnStep(t) /\ pc'[t] = "LockRead"
        /\ Locked(stack'[t]) <=> Locked(stack[t])
    BY <1>1, PushFrame DEF NestedCall
  <1>3. MaskStep(t)
    BY <1>1, <1>2, RunningFacts DEF MaskStep, NestedCall, maskVars, MaskLabels
  <1>4. QED
    BY <1>1, <1>2, <1>3, RunningFacts, TaskFrame DEF NestedCall

\* int_unlock_region's test of lock keeps the invariant.
LEMMA UnlockStepInv ==
    ASSUME IInv, NEW t \in Tasks, Unlock(t)
    PROVE  IInv'
  <1>1. Running(t, "Unlock") /\ UNCHANGED <<bootVars, schedVars, irr>>
        /\ UNCHANGED maskVars
    BY DEF Unlock
  <1>2. CASE Top(t).lock
    <2>1. Goto(t, "UnmaskTest") /\ UNCHANGED stack
      BY <1>2 DEF Unlock
    <2>2. "UnmaskTest" \in Labels /\ StackOK("UnmaskTest", stack[t])
      BY <1>1, <1>2, RunningFacts
         DEF StackOK, Top, Labels, UnlockLabels, TopLabels, Calls,
             MaskLabels, UnmaskLabels
    <2>3. /\ StackStep(t) /\ SpawnStep(t) /\ pc'[t] = "UnmaskTest"
          /\ stack'[t] = stack[t]
      BY <1>1, <2>1, <2>2, GotoFrame
    <2>4. MaskStep(t)
      BY <1>1, <2>3, RunningFacts DEF MaskStep, maskVars, MaskLabels
    <2>5. QED
      BY <1>1, <2>3, <2>4, RunningFacts, TaskFrame
  <1>3. CASE ~Top(t).lock
    <2>1. Return(t) /\ "Unlock" \in UnlockLabels
      BY <1>3 DEF Unlock, UnlockLabels
    <2>2. /\ StackStep(t) /\ SpawnStep(t)
          /\ pc'[t] \notin LockLabels \cup UnlockLabels
          /\ Locked(stack[t]) => Locked(stack'[t])
      BY <1>1, <1>3, <2>1, ReturnFrame
    <2>3. MaskStep(t)
      BY <1>1, <2>2, RunningFacts
         DEF MaskStep, maskVars, MaskLabels, LockLabels, UnlockLabels
    <2>4. QED
      BY <1>1, <2>2, <2>3, RunningFacts, TaskFrame
  <1>4. QED
    BY <1>2, <1>3

\* A region closed while the shadow says unmasked.
LEMMA ReturnUnmasked ==
    ASSUME IInv, NEW t \in Tasks, NEW l \in UnlockLabels, Running(t, l),
           Return(t), UNCHANGED <<bootVars, schedVars, irr>>,
           ~picMask, UNCHANGED picMask, irqMask' = FALSE
    PROVE  IInv'
  <1>1. StackStep(t) /\ SpawnStep(t)
    BY ReturnFrame
  <1>2. MaskStep(t)
    BY RunningFacts DEF MaskStep
  <1>3. QED
    BY <1>1, <1>2, RunningFacts, TaskFrame

\* The first test of set_raw_mask, when unmasking, keeps the invariant.
LEMMA UnmaskRawStep ==
    ASSUME IInv, NEW t \in Tasks, UnmaskRaw(t)
    PROVE  IInv'
  <1>1. Running(t, "UnmaskRaw") /\ UNCHANGED <<bootVars, schedVars, irr>>
        /\ UNCHANGED maskVars
    BY DEF UnmaskRaw
  <1>2. CASE irqMask
    <2>1. Goto(t, "UnmaskCmp") /\ UNCHANGED stack
      BY <1>2 DEF UnmaskRaw
    <2>2. "UnmaskCmp" \in Labels /\ StackOK("UnmaskCmp", stack[t])
      BY <1>1, RunningFacts
         DEF StackOK, Labels, UnlockLabels, TopLabels, Calls, MaskLabels,
             UnmaskLabels
    <2>3. /\ StackStep(t) /\ SpawnStep(t) /\ pc'[t] = "UnmaskCmp"
          /\ stack'[t] = stack[t]
      BY <1>1, <2>1, <2>2, GotoFrame
    <2>4. MaskStep(t)
      BY <1>1, <2>3, RunningFacts DEF MaskStep, maskVars, MaskLabels
    <2>5. QED
      BY <1>1, <2>3, <2>4, RunningFacts, TaskFrame
  <1>3. CASE ~irqMask
    <2>1. Return(t) /\ "UnmaskRaw" \in UnlockLabels
      BY <1>3 DEF UnmaskRaw, UnlockLabels
    <2>2. ~picMask /\ irqMask' = FALSE /\ UNCHANGED picMask
      BY <1>1, <1>3, RunningFacts DEF maskVars
    <2>3. QED
      BY <1>1, <2>1, <2>2, ReturnUnmasked
  <1>4. QED
    BY <1>2, <1>3

\* The store that ends int_unmask_irq keeps the invariant.
LEMMA UnmaskStoreStep ==
    ASSUME IInv, NEW t \in Tasks, UnmaskStore(t)
    PROVE  IInv'
  <1>1. Running(t, "UnmaskStore") /\ "UnmaskStore" \in UnlockLabels
    BY DEF UnmaskStore, UnlockLabels
  <1>2. ~picMask
    BY <1>1, RunningFacts DEF MaskLabels
  <1>3. QED
    BY <1>1, <1>2, ReturnUnmasked DEF UnmaskStore

\* int_unmask_irq's test, with the message of worry(), keeps the invariant.
LEMMA UnmaskTestStep ==
    ASSUME IInv, NEW t \in Tasks, UnmaskTest(t)
    PROVE  IInv'
  <1>1. Running(t, "UnmaskTest") /\ UNCHANGED <<bootVars, schedVars, irr>>
        /\ UNCHANGED maskVars
    BY DEF UnmaskTest
  <1>2. CASE irqMask
    <2>1. Goto(t, "UnmaskRaw") /\ UNCHANGED stack
      BY <1>2 DEF UnmaskTest
    <2>2. "UnmaskRaw" \in Labels /\ StackOK("UnmaskRaw", stack[t])
      BY <1>1, RunningFacts
         DEF StackOK, Labels, UnlockLabels, TopLabels, Calls, MaskLabels,
             UnmaskLabels
    <2>3. /\ StackStep(t) /\ SpawnStep(t) /\ pc'[t] = "UnmaskRaw"
          /\ stack'[t] = stack[t]
      BY <1>1, <2>1, <2>2, GotoFrame
    <2>4. MaskStep(t)
      BY <1>1, <2>3, RunningFacts DEF MaskStep, maskVars, MaskLabels
    <2>5. QED
      BY <1>1, <2>3, <2>4, RunningFacts, TaskFrame
  <1>3. CASE ~irqMask /\ Depth(t) >= MaxDepth
    <2>1. Return(t) /\ "UnmaskTest" \in UnlockLabels
      BY <1>3 DEF UnmaskTest, UnlockLabels
    <2>2. ~picMask /\ irqMask' = FALSE /\ UNCHANGED picMask
      BY <1>1, <1>3, RunningFacts DEF maskVars
    <2>3. QED
      BY <1>1, <2>1, <2>2, ReturnUnmasked
  <1>4. CASE ~irqMask /\ ~(Depth(t) >= MaxDepth)
    <2> DEFINE s == stack[t]
               f == [Last(s) EXCEPT !.lock = FALSE]
               w == WithTop(s, f)
               p == Append(w, NewFrame("Nested"))
    <2>1. /\ s \in Seq(Frames) /\ s # <<>> /\ StackOK("UnmaskTest", s)
          /\ Last(s).done
      BY <1>1, RunningFacts DEF StackOK, UnlockLabels, TopLabels, Calls
    <2>2. Last(s) \in Frames
      BY <2>1, LastFacts
    <2>3. /\ f \in Frames /\ f.lock = FALSE /\ f.call = Last(s).call
          /\ f.done = Last(s).done
      BY <2>2, FrameFacts, Zenon
    <2>4. pc' = [pc EXCEPT ![t] = "LockRead"] /\ stack' = [stack EXCEPT ![t] = p]
      BY <1>4 DEF UnmaskTest, Goto, Top
    <2> HIDE DEF f
    <2>5. "Body" \in Labels \ TopLabels /\ "Body" \notin MaskLabels \cup UnmaskLabels
          /\ "Body" \notin UnlockLabels /\ "LockRead" \in Labels
      BY DEF Labels, LockLabels, TopLabels, Calls, MaskLabels, UnmaskLabels,
             UnlockLabels
    <2>6. /\ w \in Seq(Frames) /\ StackOK("Body", w)
          /\ NeverSpawns("UnmaskTest", s) => NeverSpawns("Body", w)
          /\ SpawningAt("Body", w) => SpawningAt("UnmaskTest", s)
          /\ SpawnedAt("Body", w) => \/ SpawnedAt("UnmaskTest", s)
                                     \/ f.call = "Spawn" /\ f.done
                                     \/ f.call = "Add" /\ ~f.done
      BY <2>1, <2>3, <2>5, ReplaceFacts
    <2>7. SpawnedAt("Body", w) => SpawnedAt("UnmaskTest", s)
      <3>1. Last(s) = s[Len(s)] /\ Len(s) \in 1 .. Len(s)
        BY <2>1, LastFacts
      <3>2. QED
        BY <2>1, <2>3, <2>6, <3>1 DEF SpawnedAt
    <2>8. w # <<>>
      BY <2>1, <2>3, WithTopFacts
    <2> HIDE DEF w
    <2>9. /\ p \in Seq(Frames) /\ StackOK("LockRead", p)
          /\ NeverSpawns("Body", w) => NeverSpawns("LockRead", p)
          /\ SpawningAt("LockRead", p) => SpawningAt("Body", w)
          /\ SpawnedAt("LockRead", p) => SpawnedAt("Body", w)
      BY <2>6, <2>8, PushFacts
    <2> HIDE DEF p
    <2>10. pc'[t] = "LockRead" /\ stack'[t] = p /\ pc[t] = "UnmaskTest"
      BY <1>1, <2>4, RunningFacts
    <2>11. /\ pc' \in [Tasks -> Labels] /\ stack' \in [Tasks -> Seq(Frames)]
           /\ \A u \in Tasks \ {t} : pc'[u] = pc[u] /\ stack'[u] = stack[u]
      BY <1>1, <2>4, <2>5, <2>9, RunningFacts
    <2>12. StackStep(t) /\ SpawnStep(t)
      <3>1. /\ NeverSpawns("UnmaskTest", s) => NeverSpawns("LockRead", p)
            /\ SpawningAt("LockRead", p) => SpawningAt("UnmaskTest", s)
            /\ SpawnedAt("LockRead", p) => SpawnedAt("UnmaskTest", s)
        BY <2>6, <2>7, <2>9
      <3>2. QED
        BY <2>9, <2>10, <2>11, <3>1 DEF StackStep, SpawnStep
    <2>13. MaskStep(t)
      BY <1>1, <1>4, RunningFacts DEF MaskStep, maskVars
    <2>14. QED
      BY <1>1, <2>12, <2>13, RunningFacts, TaskFrame
  <1>5. QED
    BY <1>2, <1>3, <1>4

\* The work of a region marks it done and leaves the task in it.
LEMMA WorkFrame ==
    ASSUME IInv, NEW t \in Tasks, NEW c \in {"Spawn", "Add", "Yield"},
           Work(t, c)
    PROVE  /\ StackStep(t) /\ MaskStep(t)
           /\ iflag /\ current = t /\ boot = "done"
           /\ SpawningAt(pc'[t], stack'[t]) => SpawningAt(pc[t], stack[t])
           /\ c # "Spawn" /\ SpawnedAt(pc'[t], stack'[t]) =>
                 c = "Yield" /\ SpawnedAt(pc[t], stack[t])
           /\ c = "Add" => /\ SpawnedAt(pc[t], stack[t])
                           /\ ~SpawningAt(pc'[t], stack'[t])
           /\ c = "Spawn" => SpawningAt(pc[t], stack[t])
           /\ c # "Yield" => t = SYSTEM
  <1> DEFINE s == stack[t]
             f == [Last(s) EXCEPT !.done = TRUE]
             w == WithTop(s, f)
  <1>1. Running(t, "Body") /\ Last(s).call = c /\ ~Last(s).done
    BY DEF Work, Top
  <1>2. s \in Seq(Frames) /\ s # <<>> /\ StackOK("Body", s)
    BY <1>1, RunningFacts DEF StackOK, TopLabels, Calls
  <1>3. Last(s) \in Frames /\ Len(s) \in Nat /\ Len(s) > 0 /\ Last(s) = s[Len(s)]
    BY <1>2, LastFacts
  <1>4. /\ f \in Frames /\ f.done = TRUE /\ f.call = Last(s).call
        /\ f.lock = Last(s).lock
    BY <1>3, FrameFacts, Zenon
  <1>5. pc' = pc /\ stack' = [stack EXCEPT ![t] = w] /\ UNCHANGED maskVars
    BY DEF Work, Top
  <1> HIDE DEF f
  <1>6. "Body" \in Labels \ TopLabels /\ "Body" \notin MaskLabels \cup UnmaskLabels
        /\ "Body" \notin UnlockLabels
    BY DEF Labels, TopLabels, Calls, MaskLabels, UnmaskLabels, UnlockLabels
  <1>7. /\ w \in Seq(Frames) /\ StackOK("Body", w)
        /\ Locked(s) => Locked(w)
        /\ NeverSpawns("Body", s) => NeverSpawns("Body", w)
        /\ SpawningAt("Body", w) => SpawningAt("Body", s)
    BY <1>2, <1>4, <1>6, ReplaceFacts
  <1>8. /\ Len(w) = Len(s)
        /\ \A i \in 1 .. Len(s) : w[i] = IF i = Len(s) THEN f ELSE s[i]
    BY <1>2, <1>4, WithTopFacts
  <1> HIDE DEF w
  <1>9. ~(Len(s) > 1)
    BY <1>1, <1>2, <1>3 DEF StackOK
  <1>10. \A i \in 1 .. Len(w) : w[i].call = c /\ w[i].done
    BY <1>1, <1>3, <1>4, <1>8, <1>9
  <1>11. pc'[t] = "Body" /\ pc[t] = "Body" /\ stack'[t] = w
    BY <1>1, <1>5, RunningFacts
  <1>12. StackStep(t)
    <2>1. /\ pc' \in [Tasks -> Labels] /\ stack' \in [Tasks -> Seq(Frames)]
          /\ \A u \in Tasks \ {t} : pc'[u] = pc[u] /\ stack'[u] = stack[u]
      BY <1>1, <1>5, <1>7, RunningFacts
    <2>2. QED
      BY <1>7, <1>11, <2>1 DEF StackStep
  <1>13. MaskStep(t)
    BY <1>1, <1>5, <1>7, <1>11, RunningFacts DEF MaskStep, maskVars
  <1>14. c # "Spawn" /\ SpawnedAt("Body", w) => c = "Yield" /\ SpawnedAt("Body", s)
    BY <1>10 DEF SpawnedAt
  <1>15. c = "Add" => SpawnedAt("Body", s) /\ ~SpawningAt("Body", w)
    BY <1>1, <1>3, <1>10 DEF SpawnedAt, SpawningAt
  <1>16. c = "Spawn" => SpawningAt("Body", s)
    BY <1>1, <1>3 DEF SpawningAt
  <1>17. c # "Yield" => t = SYSTEM
    <2>1. c # "Yield" => ~NeverSpawns("Body", s)
      BY <1>1, <1>3 DEF NeverSpawns
    <2>2. QED
      BY <1>11, <2>1 DEF IInv, OnlySystemSpawns, Tasks
  <1>18. QED
    BY <1>1, <1>7, <1>11, <1>12, <1>13, <1>14, <1>15, <1>16, <1>17, RunningFacts

-----------------------------------------------------------------------------
(* Facts about the process queue.                                          *)

\* The queued processes are tasks.
LEMMA QueuedFacts ==
    ASSUME NEW q \in Seq(Tasks)
    PROVE  /\ Range(q) = {q[i] : i \in 1 .. Len(q)}
           /\ Range(q) \subseteq Tasks
  BY DEF Range

\* The queue scheduler_init leaves is empty.
LEMMA EmptyQueue == <<>> \in Seq(Tasks) /\ Range(<<>>) = {}
  BY DEF Range

\* A process that is not queued is appended.
LEMMA EnqueueFacts ==
    ASSUME NEW q \in Seq(Tasks), NEW p \in Tasks, p \notin Range(q),
           \A i, j \in 1 .. Len(q) : q[i] = q[j] => i = j
    PROVE  LET e == Enqueue(q, p) IN
           /\ e = Append(q, p)
           /\ e \in Seq(Tasks)
           /\ Range(e) = Range(q) \cup {p}
           /\ \A i, j \in 1 .. Len(e) : e[i] = e[j] => i = j
  <1> DEFINE e == Append(q, p)
  <1>1. Enqueue(q, p) = e
    BY DEF Enqueue
  <1>2. /\ e \in Seq(Tasks) /\ Len(e) = Len(q) + 1 /\ Len(q) \in Nat
        /\ \A i \in 1 .. Len(q) : e[i] = q[i]
        /\ e[Len(q) + 1] = p
    BY AppendProperties
  <1> HIDE DEF e
  <1>3. Range(q) = {q[i] : i \in 1 .. Len(q)} /\ Range(e) = {e[i] : i \in 1 .. Len(e)}
    BY <1>2, QueuedFacts
  <1>4. Range(e) = Range(q) \cup {p}
    BY <1>2, <1>3
  <1>5. \A i, j \in 1 .. Len(e) : e[i] = e[j] => i = j
    BY <1>2, <1>3
  <1>6. QED
    BY <1>1, <1>2, <1>4, <1>5 DEF e

\* scheduler_find_next_best finds the successor, another process.
LEMMA NextBestFacts ==
    ASSUME NEW q \in Seq(Tasks), NEW p \in Range(q), Len(q) > 1,
           \A i, j \in 1 .. Len(q) : q[i] = q[j] => i = j
    PROVE  /\ NextBest(q, p) \in Range(q)
           /\ NextBest(q, p) # p
           /\ \E i \in 1 .. Len(q) :
                 q[i] = p /\ NextBest(q, p) = q[(i % Len(q)) + 1]
  <1> DEFINE i == IndexOf(q, p)
             n == Len(q)
  <1>1. n \in Nat /\ Range(q) = {q[k] : k \in 1 .. n}
    BY QueuedFacts
  <1>2. i \in 1 .. n /\ q[i] = p
    BY <1>1 DEF IndexOf
  <1>3. NextBest(q, p) = IF i = n THEN q[1] ELSE q[i + 1]
    BY DEF NextBest
  <1> HIDE DEF i
  <1>4. \A k \in Nat, m \in Nat : m > 1 /\ 0 < k /\ k < m => k % m = k
    OBVIOUS
  <1>5. \A m \in Nat : m > 1 => m % m = 0
    OBVIOUS
  <1>6. (i % n) + 1 = IF i = n THEN 1 ELSE i + 1
    <2> HIDE DEF n
    <2>1. i \in Nat /\ n > 1 /\ 0 < i /\ (i = n \/ i < n)
      BY <1>1, <1>2 DEF n
    <2>2. QED
      BY <1>1, <1>4, <1>5, <2>1
  <1>7. (IF i = n THEN 1 ELSE i + 1) \in 1 .. n /\ (IF i = n THEN 1 ELSE i + 1) # i
    BY <1>1, <1>2
  <1>8. NextBest(q, p) = q[IF i = n THEN 1 ELSE i + 1]
    BY <1>3
  <1>9. QED
    BY <1>1, <1>2, <1>6, <1>7, <1>8

-----------------------------------------------------------------------------
(* The work inside the regions.                                            *)

\* The task spawn_init fills in is a worker that is not queued.
LEMMA NextWorkerFacts ==
    ASSUME ~(Workers \subseteq Queued)
    PROVE  NextWorker \in Workers /\ NextWorker \notin Queued
  BY DEF NextWorker

\* spawn_init's work keeps the invariant: the new context comes first.
LEMMA SpawnBodyStep ==
    ASSUME IInv, NEW t \in Tasks, SpawnBody(t)
    PROVE  IInv'
  <1>1. Work(t, "Spawn")
    BY DEF SpawnBody
  <1>2. /\ StackStep(t) /\ MaskStep(t) /\ iflag /\ current = t /\ boot = "done"
        /\ SpawningAt(pc[t], stack[t])
        /\ t = SYSTEM
    BY <1>1, WorkFrame
  <1>3. UNCHANGED <<bootVars, current, preempt, irr>> /\ UNCHANGED <<queue, yield>>
    BY <1>1 DEF Work, SpawnBody
  <1>4. ~(Workers \subseteq Queued)
    BY <1>2 DEF IInv, ContextInv
  <1>5. NextWorker \in Tasks
    BY <1>4, NextWorkerFacts DEF Tasks
  <1>6. /\ quantum' = [quantum EXCEPT ![NextWorker] = DEFAULT_QUANTUM]
        /\ ctx' = [ctx EXCEPT ![NextWorker] = TRUE]
    BY DEF SpawnBody
  <1>7. TypeOK'
    <2>1. DEFAULT_QUANTUM \in 0 .. (QuantumSpace - 1)
      BY BoundsAssumption
    <2>2. QED
      BY <1>2, <1>3, <1>6, <2>1 DEF IInv, TypeOK, bootVars, StackStep, MaskStep
  <1>8. BootInv' /\ QueueInv'
    BY <1>2, <1>3 DEF IInv, BootInv, QueueInv, Queued, bootVars
  <1>9. ContextInv'
    <2>1. Queued' = Queued /\ NextWorker' = NextWorker
      BY <1>3 DEF Queued, NextWorker
    <2>2. ctx'[NextWorker] /\ \A p \in Tasks : ctx[p] => ctx'[p]
      BY <1>5, <1>6 DEF IInv, TypeOK
    <2>3. Queued \subseteq Tasks
      BY QueuedFacts DEF IInv, TypeOK, Queued
    <2>4. QueueResumable'
      BY <1>3, <2>1, <2>2, <2>3 DEF IInv, ContextInv, QueueResumable
    <2>5. QED
      BY <1>4, <2>1, <2>2, <2>4 DEF ContextInv
  <1>10. QED
    BY <1>2, <1>3, <1>7, <1>8, <1>9, MaskFrame DEF IInv

\* process_yield's work keeps the invariant.
LEMMA YieldBodyStep ==
    ASSUME IInv, NEW t \in Tasks, YieldBody(t)
    PROVE  IInv'
  <1>1. Work(t, "Yield")
    BY DEF YieldBody
  <1>2. /\ StackStep(t) /\ MaskStep(t) /\ iflag /\ current = t /\ boot = "done"
        /\ SpawningAt(pc'[t], stack'[t]) => SpawningAt(pc[t], stack[t])
        /\ SpawnedAt(pc'[t], stack'[t]) => SpawnedAt(pc[t], stack[t])
    BY <1>1, WorkFrame
  <1>3. UNCHANGED <<bootVars, current, preempt, irr, queue, quantum, ctx>>
    BY <1>1 DEF Work, YieldBody
  <1>4. TypeOK'
    BY <1>2, <1>3 DEF IInv, TypeOK, bootVars, StackStep, MaskStep, YieldBody
  <1>5. BootInv' /\ QueueInv'
    BY <1>2, <1>3 DEF IInv, BootInv, QueueInv, Queued, bootVars
  <1>6. ContextInv'
    <2>1. Queued' = Queued /\ NextWorker' = NextWorker /\ SYSTEM \in Tasks
      BY <1>3 DEF Queued, NextWorker, Tasks
    <2>2. QueueResumable'
      BY <1>3, <2>1 DEF IInv, ContextInv, QueueResumable
    <2>3. /\ SpawningAt(pc'[SYSTEM], stack'[SYSTEM]) =>
                SpawningAt(pc[SYSTEM], stack[SYSTEM])
          /\ SpawnedAt(pc'[SYSTEM], stack'[SYSTEM]) =>
                SpawnedAt(pc[SYSTEM], stack[SYSTEM])
      BY <1>2, <2>1 DEF StackStep
    <2>4. QED
      BY <1>3, <2>1, <2>2, <2>3 DEF IInv, ContextInv
  <1>7. QED
    BY <1>2, <1>3, <1>4, <1>5, <1>6, MaskFrame DEF IInv

\* scheduler_add_process's work keeps the invariant: w has its context.
LEMMA AddBodyStep ==
    ASSUME IInv, NEW t \in Tasks, AddBody(t)
    PROVE  IInv'
  <1>1. Work(t, "Add")
    BY DEF AddBody
  <1>2. /\ StackStep(t) /\ MaskStep(t) /\ iflag /\ current = t /\ boot = "done"
        /\ SpawnedAt(pc[t], stack[t])
        /\ ~SpawningAt(pc'[t], stack'[t])
        /\ ~SpawnedAt(pc'[t], stack'[t])
        /\ t = SYSTEM
    BY <1>1, WorkFrame
  <1>3. UNCHANGED <<bootVars, current, preempt, irr, quantum, ctx, yield>>
    BY <1>1 DEF Work, AddBody
  <1>4. ~(Workers \subseteq Queued) /\ ctx[NextWorker]
    BY <1>2 DEF IInv, ContextInv
  <1>5. NextWorker \in Tasks /\ NextWorker \notin Range(queue)
    BY <1>4, NextWorkerFacts DEF Tasks, Queued
  <1>6. queue' = Enqueue(queue, NextWorker)
    BY DEF AddBody
  <1>7. /\ queue' \in Seq(Tasks)
        /\ Range(queue') = Range(queue) \cup {NextWorker}
        /\ \A i, j \in 1 .. Len(queue') : queue'[i] = queue'[j] => i = j
    BY <1>5, <1>6, EnqueueFacts DEF IInv, TypeOK, QueueInv
  <1>8. TypeOK'
    BY <1>2, <1>3, <1>7 DEF IInv, TypeOK, bootVars, StackStep, MaskStep
  <1>9. BootInv' /\ QueueInv'
    BY <1>2, <1>3, <1>7 DEF IInv, BootInv, QueueInv, Queued, bootVars
  <1>10. ContextInv'
    <2>1. QueueResumable'
      BY <1>3, <1>4, <1>7 DEF IInv, ContextInv, QueueResumable, Queued
    <2>2. QED
      BY <1>2, <2>1 DEF ContextInv
  <1>11. QED
    BY <1>2, <1>3, <1>8, <1>9, <1>10, MaskFrame DEF IInv

-----------------------------------------------------------------------------
(* Boot and interrupts.                                                    *)

\* The state at the start of kmain satisfies the invariant.
LEMMA InitInv == Init => IInv
  <1> SUFFICES ASSUME Init PROVE IInv
    OBVIOUS
  <1>1. /\ SYSTEM \in Tasks /\ \A t \in Tasks : stack[t] = <<>>
        /\ \A t \in Tasks : pc[t] \in {"Print", "Spawn"}
        /\ \A w \in Workers : pc[w] = "Print"
        /\ pc[SYSTEM] = "Spawn" => Workers # {}
    BY TasksAssumption DEF Init, Tasks
  <1>2. TypeOK
    <2>1. 0 \in 0 .. (QuantumSpace - 1)
      BY BoundsAssumption
    <2>2. pc \in [Tasks -> Labels]
      BY DEF Init, Labels, Calls
    <2>3. stack \in [Tasks -> Seq(Frames)] /\ queue \in Seq(Tasks)
      BY DEF Init
    <2>4. quantum \in [Tasks -> 0 .. (QuantumSpace - 1)]
      BY <2>1 DEF Init
    <2>5. QED
      BY <2>2, <2>3, <2>4 DEF Init, TypeOK
  <1>3. BootInv /\ QueueInv /\ MaskInv /\ ShadowInv
    BY DEF Init, BootInv, QueueInv, MaskInv, ShadowInv
  <1>4. StackInv
    BY <1>1 DEF StackInv, StackOK, TopLabels, Calls, MaskLabels, UnmaskLabels,
                UnlockLabels
  <1>5. OnlySystemSpawns
    BY <1>1 DEF OnlySystemSpawns, NeverSpawns, Tasks
  <1>6. ContextInv
    <2>1. Queued = {}
      BY EmptyQueue DEF Init, Queued
    <2>2. pc[SYSTEM] # "Add" /\ Len(stack[SYSTEM]) = 0
      BY <1>1
    <2>3. QED
      BY <1>1, <2>1, <2>2 DEF ContextInv, QueueResumable, SpawningAt, SpawnedAt
  <1>7. QED
    BY <1>2, <1>3, <1>4, <1>5, <1>6 DEF IInv

\* The first three steps of kmain touch neither tasks nor contexts.
LEMMA BootEarly ==
    ASSUME IInv, BootInterrupts \/ BootTimer \/ BootScheduler
    PROVE  IInv'
  <1>1. /\ boot # "done" /\ boot' # "done" /\ queue = <<>> /\ queue' = <<>>
        /\ UNCHANGED <<iflag, current, yield, quantum, ctx, irr, pc, stack>>
    BY DEF BootInterrupts, BootTimer, BootScheduler, schedVars, IInv, BootInv
  <1>2. TypeOK'
    BY <1>1 DEF IInv, TypeOK, BootInterrupts, BootTimer, BootScheduler, schedVars,
                maskVars
  <1>3. BootInv'
    BY <1>1 DEF IInv, BootInv, BootInterrupts, BootTimer, BootScheduler, maskVars
  <1>4. QueueInv' /\ MaskInv' /\ ShadowInv' /\ StackInv' /\ OnlySystemSpawns'
    BY <1>1 DEF IInv, QueueInv, MaskInv, ShadowInv, StackInv, OnlySystemSpawns
  <1>5. ContextInv'
    BY <1>1 DEF IInv, ContextInv, QueueResumable, Queued, NextWorker
  <1>6. QED
    BY <1>2, <1>3, <1>4, <1>5 DEF IInv

\* init_system_task and the first iret keep the invariant.
LEMMA BootSystemTaskStep ==
    ASSUME IInv, BootSystemTask
    PROVE  IInv'
  <1>1. /\ queue = <<>> /\ SYSTEM \in Tasks /\ boot = "init_system_task"
        /\ boot' = "done" /\ ~picMask /\ ~irqMask
        /\ current' = SYSTEM /\ iflag' = TRUE
        /\ UNCHANGED <<preempt, yield, ctx, picMask, irqMask, irr, pc, stack>>
    BY DEF BootSystemTask, BootstrapThread, IInv, BootInv, Tasks, maskVars
  <1>2. /\ queue' = <<SYSTEM>> /\ Range(queue') = {SYSTEM}
    <2>1. /\ Range(queue) = {}
          /\ \A i, j \in 1 .. Len(queue) : queue[i] = queue[j] => i = j
      BY <1>1, EmptyQueue DEF IInv, QueueInv
    <2>2. queue' = Append(queue, SYSTEM) /\ Range(queue') = Range(queue) \cup {SYSTEM}
      BY <1>1, <2>1, EnqueueFacts DEF BootSystemTask, BootstrapThread, IInv, TypeOK
    <2>3. QED
      BY <1>1, <2>1, <2>2
  <1>3. TypeOK'
    <2>1. DEFAULT_QUANTUM \in 0 .. (QuantumSpace - 1)
      BY BoundsAssumption
    <2>2. quantum' \in [Tasks -> 0 .. (QuantumSpace - 1)]
      BY <2>1 DEF IInv, TypeOK, BootSystemTask, BootstrapThread
    <2>3. queue' \in Seq(Tasks)
      BY <1>1, <1>2
    <2>4. QED
      BY <1>1, <2>2, <2>3 DEF IInv, TypeOK
  <1>4. BootInv' /\ QueueInv' /\ MaskInv' /\ ShadowInv'
    BY <1>1, <1>2 DEF BootInv, QueueInv, MaskInv, ShadowInv, Queued
  <1>5. StackInv' /\ OnlySystemSpawns'
    BY <1>1 DEF IInv, StackInv, OnlySystemSpawns
  <1>6. ContextInv'
    <2>1. QueueResumable'
      BY <1>1, <1>2 DEF QueueResumable, Queued
    <2>2. SpawningAt(pc[SYSTEM], stack[SYSTEM]) => ~(Workers \subseteq {SYSTEM})
      BY <1>1, TasksAssumption, QueuedFacts DEF IInv, ContextInv, Queued, TypeOK
    <2>3. SpawnedAt(pc[SYSTEM], stack[SYSTEM]) =>
             ~(Workers \subseteq {SYSTEM}) /\ ctx[NextWorker]
      BY <1>1, TasksAssumption, QueuedFacts DEF IInv, ContextInv, Queued, TypeOK
    <2>4. NextWorker' = NextWorker
      <3>1. \A w \in Workers : w \notin Range(queue) <=> w \notin Range(queue')
        BY <1>1, <1>2, EmptyQueue, TasksAssumption
      <3>2. QED
        BY <3>1 DEF NextWorker, Queued
    <2>5. QED
      BY <1>1, <1>2, <2>1, <2>2, <2>3, <2>4 DEF ContextInv, Queued
  <1>7. QED
    BY <1>3, <1>4, <1>5, <1>6 DEF IInv

\* An edge of the PIT keeps the invariant.
LEMMA PitFireStep ==
    ASSUME IInv, PitFire
    PROVE  IInv'
  BY DEF PitFire, IInv, TypeOK, BootInv, QueueInv, StackInv, MaskInv, ShadowInv,
         OnlySystemSpawns, ContextInv, QueueResumable, Queued, NextWorker,
         bootVars, schedVars, maskVars

\* The interrupt finds the timer unmasked and leaves it so; a switch hands the
\* CPU to a queued process whose context is valid.
LEMMA IRQ0Step ==
    ASSUME IInv, IRQ0
    PROVE  IInv'
  <1>1. /\ boot = "done" /\ boot' = "done" /\ iflag' = TRUE /\ ~picMask /\ ~picMask'
        /\ irqMask' = irqMask
        /\ current \in Range(queue) /\ current \in Tasks
        /\ UNCHANGED <<queue, preempt, stack>>
    BY QueuedFacts
       DEF IRQ0, InterruptPending, IInv, BootInv, TypeOK, Queued, bootVars, maskVars
  <1>2. /\ current' \in Range(queue) /\ current' \in Tasks
        /\ yield' \in [Tasks -> BOOLEAN] /\ ctx' \in [Tasks -> BOOLEAN]
        /\ \A p \in Tasks : p # current' /\ (ctx[p] \/ p = current) => ctx'[p]
        /\ \A p \in Tasks : p \notin Range(queue) => ctx'[p] = ctx[p]
    <2>1. CASE preempt /\ MustSwitch
      <3> DEFINE next == NextBest(queue, current)
      <3>1. next \in Range(queue) /\ next # current /\ next \in Tasks
        BY <1>1, <2>1, NextBestFacts, QueuedFacts
           DEF IInv, TypeOK, QueueInv, MustSwitch
      <3>2. /\ yield' = [yield EXCEPT ![current] = FALSE]
            /\ ctx' = [ctx EXCEPT ![current] = TRUE, ![next] = FALSE]
            /\ current' = next
        BY <2>1 DEF IRQ0, Switch
      <3> HIDE DEF next
      <3>3. QED
        BY <1>1, <3>1, <3>2 DEF IInv, TypeOK
    <2>2. CASE ~(preempt /\ MustSwitch)
      BY <1>1, <2>2 DEF IRQ0, IInv, TypeOK
    <2>3. QED
      BY <2>1, <2>2
  <1>3. /\ pc' \in [Tasks -> Labels]
        /\ \A t \in Tasks : pc'[t] = pc[t] \/ (pc[t] = "Halted" /\ pc'[t] = "WaitTest")
    BY <1>1 DEF IRQ0, IInv, TypeOK, Labels
  <1>4. TypeOK'
    <2>1. Decremented(quantum[current]) \in 0 .. (QuantumSpace - 1)
      <3>1. quantum[current] \in 0 .. (QuantumSpace - 1)
        BY <1>1 DEF IInv, TypeOK
      <3>2. \A m \in Nat, k \in Nat : m > 0 => k % m \in 0 .. (m - 1)
        OBVIOUS
      <3>3. QuantumSpace \in Nat /\ QuantumSpace > 0
        BY BoundsAssumption
      <3>4. quantum[current] + QuantumSpace - 1 \in Nat
        BY <3>1, <3>3
      <3>5. QED
        BY <3>2, <3>3, <3>4 DEF Decremented
    <2>2. quantum' = [quantum EXCEPT ![current] = Decremented(quantum[current])]
      BY DEF IRQ0
    <2>3. quantum' \in [Tasks -> 0 .. (QuantumSpace - 1)]
      BY <1>1, <2>1, <2>2 DEF IInv, TypeOK
    <2>4. irr' = FALSE /\ UNCHANGED <<boot, iflag, picMask, irqMask>>
      BY DEF IRQ0, bootVars, maskVars
    <2>5. QED
      BY <1>1, <1>2, <1>3, <2>3, <2>4 DEF IInv, TypeOK
  <1>5. BootInv' /\ QueueInv' /\ MaskInv' /\ ShadowInv'
    BY <1>1, <1>2 DEF IInv, BootInv, QueueInv, MaskInv, ShadowInv, Queued
  <1>6. StackInv'
    BY <1>1, <1>3
       DEF IInv, StackInv, StackOK, TopLabels, Calls, MaskLabels, UnmaskLabels,
           UnlockLabels
  <1>7. OnlySystemSpawns'
    BY <1>1, <1>3 DEF IInv, OnlySystemSpawns, NeverSpawns, Tasks
  <1>8. ContextInv'
    <2>1. QueueResumable'
      BY <1>1, <1>2, QueuedFacts DEF IInv, ContextInv, QueueResumable, Queued, TypeOK
    <2>2. Queued' = Queued /\ NextWorker' = NextWorker /\ SYSTEM \in Tasks
      BY <1>1 DEF Queued, NextWorker, Tasks
    <2>3. /\ SpawningAt(pc'[SYSTEM], stack'[SYSTEM]) =>
                SpawningAt(pc[SYSTEM], stack[SYSTEM])
          /\ SpawnedAt(pc'[SYSTEM], stack'[SYSTEM]) =>
                SpawnedAt(pc[SYSTEM], stack[SYSTEM])
      BY <1>1, <1>3, <2>2 DEF SpawningAt, SpawnedAt
    <2>4. ~(Workers \subseteq Queued) => ctx'[NextWorker] = ctx[NextWorker]
      BY <1>2, NextWorkerFacts DEF Queued, Tasks
    <2>5. QED
      BY <2>1, <2>2, <2>3, <2>4 DEF IInv, ContextInv
  <1>9. QED
    BY <1>4, <1>5, <1>6, <1>7, <1>8 DEF IInv

-----------------------------------------------------------------------------
(* The theorems.                                                           *)

\* Every step keeps the invariant.
LEMMA InvStep == IInv /\ [Next]_vars => IInv'
  <1> SUFFICES ASSUME IInv, [Next]_vars PROVE IInv'
    OBVIOUS
  <1>1. CASE Boot
    BY <1>1, BootEarly, BootSystemTaskStep DEF Boot
  <1>2. CASE PitFire
    BY <1>2, PitFireStep
  <1>3. CASE IRQ0
    BY <1>3, IRQ0Step
  <1>4. ASSUME NEW t \in Tasks, TaskStep(t) PROVE IInv'
    <2>1. CASE Call(t) \/ WaitTest(t) \/ AsmHlt(t)
      BY <2>1, CallStep, WaitTestStep, AsmHltStep
    <2>2. CASE LockStep(t)
      BY <2>2, LockReadStep, MaskTestStep, MaskRawStep, MaskCmpStep, MaskOutStep,
         MaskStoreStep DEF LockStep
    <2>3. CASE BodyStep(t)
      BY <2>3, SpawnBodyStep, AddBodyStep, YieldBodyStep, NestedCallStep, LeaveStep
         DEF BodyStep
    <2>4. CASE UnlockStep(t)
      BY <2>4, UnlockStepInv, UnmaskTestStep, UnmaskRawStep, UnmaskCmpStep,
         UnmaskOutStep, UnmaskStoreStep DEF UnlockStep
    <2>5. QED
      BY <1>4, <2>1, <2>2, <2>3, <2>4 DEF TaskStep
  <1>5. CASE UNCHANGED vars
    BY <1>5 DEF vars, IInv, TypeOK, BootInv, QueueInv, StackInv, MaskInv, ShadowInv,
         OnlySystemSpawns, ContextInv, QueueResumable, Queued, NextWorker
  <1>6. QED
    BY <1>1, <1>2, <1>3, <1>4, <1>5 DEF Next

\* The inductive invariant holds in every reachable state.
THEOREM Invariance == Spec => []IInv
  BY InitInv, InvStep, PTL DEF Spec

\* Type correctness, quantum wrap-around included.
THEOREM TypeCorrect == Spec => []TypeOK
  <1>1. IInv => TypeOK
    BY DEF IInv
  <1>2. QED
    BY <1>1, Invariance, PTL

\* No tick is taken before g_current_process and process_queue are set.
THEOREM NoNullTickAlways == Spec => []NoNullTick
  <1>1. IInv => NoNullTick
    <2> SUFFICES ASSUME IInv, InterruptPending PROVE current # NULL /\ queue # <<>>
      BY DEF NoNullTick
    <2>1. current \in Range(queue)
      BY DEF InterruptPending, IInv, BootInv, Queued
    <2>2. Range(queue) \subseteq Tasks
      BY QueuedFacts DEF IInv, TypeOK
    <2>3. queue # <<>>
      BY <2>1, EmptyQueue
    <2>4. QED
      BY <2>1, <2>2, <2>3, TasksAssumption
  <1>2. QED
    BY <1>1, Invariance, PTL

\* Every process that may be switched to has a context to resume.
THEOREM ContextsResumable == Spec => []QueueResumable
  <1>1. IInv => QueueResumable
    BY DEF IInv, ContextInv
  <1>2. QED
    BY <1>1, Invariance, PTL

\* The timer is masked only by a region of the running task that will unmask
\* it: it is never switched away from, or halted with, the timer masked.
THEOREM TimerNeverLost == Spec => []PicMaskOwned
  <1>1. IInv => PicMaskOwned
    <2> SUFFICES ASSUME IInv, boot = "done", picMask
                 PROVE  HoldsLock(current) /\ pc[current] \notin {"WaitTest", "Hlt", "Halted"}
      BY DEF PicMaskOwned
    <2>1. Locked(stack[current])
      BY DEF IInv, MaskInv
    <2>2. current \in Tasks
      BY QueuedFacts DEF IInv, BootInv, TypeOK, Queued
    <2>3. stack[current] # <<>>
      BY <2>1 DEF Locked
    <2>4. pc[current] \notin {"WaitTest", "Hlt", "Halted"}
      BY <2>2, <2>3 DEF IInv, StackInv, StackOK, TopLabels
    <2>5. QED
      BY <2>1, <2>4 DEF HoldsLock, Locked, Depth
  <1>2. QED
    BY <1>1, Invariance, PTL

\* The shadow of the PIC's mask is never stuck at "masked".
THEOREM ShadowNeverStuck == Spec => []ShadowRestored
  <1>1. IInv => ShadowRestored
    BY DEF IInv, ShadowInv, ShadowRestored, HoldsLock, Locked, Depth
  <1>2. QED
    BY <1>1, Invariance, PTL

\* A step of the scheduler is a step of the ring, or leaves it alone.
LEMMA RingStep ==
    ASSUME IInv, [Next]_vars
    PROVE  [Ring!RRNext]_(Ring!rrVars)
  <1> USE DEF Ring!RRNext, Ring!rrVars
  <1>1. CASE UNCHANGED <<queue, current>>
    BY <1>1
  <1>2. CASE BootSystemTask
    <2>1. queue = <<>> /\ SYSTEM \in Tasks
      BY <1>2 DEF BootSystemTask, BootstrapThread, IInv, BootInv, Tasks
    <2>2. Range(queue) = {} /\ queue \in Seq(Tasks)
      BY <2>1, EmptyQueue
    <2>3. queue' = <<SYSTEM>> /\ current' = SYSTEM
      BY <1>2, <2>1, <2>2 DEF BootSystemTask, BootstrapThread, Enqueue
    <2>4. QED
      BY <2>1, <2>3 DEF Ring!Start
  <1>3. ASSUME NEW t \in Tasks, AddBody(t) PROVE [Ring!RRNext]_(Ring!rrVars)
    <2>1. Work(t, "Add")
      BY <1>3 DEF AddBody
    <2>2. t = SYSTEM /\ SpawnedAt(pc[t], stack[t])
      BY <2>1, WorkFrame
    <2>3. ~(Workers \subseteq Queued)
      BY <2>2 DEF IInv, ContextInv
    <2>4. NextWorker \in Tasks /\ NextWorker \notin Range(queue)
      BY <2>3, NextWorkerFacts DEF Tasks, Queued
    <2>5. queue' = Append(queue, NextWorker) /\ current' = current
      BY <1>3, <2>1, <2>4 DEF AddBody, Work, Enqueue
    <2>6. NextWorker \notin Ring!Members
      BY <2>4, QueuedFacts DEF IInv, TypeOK, Ring!Members
    <2>7. QED
      BY <2>4, <2>5, <2>6 DEF Ring!Join
  <1>4. CASE IRQ0 /\ preempt /\ MustSwitch
    <2>1. /\ Len(queue) > 1 /\ queue' = queue
          /\ current' = NextBest(queue, current)
          /\ current \in Range(queue) /\ queue \in Seq(Tasks)
      BY <1>4 DEF IRQ0, MustSwitch, Switch, InterruptPending, IInv, TypeOK, BootInv,
                  Queued
    <2>2. \E i \in 1 .. Len(queue) :
             queue[i] = current /\ NextBest(queue, current) = queue[(i % Len(queue)) + 1]
      BY <2>1, NextBestFacts DEF IInv, QueueInv
    <2>3. QED
      BY <2>1, <2>2 DEF Ring!Pass
  <1>5. CASE IRQ0 /\ ~(preempt /\ MustSwitch)
    BY <1>1, <1>5 DEF IRQ0
  <1>6. CASE BootInterrupts \/ BootTimer \/ PitFire
    BY <1>1, <1>6 DEF BootInterrupts, BootTimer, PitFire, schedVars
  <1>7. CASE BootScheduler
    BY <1>1, <1>7 DEF BootScheduler, IInv, BootInv
  <1>8. ASSUME NEW t \in Tasks, TaskStep(t), ~AddBody(t)
        PROVE  [Ring!RRNext]_(Ring!rrVars)
    <2>1. UNCHANGED <<queue, current>>
      BY <1>8 DEF TaskStep, Call, WaitTest, AsmHlt, LockStep, LockRead, MaskTest, MaskRaw,
          MaskCmp, MaskOut, MaskStore, UnlockStep, Unlock, UnmaskTest, UnmaskRaw,
          UnmaskCmp, UnmaskOut, UnmaskStore, BodyStep, SpawnBody, YieldBody, Work,
          NestedCall, Leave, schedVars
    <2>2. QED
      BY <1>1, <2>1
  <1>9. CASE UNCHANGED vars
    BY <1>1, <1>9 DEF vars
  <1>10. QED
    BY <1>2, <1>3, <1>4, <1>5, <1>6, <1>7, <1>8, <1>9 DEF Next, Boot

\* The scheduler implements the ring: the CPU passes to the successor of the
\* running task, and a task joins the queue once, at its end.
THEOREM ImplementsRing == Spec => RoundRobinOrder
  <1>1. Init => Ring!RRInit
    BY DEF Init, Ring!RRInit
  <1>2. QED
    BY <1>1, RingStep, Invariance, PTL DEF Spec, RoundRobinOrder, Ring!RRSpec

=============================================================================
