------------------------- MODULE ProcessQueueProofs -------------------------
(***************************************************************************)
(* The linked list of processes never runs in a circle, and it implements  *)
(* the ring of RoundRobin.tla, for any number of processes.                *)
(***************************************************************************)
EXTENDS ProcessQueue, FiniteSetTheorems, WellFoundedInduction, TLAPS

\* The next pointers run through the processes of s, each of them once.
Linked(s) ==
    /\ s \in Seq(Procs)
    /\ \A i, j \in 1 .. Len(s) : s[i] = s[j] => i = j
    /\ process_queue = IF Len(s) = 0 THEN NULL ELSE s[1]
    /\ \A i \in 1 .. Len(s) : next[s[i]] = IF i < Len(s) THEN s[i + 1] ELSE NULL
    /\ \A p \in Procs : (\A i \in 1 .. Len(s) : s[i] # p) => next[p] = NULL

\* A call under way has found its argument in none of the nodes it has
\* visited, and the current process is in the list.
Walking(s) ==
    /\ adding # NULL =>
          \E i \in 1 .. Len(s) : node = s[i] /\ \A j \in 1 .. i : s[j] # adding
    /\ IF Len(s) = 0 THEN current = NULL ELSE \E i \in 1 .. Len(s) : current = s[i]

IInv == TypeOK /\ \E s \in Seq(Procs) : Linked(s) /\ Walking(s)

-----------------------------------------------------------------------------
(* What the list is read as.                                               *)

\* A non-empty set of numbers has a least one.
LEMMA Least ==
  ASSUME NEW T, T \subseteq Nat, T # {}
  PROVE  \E x \in T : \A y \in T : x <= y
<1>1. PICK x \in T : \A y \in T : ~ (<<y, x>> \in OpToRel(<, Nat))
  BY NatLessThanWellFounded, WFMin
<1>2. ASSUME NEW y \in T, y < x PROVE FALSE
  <2>1. <<y, x>> \in Nat \X Nat /\ <<y, x>>[1] < <<y, x>>[2]
    BY <1>2
  <2>2. <<y, x>> \in OpToRel(<, Nat)
    BY <2>1 DEF OpToRel
  <2>3. QED BY <1>1, <2>2
<1>3. QED BY <1>2

\* A list has no more nodes than there are processes.
LEMMA LengthBound ==
  ASSUME NEW s, Linked(s)
  PROVE  Len(s) \in Nat /\ Cardinality(Procs) \in Nat /\ Len(s) <= Cardinality(Procs)
<1>1. Len(s) \in Nat /\ s \in [1 .. Len(s) -> Procs]
  BY DEF Linked
<1>2. s \in Injection(1 .. Len(s), Procs)
  BY <1>1, Zenon DEF Linked, Injection, IsInjective
<1>3. Cardinality(1 .. Len(s)) <= Cardinality(Procs)
  BY <1>2, NullProc, FS_Injection
<1>4. Cardinality(1 .. Len(s)) = Len(s)
  BY <1>1, FS_Interval
<1>5. Cardinality(Procs) \in Nat
  BY NullProc, FS_CardinalityType
<1>6. QED BY <1>1, <1>3, <1>4, <1>5

\* Following the pointers n times from the head.
Follows(f) ==
    f = [n \in 0 .. Cardinality(Procs) |->
            IF n = 0 THEN process_queue
            ELSE IF f[n - 1] = NULL THEN NULL ELSE next[f[n - 1]]]

LEMMA FollowsExists ==
  ASSUME NEW s, Linked(s)
  PROVE  \E f : Follows(f)
<1> DEFINE f == [n \in 0 .. Cardinality(Procs) |-> IF n < Len(s) THEN s[n + 1] ELSE NULL]
<1>1. ASSUME NEW n \in 0 .. Cardinality(Procs)
      PROVE  f[n] = IF n = 0 THEN process_queue
                    ELSE IF f[n - 1] = NULL THEN NULL ELSE next[f[n - 1]]
  <2>1. CASE n = 0
    BY <2>1, LengthBound DEF Linked
  <2>2. CASE n # 0
    <3>1. n - 1 \in 0 .. Cardinality(Procs) /\ n \in Nat /\ Len(s) \in Nat
      BY <2>2, LengthBound
    <3>2. CASE n - 1 < Len(s)
      <4>1. f[n - 1] = s[n] /\ n \in 1 .. Len(s) /\ s[n] \in Procs
        BY <3>1, <3>2, <2>2 DEF Linked
      <4>2. next[s[n]] = f[n]
        BY <3>1, <3>2, <4>1 DEF Linked
      <4>3. QED BY <4>1, <4>2, <2>2, NullProc
    <3>3. CASE ~(n - 1 < Len(s))
      BY <3>1, <3>3, <2>2
    <3>4. QED BY <3>2, <3>3
  <2>3. QED BY <2>1, <2>2
<1> HIDE DEF f
<1>2. f = [n \in 0 .. Cardinality(Procs) |->
             IF n = 0 THEN process_queue
             ELSE IF f[n - 1] = NULL THEN NULL ELSE next[f[n - 1]]]
  BY <1>1 DEF f
<1>3. QED BY <1>2 DEF Follows

LEMMA NthFollows ==
  ASSUME NEW s, Linked(s)
  PROVE  Follows(Nth)
  BY FollowsExists DEF Follows, Nth

\* The n-th node is the n-th process of the list: if not, look at the first
\* node that is not.
LEMMA NthIs ==
  ASSUME NEW s, Linked(s)
  PROVE  /\ DOMAIN Nth = 0 .. Cardinality(Procs)
         /\ \A n \in 0 .. Cardinality(Procs) :
               Nth[n] = IF n < Len(s) THEN s[n + 1] ELSE NULL
<1> DEFINE Is(n) == Nth[n] = IF n < Len(s) THEN s[n + 1] ELSE NULL
           Bad == {n \in 0 .. Cardinality(Procs) : ~Is(n)}
<1>1. /\ DOMAIN Nth = 0 .. Cardinality(Procs)
      /\ \A n \in 0 .. Cardinality(Procs) :
            Nth[n] = IF n = 0 THEN process_queue
                     ELSE IF Nth[n - 1] = NULL THEN NULL ELSE next[Nth[n - 1]]
  <2>1. Follows(Nth) BY NthFollows
  <2> HIDE DEF Nth
  <2>2. QED BY <2>1 DEF Follows
<1> HIDE DEF Nth
<1>2. Len(s) \in Nat /\ Cardinality(Procs) \in Nat
  BY LengthBound
<1>3. ASSUME Bad # {} PROVE FALSE
  <2>1. PICK n \in Bad : \A m \in Bad : n <= m
    <3>1. Bad \subseteq Nat BY <1>2
    <3> HIDE DEF Bad
    <3>2. QED BY <1>3, <3>1, Least
  <2>2. n \in 0 .. Cardinality(Procs) /\ ~Is(n)
    OBVIOUS
  <2>3. n # 0
    BY <1>1, <1>2, <2>2 DEF Linked
  <2>4. n - 1 \in 0 .. Cardinality(Procs) /\ n - 1 \notin Bad /\ n \in Nat
    BY <1>2, <2>1, <2>2, <2>3
  <2>5. Is(n - 1)
    BY <2>4
  <2>6. CASE n - 1 < Len(s)
    <3>1. Nth[n - 1] = s[n] /\ n \in 1 .. Len(s) /\ s[n] \in Procs
      BY <1>2, <2>3, <2>4, <2>5, <2>6 DEF Linked
    <3>2. Nth[n] = next[s[n]]
      BY <1>1, <2>2, <2>3, <3>1, NullProc
    <3>3. next[s[n]] = IF n < Len(s) THEN s[n + 1] ELSE NULL
      BY <3>1 DEF Linked
    <3>4. QED BY <2>2, <3>2, <3>3
  <2>7. CASE ~(n - 1 < Len(s))
    <3>1. Nth[n] = NULL /\ ~(n < Len(s))
      BY <1>1, <1>2, <2>2, <2>3, <2>4, <2>5, <2>7
    <3>2. QED BY <2>2, <3>1
  <2>8. QED BY <2>6, <2>7
<1>4. QED BY <1>1, <1>3

\* The sequence that the refinement maps the list to.
Ring == [i \in 1 .. Length |-> Nth[i - 1]]

LEMMA RingIs ==
  ASSUME NEW s, Linked(s)
  PROVE  Length = Len(s) /\ Ring = s
<1>1. /\ Len(s) \in Nat /\ Cardinality(Procs) \in Nat /\ Len(s) <= Cardinality(Procs)
      /\ s \in Seq(Procs)
  BY LengthBound DEF Linked
<1>2. /\ DOMAIN Nth = 0 .. Cardinality(Procs)
      /\ \A n \in 0 .. Cardinality(Procs) :
            Nth[n] = IF n < Len(s) THEN s[n + 1] ELSE NULL
  BY NthIs
<1> HIDE DEF Nth
<1>3. {n \in DOMAIN Nth : Nth[n] # NULL} = 0 .. (Len(s) - 1)
  BY <1>1, <1>2, NullProc
<1>4. Length = Len(s)
  <2>1. Cardinality(0 .. (Len(s) - 1)) = Len(s)
    <3>1. 0 \in Int /\ Len(s) - 1 \in Int BY <1>1
    <3>2. Cardinality(0 .. (Len(s) - 1)) = IF 0 > Len(s) - 1 THEN 0 ELSE Len(s) - 1 - 0 + 1
      BY <3>1, FS_Interval
    <3>3. QED BY <1>1, <3>2
  <2>2. QED BY <1>3, <2>1 DEF Length
<1>5. ASSUME NEW i \in 1 .. Len(s) PROVE Nth[i - 1] = s[i]
  <2>1. i - 1 \in 0 .. Cardinality(Procs) /\ i - 1 < Len(s) /\ (i - 1) + 1 = i
    BY <1>1
  <2>2. QED BY <1>2, <2>1
<1>6. Ring = s
  <2>1. s = [i \in 1 .. Len(s) |-> s[i]] BY <1>1
  <2>2. QED BY <2>1, <1>4, <1>5 DEF Ring
<1>7. QED BY <1>4, <1>6

LEMMA InvNoCycle == IInv => NoCycle
<1>1. ASSUME NEW s, Linked(s) PROVE NoCycle
  BY <1>1, NthIs, LengthBound DEF NoCycle
<1>2. QED BY <1>1 DEF IInv

-----------------------------------------------------------------------------
(* One step of the list is one step of the ring, or none.                  *)

RingStep(s, t) ==
    \/ t = s /\ current' = current
    \/ /\ s = <<>>
       /\ \E p \in Procs : t = <<p>> /\ current' = p
    \/ /\ \E p \in Procs : (\A i \in 1 .. Len(s) : s[i] # p) /\ t = Append(s, p)
       /\ current' = current
    \/ /\ t = s /\ Len(s) > 1
       /\ \E i \in 1 .. Len(s) : s[i] = current /\ current' = s[(i % Len(s)) + 1]

Simulated(s) ==
    \E t \in Seq(Procs) : Linked(t)' /\ Walking(t)' /\ RingStep(s, t)

LEMMA BootstrapStep ==
  ASSUME TypeOK, NEW s \in Seq(Procs), Linked(s), Walking(s),
         NEW p \in Procs, Bootstrap(p)
  PROVE  TypeOK' /\ Simulated(s)
<1>1. Len(s) = 0 /\ s = <<>>
  BY NullProc DEF Bootstrap, Linked
<1>2. adding = NULL /\ process_queue' = p /\ current' = p /\ UNCHANGED <<next, adding, node>>
  BY <1>1 DEF Bootstrap, Walking
<1>3. <<p>> \in Seq(Procs) /\ Len(<<p>>) = 1 /\ <<p>>[1] = p
  OBVIOUS
<1>4. Linked(<<p>>)'
  <2>1. \A q \in Procs : next[q] = NULL
    BY <1>1 DEF Linked
  <2> DEFINE t == <<p>>
  <2>2. t \in Seq(Procs) /\ Len(t) = 1 /\ t[1] = p
    BY <1>3
  <2> HIDE DEF t
  <2>3. Linked(t)'
    BY <1>2, <2>1, <2>2 DEF Linked
  <2>4. QED BY <2>3 DEF t
<1>5. Walking(<<p>>)'
  BY <1>2, <1>3 DEF Walking
<1>6. TypeOK'
  BY <1>2 DEF TypeOK, Ptr
<1>7. QED BY <1>1, <1>2, <1>3, <1>4, <1>5, <1>6 DEF Simulated, RingStep

LEMMA AddProcessStep ==
  ASSUME TypeOK, NEW s \in Seq(Procs), Linked(s), Walking(s),
         NEW p \in Procs, AddProcess(p)
  PROVE  TypeOK' /\ Simulated(s)
<1>1. Len(s) \in Nat /\ Len(s) # 0 /\ process_queue = s[1] /\ s[1] # p /\ s[1] \in Procs
  BY DEF AddProcess, Linked
<1>2. adding' = p /\ node' = s[1] /\ UNCHANGED <<process_queue, next, current>>
  BY <1>1 DEF AddProcess
<1>3. Linked(s)'
  BY <1>2 DEF Linked
<1>4. Walking(s)'
  BY <1>1, <1>2 DEF Walking
<1>5. TypeOK'
  BY <1>1, <1>2, NullProc DEF TypeOK, Ptr
<1>6. QED BY <1>2, <1>3, <1>4, <1>5 DEF Simulated, RingStep

LEMMA WalkDuplicateStep ==
  ASSUME TypeOK, NEW s \in Seq(Procs), Linked(s), Walking(s), WalkDuplicate
  PROVE  TypeOK' /\ Simulated(s)
<1>1. adding' = NULL /\ node' = NULL /\ UNCHANGED <<process_queue, next, current>>
  BY DEF WalkDuplicate
<1>2. Linked(s)'
  BY <1>1 DEF Linked
<1>3. Walking(s)'
  BY <1>1 DEF Walking
<1>4. TypeOK'
  BY <1>1 DEF TypeOK, Ptr
<1>5. QED BY <1>1, <1>2, <1>3, <1>4 DEF Simulated, RingStep

LEMMA WalkNextStep ==
  ASSUME TypeOK, NEW s \in Seq(Procs), Linked(s), Walking(s), WalkNext
  PROVE  TypeOK' /\ Simulated(s)
<1>1. PICK i \in 1 .. Len(s) : node = s[i] /\ \A j \in 1 .. i : s[j] # adding
  BY DEF WalkNext, Walking
<1>2. /\ i + 1 \in 1 .. Len(s) /\ node' = s[i + 1] /\ s[i + 1] # adding
      /\ s[i + 1] \in Procs
  BY <1>1 DEF WalkNext, Linked
<1>3. UNCHANGED <<process_queue, next, current, adding>>
  BY DEF WalkNext
<1>4. Linked(s)'
  BY <1>3 DEF Linked
<1>5. Walking(s)'
  <2>1. \A j \in 1 .. (i + 1) : s[j] # adding
    BY <1>1, <1>2
  <2>2. QED BY <1>2, <1>3, <2>1 DEF Walking
<1>6. TypeOK'
  BY <1>2, <1>3, NullProc DEF TypeOK, Ptr
<1>7. QED BY <1>3, <1>4, <1>5, <1>6 DEF Simulated, RingStep

LEMMA WalkAppendStep ==
  ASSUME TypeOK, NEW s \in Seq(Procs), Linked(s), Walking(s), WalkAppend
  PROVE  TypeOK' /\ Simulated(s)
<1>1. PICK i \in 1 .. Len(s) : node = s[i] /\ \A j \in 1 .. i : s[j] # adding
  BY DEF WalkAppend, Walking
<1>2. i = Len(s) /\ s[i] \in Procs /\ Len(s) \in Nat /\ Len(s) >= 1
  <2>1. i < Len(s) => s[i + 1] \in Procs
    BY <1>1
  <2>2. next[s[i]] = NULL
    BY <1>1 DEF WalkAppend
  <2>3. next[s[i]] = IF i < Len(s) THEN s[i + 1] ELSE NULL
    BY DEF Linked
  <2>4. QED BY <2>1, <2>2, <2>3, NullProc
<1>3. /\ adding \in Procs /\ next' = [next EXCEPT ![node] = adding] /\ adding' = NULL
      /\ node' = NULL /\ UNCHANGED <<process_queue, current>>
  BY NullProc DEF WalkAppend, TypeOK, Ptr
<1>4. PICK t \in Seq(Procs) :
        /\ t = Append(s, adding) /\ Len(t) = Len(s) + 1 /\ t[Len(s) + 1] = adding
        /\ \A j \in 1 .. Len(s) : t[j] = s[j]
  <2> DEFINE u == Append(s, adding)
  <2>1. /\ u \in Seq(Procs) /\ Len(u) = Len(s) + 1 /\ u[Len(s) + 1] = adding
        /\ \A j \in 1 .. Len(s) : u[j] = s[j]
    BY <1>3
  <2>2. QED BY <2>1, Zenon
<1>5. Linked(t)'
  <2>1. \A j, k \in 1 .. Len(t) : t[j] = t[k] => j = k
    <3>1. \A j, k \in 1 .. Len(s) : t[j] = t[k] => j = k
      BY <1>4 DEF Linked
    <3>2. \A j \in 1 .. Len(s) : t[j] # t[Len(s) + 1]
      BY <1>1, <1>2, <1>4
    <3>3. \A j \in 1 .. Len(t) : j \in 1 .. Len(s) \/ j = Len(s) + 1
      BY <1>2, <1>4
    <3>4. QED BY <3>1, <3>2, <3>3
  <2>2. process_queue' = t[1]
    BY <1>2, <1>3, <1>4 DEF Linked
  <2>3. ASSUME NEW j \in 1 .. Len(t)
        PROVE  next'[t[j]] = IF j < Len(t) THEN t[j + 1] ELSE NULL
    <3>1. CASE j < Len(s)
      <4>1. s[j] # s[i] /\ t[j] = s[j] /\ t[j + 1] = s[j + 1] /\ s[j] \in Procs
        BY <1>2, <1>4, <3>1 DEF Linked
      <4>2. QED BY <1>1, <1>2, <1>3, <1>4, <3>1, <4>1 DEF TypeOK, Linked
    <3>2. CASE j = Len(s)
      BY <1>1, <1>2, <1>3, <1>4, <3>2 DEF TypeOK
    <3>3. CASE j = Len(s) + 1
      <4>1. next[adding] = NULL /\ adding # s[i]
        BY <1>1, <1>2, <1>3 DEF Linked
      <4>2. QED BY <1>1, <1>2, <1>3, <1>4, <3>3, <4>1 DEF TypeOK
    <3>4. QED BY <1>2, <1>4, <3>1, <3>2, <3>3
  <2>4. ASSUME NEW p \in Procs, \A j \in 1 .. Len(t) : t[j] # p
        PROVE  next'[p] = NULL
    <3>1. \A j \in 1 .. Len(s) : s[j] # p
      BY <1>2, <1>4, <2>4
    <3>2. QED BY <1>1, <1>2, <1>3, <3>1 DEF TypeOK, Linked
  <2>5. QED BY <1>2, <1>4, <2>1, <2>2, <2>3, <2>4 DEF Linked
<1>6. Walking(t)'
  BY <1>2, <1>3, <1>4 DEF Walking
<1>7. TypeOK'
  BY <1>1, <1>2, <1>3 DEF TypeOK, Ptr
<1>8. RingStep(s, t)
  <2>1. \A j \in 1 .. Len(s) : s[j] # adding
    BY <1>1, <1>2
  <2>2. QED BY <1>3, <1>4, <2>1 DEF RingStep
<1>9. QED BY <1>4, <1>5, <1>6, <1>7, <1>8 DEF Simulated

LEMMA AdvanceStep ==
  ASSUME TypeOK, NEW s \in Seq(Procs), Linked(s), Walking(s), Advance
  PROVE  TypeOK' /\ Simulated(s)
<1>1. Len(s) \in Nat /\ Len(s) # 0 /\ process_queue = s[1] /\ s[1] \in Procs
  BY DEF Advance, Walking, Linked
<1>2. Len(s) > 1
  BY <1>1 DEF Advance, Linked
<1>3. PICK i \in 1 .. Len(s) : current = s[i]
  BY <1>1 DEF Walking
<1>4. /\ current' = IF next[current] = NULL THEN process_queue ELSE next[current]
      /\ UNCHANGED <<process_queue, next, adding, node>>
  BY DEF Advance
<1>5. PICK k \in 1 .. Len(s) : k = (i % Len(s)) + 1 /\ current' = s[k]
  <2>1. CASE i < Len(s)
    <3>1. i % Len(s) = i /\ i + 1 \in 1 .. Len(s) /\ s[i + 1] \in Procs
      BY <1>1, <2>1
    <3>2. QED BY <1>3, <1>4, <2>1, <3>1, NullProc DEF Linked
  <2>2. CASE i = Len(s)
    <3>1. i % Len(s) = 0 /\ 1 \in 1 .. Len(s)
      BY <1>1, <2>2
    <3>2. QED BY <1>1, <1>3, <1>4, <2>2, <3>1 DEF Linked
  <2>3. QED BY <1>1, <2>1, <2>2
<1>6. Linked(s)'
  BY <1>4 DEF Linked
<1>7. Walking(s)'
  BY <1>1, <1>4, <1>5 DEF Walking
<1>8. TypeOK'
  BY <1>4, <1>5 DEF TypeOK, Ptr
<1>9. QED BY <1>2, <1>3, <1>5, <1>6, <1>7, <1>8 DEF Simulated, RingStep

LEMMA NextStep ==
  ASSUME TypeOK, NEW s \in Seq(Procs), Linked(s), Walking(s), [Next]_vars
  PROVE  TypeOK' /\ Simulated(s)
<1>1. ASSUME NEW p \in Procs, Bootstrap(p) \/ AddProcess(p) PROVE TypeOK' /\ Simulated(s)
  BY <1>1, BootstrapStep, AddProcessStep
<1>2. CASE WalkDuplicate BY <1>2, WalkDuplicateStep
<1>3. CASE WalkNext BY <1>3, WalkNextStep
<1>4. CASE WalkAppend BY <1>4, WalkAppendStep
<1>5. CASE Advance BY <1>5, AdvanceStep
<1>6. CASE UNCHANGED vars
  <2>1. Linked(s)' /\ Walking(s)' /\ TypeOK'
    BY <1>6 DEF vars, Linked, Walking, TypeOK
  <2>2. QED BY <1>6, <2>1 DEF vars, Simulated, RingStep
<1>7. QED BY <1>1, <1>2, <1>3, <1>4, <1>5, <1>6 DEF Next, Walk

LEMMA EmptyList == \E s \in Seq(Procs) : s = <<>> /\ Len(s) = 0
<1>1. <<>> \in Seq(Procs) /\ Len(<<>>) = 0
  OBVIOUS
<1>2. QED BY <1>1, Zenon

LEMMA InitInv == Init => IInv
<1> SUFFICES ASSUME Init PROVE IInv
  OBVIOUS
<1>1. PICK s \in Seq(Procs) : s = <<>> /\ Len(s) = 0
  BY EmptyList
<1>2. Linked(s) /\ Walking(s)
  BY <1>1 DEF Init, Linked, Walking
<1>3. TypeOK
  BY DEF Init, TypeOK, Ptr
<1>4. QED BY <1>2, <1>3 DEF IInv

LEMMA InvStep == IInv /\ [Next]_vars => IInv'
  BY NextStep DEF IInv, Simulated

\* The list is a list: the pointers run through each queued process once, and
\* a walk has not passed its argument.
THEOREM ListInvariance == Spec => []IInv
  BY InitInv, InvStep, PTL DEF Spec

\* No sequence of scheduler_add_process calls, repeated and interrupted ones
\* included, makes the next pointers run in a circle.
THEOREM NeverCircular == Spec => []NoCycle
  BY ListInvariance, InvNoCycle, PTL

-----------------------------------------------------------------------------
(* The refinement.                                                         *)

LEMMA RingNow == \A s : Linked(s) => Ring = s
  BY RingIs

LEMMA RingThen == (\A s : Linked(s) => Ring = s)'
  BY RingNow, PTL

LEMMA StepIsRing == IInv /\ [Next]_vars => [ListRing!RRNext]_(ListRing!rrVars)
<1> SUFFICES ASSUME IInv, [Next]_vars PROVE [ListRing!RRNext]_(ListRing!rrVars)
  OBVIOUS
<1>1. PICK s \in Seq(Procs) : Linked(s) /\ Walking(s)
  BY DEF IInv
<1>2. PICK t \in Seq(Procs) : Linked(t)' /\ Walking(t)' /\ RingStep(s, t)
  BY <1>1, NextStep DEF IInv, Simulated
<1>3. Ring = s
  BY <1>1, RingNow
<1>4. Ring' = t
  BY <1>2, RingThen
<1>5. CASE t = s /\ current' = current
  BY <1>3, <1>4, <1>5 DEF ListRing!rrVars, Ring
<1>6. CASE s = <<>> /\ \E p \in Procs : t = <<p>> /\ current' = p
  BY <1>3, <1>4, <1>6 DEF ListRing!RRNext, ListRing!Start, Ring
<1>7. CASE /\ \E p \in Procs : (\A i \in 1 .. Len(s) : s[i] # p) /\ t = Append(s, p)
           /\ current' = current
  BY <1>3, <1>4, <1>7 DEF ListRing!RRNext, ListRing!Join, ListRing!Members, Ring
<1>8. CASE /\ t = s /\ Len(s) > 1
           /\ \E i \in 1 .. Len(s) : s[i] = current /\ current' = s[(i % Len(s)) + 1]
  BY <1>3, <1>4, <1>8 DEF ListRing!RRNext, ListRing!Pass, Ring
<1>9. QED BY <1>2, <1>5, <1>6, <1>7, <1>8 DEF RingStep

\* The linked list implements the ring: a process joins it once, at its end,
\* and the CPU passes to the successor, from the last process to the first.
THEOREM ListImplementsRing == Spec => ListIsRing
<1>1. Init => ListRing!RRInit
  <2> SUFFICES ASSUME Init PROVE ListRing!RRInit
    OBVIOUS
  <2>1. PICK s \in Seq(Procs) : s = <<>> /\ Len(s) = 0
    BY EmptyList
  <2>2. Linked(s)
    BY <2>1 DEF Init, Linked
  <2>3. Ring = <<>>
    BY <2>1, <2>2, RingNow
  <2>4. QED BY <2>3 DEF Init, ListRing!RRInit, Ring
<1>2. QED
  BY <1>1, StepIsRing, ListInvariance, PTL DEF Spec, ListIsRing, ListRing!RRSpec

=============================================================================
