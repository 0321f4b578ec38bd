----------------------------- MODULE RoundRobin -----------------------------
(***************************************************************************)
(* What the process queue and the context switch promise together: tasks   *)
(* form a ring that only ever grows at its end, a task joins it once, and  *)
(* the CPU passes from a task to its successor in the ring.                *)
(***************************************************************************)
EXTENDS Integers, Sequences

CONSTANTS Procs, NULL

VARIABLES
    ring,   \* the tasks in the order in which they joined
    turn    \* the task that has the CPU

rrVars == <<ring, turn>>

Members == {ring[i] : i \in 1 .. Len(ring)}

RRInit == ring = <<>> /\ turn = NULL

\* The first task joins and is given the CPU.
Start(p) == ring = <<>> /\ ring' = <<p>> /\ turn' = p

Join(p) ==
    /\ p \notin Members
    /\ ring' = Append(ring, p)
    /\ UNCHANGED turn

Pass ==
    /\ Len(ring) > 1
    /\ \E i \in 1 .. Len(ring) :
          /\ ring[i] = turn
          /\ turn' = ring[(i % Len(ring)) + 1]
    /\ UNCHANGED ring

RRNext == Pass \/ \E p \in Procs : Start(p) \/ Join(p)

RRSpec == RRInit /\ [][RRNext]_rrVars

=============================================================================
