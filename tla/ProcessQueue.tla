---------------------------- MODULE ProcessQueue ----------------------------
(***************************************************************************)
(* The scheduler's queue as the linked list it is: process_queue points at *)
(* the first process, p->next at the one behind p.  Processes are added in *)
(* any order, more than once too, by one task (spawn_init runs on the      *)
(* system task only).  scheduler_add_process walks the list one node at a  *)
(* time, and a context switch may come between any two of its steps: the   *)
(* critical region around the walk does not exclude one (Scheduler.tla,    *)
(* RegionExclusive).                                                       *)
(***************************************************************************)
EXTENDS Integers, Sequences, FiniteSets

CONSTANTS
    Procs,   \* the process structures
    NULL

ASSUME NullProc == NULL \notin Procs /\ IsFiniteSet(Procs)

VARIABLES
    process_queue,   \* head of the list
    next,            \* next[p]: p->next
    current,         \* g_current_process
    adding,          \* the argument of the scheduler_add_process under way
    node             \* its local variable

vars == <<process_queue, next, current, adding, node>>

Ptr == Procs \cup {NULL}

TypeOK ==
    /\ process_queue \in Ptr
    /\ next \in [Procs -> Ptr]
    /\ current \in Ptr
    /\ adding \in Ptr
    /\ node \in Ptr
    /\ adding # NULL => node # NULL

Init ==
    /\ process_queue = NULL
    /\ next = [p \in Procs |-> NULL]
    /\ current = NULL
    /\ adding = NULL
    /\ node = NULL

\* init_system_task: the first process is queued and becomes current.
Bootstrap(p) ==
    /\ process_queue = NULL
    /\ process_queue' = p
    /\ current' = p
    /\ UNCHANGED <<next, adding, node>>

\* Mutant: a process that is the head already is not recognised.
AddProcessNoHeadTest(p) ==
    /\ adding = NULL
    /\ process_queue # NULL
    /\ adding' = p
    /\ node' = process_queue
    /\ UNCHANGED <<process_queue, next, current>>

\* scheduler_add_process up to its loop; the head is rejected at once.
AddProcess(p) ==
    /\ adding = NULL
    /\ process_queue # NULL
    /\ process_queue # p
    /\ adding' = p
    /\ node' = process_queue
    /\ UNCHANGED <<process_queue, next, current>>

\* The loop's test for a duplicate: return false.
WalkDuplicate ==
    /\ adding # NULL
    /\ next[node] = adding
    /\ adding' = NULL
    /\ node' = NULL
    /\ UNCHANGED <<process_queue, next, current>>

\* Mutant: the loop does not look for duplicates.
WalkNextBlind ==
    /\ adding # NULL
    /\ next[node] # NULL
    /\ node' = next[node]
    /\ UNCHANGED <<process_queue, next, current, adding>>

WalkNext ==
    /\ adding # NULL
    /\ next[node] \notin {NULL, adding}
    /\ node' = next[node]
    /\ UNCHANGED <<process_queue, next, current, adding>>

\* Mutant: the new process goes in front of the queue's second element.
WalkAppendAtHead ==
    /\ adding # NULL
    /\ next[node] = NULL
    /\ next' = [next EXCEPT ![adding] = next[process_queue],
                            ![process_queue] = adding]
    /\ adding' = NULL
    /\ node' = NULL
    /\ UNCHANGED <<process_queue, current>>

\* node->next = p
WalkAppend ==
    /\ adding # NULL
    /\ next[node] = NULL
    /\ next' = [next EXCEPT ![node] = adding]
    /\ adding' = NULL
    /\ node' = NULL
    /\ UNCHANGED <<process_queue, current>>

\* A context switch: scheduler_tick asks for one when process_queue->next is
\* set, scheduler_find_next_best selects the process.
Advance ==
    /\ current # NULL
    /\ next[process_queue] # NULL
    /\ current' = IF next[current] = NULL THEN process_queue ELSE next[current]
    /\ UNCHANGED <<process_queue, next, adding, node>>

Walk == WalkDuplicate \/ WalkNext \/ WalkAppend

Next ==
    \/ \E p \in Procs : Bootstrap(p) \/ AddProcess(p)
    \/ Walk
    \/ Advance

\* A call of scheduler_add_process runs on.
Spec == Init /\ [][Next]_vars /\ WF_vars(Walk)

-----------------------------------------------------------------------------
(* Properties.                                                             *)

\* The n-th node of the list, NULL behind its end.
Nth ==
    LET nth[n \in 0 .. Cardinality(Procs)] ==
          IF n = 0 THEN process_queue
          ELSE IF nth[n - 1] = NULL THEN NULL ELSE next[nth[n - 1]]
    IN  nth

Length == Cardinality({n \in DOMAIN Nth : Nth[n] # NULL})

\* The list ends: no sequence of scheduler_add_process calls, repeated ones
\* included, makes the next pointers run in a circle.
NoCycle == Nth[Cardinality(Procs)] = NULL

\* Every call of scheduler_add_process returns.
AddReturns == (adding # NULL) ~> (adding = NULL)

ListRing == INSTANCE RoundRobin WITH
                ring <- [i \in 1 .. Length |-> Nth[i - 1]],
                turn <- current

\* The linked list implements the ring: processes join at its end, once, and
\* the CPU passes to the successor, from the last one to the first.
ListIsRing == ListRing!RRSpec

=============================================================================
