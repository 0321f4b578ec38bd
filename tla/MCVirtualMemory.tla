-------------------------- MODULE MCVirtualMemory --------------------------
(* Nine entries per table, 16 frames.  Directory entries 0 and 3 share the *)
(* boot table, the stack is in 4, the heap starts 5, the modules 6, and    *)
(* the console's high addresses are in 7; 8 would be the self-mapping.     *)
EXTENDS VirtualMemory

MCReserved == 0 .. 4

\* With 4-byte pages: the last two bytes of frame 3 and the first two of frame
\* 4, and the rest of frame 4.
MCMods == <<[start |-> 14, end |-> 18], [start |-> 18, end |-> 20]>>

=============================================================================
