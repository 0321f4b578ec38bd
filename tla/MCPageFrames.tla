---------------------------- MODULE MCPageFrames ----------------------------
(* PageFrames with 2-byte pages, 2-bit bytes, 4-bit words and a bitmap of   *)
(* 6 words: 24 frames, of which the default marks 12.                       *)
EXTENDS PageFrames

\* The kernel image begins and ends inside a page.
MCKernel == [start |-> 9, end |-> 12]

Region(a, l, av) == [addr |-> a, len |-> l, available |-> av]

\* With 6-bit addresses the last region of the first map begins at 12.
Maps == {<<Region(0, 4, TRUE), Region(4, 4, FALSE), Region(8, 16, TRUE),
           Region(76, 8, TRUE)>>,
         <<Region(0, 4, TRUE), Region(8, 2, TRUE), Region(10, 20, FALSE)>>,
         <<Region(8, 16, TRUE), Region(0, 8, TRUE)>>}

ModLists == {<<>>, <<[start |-> 14, end |-> 17]>>,
             <<[start |-> 13, end |-> 14], [start |-> 14, end |-> 15]>>}

\* 12 and 15 frames of memory, and 24, which the KASSERT refuses.
MCBootInfos ==
    [magic : BOOLEAN, flags : {Flags, Flags \ {"MODS"}, {"MODS"}},
     mem : {24, 30, 48}, map : Maps, mods : ModLists]

=============================================================================
