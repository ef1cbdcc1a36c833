-------------------------------- MODULE MCMmu --------------------------------
EXTENDS Mmu

MCAsidOf(t) == IF t = "pt1" THEN 1 ELSE 2

\* Two address spaces map the same address to different sections, one is remapped,
\* and the tables are cached.
TwoSpaces ==
    [cached |-> {0}, data |-> {},
     maps |-> {[pt |-> "pt1", va |-> 1, base |-> 1], [pt |-> "pt1", va |-> 1, base |-> 2],
               [pt |-> "pt2", va |-> 1, base |-> 2]}]

\* One section of data, cached; the second address space is the kernel's alone.
OneSection ==
    [cached |-> {1}, data |-> {1}, maps |-> {[pt |-> "pt1", va |-> 1, base |-> 1]}]

MCUses == {TwoSpaces, OneSection}
=============================================================================
