------------------------------- MODULE MCLoader -------------------------------
(***************************************************************************)
(* Loader with tables of 24 entries.  Directory entry 0 is the identity      *)
(* mapping, 1 holds the program and, in its second half, the stack, as       *)
(* 0x400000 and 0x600000 do; 2 is the higher half and 3 the heap.           *)
(* Stage 2 begins in the middle of frame 0 and ends in frame 7 or 8, over     *)
(* the boot sector's frame 6.                                              *)
(***************************************************************************)
EXTENDS Loader

Segment(v, o, f, m) == [vaddr |-> v, offset |-> o, filesz |-> f, memsz |-> m]

(* text and, on a later page, data with bss; in either order, one alone, an *)
(* empty one, and a bss the memory has no frames for                        *)
Texts == {Segment(48, o, f, f) : o \in {0, 1}, f \in 1 .. 4}
Datas == {Segment(52, o, f, m) : o \in {2, 3}, f \in 0 .. 3, m \in {3, 4, 6}}
Sound == {<<t>> : t \in Texts} \union {<<d>> : d \in Datas}
           \union {<<t, d>> : t \in Texts, d \in Datas}
           \union {<<d, t>> : t \in Texts, d \in Datas}
Files == [valid : {TRUE}, segs : Sound]
           \union {[valid |-> FALSE, segs |-> <<>>], [valid |-> TRUE, segs |-> <<>>],
                   [valid |-> TRUE, segs |-> <<Segment(48, 0, 2, 16)>>]}
=============================================================================
