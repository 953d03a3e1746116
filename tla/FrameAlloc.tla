----------------------------- MODULE FrameAlloc -----------------------------
(***************************************************************************)
(* What the rest of the kernel relies on the physical memory manager for,  *)
(* with nothing of the bitmap: a run of consecutive frames is handed out   *)
(* only if none of its frames is reserved or still held by somebody, and a *)
(* run is given back whole.  Pmm.tla is shown to implement this module.    *)
(***************************************************************************)
EXTENDS Integers

CONSTANTS
  Frames,       \* every frame number
  Sizes         \* lengths, in frames, of the runs that are asked for

VARIABLES
  reserved,     \* frames withheld from allocation
  runs          \* runs handed out and not given back

absVars == <<reserved, runs>>

(* The frames of a run. *)
Run(r) == r.start .. (r.start + r.len - 1)

Held == UNION {Run(r) : r \in runs}

AbsInit == reserved = {} /\ runs = {}

(* Reservation may only grow, and never over a frame somebody holds.      *)
AbsReserve ==
  /\ reserved \subseteq reserved'
  /\ reserved' \subseteq Frames
  /\ (reserved' \ reserved) \intersect Held = {}
  /\ UNCHANGED runs

AbsAllocate(r) ==
  /\ Run(r) \intersect (reserved \union Held) = {}
  /\ runs' = runs \union {r}
  /\ UNCHANGED reserved

AbsFree(r) ==
  /\ runs' = runs \ {r}
  /\ UNCHANGED reserved

AbsNext ==
  \/ AbsReserve
  \/ \E r \in [start : Frames, len : Sizes] : AbsAllocate(r)
  \/ \E r \in runs : AbsFree(r)

AbsSpec == AbsInit /\ [][AbsNext]_absVars
=============================================================================
