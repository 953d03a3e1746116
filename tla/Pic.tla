--------------------------------- MODULE Pic ----------------------------------
(***************************************************************************)
(* The pair of 8259 interrupt controllers and what interrupts/pic.c does to  *)
(* them.  A controller pair is a record: irr, the requested lines, isr, the  *)
(* lines in service, imr, the masked ones, and base, the vectors of lines 0  *)
(* and 8.  The second controller hangs on line 2 of the first, so that its   *)
(* lines have a priority between 1 and 3.  What the chips do is external:    *)
(* edge-triggered lines, fixed priorities, acknowledgement by a non-specific *)
(* end of interrupt, as pic.c programs them.                                *)
(***************************************************************************)
EXTENDS Integers, FiniteSets, FiniteSetsExt

Line    == 0 .. 15
Slave   == 8 .. 15
Cascade == 2

NEW_IRQ_0 == 32
NEW_IRQ_8 == 40

(* An edge on a line. *)
Raise(p, l) == [p EXCEPT !.irr = @ \union {l}]

(* The lines of a controller that nothing of it in service keeps back. *)
Above(lines, service) == {l \in lines : \A s \in service : l < s}
SlavePending(p) == Above((p.irr \ p.imr) \intersect Slave, p.isr \intersect Slave)
Pending(p) ==
  LET asked == ((p.irr \ Slave) \union (IF SlavePending(p) # {} THEN {Cascade} ELSE {})) \ p.imr
  IN  Above(asked, p.isr \ Slave)

(* Whether the processor is being interrupted, and by which line. *)
Intr(p)   == Pending(p) # {}
Source(p) == IF Min(Pending(p)) = Cascade THEN Min(SlavePending(p)) ELSE Min(Pending(p))

(* The processor takes the interrupt. *)
Acknowledge(p) ==
  LET l == Source(p)
  IN  [p EXCEPT !.irr = @ \ {l}, !.isr = @ \union {l} \union (IF l \in Slave THEN {Cascade} ELSE {})]
VectorOf(p, l) == IF l \in Slave THEN p.base.slave + l - 8 ELSE p.base.master + l

(* A non-specific end of interrupt ends the service of a controller's first  *)
(* line, whoever sends it.                                                  *)
First(service) == IF service = {} THEN {} ELSE {Min(service)}
EndMaster(p) == [p EXCEPT !.isr = @ \ First(@ \ Slave)]
EndSlave(p)  == [p EXCEPT !.isr = @ \ First(@ \intersect Slave)]
-----------------------------------------------------------------------------
SendPicEoi(p, irq) == EndMaster(IF irq >= 8 THEN EndSlave(p) ELSE p)

(* Mutation of ClearIrqMask: the bit of a line is taken for its number. *)
ClearIrqMaskMutant(p, irq) == [p EXCEPT !.imr = @ \ (IF irq = 1 THEN {0} ELSE {irq})]

ClearIrqMask(p, irq) == [p EXCEPT !.imr = @ \ {irq}]

(* Mutation of RemapPic: the first controller is left where the BIOS had it. *)
RemapPicMutant(p) == [p EXCEPT !.irr = {}, !.isr = {}, !.base.slave = NEW_IRQ_8]

(* ICW1 forgets requests and service; the masks are saved and written back.  *)
RemapPic(p) == [p EXCEPT !.irr = {}, !.isr = {}, !.base = [master |-> NEW_IRQ_0, slave |-> NEW_IRQ_8]]
=============================================================================
