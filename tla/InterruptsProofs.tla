--------------------------- MODULE InterruptsProofs ---------------------------
(***************************************************************************)
(* What the run interrupts checks for two lines, one key and three bytes,    *)
(* for every set of lines without a handler, every set of keys and every    *)
(* length of the queue of the keyboard.                                     *)
(***************************************************************************)
EXTENDS Interrupts, SequenceTheorems, WellFoundedInduction, TLAPS

Trap == [line |-> -1, gate |-> "exception"]
Handled == {[line |-> l, gate |-> Gate(NEW_IRQ_0 + l)] : l \in Line \ {Cascade}}
Serving(l) == frames # <<>> /\ Last(frames).line = l

PicOK ==
  /\ pic \in [irr : SUBSET (Line \ {Cascade}), isr : SUBSET Line, imr : SUBSET Line,
              base : [master : Nat, slave : Nat]]
  /\ idt \in BOOLEAN /\ irqOn \in BOOLEAN /\ current \in BOOLEAN

(* HAL_Initialize lets no interrupt in before the gates are there.          *)
Steps ==
  /\ boot \in {"remap", "idt", "pit", "init_task", "tasks"}
  /\ boot \in {"remap", "idt"} => ~irqOn /\ frames = <<>>
  /\ boot = "remap" => pic.isr = {}
  /\ boot # "remap" => pic.base = [master |-> NEW_IRQ_0, slave |-> NEW_IRQ_8]
  /\ boot \notin {"remap", "idt"} => idt

(* A handler is interrupted by nothing, and interrupts only ordinary code or *)
(* the handler of an exception.  The lines whose handlers send an end of     *)
(* interrupt are in service exactly while these run.                        *)
Service ==
  /\ \/ frames = <<>>
     \/ frames = <<Trap>>
     \/ \E f \in Handled : frames = <<f>> \/ frames = <<Trap, f>>
  /\ irqOn => frames = <<>> \/ frames = <<Trap>>
  /\ Timer \in pic.isr <=> Serving(Timer)
  /\ Keyboard \in pic.isr <=> Serving(Keyboard)

ServiceInv == PicOK /\ Steps /\ Service
-----------------------------------------------------------------------------
(* The controllers. *)

LEMMA LineFacts ==
  /\ Timer = 0 /\ Keyboard = 1 /\ Cascade = 2
  /\ Timer \in Line /\ Keyboard \in Line /\ Timer \notin Slave /\ Keyboard \notin Slave
BY DEF Timer, Keyboard, Cascade, Line, Slave

LEMMA MinIs ==
  ASSUME NEW S \in SUBSET Line, NEW m \in S, \A y \in S : m <= y
  PROVE  Min(S) = m
<1>1. \A x \in S : (\A y \in S : x <= y) => x = m
  BY DEF Line
<1> QED BY <1>1 DEF Min

LEMMA MinExists ==
  ASSUME NEW S \in SUBSET Line, S # {}
  PROVE  Min(S) \in S
<1>1. S \subseteq Nat
  BY DEF Line
<1>2. PICK x \in S : \A y \in S : <<y, x>> \notin OpToRel(<, Nat)
  BY <1>1, NatLessThanWellFounded, WFMin
<1>3. \A y \in S : ~(y < x)
  BY <1>1, <1>2 DEF OpToRel
<1>4. \A y \in S : x <= y
  BY <1>1, <1>3
<1> QED BY <1>4, MinIs

(* The processor is interrupted by a line that was requested. *)
LEMMA SourceIsAsked ==
  ASSUME PicOK, Intr(pic)
  PROVE  Source(pic) \in pic.irr
<1>1. pic.irr \in SUBSET (Line \ {Cascade}) /\ pic.isr \in SUBSET Line
  BY DEF PicOK
<1>2. SlavePending(pic) \in SUBSET pic.irr
  BY DEF SlavePending, Above
<1>3. Pending(pic) \in SUBSET (pic.irr \union (IF SlavePending(pic) # {} THEN {Cascade} ELSE {}))
  BY DEF Pending, Above
<1>4. Pending(pic) # {} /\ Pending(pic) \in SUBSET Line
  BY <1>1, <1>3 DEF Intr, Cascade, Line
<1>5. Min(Pending(pic)) \in Pending(pic)
  BY <1>4, MinExists
<1>6. CASE Min(Pending(pic)) = Cascade
  <2>1. SlavePending(pic) # {}
    BY <1>1, <1>3, <1>5, <1>6
  <2>2. Min(SlavePending(pic)) \in SlavePending(pic)
    BY <1>1, <1>2, <2>1, MinExists
  <2> QED BY <1>2, <1>6, <2>2 DEF Source
<1>7. CASE Min(Pending(pic)) # Cascade
  BY <1>3, <1>5, <1>7 DEF Source
<1> QED BY <1>6, <1>7

(* The end of interrupt of a handler ends the service of its own line.      *)
LEMMA EoiEnds ==
  ASSUME NEW p \in [irr : SUBSET (Line \ {Cascade}), isr : SUBSET Line, imr : SUBSET Line,
                    base : [master : Nat, slave : Nat]],
         NEW l \in {Timer, Keyboard}, l \in p.isr, l = Keyboard => Timer \notin p.isr
  PROVE  SendPicEoi(p, l) = [p EXCEPT !.isr = @ \ {l}]
<1>1. l \in p.isr \ Slave /\ p.isr \ Slave \in SUBSET Line
  BY LineFacts
<1>2. \A y \in p.isr \ Slave : l <= y
  BY LineFacts DEF Line
<1>3. Min(p.isr \ Slave) = l
  BY <1>1, <1>2, MinIs
<1>4. First(p.isr \ Slave) = {l}
  BY <1>1, <1>3 DEF First
<1>5. ~(l >= 8)
  BY LineFacts
<1> QED BY <1>4, <1>5 DEF SendPicEoi, EndMaster

(* Every line comes through the gate at its vector. *)
LEMMA OwnVector ==
  ASSUME NEW p, NEW l \in Line, p.base = [master |-> NEW_IRQ_0, slave |-> NEW_IRQ_8]
  PROVE  VectorOf(p, l) = NEW_IRQ_0 + l
BY DEF VectorOf, Line, Slave, NEW_IRQ_0, NEW_IRQ_8

LEMMA GateFacts ==
  ASSUME NEW l \in Line \ {Cascade}
  PROVE  Gate(NEW_IRQ_0 + l) = CASE l = Timer -> "timer" [] l = Keyboard -> "keyboard" [] OTHER -> "default"
BY LineFacts DEF Gate, NEW_IRQ_0, Line
-----------------------------------------------------------------------------
(* The handlers that are running. *)

Quiet == {<<>>, <<Trap>>}

LEMMA HandledFacts ==
  ASSUME NEW f \in Handled
  PROVE  /\ f.line \in Line \ {Cascade} /\ f.line # -1
         /\ f.gate = CASE f.line = Timer -> "timer" [] f.line = Keyboard -> "keyboard" [] OTHER -> "default"
<1>1. PICK l \in Line \ {Cascade} : f = [line |-> l, gate |-> Gate(NEW_IRQ_0 + l)]
  BY DEF Handled
<1>2. f.line = l /\ f.gate = Gate(NEW_IRQ_0 + l)
  BY <1>1
<1> QED BY <1>2, GateFacts DEF Line

LEMMA ShortSequences ==
  ASSUME NEW S, NEW s \in Seq(S)
  PROVE  /\ Len(s) = 1 => s = <<s[1]>>
         /\ Len(s) = 2 => s = <<s[1], s[2]>>
<1>1. ASSUME Len(s) = 1 PROVE s = <<s[1]>>
  <2>1. s[1] \in S
    BY <1>1, ElementOfSeq
  <2>2. <<s[1]>> \in Seq(S)
    BY <2>1
  <2>3. Len(<<s[1]>>) = 1 /\ <<s[1]>>[1] = s[1]
    OBVIOUS
  <2>4. \A i \in 1 .. Len(s) : s[i] = <<s[1]>>[i]
    BY <1>1, <2>3
  <2> QED BY <1>1, <2>2, <2>3, <2>4, SeqEqual
<1>2. ASSUME Len(s) = 2 PROVE s = <<s[1], s[2]>>
  <2>1. s[1] \in S /\ s[2] \in S
    BY <1>2, ElementOfSeq
  <2>2. <<s[1], s[2]>> \in Seq(S)
    BY <2>1
  <2>3. Len(<<s[1], s[2]>>) = 2 /\ <<s[1], s[2]>>[1] = s[1] /\ <<s[1], s[2]>>[2] = s[2]
    OBVIOUS
  <2>4. \A i \in 1 .. Len(s) : s[i] = <<s[1], s[2]>>[i]
    BY <1>2, <2>3
  <2> QED BY <1>2, <2>2, <2>3, <2>4, SeqEqual
<1> QED BY <1>1, <1>2

LEMMA TupleFacts ==
  ASSUME NEW e, NEW f
  PROVE  /\ Last(<<f>>) = f /\ Front(<<f>>) = <<>>
         /\ Last(<<e, f>>) = f /\ Front(<<e, f>>) = <<e>>
         /\ Append(<<>>, f) = <<f>> /\ Append(<<e>>, f) = <<e, f>>
         /\ <<f>> # <<>> /\ <<e, f>> # <<>>
<1>1. Len(<<f>>) = 1 /\ <<f>>[1] = f /\ Len(<<e, f>>) = 2 /\ <<e, f>>[1] = e /\ <<e, f>>[2] = f
  OBVIOUS
<1>2. Front(<<f>>) = <<>>
  <2>1. SubSeq(<<f>>, 1, 0) = <<>>
    BY SubSeqEmpty
  <2> QED BY <1>1, <2>1 DEF Front
<1>3. Front(<<e, f>>) = <<e>>
  <2> DEFINE r == SubSeq(<<e, f>>, 1, 1)
  <2>1. \A i \in 1 .. 1 : <<e, f>>[i] \in {e}
    OBVIOUS
  <2>2. r \in Seq({e}) /\ Len(r) = 1 /\ r[1] = e
    BY <2>1, SubSeqProperties
  <2>3. r = <<e>>
    <3> HIDE DEF r
    <3> QED BY <2>2, ShortSequences
  <2> QED BY <1>1, <2>3 DEF Front
<1>4. Append(<<>>, f) = <<f>>
  <2> DEFINE r == Append(<<>>, f)
  <2>1. r \in Seq({f}) /\ Len(r) = 1 /\ r[1] = f
    BY AppendProperties, EmptySeq
  <2> HIDE DEF r
  <2>2. r = <<f>>
    BY <2>1, ShortSequences
  <2> QED BY <2>2 DEF r
<1>5. Append(<<e>>, f) = <<e, f>>
  <2> DEFINE r == Append(<<e>>, f)
  <2>1. <<e>> \in Seq({e, f}) /\ Len(<<e>>) = 1 /\ <<e>>[1] = e
    OBVIOUS
  <2>2. r \in Seq({e, f}) /\ Len(r) = 2 /\ r[1] = e /\ r[2] = f
    BY <2>1, AppendProperties
  <2> HIDE DEF r
  <2>3. r = <<e, f>>
    BY <2>2, ShortSequences
  <2> QED BY <2>3 DEF r
<1>6. Last(<<f>>) = f /\ Last(<<e, f>>) = f
  BY <1>1 DEF Last
<1>7. <<f>> # <<>> /\ <<e, f>> # <<>>
  OBVIOUS
<1> QED BY <1>2, <1>3, <1>4, <1>5, <1>6, <1>7

LEMMA QuietServesNone ==
  ASSUME NEW s \in Quiet, s # <<>>
  PROVE  s = <<Trap>> /\ Last(s) = Trap /\ Trap.gate = "exception" /\ Trap.line \notin Line
<1>1. s = <<Trap>>
  BY DEF Quiet
<1>2. Last(<<Trap>>) = Trap
  BY TupleFacts
<1> QED BY <1>1, <1>2 DEF Trap, Line

(* A frame pushed on a quiet stack: it is alone, or above the exception's.  *)
LEMMA OnAppend ==
  ASSUME NEW q, q = <<>> \/ q = <<Trap>>, NEW f, NEW r, r = Append(q, f)
  PROVE  r = <<f>> \/ r = <<Trap, f>>
<1>1. Append(<<>>, f) = <<f>>
  BY TupleFacts, Zenon
<1>2. Append(<<Trap>>, f) = <<Trap, f>>
  BY TupleFacts, Zenon
<1>3. CASE q = <<>>
  <2>1. r = Append(<<>>, f)
    BY <1>3, Zenon
  <2> QED BY <1>1, <2>1, Zenon
<1>4. CASE q = <<Trap>>
  <2>1. r = Append(<<Trap>>, f)
    BY <1>4, Zenon
  <2> QED BY <1>2, <2>1, Zenon
<1> QED BY <1>3, <1>4, Zenon

LEMMA OnTop ==
  ASSUME Service, frames \notin Quiet
  PROVE  /\ Last(frames) \in Handled /\ frames # <<>>
         /\ Front(frames) \in Quiet
         /\ frames = <<Last(frames)>> \/ frames = <<Trap, Last(frames)>>
<1>1. PICK f \in Handled : frames = <<f>> \/ frames = <<Trap, f>>
  BY DEF Service, Quiet
<1>2. CASE frames = <<f>>
  <2>1. Last(<<f>>) = f /\ Front(<<f>>) = <<>> /\ <<f>> # <<>>
    BY TupleFacts
  <2> QED BY <1>2, <2>1 DEF Quiet
<1>3. CASE frames = <<Trap, f>>
  <2>1. Last(<<Trap, f>>) = f /\ Front(<<Trap, f>>) = <<Trap>> /\ <<Trap, f>> # <<>>
    BY TupleFacts
  <2> QED BY <1>3, <2>1 DEF Quiet
<1> QED BY <1>1, <1>2, <1>3

LEMMA InFacts ==
  ASSUME Service
  PROVE  /\ In("timer") => frames \notin Quiet /\ Timer \in pic.isr /\ Last(frames).line = Timer
         /\ In("keyboard") => frames \notin Quiet /\ Keyboard \in pic.isr /\ Timer \notin pic.isr
                               /\ Last(frames).line = Keyboard
         /\ In("default") => frames \notin Quiet /\ Timer \notin pic.isr /\ Keyboard \notin pic.isr
         /\ In("exception") => frames = <<Trap>>
<1>1. ASSUME frames \in Quiet PROVE frames # <<>> => frames = <<Trap>> /\ Last(frames).gate = "exception"
  BY <1>1, QuietServesNone
<1>2. ASSUME frames \notin Quiet
      PROVE  /\ frames # <<>>
             /\ Last(frames).gate = CASE Last(frames).line = Timer -> "timer"
                                      [] Last(frames).line = Keyboard -> "keyboard" [] OTHER -> "default"
  BY <1>2, OnTop, HandledFacts
<1>3. Timer # Keyboard
  BY LineFacts
<1> QED BY <1>1, <1>2, <1>3 DEF In, Service, Serving
-----------------------------------------------------------------------------
(* What an end of interrupt ends is the service of the line that is served. *)
Ends == boot # "remap" => \A l \in pic.isr \ pic'.isr : Serving(l)

LEMMA ServiceAtStart == Init => ServiceInv
<1> SUFFICES ASSUME Init PROVE ServiceInv
  OBVIOUS
<1>1. PICK masked \in SUBSET {Timer, Keyboard, Cascade}, waiting \in SUBSET {Timer, Keyboard} :
        pic = [irr |-> waiting, isr |-> {}, imr |-> masked, base |-> [master |-> 8, slave |-> 112]]
  BY DEF Init
<1>2. PicOK
  <2>1. masked \in SUBSET Line /\ waiting \in SUBSET (Line \ {Cascade})
    BY LineFacts DEF Line
  <2> QED BY <1>1, <2>1 DEF Init, PicOK
<1>3. Steps
  BY <1>1 DEF Init, Steps
<1>4. Service
  BY <1>1 DEF Init, Service, Serving
<1> QED BY <1>2, <1>3, <1>4 DEF ServiceInv

(* Devices raise lines; nothing else changes. *)
LEMMA DevicesServe ==
  ASSUME ServiceInv, NEW l \in Line \ {Cascade}, pic' \in {pic, Raise(pic, l)},
         UNCHANGED <<boot, idt, irqOn, frames, current>>
  PROVE  ServiceInv' /\ Ends
<1>1. /\ pic' \in [irr : SUBSET (Line \ {Cascade}), isr : SUBSET Line, imr : SUBSET Line,
                   base : [master : Nat, slave : Nat]]
      /\ pic'.isr = pic.isr /\ pic'.base = pic.base
  BY DEF ServiceInv, PicOK, Raise
<1>2. PicOK' /\ Steps' /\ Service'
  BY <1>1 DEF ServiceInv, PicOK, Steps, Service, Serving
<1> QED BY <1>1, <1>2 DEF ServiceInv, Ends

(* HAL_Initialize, up to the sti. *)
LEMMA RemapServes ==
  ASSUME ServiceInv, Remap
  PROVE  ServiceInv' /\ Ends
<1>1. /\ pic' \in [irr : SUBSET (Line \ {Cascade}), isr : SUBSET Line, imr : SUBSET Line,
                   base : [master : Nat, slave : Nat]]
      /\ pic'.isr = {} /\ pic'.base = [master |-> NEW_IRQ_0, slave |-> NEW_IRQ_8]
  BY DEF ServiceInv, PicOK, Remap, RemapPic, NEW_IRQ_0, NEW_IRQ_8
<1>2. PicOK' /\ Steps'
  BY <1>1 DEF ServiceInv, PicOK, Steps, Remap
<1>3. Service'
  BY <1>1 DEF ServiceInv, Steps, Service, Serving, Remap
<1> QED BY <1>2, <1>3 DEF ServiceInv, Ends, Remap

LEMMA InitIdtServes ==
  ASSUME ServiceInv, InitIdt
  PROVE  ServiceInv' /\ Ends
<1>1. /\ pic' \in [irr : SUBSET (Line \ {Cascade}), isr : SUBSET Line, imr : SUBSET Line,
                   base : [master : Nat, slave : Nat]]
      /\ pic'.isr = pic.isr /\ pic'.base = pic.base
  BY DEF ServiceInv, PicOK, InitIdt, ClearIrqMask
<1>2. PicOK' /\ Steps'
  BY <1>1 DEF ServiceInv, PicOK, Steps, InitIdt
<1>3. Service'
  BY <1>1 DEF ServiceInv, Steps, Service, Serving, InitIdt
<1> QED BY <1>1, <1>2, <1>3 DEF ServiceInv, Ends

(* Steps of ordinary code, that touch no controller. *)
LEMMA CodeServes ==
  ASSUME ServiceInv,
         \/ SetPit \/ InitTask \/ Close \/ Open \/ GetKey \/ Rest \/ UNCHANGED vars
  PROVE  ServiceInv' /\ Ends
<1>1. /\ pic' = pic /\ idt' = idt /\ frames' = frames
      /\ boot' = boot \/ (boot \in {"pit", "init_task"} /\ boot' \in {"init_task", "tasks"})
      /\ irqOn' = irqOn \/ (boot = "tasks" /\ frames = <<>> /\ irqOn' \in BOOLEAN)
      /\ current' = current \/ current' = TRUE
  BY DEF SetPit, InitTask, Close, Open, GetKey, Rest, vars, picVars, Running
<1>2. PicOK' /\ Steps'
  <2>1. irqOn' \in BOOLEAN
    BY <1>1 DEF ServiceInv, PicOK
  <2>2. current' \in BOOLEAN
    BY <1>1 DEF ServiceInv, PicOK
  <2>3. PicOK'
    BY <1>1, <2>1, <2>2 DEF ServiceInv, PicOK
  <2>4. Steps'
    BY <1>1 DEF ServiceInv, Steps
  <2> QED BY <2>3, <2>4
<1>3. Service'
  BY <1>1 DEF ServiceInv, Service, Serving
<1> QED BY <1>1, <1>2, <1>3 DEF ServiceInv, Ends

LEMMA FaultServes ==
  ASSUME ServiceInv, Fault
  PROVE  ServiceInv' /\ Ends
<1>1. pic' = pic /\ idt' = idt /\ irqOn' = irqOn /\ boot' = boot /\ current' = current /\ boot = "tasks"
      /\ frames = <<>> /\ frames' = <<Trap>>
  BY DEF Fault, Running, Trap
<1>2. PicOK' /\ Steps'
  BY <1>1 DEF ServiceInv, PicOK, Steps
<1>3. \A l \in Line : ~Serving(l) /\ ~Serving(l)'
  BY <1>1, QuietServesNone DEF Quiet, Serving
<1>4. Service'
  BY <1>1, <1>3, LineFacts DEF ServiceInv, Service
<1> QED BY <1>1, <1>2, <1>4 DEF ServiceInv, Ends

(* An interrupt is let in while nothing but an exception is being handled.  *)
LEMMA AcceptServes ==
  ASSUME ServiceInv, Accept
  PROVE  ServiceInv' /\ Ends
<1> DEFINE l == Source(pic)
           f == [line |-> l, gate |-> Gate(NEW_IRQ_0 + l)]
<1>1. irqOn /\ boot \notin {"remap", "idt"} /\ idt
  BY DEF Accept, Interrupted, ServiceInv, Steps
<1>2. l \in pic.irr /\ pic.irr \in SUBSET (Line \ {Cascade}) /\ pic.isr \in SUBSET Line
  BY SourceIsAsked DEF Accept, Interrupted, ServiceInv, PicOK
<1>3. VectorOf(pic, l) = NEW_IRQ_0 + l
  BY <1>1, <1>2, OwnVector DEF ServiceInv, Steps
<1>4. frames' = Append(frames, f) /\ irqOn' = KeepsIf(Gate(NEW_IRQ_0 + l))
  BY <1>1, <1>3 DEF Accept
<1>5. f \in Handled /\ f.line = l
  BY <1>2 DEF Handled
<1>6. irqOn' = FALSE
  BY <1>2, <1>4, GateFacts DEF KeepsIf
<1>7. pic' = [pic EXCEPT !.irr = @ \ {l}, !.isr = @ \union {l} \union (IF l \in Slave THEN {Cascade} ELSE {})]
  BY DEF Accept, Acknowledge
<1> HIDE DEF l, f
<1>8. PicOK'
  <2>1. pic' \in [irr : SUBSET (Line \ {Cascade}), isr : SUBSET Line, imr : SUBSET Line,
                 base : [master : Nat, slave : Nat]]
    <3>1. Cascade \in Line
      BY LineFacts DEF Line
    <3>2. pic.isr \union {l} \union (IF l \in Slave THEN {Cascade} ELSE {}) \in SUBSET Line
      BY <1>2, <3>1
    <3>3. pic.irr \ {l} \in SUBSET (Line \ {Cascade})
      BY <1>2
    <3> QED BY <1>7, <3>2, <3>3 DEF ServiceInv, PicOK
  <2> QED BY <1>6, <2>1 DEF ServiceInv, PicOK, Accept
<1>9. Steps'
  BY <1>1, <1>7 DEF ServiceInv, PicOK, Steps, Accept
<1>10. frames \in Quiet
  BY <1>1 DEF ServiceInv, Service, Quiet
<1>11. frames' = <<f>> \/ frames' = <<Trap, f>>
  <2>1. frames = <<>> \/ frames = <<Trap>>
    BY <1>10 DEF Quiet
  <2>2. frames' = Append(frames, f)
    BY <1>4
  <2> QED BY <2>1, <2>2, OnAppend, Zenon
<1>12. Last(frames') = f /\ frames' # <<>>
  <2>1. Last(<<f>>) = f /\ Last(<<Trap, f>>) = f /\ <<f>> # <<>> /\ <<Trap, f>> # <<>>
    BY TupleFacts
  <2> QED BY <1>11, <2>1
<1>13. \A k \in Line : ~Serving(k) /\ (Serving(k)' <=> k = l)
  BY <1>5, <1>10, <1>12, QuietServesNone DEF Serving
<1>14. \A k \in {Timer, Keyboard} : k \in pic'.isr <=> k = l
  <2>1. \A k \in {Timer, Keyboard} : k \notin pic.isr /\ k # Cascade
    BY <1>13, LineFacts DEF ServiceInv, Service
  <2> QED BY <1>7, <2>1 DEF ServiceInv, PicOK
<1>15. Service'
  <2>1. \A k \in {Timer, Keyboard} : k \in pic'.isr <=> Serving(k)'
    BY <1>13, <1>14, LineFacts
  <2>2. \E g \in Handled : frames' = <<g>> \/ frames' = <<Trap, g>>
    BY <1>5, <1>11
  <2> QED BY <1>6, <2>1, <2>2 DEF Service
<1>16. Ends
  BY <1>7 DEF Ends, ServiceInv, PicOK
<1> QED BY <1>8, <1>9, <1>15, <1>16 DEF ServiceInv

(* A handler that ends takes its own line out of service, if any.           *)
LEMMA HandlerEnds ==
  ASSUME ServiceInv, frames # <<>>, frames' \in Quiet, irqOn' \in BOOLEAN,
         pic' \in [irr : SUBSET (Line \ {Cascade}), isr : SUBSET Line, imr : SUBSET Line,
                 base : [master : Nat, slave : Nat]],
         pic'.base = pic.base, pic'.isr \subseteq pic.isr,
         Timer \notin pic'.isr, Keyboard \notin pic'.isr,
         \A l \in pic.isr \ pic'.isr : Serving(l),
         UNCHANGED <<boot, idt, current>>
  PROVE  ServiceInv' /\ Ends
<1>1. boot \notin {"remap", "idt"}
  BY DEF ServiceInv, Steps
<1>2. PicOK'
  BY DEF ServiceInv, PicOK
<1>3. Steps'
  BY <1>1 DEF ServiceInv, Steps
<1>4. ~Serving(Timer)' /\ ~Serving(Keyboard)'
  BY QuietServesNone, LineFacts DEF Serving
<1>5. Service'
  <2>1. (frames = <<>> \/ frames = <<Trap>>)'
    BY DEF Quiet
  <2> QED BY <1>4, <2>1 DEF Service
<1> QED BY <1>2, <1>3, <1>5 DEF ServiceInv, Ends

LEMMA TimerEnds ==
  ASSUME ServiceInv, TimerReturn \/ TimerSwitch
  PROVE  ServiceInv' /\ Ends
<1>1. In("timer") /\ pic' = SendPicEoi(pic, Timer) /\ UNCHANGED <<boot, idt, current>>
  BY DEF TimerReturn, TimerSwitch
<1>2. frames # <<>> /\ frames \notin Quiet /\ Timer \in pic.isr /\ Last(frames).line = Timer
  BY <1>1, InFacts DEF ServiceInv, In
<1>3. Keyboard \notin pic.isr
  BY <1>2, LineFacts DEF ServiceInv, Service, Serving
<1>4. pic' = [pic EXCEPT !.isr = @ \ {Timer}]
  BY <1>1, <1>2, EoiEnds, LineFacts DEF ServiceInv, PicOK
<1>5. frames' \in Quiet /\ irqOn' \in BOOLEAN
  <2>1. CASE TimerReturn
    BY <1>2, <2>1, OnTop DEF TimerReturn, Iret, ServiceInv
  <2>2. CASE TimerSwitch
    BY <2>2 DEF TimerSwitch, Quiet
  <2> QED BY <2>1, <2>2
<1>6. /\ pic' \in [irr : SUBSET (Line \ {Cascade}), isr : SUBSET Line, imr : SUBSET Line,
                   base : [master : Nat, slave : Nat]]
      /\ pic'.base = pic.base /\ pic'.isr = pic.isr \ {Timer}
  BY <1>4 DEF ServiceInv, PicOK
<1>7. \A l \in pic.isr \ pic'.isr : Serving(l)
  BY <1>2, <1>6 DEF Serving
<1> QED BY <1>1, <1>2, <1>3, <1>5, <1>6, <1>7, HandlerEnds

LEMMA KeyboardEnds ==
  ASSUME ServiceInv, KeyboardHandler
  PROVE  ServiceInv' /\ Ends
<1> DEFINE p == IF Tail(bytes) = <<>> THEN pic ELSE Raise(pic, Keyboard)
<1>1. In("keyboard") /\ pic' = SendPicEoi(p, Keyboard) /\ UNCHANGED <<boot, idt, current>>
  BY DEF KeyboardHandler
<1>2. /\ frames # <<>> /\ frames \notin Quiet /\ Keyboard \in pic.isr /\ Timer \notin pic.isr
      /\ Last(frames).line = Keyboard
  BY <1>1, InFacts DEF ServiceInv, In
<1>3. /\ p \in [irr : SUBSET (Line \ {Cascade}), isr : SUBSET Line, imr : SUBSET Line,
                base : [master : Nat, slave : Nat]]
      /\ p.isr = pic.isr /\ p.base = pic.base
  BY LineFacts DEF ServiceInv, PicOK, Raise
<1> HIDE DEF p
<1>4. pic' = [p EXCEPT !.isr = @ \ {Keyboard}]
  BY <1>1, <1>2, <1>3, EoiEnds
<1>5. frames' \in Quiet /\ irqOn' \in BOOLEAN
  BY <1>2, OnTop DEF KeyboardHandler, Iret, ServiceInv
<1>6. /\ pic' \in [irr : SUBSET (Line \ {Cascade}), isr : SUBSET Line, imr : SUBSET Line,
                   base : [master : Nat, slave : Nat]]
      /\ pic'.base = pic.base /\ pic'.isr = pic.isr \ {Keyboard}
  BY <1>3, <1>4
<1>7. \A l \in pic.isr \ pic'.isr : Serving(l)
  BY <1>2, <1>6 DEF Serving
<1> QED BY <1>1, <1>2, <1>5, <1>6, <1>7, HandlerEnds

(* The handlers that send no end of interrupt. *)
LEMMA OthersEnd ==
  ASSUME ServiceInv, DefaultHandler \/ ExceptionHandler
  PROVE  ServiceInv' /\ Ends
<1>1. /\ pic' = pic /\ UNCHANGED <<boot, idt, current>>
      /\ frames' = Front(frames) /\ irqOn' = TRUE
  BY DEF DefaultHandler, ExceptionHandler, Iret
<1>2. frames # <<>> /\ frames' \in Quiet /\ Timer \notin pic.isr /\ Keyboard \notin pic.isr
  <2>1. CASE DefaultHandler
    BY <1>1, <2>1, InFacts, OnTop DEF DefaultHandler, ServiceInv, In
  <2>2. CASE ExceptionHandler
    <3>1. frames = <<Trap>>
      BY <2>2, InFacts DEF ExceptionHandler, ServiceInv
    <3>2. frames # <<>> /\ Front(frames) = <<>>
      BY <3>1, TupleFacts
    <3>3. ~Serving(Timer) /\ ~Serving(Keyboard)
      BY <3>1, <3>2, QuietServesNone, LineFacts DEF Quiet, Serving
    <3> QED BY <1>1, <3>2, <3>3 DEF Quiet, ServiceInv, Service
  <2> QED BY <2>1, <2>2
<1> QED BY <1>1, <1>2, HandlerEnds DEF ServiceInv, PicOK

(* The keyboard's line is the only one a byte raises. *)
LEMMA BytesServe ==
  ASSUME ServiceInv, NEW k, NEW make, SendByte(k, make)
  PROVE  ServiceInv' /\ Ends
BY DevicesServe, LineFacts DEF SendByte

LEMMA ServiceKept == ServiceInv /\ [Next]_vars => ServiceInv' /\ Ends
<1> SUFFICES ASSUME ServiceInv, [Next]_vars PROVE ServiceInv' /\ Ends
  OBVIOUS
<1>1. CASE Remap BY <1>1, RemapServes
<1>2. CASE InitIdt BY <1>2, InitIdtServes
<1>3. CASE SetPit \/ InitTask \/ Close \/ Open \/ GetKey \/ Rest \/ UNCHANGED vars
  BY <1>3, CodeServes
<1>4. CASE Accept BY <1>4, AcceptServes
<1>5. CASE TimerReturn \/ TimerSwitch BY <1>5, TimerEnds
<1>6. CASE KeyboardHandler BY <1>6, KeyboardEnds
<1>7. CASE DefaultHandler \/ ExceptionHandler BY <1>7, OthersEnd
<1>8. CASE Fault BY <1>8, FaultServes
<1>9. CASE Tick
  BY <1>9, DevicesServe, LineFacts DEF Tick
<1>10. CASE \E l \in Wired : Device(l)
  <2>1. PICK l \in Wired : Device(l)
    BY <1>10
  <2>2. l \in Line \ {Cascade}
    BY InterruptsAssumption
  <2> QED BY <2>1, <2>2, DevicesServe DEF Device
<1>11. CASE \E k \in Keys : Press(k) \/ LetGo(k)
  BY <1>11, BytesServe DEF Press, LetGo
<1> QED BY <1>1, <1>2, <1>3, <1>4, <1>5, <1>6, <1>7, <1>8, <1>9, <1>10, <1>11 DEF Next, Processor

(* Every interrupt comes through the gate made for its line: the order of     *)
(* HAL_Initialize (hal.c:13-15) and the numbers of pic.c and idt.c agree.    *)
THEOREM GatesAreOwn == Spec => []OwnGate
<1>1. ServiceInv => OwnGate
  <2> SUFFICES ASSUME ServiceInv, NEW j \in DOMAIN frames, frames[j].line # -1
               PROVE  frames[j].gate = CASE frames[j].line = Timer -> "timer"
                                         [] frames[j].line = Keyboard -> "keyboard"
                                         [] OTHER -> "default"
    BY DEF OwnGate
  <2>1. Trap.line = -1
    BY DEF Trap
  <2>2. frames[j] \in Handled
    <3>1. CASE frames = <<>>
      BY <3>1
    <3>2. CASE frames = <<Trap>>
      BY <2>1, <3>2
    <3>3. CASE \E f \in Handled : frames = <<f>> \/ frames = <<Trap, f>>
      BY <2>1, <3>3
    <3> QED BY <3>1, <3>2, <3>3 DEF ServiceInv, Service
  <2> QED BY <2>2, HandledFacts
<1> QED BY <1>1, ServiceAtStart, ServiceKept, PTL DEF Spec

(* The end of interrupt of a handler never ends the service of another line:  *)
(* what is in service behind the timer or the keyboard, for good or not,    *)
(* comes after it in priority, and they never interrupt each other.         *)
THEOREM EndsAreOwn == Spec => EoiIsOwn
<1>1. ServiceInv /\ [Next]_vars =>
        [boot # "remap" => \A l \in pic.isr \ pic'.isr : frames # <<>> /\ Last(frames).line = l]_vars
  BY ServiceKept DEF Ends, Serving
<1> QED BY <1>1, ServiceAtStart, ServiceKept, PTL DEF Spec, EoiIsOwn
-----------------------------------------------------------------------------
(* The keyboard. *)

Byte == [key : Keys, make : BOOLEAN, shifted : BOOLEAN]
ShiftDown == held \intersect Shifts # {}

QueueOK ==
  /\ bytes \in Seq(Byte) /\ Len(bytes) <= MaxQueue
  /\ held \subseteq Keys /\ shift \in BOOLEAN /\ sure \in BOOLEAN
  /\ key \in Chars \union {NUL}
  /\ Keyboard \in pic.irr => bytes # <<>>
  /\ Serving(Keyboard) => bytes # <<>> /\ Keyboard \notin pic.irr

(* Between the bytes of shift keys the shift keys do not change; the flag is  *)
(* what they were when the next byte was sent, if it is one to be trusted.   *)
ShiftOK ==
  /\ \A j \in 1 .. Len(bytes) : bytes[j].key \in Shifts /\ bytes[j].make => bytes[j].shifted
  /\ \A j \in 1 .. (Len(bytes) - 1) : bytes[j + 1].key \notin Shifts => bytes[j + 1].shifted = bytes[j].shifted
  /\ bytes # <<>> /\ sure /\ bytes[1].key \notin Shifts => shift = bytes[1].shifted
  /\ bytes # <<>> => bytes[Len(bytes)].shifted = ShiftDown
  /\ bytes = <<>> /\ sure => shift = ShiftDown

KeyboardInv == ServiceInv /\ QueueOK /\ ShiftOK

(* What KeysTranslated says of a step. *)
Faithful ==
  bytes # <<>> /\ bytes' = Tail(bytes) /\ Head(bytes).make /\ Head(bytes).key \in Plain /\ sure
    => key' = <<Head(bytes).key, Head(bytes).shifted>>

LEMMA KeyboardAtStart == Init => QueueOK /\ ShiftOK
<1> SUFFICES ASSUME Init PROVE QueueOK /\ ShiftOK
  OBVIOUS
<1> DEFINE b == [key |-> "LSHIFT", make |-> TRUE, shifted |-> TRUE]
<1>1. PICK masked \in SUBSET {Timer, Keyboard, Cascade}, waiting \in SUBSET {Timer, Keyboard} :
        /\ pic = [irr |-> waiting, isr |-> {}, imr |-> masked, base |-> [master |-> 8, slave |-> 112]]
        /\ bytes = IF Keyboard \in waiting THEN <<b>> ELSE <<>>
        /\ held = IF Keyboard \in waiting THEN {"LSHIFT"} ELSE {}
  BY DEF Init
<1>2. b \in Byte /\ b.key = "LSHIFT" /\ b.make = TRUE /\ b.shifted = TRUE /\ "LSHIFT" \in Shifts
      /\ "LSHIFT" \in Keys
  BY DEF Byte, Keys, Shifts
<1>3. pic.irr = waiting
  BY <1>1
<1>4. shift \in BOOLEAN /\ sure = FALSE /\ key = NUL /\ ~Serving(Keyboard)
  BY DEF Init, Serving
<1> HIDE DEF b
<1>5. CASE Keyboard \in waiting
  <2>1. bytes = <<b>> /\ held = {"LSHIFT"}
    BY <1>1, <1>5
  <2>2. bytes # <<>> /\ Len(bytes) = 1 /\ bytes[1] = b
    BY <2>1, TupleFacts
  <2>3. bytes \in Seq(Byte)
    BY <1>2, <2>1
  <2>4. ShiftDown
    BY <1>2, <2>1 DEF ShiftDown
  <2>5. QueueOK
    <3>1. 1 <= MaxQueue
      BY InterruptsAssumption
    <3>2. held \subseteq Keys
      BY <1>2, <2>1
    <3> QED BY <1>4, <2>2, <2>3, <3>1, <3>2 DEF QueueOK
  <2>6. ShiftOK
    <3>1. \A j \in 1 .. Len(bytes) : bytes[j].shifted = TRUE
      BY <1>2, <2>2
    <3>2. \A j \in 1 .. (Len(bytes) - 1) : FALSE
      BY <2>2
    <3>3. bytes[Len(bytes)].shifted = TRUE
      BY <1>2, <2>2
    <3> QED BY <1>4, <2>2, <2>4, <3>1, <3>2, <3>3 DEF ShiftOK
  <2> QED BY <2>5, <2>6
<1>6. CASE Keyboard \notin waiting
  <2>1. bytes = <<>> /\ held = {}
    BY <1>1, <1>6
  <2>2. bytes \in Seq(Byte) /\ Len(bytes) = 0
    BY <2>1, EmptySeq
  <2>3. QueueOK
    <3>1. 0 <= MaxQueue
      BY InterruptsAssumption
    <3>2. held \subseteq Keys /\ Keyboard \notin pic.irr
      BY <1>3, <1>6, <2>1
    <3> QED BY <1>4, <2>2, <3>1, <3>2 DEF QueueOK
  <2>4. ShiftOK
    <3>1. \A j \in 1 .. Len(bytes) : FALSE
      BY <2>2
    <3>2. \A j \in 1 .. (Len(bytes) - 1) : FALSE
      BY <2>2
    <3> QED BY <1>4, <2>1, <3>1, <3>2 DEF ShiftOK
  <2> QED BY <2>3, <2>4
<1> QED BY <1>5, <1>6

(* A step that neither sends nor reads a byte. *)
LEMMA QueueRests ==
  ASSUME QueueOK, ShiftOK, UNCHANGED <<bytes, held, shift, sure>>, key' \in {key, NUL},
         Keyboard \in pic'.irr => Keyboard \in pic.irr,
         Serving(Keyboard)' => bytes # <<>> /\ Keyboard \notin pic'.irr
  PROVE  QueueOK' /\ ShiftOK' /\ Faithful
<1>1. QueueOK'
  BY DEF QueueOK
<1>2. ShiftOK'
  BY DEF ShiftOK, ShiftDown
<1>3. Faithful
  <2>1. ASSUME bytes # <<>> PROVE bytes' # Tail(bytes)
    BY <2>1, HeadTailProperties DEF QueueOK
  <2> QED BY <2>1 DEF Faithful
<1> QED BY <1>1, <1>2, <1>3

LEMMA BytesAreSent ==
  ASSUME KeyboardInv, NEW k \in Keys, NEW make \in BOOLEAN, SendByte(k, make)
  PROVE  QueueOK' /\ ShiftOK' /\ Faithful
<1> DEFINE b == [key |-> k, make |-> make, shifted |-> ShiftDown']
           n == Len(bytes)
<1>1. /\ bytes' = Append(bytes, b) /\ b \in Byte /\ b.key = k /\ b.make = make /\ b.shifted = ShiftDown'
      /\ UNCHANGED <<frames, shift, key, sure>>
  BY DEF SendByte, Byte, ShiftDown
<1>2. held' = (IF make THEN held \union {k} ELSE held \ {k}) /\ held' \subseteq Keys
  BY DEF SendByte, KeyboardInv, QueueOK
<1>3. bytes \in Seq(Byte) /\ n \in Nat /\ n < MaxQueue /\ (bytes # <<>> => n > 0) /\ (bytes = <<>> => n = 0)
  BY EmptySeq DEF KeyboardInv, QueueOK, SendByte
<1> HIDE DEF b
<1>4. /\ bytes' \in Seq(Byte) /\ bytes' # <<>> /\ Len(bytes') = n + 1
      /\ \A j \in 1 .. n : bytes'[j] = bytes[j]
      /\ bytes'[n + 1] = b
  BY <1>1, <1>3, AppendProperties
<1>5. QueueOK'
  <2>1. Serving(Keyboard)' = Serving(Keyboard)
    BY <1>1 DEF Serving
  <2>2. Serving(Keyboard) => bytes # <<>> /\ Keyboard \notin pic.irr
    BY DEF KeyboardInv, QueueOK
  <2>3. bytes # <<>> => pic' = pic
    BY DEF SendByte
  <2>4. Len(bytes') <= MaxQueue
    BY <1>3, <1>4, InterruptsAssumption
  <2>5. shift' \in BOOLEAN /\ sure' \in BOOLEAN /\ key' \in Chars \union {NUL}
    BY <1>1 DEF KeyboardInv, QueueOK
  <2> QED BY <1>2, <1>4, <2>1, <2>2, <2>3, <2>4, <2>5 DEF QueueOK
<1>6. k \notin Shifts => ShiftDown' = ShiftDown
  BY <1>2 DEF ShiftDown
<1>7. k \in Shifts /\ make => ShiftDown'
  BY <1>2 DEF ShiftDown
<1>8. ShiftOK'
  <2>1. \A j \in 1 .. Len(bytes') : bytes'[j].key \in Shifts /\ bytes'[j].make => bytes'[j].shifted
    <3> SUFFICES ASSUME NEW j \in 1 .. (n + 1), bytes'[j].key \in Shifts, bytes'[j].make
                 PROVE  bytes'[j].shifted
      BY <1>4
    <3>1. CASE j = n + 1
      BY <1>1, <1>4, <1>7, <3>1
    <3>2. CASE j # n + 1
      <4>1. j \in 1 .. n
        BY <1>3, <3>2
      <4> QED BY <1>4, <4>1 DEF KeyboardInv, ShiftOK
    <3> QED BY <3>1, <3>2
  <2>2. n > 0 => bytes[n].shifted = ShiftDown
    BY <1>3 DEF KeyboardInv, ShiftOK
  <2>3. \A j \in 1 .. (Len(bytes') - 1) : bytes'[j + 1].key \notin Shifts => bytes'[j + 1].shifted = bytes'[j].shifted
    <3> SUFFICES ASSUME NEW j \in 1 .. n, bytes'[j + 1].key \notin Shifts
                 PROVE  bytes'[j + 1].shifted = bytes'[j].shifted
      BY <1>3, <1>4
    <3>1. CASE j = n
      <4>1. n > 0 /\ bytes'[j + 1] = b /\ bytes'[j] = bytes[n] /\ k \notin Shifts
        BY <1>1, <1>3, <1>4, <3>1
      <4>2. b.shifted = ShiftDown
        BY <1>1, <1>6, <4>1
      <4>3. bytes[n].shifted = ShiftDown
        BY <2>2, <4>1
      <4> QED BY <4>1, <4>2, <4>3
    <3>2. CASE j # n
      <4>1. j \in 1 .. (n - 1) /\ j + 1 \in 1 .. n
        BY <1>3, <3>2
      <4>2. bytes'[j] = bytes[j] /\ bytes'[j + 1] = bytes[j + 1]
        BY <1>4, <4>1
      <4> QED BY <4>1, <4>2 DEF KeyboardInv, ShiftOK
    <3> QED BY <3>1, <3>2
  <2>4. sure' /\ bytes'[1].key \notin Shifts => shift' = bytes'[1].shifted
    <3> SUFFICES ASSUME sure, bytes'[1].key \notin Shifts PROVE shift = bytes'[1].shifted
      BY <1>1
    <3>1. CASE bytes = <<>>
      <4>1. bytes'[1] = b /\ k \notin Shifts
        BY <1>1, <1>3, <1>4, <3>1
      <4>2. shift = ShiftDown
        BY <3>1 DEF KeyboardInv, ShiftOK
      <4>3. b.shifted = ShiftDown
        BY <1>1, <1>6, <4>1
      <4> QED BY <4>1, <4>2, <4>3
    <3>2. CASE bytes # <<>>
      <4>1. bytes'[1] = bytes[1]
        BY <1>3, <1>4, <3>2
      <4> QED BY <3>2, <4>1 DEF KeyboardInv, ShiftOK
    <3> QED BY <3>1, <3>2
  <2>5. bytes'[Len(bytes')].shifted = ShiftDown'
    <3>1. bytes'[Len(bytes')] = b
      BY <1>4
    <3> QED BY <1>1, <3>1
  <2> QED BY <1>4, <2>1, <2>3, <2>4, <2>5 DEF ShiftOK
<1>9. Faithful
  <2>1. ASSUME bytes # <<>>, bytes' = Tail(bytes) PROVE FALSE
    <3>1. Len(bytes') = n - 1
      BY <1>3, <2>1, HeadTailProperties
    <3> QED BY <1>3, <1>4, <3>1
  <2> QED BY <2>1 DEF Faithful
<1> QED BY <1>5, <1>8, <1>9

LEMMA ByteIsRead ==
  ASSUME KeyboardInv, ServiceInv', KeyboardHandler
  PROVE  QueueOK' /\ ShiftOK' /\ Faithful
<1> DEFINE b == Head(bytes)
           n == Len(bytes)
           p == IF Tail(bytes) = <<>> THEN pic ELSE Raise(pic, Keyboard)
<1>1. In("keyboard") /\ Serving(Keyboard) /\ bytes # <<>> /\ Keyboard \notin pic.irr
  BY InFacts DEF KeyboardHandler, KeyboardInv, ServiceInv, QueueOK, Serving, In
<1>2. /\ bytes \in Seq(Byte) /\ n \in Nat /\ n > 0 /\ n <= MaxQueue
      /\ b \in Byte /\ b = bytes[1]
      /\ bytes' = Tail(bytes) /\ bytes' \in Seq(Byte) /\ Len(bytes') = n - 1
      /\ \A j \in 1 .. (n - 1) : bytes'[j] = bytes[j + 1]
  <2>1. bytes \in Seq(Byte) /\ n <= MaxQueue
    BY DEF KeyboardInv, QueueOK
  <2>2. n \in Nat /\ n > 0
    BY <1>1, <2>1, EmptySeq
  <2>3. bytes' = Tail(bytes)
    BY DEF KeyboardHandler
  <2>4. b = bytes[1]
    BY <2>1
  <2> QED BY <1>1, <2>1, <2>2, <2>3, <2>4, HeadTailProperties
<1>3. /\ b.key \in Shifts => shift' = b.make /\ sure' = (b.make \/ ~b.shifted) /\ key' = key
      /\ b.key \notin Shifts => UNCHANGED <<shift, sure>>
      /\ b.key \notin Shifts /\ b.make => key' \in Translated(b)
      /\ b.key \notin Shifts /\ ~b.make => key' = key
      /\ held' = held
  BY DEF KeyboardHandler
<1>4. b.key \in Keys /\ b.make \in BOOLEAN /\ b.shifted \in BOOLEAN
  BY <1>2 DEF Byte
<1> HIDE DEF b
<1>5. ~Serving(Keyboard)'
  <2>1. frames' = Front(frames)
    BY DEF KeyboardHandler, Iret
  <2>2. frames' \in Quiet
    BY <1>1, <2>1, InFacts, OnTop DEF KeyboardInv, ServiceInv
  <2>3. Last(frames').line # Keyboard \/ frames' = <<>>
    BY <2>2, QuietServesNone, LineFacts
  <2> QED BY <2>3 DEF Serving
<1>6. Keyboard \in pic'.irr => bytes' # <<>>
  <2>1. pic' = SendPicEoi(p, Keyboard) /\ pic'.irr = p.irr
    <3>1. pic' = SendPicEoi(p, Keyboard)
      BY DEF KeyboardHandler
    <3>2. p \in [irr : SUBSET (Line \ {Cascade}), isr : SUBSET Line, imr : SUBSET Line,
                 base : [master : Nat, slave : Nat]]
      BY LineFacts DEF KeyboardInv, ServiceInv, PicOK, Raise
    <3>3. SendPicEoi(p, Keyboard).irr = p.irr
      BY <3>2, LineFacts DEF SendPicEoi, EndMaster
    <3> QED BY <3>1, <3>3
  <2>2. Tail(bytes) = <<>> => p = pic
    OBVIOUS
  <2> QED BY <1>1, <1>2, <2>1, <2>2
<1>7. key' \in Chars \union {NUL}
  <2>1. key \in Chars \union {NUL} /\ shift \in BOOLEAN
    BY DEF KeyboardInv, QueueOK
  <2>2. ASSUME b.key \notin Shifts PROVE Translated(b) \subseteq Chars \union {NUL}
    <3>1. CASE b.key \in Outside
      BY <3>1 DEF Translated
    <3>2. CASE b.key \in Plain
      BY <2>1, <3>2 DEF Translated, Chars
    <3> QED BY <1>4, <2>2, <3>1, <3>2 DEF Keys
  <2> QED BY <1>3, <1>4, <2>1, <2>2
<1>8. shift' \in BOOLEAN /\ sure' \in BOOLEAN
  <2>1. shift \in BOOLEAN /\ sure \in BOOLEAN
    BY DEF KeyboardInv, QueueOK
  <2>2. (b.make \/ ~b.shifted) \in BOOLEAN
    OBVIOUS
  <2> QED BY <1>3, <1>4, <2>1, <2>2
<1>9. QueueOK'
  <2>1. Len(bytes') <= MaxQueue /\ held' \subseteq Keys
    BY <1>2, <1>3, InterruptsAssumption DEF KeyboardInv, QueueOK
  <2> QED BY <1>2, <1>5, <1>6, <1>7, <1>8, <2>1 DEF QueueOK
(* After the byte the flag is what the shift keys were as it was sent.      *)
<1>10. sure' => shift' = b.shifted
  <2>1. ASSUME sure', b.key \in Shifts PROVE shift' = b.shifted
    <3>1. b.make => b.shifted
      BY <1>2, <2>1 DEF KeyboardInv, ShiftOK
    <3>2. b.make \/ ~b.shifted
      BY <1>3, <2>1
    <3> QED BY <1>3, <1>4, <2>1, <3>1, <3>2
  <2>2. ASSUME sure', b.key \notin Shifts PROVE shift' = b.shifted
    BY <1>1, <1>2, <1>3, <2>2 DEF KeyboardInv, ShiftOK
  <2> QED BY <2>1, <2>2
<1>11. ShiftOK'
  <2>1. \A j \in 1 .. Len(bytes') : bytes'[j].key \in Shifts /\ bytes'[j].make => bytes'[j].shifted
    <3> SUFFICES ASSUME NEW j \in 1 .. (n - 1), bytes'[j].key \in Shifts, bytes'[j].make
                 PROVE  bytes'[j].shifted
      BY <1>2
    <3>1. j + 1 \in 1 .. n /\ bytes'[j] = bytes[j + 1]
      BY <1>2
    <3> QED BY <3>1 DEF KeyboardInv, ShiftOK
  <2>2. \A j \in 1 .. (Len(bytes') - 1) : bytes'[j + 1].key \notin Shifts => bytes'[j + 1].shifted = bytes'[j].shifted
    <3> SUFFICES ASSUME NEW j \in 1 .. (n - 2), bytes'[j + 1].key \notin Shifts
                 PROVE  bytes'[j + 1].shifted = bytes'[j].shifted
      BY <1>2
    <3>1. /\ j + 1 \in 1 .. (n - 1) /\ j \in 1 .. (n - 1)
          /\ bytes'[j] = bytes[j + 1] /\ bytes'[j + 1] = bytes[(j + 1) + 1]
      BY <1>2
    <3> QED BY <3>1 DEF KeyboardInv, ShiftOK
  <2>3. bytes' # <<>> /\ sure' /\ bytes'[1].key \notin Shifts => shift' = bytes'[1].shifted
    <3> SUFFICES ASSUME bytes' # <<>>, sure', bytes'[1].key \notin Shifts PROVE shift' = bytes'[1].shifted
      OBVIOUS
    <3>1. n - 1 > 0
      BY <1>2, EmptySeq
    <3>2. bytes'[1] = bytes[1 + 1] /\ 1 \in 1 .. (n - 1)
      BY <1>2, <3>1
    <3>3. bytes[1 + 1].shifted = bytes[1].shifted
      BY <3>2 DEF KeyboardInv, ShiftOK
    <3> QED BY <1>2, <1>10, <3>2, <3>3
  <2>4. bytes[n].shifted = ShiftDown /\ ShiftDown' = ShiftDown
    BY <1>1, <1>3 DEF KeyboardInv, ShiftOK, ShiftDown
  <2>5. bytes' # <<>> => bytes'[Len(bytes')].shifted = ShiftDown'
    <3> SUFFICES ASSUME bytes' # <<>> PROVE bytes'[Len(bytes')].shifted = ShiftDown'
      OBVIOUS
    <3>1. n - 1 > 0
      BY <1>2, EmptySeq
    <3>2. bytes'[n - 1] = bytes[n] /\ Len(bytes') = n - 1
      BY <1>2, <3>1
    <3> QED BY <2>4, <3>2
  <2>6. bytes' = <<>> /\ sure' => shift' = ShiftDown'
    <3> SUFFICES ASSUME bytes' = <<>>, sure' PROVE shift' = ShiftDown'
      OBVIOUS
    <3>1. n = 1
      BY <1>2, EmptySeq
    <3>2. b.shifted = ShiftDown
      BY <1>2, <2>4, <3>1
    <3> QED BY <1>10, <2>4, <3>2
  <2> QED BY <2>1, <2>2, <2>3, <2>5, <2>6 DEF ShiftOK
<1>12. Faithful
  <2> SUFFICES ASSUME b.make, b.key \in Plain, sure PROVE key' = <<b.key, b.shifted>>
    BY DEF Faithful, b
  <2>1. b.key \notin Shifts /\ b.key \notin Outside
    BY InterruptsAssumption
  <2>2. key' = <<b.key, shift>>
    BY <1>3, <2>1 DEF Translated
  <2>3. shift = b.shifted
    BY <1>1, <1>2, <2>1 DEF KeyboardInv, ShiftOK
  <2> QED BY <2>2, <2>3
<1> QED BY <1>9, <1>11, <1>12

LEMMA KeyboardKept == KeyboardInv /\ [Next]_vars => KeyboardInv' /\ Faithful
<1> SUFFICES ASSUME KeyboardInv, [Next]_vars PROVE KeyboardInv' /\ Faithful
  OBVIOUS
<1>1. ServiceInv /\ ServiceInv' /\ QueueOK /\ ShiftOK
  BY ServiceKept DEF KeyboardInv
<1>2. ASSUME \E k \in Keys : Press(k) \/ LetGo(k) PROVE QueueOK' /\ ShiftOK' /\ Faithful
  BY <1>2, BytesAreSent DEF Press, LetGo
<1>3. ASSUME KeyboardHandler PROVE QueueOK' /\ ShiftOK' /\ Faithful
  BY <1>1, <1>3, ByteIsRead
(* Requests of other lines, and ordinary code. *)
<1>4. ASSUME \/ Tick \/ (\E l \in Wired : Device(l)) \/ Remap \/ InitIdt \/ SetPit \/ InitTask
             \/ Close \/ Open \/ GetKey \/ Rest \/ UNCHANGED vars
      PROVE  QueueOK' /\ ShiftOK' /\ Faithful
  <2>1. UNCHANGED <<bytes, held, shift, sure, frames>> /\ key' \in {key, NUL}
    BY <1>4 DEF Tick, Device, Remap, InitIdt, SetPit, InitTask, Close, Open, GetKey, Rest, vars, picVars, keyVars
  <2>2. Keyboard \in pic'.irr => Keyboard \in pic.irr
    <3>1. CASE Tick
      BY <3>1, LineFacts DEF Tick, Raise, KeyboardInv, ServiceInv, PicOK
    <3>2. CASE \E l \in Wired : Device(l)
      BY <3>2, InterruptsAssumption DEF Device, Raise, KeyboardInv, ServiceInv, PicOK
    <3>3. CASE Remap
      BY <3>3 DEF Remap, RemapPic, KeyboardInv, ServiceInv, PicOK
    <3>4. CASE InitIdt
      BY <3>4 DEF InitIdt, ClearIrqMask, KeyboardInv, ServiceInv, PicOK
    <3>5. CASE SetPit \/ InitTask \/ Close \/ Open \/ GetKey \/ Rest \/ UNCHANGED vars
      BY <3>5 DEF SetPit, InitTask, Close, Open, GetKey, Rest, vars, picVars
    <3> QED BY <1>4, <3>1, <3>2, <3>3, <3>4, <3>5
  <2>3. Serving(Keyboard)' = Serving(Keyboard)
    BY <2>1 DEF Serving
  <2>4. Serving(Keyboard)' => bytes # <<>> /\ Keyboard \notin pic'.irr
    BY <1>1, <2>2, <2>3 DEF QueueOK
  <2> QED BY <1>1, <2>1, <2>2, <2>4, QueueRests
<1>5. ASSUME Accept PROVE QueueOK' /\ ShiftOK' /\ Faithful
  <2>1. UNCHANGED <<bytes, held, shift, sure>> /\ key' \in {key, NUL}
    BY <1>5 DEF Accept, keyVars
  <2>2. Source(pic) \in pic.irr
    BY <1>1, <1>5, SourceIsAsked DEF Accept, Interrupted, ServiceInv
  <2>3. pic'.irr = pic.irr \ {Source(pic)}
    BY <1>1, <1>5 DEF Accept, Acknowledge, ServiceInv, PicOK
  <2>4. Serving(Keyboard)' => Source(pic) = Keyboard
    <3> DEFINE g == [line |-> Source(pic), gate |-> IF idt THEN Gate(VectorOf(pic, Source(pic))) ELSE "none"]
    <3>1. frames' = Append(frames, g) /\ g.line = Source(pic)
      BY <1>5 DEF Accept
    <3>2. frames = <<>> \/ frames = <<Trap>>
      BY <1>1, <1>5 DEF Accept, Interrupted, ServiceInv, Service
    <3> HIDE DEF g
    <3>3. frames' = <<g>> \/ frames' = <<Trap, g>>
      <4>1. frames' = Append(frames, g)
        BY <3>1
      <4> QED BY <3>2, <4>1, OnAppend, Zenon
    <3>4. Last(<<g>>) = g /\ Last(<<Trap, g>>) = g
      BY TupleFacts
    <3>5. Last(frames') = g
      BY <3>3, <3>4
    <3> QED BY <3>1, <3>5 DEF Serving
  <2>5. Serving(Keyboard)' => bytes # <<>> /\ Keyboard \notin pic'.irr
    BY <1>1, <2>2, <2>3, <2>4 DEF QueueOK
  <2> QED BY <1>1, <2>1, <2>3, <2>5, QueueRests
<1>6. ASSUME TimerReturn \/ TimerSwitch \/ DefaultHandler \/ ExceptionHandler \/ Fault
      PROVE  QueueOK' /\ ShiftOK' /\ Faithful
  <2>1. UNCHANGED <<bytes, held, shift, sure>> /\ key' \in {key, NUL}
    BY <1>6 DEF TimerReturn, TimerSwitch, DefaultHandler, ExceptionHandler, Fault, keyVars
  <2>2. pic'.irr = pic.irr
    BY <1>1, <1>6, LineFacts
    DEF TimerReturn, TimerSwitch, DefaultHandler, ExceptionHandler, Fault, SendPicEoi, EndMaster, ServiceInv, PicOK
  <2>3. frames' \in Quiet
    <3>1. CASE TimerSwitch \/ Fault
      BY <3>1 DEF TimerSwitch, Fault, Quiet, Trap
    <3>2. CASE TimerReturn
      BY <1>1, <3>2, InFacts, OnTop DEF TimerReturn, Iret, ServiceInv
    <3>3. CASE DefaultHandler
      BY <1>1, <3>3, InFacts, OnTop DEF DefaultHandler, Iret, ServiceInv
    <3>4. CASE ExceptionHandler
      BY <1>1, <3>4, InFacts, TupleFacts DEF ExceptionHandler, Iret, ServiceInv, Quiet
    <3> QED BY <1>6, <3>1, <3>2, <3>3, <3>4
  <2>4. ~Serving(Keyboard)'
    BY <2>3, QuietServesNone, LineFacts DEF Serving
  <2> QED BY <1>1, <2>1, <2>2, <2>4, QueueRests
<1>7. QueueOK' /\ ShiftOK' /\ Faithful
  BY <1>2, <1>3, <1>4, <1>5, <1>6 DEF Next, Processor
<1> QED BY <1>1, <1>7 DEF KeyboardInv

(* The types, no more than two handlers at a time, and a byte for every     *)
(* interrupt of the keyboard.                                               *)
THEOREM TypeCorrect == Spec => []TypeOK
<1>1. KeyboardInv => TypeOK
  <2> SUFFICES ASSUME KeyboardInv PROVE TypeOK
    OBVIOUS
  <2>1. \A f \in Handled : f.line \in Line /\ f.gate \in Gates
    BY HandledFacts DEF Gates
  <2>2. Trap.line = -1 /\ Trap.gate \in Gates
    BY DEF Trap, Gates
  <2>3. Len(frames) <= 2 /\ \A j \in DOMAIN frames : frames[j].line \in Line \union {-1} /\ frames[j].gate \in Gates
    <3>1. CASE frames = <<>>
      BY <3>1
    <3>2. CASE frames = <<Trap>>
      BY <2>2, <3>2
    <3>3. CASE \E f \in Handled : frames = <<f>> \/ frames = <<Trap, f>>
      <4>1. PICK f \in Handled : frames = <<f>> \/ frames = <<Trap, f>>
        BY <3>3
      <4>2. \A j \in DOMAIN frames : frames[j] = f \/ frames[j] = Trap
        BY <4>1
      <4>3. Len(frames) <= 2
        BY <4>1
      <4> QED BY <2>1, <2>2, <4>2, <4>3
    <3> QED BY <3>1, <3>2, <3>3 DEF KeyboardInv, ServiceInv, Service
  <2>4. In("keyboard") => bytes # <<>>
    <3> SUFFICES ASSUME In("keyboard") PROVE bytes # <<>>
      OBVIOUS
    <3>1. Serving(Keyboard)
      BY InFacts DEF KeyboardInv, ServiceInv, Serving, In
    <3> QED BY <3>1 DEF KeyboardInv, QueueOK
  <2>5. pic.irr \subseteq Line /\ pic.isr \subseteq Line /\ pic.imr \subseteq Line
    BY DEF KeyboardInv, ServiceInv, PicOK
  <2> QED BY <2>3, <2>4, <2>5 DEF TypeOK, KeyboardInv, ServiceInv, Steps, QueueOK
<1> QED BY <1>1, ServiceAtStart, KeyboardAtStart, KeyboardKept, PTL DEF Spec, KeyboardInv

(* A key gives the character it was typed for, however many bytes wait: the  *)
(* flag of the handler follows the shift keys in the order of the bytes.    *)
THEOREM KeysAreTranslated == Spec => KeysTranslated
<1>1. KeyboardInv /\ [Next]_vars =>
        [bytes # <<>> /\ bytes' = Tail(bytes) /\ Head(bytes).make /\ Head(bytes).key \in Plain /\ sure
           => key' = <<Head(bytes).key, Head(bytes).shifted>>]_vars
  BY KeyboardKept DEF Faithful
<1>2. Init => KeyboardInv
  BY ServiceAtStart, KeyboardAtStart DEF KeyboardInv
<1> QED BY <1>1, <1>2, KeyboardKept, PTL DEF Spec, KeysTranslated
=============================================================================
