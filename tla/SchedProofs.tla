----------------------------- MODULE SchedProofs -----------------------------
(***************************************************************************)
(* What the runs of MCSched check for three tasks, for every number of      *)
(* tasks, every priority, clock and set of sleeping times and keys.         *)
(***************************************************************************)
EXTENDS Sched, SequenceTheorems, TLAPS

(* The shapes of a kernel stack: what may lie on what.                      *)
Waiting    == {"key_wait", "key_seen"}
Walking    == InSchedule \union {"sched_back"}
BootLabels == {"boot_load", "boot_sched"}
IdleBases  == {"boot_load", "boot_sched", "halt", "idle"}
UserBases  == {"trampoline", "user"}

Shape(s, t) ==
  /\ s \in Stacks /\ Len(s) > 0
  /\ s[1].owner = t
  /\ s[1].at \in (IF t = 0 THEN IdleBases ELSE UserBases)
  /\ \/ Len(s) = 1 /\ s[1].at # "boot_sched"
     \/ Len(s) = 2 /\ s[1].at = "boot_sched" /\ s[2].at \in Walking
     \/ Len(s) = 2 /\ s[1].at = "user" /\ s[2].at \in Waiting
     \/ Len(s) = 3 /\ s[1].at = "user" /\ s[2].at \in {"sleep", "exit"} /\ s[3].at \in Walking
     \/ Len(s) = 3 /\ s[1].at \notin BootLabels /\ s[2].at = "timer" /\ s[3].at \in Walking
     \/ Len(s) = 4 /\ s[1].at = "user" /\ s[2].at \in Waiting /\ s[3].at = "timer" /\ s[4].at \in Walking

OnBoot(s)  == Head(s).at \in BootLabels
HasExit(s) == Len(s) >= 2 /\ s[2].at = "exit"
-----------------------------------------------------------------------------
(* Stacks. *)

LEMMA LabelFacts ==
  /\ Walking \subseteq Labels /\ Waiting \subseteq Labels /\ IdleBases \subseteq Labels
  /\ UserBases \subseteq Labels
BY DEF Labels, Walking, Waiting, IdleBases, UserBases, InSchedule

LEMMA FrameFacts ==
  ASSUME NEW l \in Labels
  PROVE  /\ Frame(l) \in Frames /\ Frame(l).at = l /\ Frame(l).hit = FALSE
         /\ \A t \in Task : Base(l, t) \in Frames /\ Base(l, t).at = l /\ Base(l, t).owner = t
BY DEF Frame, Frames, Base

LEMMA FrontFacts ==
  ASSUME NEW s \in Stacks, Len(s) > 0
  PROVE  /\ Len(s) \in Nat /\ \A k \in 1 .. Len(s) : s[k] \in Frames
         /\ Front(s) \in Stacks /\ Len(Front(s)) = Len(s) - 1
         /\ \A k \in 1 .. (Len(s) - 1) : Front(s)[k] = s[k]
<1> DEFINE n == Len(s)
<1>1. n \in Nat /\ n > 0 /\ s \in Seq(Frames) /\ \A k \in 1 .. n : s[k] \in Frames
  BY ElementOfSeq, LenProperties DEF Stacks
<1>2. \A k \in 1 .. (n - 1) : k \in 1 .. n
  BY <1>1
<1>3. [k \in 1 .. (n - 1) |-> s[k]] \in Seq(Frames)
  BY <1>1, <1>2
<1>4. Len([k \in 1 .. (n - 1) |-> s[k]]) = n - 1
  BY <1>1
<1>5. Front(s) = [k \in 1 .. (n - 1) |-> s[k]]
  <2>1. Front(s) = SubSeq(s, 1, n - 1)
    BY DEF Front
  <2>2. SubSeq(s, 1, n - 1) = [k \in 1 .. (n - 1) |-> s[k]]
    BY <1>1
  <2> QED BY <2>1, <2>2
<1> HIDE DEF n
<1> QED BY <1>1, <1>3, <1>4, <1>5 DEF Stacks, n

Push(s, f) == Append(s, f)

LEMMA PushFacts ==
  ASSUME NEW s \in Stacks, NEW f \in Frames
  PROVE  /\ Push(s, f) \in Stacks /\ Len(Push(s, f)) = Len(s) + 1 /\ Len(s) \in Nat
         /\ \A k \in 1 .. Len(s) : Push(s, f)[k] = s[k]
         /\ Push(s, f)[Len(s) + 1] = f
BY AppendProperties, LenProperties DEF Stacks, Push

(* The frame on top is replaced. *)
Retop(s, f) == Push(Front(s), f)

LEMMA RetopFacts ==
  ASSUME NEW s \in Stacks, Len(s) > 0, NEW f \in Frames
  PROVE  /\ Retop(s, f) \in Stacks /\ Len(Retop(s, f)) = Len(s)
         /\ \A k \in 1 .. (Len(s) - 1) : Retop(s, f)[k] = s[k]
         /\ Retop(s, f)[Len(s)] = f
<1>1. Len(s) \in Nat
  BY FrontFacts
<1> QED BY <1>1, FrontFacts, PushFacts DEF Retop

LEMMA TopFacts ==
  ASSUME NEW s \in Stacks, Len(s) > 0
  PROVE  /\ Last(s) = s[Len(s)] /\ Last(s) \in Frames /\ Head(s) = s[1] /\ Head(s) \in Frames
         /\ Owner(s) = s[1].owner /\ Len(s) \in Nat
<1>1. Len(s) \in Nat /\ 1 \in 1 .. Len(s) /\ Len(s) \in 1 .. Len(s)
  BY FrontFacts
<1>2. s[1] \in Frames /\ s[Len(s)] \in Frames
  BY <1>1, FrontFacts
<1>3. Head(s) = s[1]
  BY <1>1 DEF Stacks
<1> QED BY <1>1, <1>2, <1>3 DEF Last, Owner

(* The same for the depths a kernel stack has, one by one. *)
LEMMA Pushed ==
  ASSUME NEW s \in Stacks, NEW f \in Frames
  PROVE  /\ Push(s, f) \in Stacks
         /\ Len(s) = 1 => Len(Push(s, f)) = 2 /\ Push(s, f)[1] = s[1] /\ Push(s, f)[2] = f
         /\ Len(s) = 2 => Len(Push(s, f)) = 3 /\ Push(s, f)[1] = s[1] /\ Push(s, f)[2] = s[2]
                          /\ Push(s, f)[3] = f
         /\ Len(s) = 3 => Len(Push(s, f)) = 4 /\ Push(s, f)[1] = s[1] /\ Push(s, f)[2] = s[2]
                          /\ Push(s, f)[3] = s[3] /\ Push(s, f)[4] = f
<1> DEFINE r == Push(s, f)
<1>1. /\ r \in Stacks /\ Len(r) = Len(s) + 1 /\ Len(s) \in Nat
      /\ \A k \in 1 .. Len(s) : r[k] = s[k]
      /\ r[Len(s) + 1] = f
  BY PushFacts
<1> HIDE DEF r
<1>2. CASE Len(s) = 1 BY <1>1, <1>2 DEF r
<1>3. CASE Len(s) = 2 BY <1>1, <1>3 DEF r
<1>4. CASE Len(s) = 3 BY <1>1, <1>4 DEF r
<1> QED BY <1>1, <1>2, <1>3, <1>4 DEF r

LEMMA Popped ==
  ASSUME NEW s \in Stacks
  PROVE  /\ Len(s) > 0 => Front(s) \in Stacks
         /\ Len(s) = 2 => Len(Front(s)) = 1 /\ Front(s)[1] = s[1]
         /\ Len(s) = 3 => Len(Front(s)) = 2 /\ Front(s)[1] = s[1] /\ Front(s)[2] = s[2]
         /\ Len(s) = 4 => Len(Front(s)) = 3 /\ Front(s)[1] = s[1] /\ Front(s)[2] = s[2]
                          /\ Front(s)[3] = s[3]
<1> SUFFICES ASSUME Len(s) > 0
             PROVE  /\ Front(s) \in Stacks
                    /\ Len(s) = 2 => Len(Front(s)) = 1 /\ Front(s)[1] = s[1]
                    /\ Len(s) = 3 => Len(Front(s)) = 2 /\ Front(s)[1] = s[1] /\ Front(s)[2] = s[2]
                    /\ Len(s) = 4 => Len(Front(s)) = 3 /\ Front(s)[1] = s[1] /\ Front(s)[2] = s[2]
                                     /\ Front(s)[3] = s[3]
  OBVIOUS
<1> DEFINE r == Front(s)
<1>1. /\ r \in Stacks /\ Len(r) = Len(s) - 1 /\ Len(s) \in Nat
      /\ \A k \in 1 .. (Len(s) - 1) : r[k] = s[k]
  BY FrontFacts
<1> HIDE DEF r
<1>2. CASE Len(s) = 2 BY <1>1, <1>2 DEF r
<1>3. CASE Len(s) = 3 BY <1>1, <1>3 DEF r
<1>4. CASE Len(s) = 4 BY <1>1, <1>4 DEF r
<1> QED BY <1>1, <1>2, <1>3, <1>4 DEF r

LEMMA Retopped ==
  ASSUME NEW s \in Stacks, NEW f \in Frames
  PROVE  /\ Len(s) > 0 => Retop(s, f) \in Stacks /\ Len(Retop(s, f)) = Len(s)
         /\ Len(s) = 1 => Retop(s, f)[1] = f
         /\ Len(s) = 2 => Retop(s, f)[1] = s[1] /\ Retop(s, f)[2] = f
         /\ Len(s) = 3 => Retop(s, f)[1] = s[1] /\ Retop(s, f)[2] = s[2] /\ Retop(s, f)[3] = f
         /\ Len(s) = 4 => Retop(s, f)[1] = s[1] /\ Retop(s, f)[2] = s[2] /\ Retop(s, f)[3] = s[3]
                          /\ Retop(s, f)[4] = f
<1> DEFINE r == Retop(s, f)
<1>1. Len(s) > 0 => /\ r \in Stacks /\ Len(r) = Len(s)
                    /\ \A k \in 1 .. (Len(s) - 1) : r[k] = s[k]
                    /\ r[Len(s)] = f
  BY RetopFacts
<1> HIDE DEF r
<1>2. CASE Len(s) = 1 BY <1>1, <1>2 DEF r
<1>3. CASE Len(s) = 2 BY <1>1, <1>3 DEF r
<1>4. CASE Len(s) = 3 BY <1>1, <1>4 DEF r
<1>5. CASE Len(s) = 4 BY <1>1, <1>5 DEF r
<1> QED BY <1>1, <1>2, <1>3, <1>4, <1>5 DEF r

LEMMA Tops ==
  ASSUME NEW s \in Stacks, NEW t, Shape(s, t)
  PROVE  /\ Len(s) = 1 => Last(s) = s[1]
         /\ Len(s) = 2 => Last(s) = s[2]
         /\ Len(s) = 3 => Last(s) = s[3]
         /\ Len(s) = 4 => Last(s) = s[4]
         /\ Head(s) = s[1] /\ Owner(s) = t /\ s[1].owner = t /\ Last(s) \in Frames
         /\ Len(s) \in {1, 2, 3, 4}
<1>1. Len(s) > 0 /\ s[1].owner = t /\ Len(s) \in {1, 2, 3, 4}
  BY DEF Shape
<1>2. Last(s) = s[Len(s)] /\ Head(s) = s[1] /\ Owner(s) = s[1].owner /\ Last(s) \in Frames
  BY <1>1, TopFacts
<1> QED BY <1>1, <1>2

LEMMA MovedIsRetop ==
  ASSUME NEW s \in Stacks, Len(s) > 0, NEW l \in Labels
  PROVE  Moved(s, l) = Retop(s, [Last(s) EXCEPT !.at = l])
<1> DEFINE n == Len(s)
           e == [s[n] EXCEPT !.at = l]
           r == [s EXCEPT ![n] = e]
<1>1. n \in Nat /\ n \in 1 .. n /\ s[n] \in Frames /\ Last(s) = s[n] /\ s \in Seq(Frames)
  BY TopFacts, FrontFacts DEF Stacks
<1>2. e \in Frames
  BY <1>1 DEF Frames
<1>3. Moved(s, l) = r /\ e = [Last(s) EXCEPT !.at = l]
  BY <1>1 DEF Moved
<1> HIDE DEF e
<1>4. r \in Seq(Frames) /\ Len(r) = n /\ \A j \in 1 .. n : r[j] = IF j = n THEN e ELSE s[j]
  BY <1>1, <1>2, ExceptSeq
<1>5. /\ Retop(s, e) \in Seq(Frames) /\ Len(Retop(s, e)) = n
      /\ \A k \in 1 .. (n - 1) : Retop(s, e)[k] = s[k]
      /\ Retop(s, e)[n] = e
  BY <1>2, RetopFacts DEF Stacks
<1> HIDE DEF r
<1>6. \A j \in 1 .. n : Retop(s, e)[j] = r[j]
  <2> SUFFICES ASSUME NEW j \in 1 .. n PROVE Retop(s, e)[j] = r[j]
    OBVIOUS
  <2>1. CASE j = n BY <1>4, <1>5, <2>1
  <2>2. CASE j # n
    <3>1. j \in 1 .. (n - 1)
      BY <1>1, <2>2
    <3> QED BY <1>4, <1>5, <2>2, <3>1
  <2> QED BY <2>1, <2>2
<1>7. Retop(s, e) = r
  BY <1>4, <1>5, <1>6, SeqEqual
<1> QED BY <1>3, <1>7

(* What may take the place of a frame without a change of shape.            *)
Alike(a, b) ==
  \/ a = b \/ (a \in Walking /\ b \in Walking) \/ (a \in Waiting /\ b \in Waiting)
  \/ (a = "trampoline" /\ b = "user") \/ (a = "boot_sched" /\ b = "halt")

LEMMA RetopKeeps ==
  ASSUME NEW s \in Stacks, NEW t \in Task, Shape(s, t),
         NEW f \in Frames, f.owner = Last(s).owner, Alike(Last(s).at, f.at)
  PROVE  /\ Shape(Retop(s, f), t) /\ Last(Retop(s, f)) = f
         /\ Owner(Retop(s, f)) = t
         /\ HasExit(Retop(s, f)) <=> HasExit(s)
         /\ OnBoot(Retop(s, f)) <=> OnBoot(s)
<1> DEFINE r == Retop(s, f)
           n == Len(s)
<1>1. n \in Nat /\ n > 0 /\ Last(s) = s[n] /\ Head(s) = s[1] /\ Owner(s) = t
  BY TopFacts DEF Shape
<1>2. /\ r \in Stacks /\ Len(r) = n /\ \A k \in 1 .. (n - 1) : r[k] = s[k]
      /\ r[n] = f
  BY <1>1, RetopFacts
<1>3. n \in {1, 2, 3, 4}
  BY DEF Shape
<1>4. Last(r) = f /\ Owner(r) = r[1].owner /\ Head(r) = r[1]
  BY <1>1, <1>2, TopFacts
<1> HIDE DEF r
<1>5. CASE n = 1
  <2>1. r[1] = f
    BY <1>2, <1>5
  <2>2. r[1].owner = t
    BY <1>1, <1>5, <2>1 DEF Shape
  <2>3. /\ s[1].at \notin Walking /\ s[1].at \notin Waiting /\ s[1].at # "boot_sched"
        /\ s[1].at \in (IF t = 0 THEN IdleBases ELSE UserBases)
    BY <1>5 DEF Shape, Walking, InSchedule, Waiting, IdleBases, UserBases
  <2>4. r[1].at = s[1].at \/ (s[1].at = "trampoline" /\ r[1].at = "user")
    BY <1>1, <1>5, <2>1, <2>3 DEF Alike
  <2>5. Shape(r, t)
    <3>1. r[1].at \in (IF t = 0 THEN IdleBases ELSE UserBases) /\ r[1].at # "boot_sched"
      BY <2>3, <2>4 DEF IdleBases, UserBases
    <3> QED BY <1>2, <1>5, <2>2, <3>1 DEF Shape
  <2>6. ~HasExit(r) /\ ~HasExit(s)
    BY <1>2, <1>5 DEF HasExit
  <2>7. OnBoot(r) <=> OnBoot(s)
    BY <1>1, <1>4, <2>4 DEF OnBoot, BootLabels
  <2> QED BY <1>4, <2>2, <2>5, <2>6, <2>7 DEF r
<1>6. CASE n = 2
  <2>1. r[1] = s[1] /\ r[2] = f
    BY <1>2, <1>6
  <2>2. s[2].at \in Walking \/ s[2].at \in Waiting
    BY <1>6 DEF Shape
  <2>3. (s[2].at \in Walking /\ f.at \in Walking) \/ (s[2].at \in Waiting /\ f.at \in Waiting)
    BY <1>1, <1>6, <2>2 DEF Alike, Walking, Waiting, InSchedule
  <2>4. Shape(r, t)
    BY <1>2, <1>6, <2>1, <2>3 DEF Shape, Walking, Waiting, InSchedule
  <2>5. ~HasExit(r) /\ ~HasExit(s)
    BY <1>2, <1>6, <2>1, <2>3 DEF HasExit, Walking, Waiting, InSchedule
  <2>6. OnBoot(r) <=> OnBoot(s)
    BY <1>1, <1>4, <2>1 DEF OnBoot
  <2> QED BY <1>4, <2>1, <2>4, <2>5, <2>6 DEF Shape, r
<1>7. CASE n \in {3, 4}
  <2>1. r[1] = s[1] /\ r[2] = s[2] /\ (n = 4 => r[3] = s[3]) /\ r[n] = f
    BY <1>2, <1>7
  <2>2. s[n].at \in Walking
    <3>1. CASE n = 3 BY <3>1 DEF Shape
    <3>2. CASE n = 4 BY <3>2 DEF Shape
    <3> QED BY <1>7, <3>1, <3>2
  <2>3. f.at \in Walking
    BY <1>1, <2>2 DEF Alike, Walking, Waiting, InSchedule
  <2>4. Shape(r, t)
    <3>1. r \in Stacks /\ Len(r) = n
      BY <1>2
    <3>2. CASE n = 3 BY <2>1, <2>3, <3>1, <3>2 DEF Shape
    <3>3. CASE n = 4 BY <2>1, <2>3, <3>1, <3>3 DEF Shape
    <3> QED BY <1>7, <3>2, <3>3
  <2>5. HasExit(r) <=> HasExit(s)
    <3>1. Len(r) = Len(s) /\ r[2] = s[2]
      BY <1>2, <2>1
    <3> QED BY <3>1 DEF HasExit
  <2>6. OnBoot(r) <=> OnBoot(s)
    BY <1>1, <1>4, <2>1 DEF OnBoot
  <2> QED BY <1>4, <2>1, <2>4, <2>5, <2>6 DEF Shape, r
<1> QED BY <1>3, <1>5, <1>6, <1>7

(* A timer interrupt whose handler calls schedule(). *)
LEMMA TimerPushes ==
  ASSUME NEW s \in Stacks, NEW t \in Task, Shape(s, t), Last(s).at \notin Walking \union {"boot_load"},
         NEW f \in Frames, f.at = Last(s).at, f.owner = Last(s).owner
  PROVE  LET r == Front(s) \o <<f, Frame("timer"), ScheduleCall>>
         IN  /\ Shape(r, t) /\ Last(r) = ScheduleCall /\ Owner(r) = t
             /\ ~HasExit(r) /\ ~OnBoot(r)
<1> DEFINE r == Front(s) \o <<f, Frame("timer"), ScheduleCall>>
           m == Retop(s, f)
           a == Push(m, Frame("timer"))
<1>1. r = Push(a, ScheduleCall)
  <2>1. Front(s) \in Seq(Frames) /\ Frame("timer") \in Frames /\ ScheduleCall \in Frames
    BY FrontFacts, FrameFacts DEF Shape, Stacks, ScheduleCall, Labels, InSchedule
  <2> QED BY <2>1 DEF Retop, Push
<1>2. /\ Frame("timer") \in Frames /\ Frame("timer").at = "timer"
      /\ ScheduleCall \in Frames /\ ScheduleCall.at \in Walking
  BY FrameFacts DEF Labels, InSchedule, ScheduleCall, Walking
<1>3. s[1].owner = t /\ s[1].at \in (IF t = 0 THEN IdleBases ELSE UserBases)
  BY DEF Shape
<1> HIDE DEF r
<1>4. CASE Len(s) = 1
  <2>1. s[1].at \notin BootLabels /\ f.at = s[1].at /\ f.owner = t
    BY <1>4, <1>3, Tops DEF Shape, BootLabels
  <2>2. m \in Stacks /\ Len(m) = 1 /\ m[1] = f
    <3>1. Len(s) > 0 /\ Len(s) = 1
      BY <1>4
    <3>2. m \in Stacks /\ Len(m) = Len(s)
      BY <3>1, Retopped
    <3>3. m[1] = f
      BY <3>1, Retopped
    <3> QED BY <3>1, <3>2, <3>3
  <2> HIDE DEF m
  <2>3. a \in Stacks /\ Len(a) = 2 /\ a[1] = f /\ a[2] = Frame("timer")
    BY <1>2, <2>2, Pushed
  <2> HIDE DEF a
  <2>4. r \in Stacks /\ Len(r) = 3 /\ r[1] = f /\ r[2] = Frame("timer") /\ r[3] = ScheduleCall
    BY <1>1, <1>2, <2>3, Pushed
  <2>5. Shape(r, t)
    BY <1>2, <1>3, <2>1, <2>4 DEF Shape
  <2>6. ~HasExit(r)
    BY <1>2, <2>4 DEF HasExit
  <2>7. Last(r) = ScheduleCall /\ Owner(r) = t /\ Head(r) = f
    BY <2>4, <2>5, Tops
  <2> QED BY <2>1, <2>5, <2>6, <2>7 DEF OnBoot, r
<1>5. CASE Len(s) = 2
  <2>1. s[1].at = "user" /\ s[2].at \in Waiting /\ f.at = s[2].at
    BY <1>5, Tops DEF Shape
  <2>2. m \in Stacks /\ Len(m) = 2 /\ m[1] = s[1] /\ m[2] = f
    BY <1>5, Retopped
  <2> HIDE DEF m
  <2>3. a \in Stacks /\ Len(a) = 3 /\ a[1] = s[1] /\ a[2] = f /\ a[3] = Frame("timer")
    BY <1>2, <2>2, Pushed
  <2> HIDE DEF a
  <2>4. r \in Stacks /\ Len(r) = 4 /\ r[1] = s[1] /\ r[2] = f /\ r[3] = Frame("timer")
        /\ r[4] = ScheduleCall
    BY <1>1, <1>2, <2>3, Pushed
  <2>5. Shape(r, t)
    BY <1>2, <1>3, <2>1, <2>4 DEF Shape
  <2>6. ~HasExit(r)
    BY <2>1, <2>4 DEF HasExit, Waiting
  <2>7. Last(r) = ScheduleCall /\ Owner(r) = t /\ Head(r) = s[1]
    BY <2>4, <2>5, Tops
  <2> QED BY <2>1, <2>5, <2>6, <2>7 DEF OnBoot, r, BootLabels
<1>6. Len(s) # 3 /\ Len(s) # 4
  BY Tops DEF Shape
<1>7. Len(s) \in {1, 2, 3, 4}
  BY Tops
<1> QED BY <1>4, <1>5, <1>6, <1>7

(* The stack of a task in ring 3 is empty but for its base. *)
LEMMA InUser ==
  ASSUME NEW s \in Stacks, NEW t \in Task, Shape(s, t), Last(s).at = "user"
  PROVE  Len(s) = 1 /\ s[1].at = "user" /\ s[1].owner = t /\ t # 0
<1>1. Len(s) # 2 /\ Len(s) # 3 /\ Len(s) # 4
  BY Tops DEF Shape, Walking, Waiting, InSchedule
<1>2. Len(s) = 1
  BY <1>1, Tops
<1>3. s[1].at = "user" /\ s[1].owner = t
  BY <1>2, Tops
<1> QED BY <1>2, <1>3 DEF Shape, IdleBases

(* A system call that ends in schedule(). *)
LEMMA CallPushes ==
  ASSUME NEW s \in Stacks, NEW t \in Task, Shape(s, t), Last(s).at = "user", NEW c \in {"sleep", "exit"}
  PROVE  LET r == s \o <<Frame(c), ScheduleCall>>
         IN  /\ Shape(r, t) /\ Last(r) = ScheduleCall /\ Owner(r) = t
             /\ (c # "exit" => ~HasExit(r)) /\ ~OnBoot(r)
<1> DEFINE r == s \o <<Frame(c), ScheduleCall>>
           a == Push(s, Frame(c))
<1>1. r = Push(a, ScheduleCall)
  <2>1. s \in Seq(Frames) /\ Frame(c) \in Frames /\ ScheduleCall \in Frames
    BY FrameFacts DEF Shape, Stacks, ScheduleCall, Labels, InSchedule
  <2> QED BY <2>1 DEF Push
<1>2. /\ Frame(c) \in Frames /\ Frame(c).at = c
      /\ ScheduleCall \in Frames /\ ScheduleCall.at \in Walking
  BY FrameFacts DEF Labels, InSchedule, ScheduleCall, Walking
<1>3. Len(s) = 1 /\ s[1].at = "user" /\ s[1].owner = t /\ t # 0
  BY InUser
<1>4. a \in Stacks /\ Len(a) = 2 /\ a[1] = s[1] /\ a[2] = Frame(c)
  BY <1>2, <1>3, Pushed
<1> HIDE DEF a, r
<1>5. r \in Stacks /\ Len(r) = 3 /\ r[1] = s[1] /\ r[2] = Frame(c) /\ r[3] = ScheduleCall
  BY <1>1, <1>2, <1>4, Pushed
<1>6. Shape(r, t)
  BY <1>2, <1>3, <1>5 DEF Shape, UserBases
<1>7. c # "exit" => ~HasExit(r)
  BY <1>2, <1>5 DEF HasExit
<1>8. Last(r) = ScheduleCall /\ Owner(r) = t /\ Head(r) = r[1]
  BY <1>5, <1>6, Tops
<1>9. ~OnBoot(r)
  BY <1>3, <1>5, <1>8 DEF OnBoot, BootLabels
<1> QED BY <1>6, <1>7, <1>8, <1>9 DEF r

(* sys_getkey waits on top of the task; its wait ends on the task. *)
LEMMA WaitPushes ==
  ASSUME NEW s \in Stacks, NEW t \in Task, Shape(s, t), Last(s).at = "user"
  PROVE  LET r == Append(s, Frame("key_wait"))
         IN  /\ Shape(r, t) /\ Last(r) = Frame("key_wait") /\ Owner(r) = t
             /\ ~HasExit(r) /\ ~OnBoot(r)
<1> DEFINE r == Push(s, Frame("key_wait"))
<1>1. Frame("key_wait") \in Frames /\ Frame("key_wait").at = "key_wait"
  BY FrameFacts DEF Labels
<1>2. Len(s) = 1 /\ s[1].at = "user" /\ s[1].owner = t /\ t # 0
  BY InUser
<1>3. r \in Stacks /\ Len(r) = 2 /\ r[1] = s[1] /\ r[2] = Frame("key_wait")
  BY <1>1, <1>2, Pushed
<1> HIDE DEF r
<1>4. Shape(r, t) /\ ~HasExit(r)
  BY <1>1, <1>2, <1>3 DEF Shape, HasExit, Waiting, UserBases
<1>5. Last(r) = Frame("key_wait") /\ Owner(r) = t /\ Head(r) = r[1]
  BY <1>3, <1>4, Tops
<1>6. ~OnBoot(r)
  BY <1>2, <1>3, <1>5 DEF OnBoot, BootLabels
<1> QED BY <1>4, <1>5, <1>6 DEF r, Push

LEMMA WaitPops ==
  ASSUME NEW s \in Stacks, NEW t \in Task, Shape(s, t), Last(s).at \in Waiting
  PROVE  /\ Shape(Front(s), t) /\ Last(Front(s)).at = "user" /\ Owner(Front(s)) = t
         /\ ~HasExit(Front(s)) /\ ~OnBoot(Front(s))
<1> DEFINE r == Front(s)
<1>1. Len(s) = 2 /\ s[1].at = "user" /\ s[1].owner = t /\ t # 0
  <2>1. Len(s) # 1 /\ Len(s) # 3 /\ Len(s) # 4
    BY Tops DEF Shape, Walking, Waiting, InSchedule, IdleBases, UserBases
  <2>2. Len(s) = 2
    BY <2>1, Tops
  <2>3. s[1].at = "user"
    BY <2>2, Tops DEF Shape, Walking, Waiting, InSchedule
  <2> QED BY <2>2, <2>3 DEF Shape, IdleBases
<1>2. r \in Stacks /\ Len(r) = 1 /\ r[1] = s[1]
  BY <1>1, Popped
<1> HIDE DEF r
<1>3. Shape(r, t) /\ ~HasExit(r)
  BY <1>1, <1>2 DEF Shape, HasExit, UserBases
<1>4. Last(r) = r[1] /\ Owner(r) = t /\ Head(r) = r[1]
  BY <1>2, <1>3, Tops
<1>5. ~OnBoot(r)
  BY <1>1, <1>2, <1>4 DEF OnBoot, BootLabels
<1> QED BY <1>1, <1>2, <1>3, <1>4, <1>5 DEF r

(* HAL_Initialize calls schedule(). *)
LEMMA BootPushes ==
  ASSUME NEW s \in Stacks, NEW t \in Task, Shape(s, t), Last(s).at = "boot_load"
  PROVE  LET r == Append(Moved(s, "boot_sched"), ScheduleCall)
         IN  /\ Shape(r, t) /\ Last(r) = ScheduleCall /\ Owner(r) = t
             /\ ~HasExit(r) /\ OnBoot(r) /\ OnBoot(s) /\ t = 0
<1> DEFINE m == Moved(s, "boot_sched")
           f == [Last(s) EXCEPT !.at = "boot_sched"]
           r == Push(m, ScheduleCall)
<1>1. ScheduleCall \in Frames /\ ScheduleCall.at \in Walking
  BY FrameFacts DEF Labels, InSchedule, ScheduleCall, Walking
<1>2. Len(s) = 1 /\ s[1].at = "boot_load" /\ s[1].owner = t /\ t = 0
  <2>1. Len(s) # 2 /\ Len(s) # 3 /\ Len(s) # 4
    BY Tops DEF Shape, Walking, Waiting, InSchedule
  <2>2. Len(s) = 1
    BY <2>1, Tops
  <2>3. s[1].at = "boot_load" /\ s[1].owner = t
    BY <2>2, Tops
  <2> QED BY <2>2, <2>3 DEF Shape, UserBases
<1>3. Last(s) = s[1] /\ Last(s) \in Frames /\ Head(s) = s[1]
  BY <1>2, Tops
<1>4. f \in Frames /\ f.at = "boot_sched" /\ f.owner = t
  BY <1>2, <1>3 DEF Frames, Labels
<1>5. m = Retop(s, f)
  BY <1>2, MovedIsRetop DEF Labels
<1> HIDE DEF f, m
<1>6. m \in Stacks /\ Len(m) = 1 /\ m[1] = f
  <2>1. f \in Frames /\ Len(s) = 1 /\ m = Retop(s, f)
    BY <1>2, <1>4, <1>5, Zenon
  <2>2. Len(s) > 0
    BY <2>1
  <2> QED BY <2>1, <2>2, Retopped, Zenon
<1>7. r \in Stacks /\ Len(r) = 2 /\ r[1] = f /\ r[2] = ScheduleCall
  BY <1>1, <1>6, Pushed
<1> HIDE DEF r
<1>8. Shape(r, t)
  BY <1>1, <1>2, <1>4, <1>7 DEF Shape, IdleBases
<1>9. ~HasExit(r)
  BY <1>1, <1>7 DEF HasExit, Walking, InSchedule
<1>10. Last(r) = ScheduleCall /\ Owner(r) = t /\ Head(r) = f
  BY <1>7, <1>8, Tops
<1>11. OnBoot(r) /\ OnBoot(s)
  BY <1>2, <1>3, <1>4, <1>10 DEF OnBoot, BootLabels
<1> QED BY <1>2, <1>8, <1>9, <1>10, <1>11 DEF r, m, Push

(* schedule() returns to a handler or a system call, which returns too, or   *)
(* to the boot thread.                                                      *)
LEMMA ReturnPops ==
  ASSUME NEW s \in Stacks, NEW t \in Task, Shape(s, t), Last(s).at = "sched_back", ~HasExit(s)
  PROVE  LET below == Front(s) IN
         /\ Last(below).at \in {"timer", "sleep", "boot_sched"}
         /\ Last(below).at \in {"timer", "sleep"} =>
              /\ Shape(Front(below), t) /\ Owner(Front(below)) = t
              /\ Last(Front(below)).at \notin Walking \union BootLabels
              /\ ~HasExit(Front(below)) /\ ~OnBoot(Front(below)) /\ ~OnBoot(s)
         /\ Last(below).at = "boot_sched" =>
              /\ Shape(Moved(below, "halt"), t) /\ Owner(Moved(below, "halt")) = t
              /\ Last(Moved(below, "halt")).at = "halt"
              /\ ~HasExit(Moved(below, "halt")) /\ ~OnBoot(Moved(below, "halt")) /\ t = 0
<1> DEFINE below == Front(s)
<1>0. s[1].owner = t /\ s[1].at \in (IF t = 0 THEN IdleBases ELSE UserBases) /\ Head(s) = s[1]
  BY Tops DEF Shape
<1>1. CASE Len(s) = 2
  <2>1. s[1].at = "boot_sched"
    BY <1>1, Tops DEF Shape, Waiting
  <2>2. below \in Stacks /\ Len(below) = 1 /\ below[1] = s[1]
    BY <1>1, Popped
  <2> HIDE DEF below
  <2> DEFINE f == [s[1] EXCEPT !.at = "halt"]
             m == Moved(below, "halt")
  <2>3. Last(below) = s[1] /\ Last(below) \in Frames
    BY <2>2, TopFacts
  <2>4. f \in Frames /\ f.at = "halt" /\ f.owner = t
    BY <1>0, <2>3 DEF Frames, Labels
  <2>5. m = Retop(below, f)
    BY <2>2, <2>3, MovedIsRetop, SMTT(20) DEF Labels
  <2> HIDE DEF f, m
  <2>6. m \in Stacks /\ Len(m) = 1 /\ m[1] = f
    BY <2>2, <2>4, <2>5, Retopped
  <2>7. t = 0
    BY <1>0, <2>1 DEF UserBases
  <2>8. Shape(m, t)
    BY <2>4, <2>6, <2>7 DEF Shape, IdleBases
  <2>9. Last(m) = f /\ Owner(m) = t /\ Head(m) = f
    BY <2>6, <2>8, Tops
  <2>10. ~HasExit(m) /\ ~OnBoot(m)
    BY <2>4, <2>6, <2>9 DEF HasExit, OnBoot, BootLabels
  <2> QED BY <2>1, <2>3, <2>4, <2>7, <2>8, <2>9, <2>10 DEF below, m
<1>2. CASE Len(s) = 3
  <2>1. /\ s[2].at \in {"timer", "sleep"}
        /\ s[1].at \notin BootLabels
        /\ s[2].at = "sleep" => s[1].at = "user"
    BY <1>2, Tops DEF Shape, HasExit, BootLabels
  <2>2. below \in Stacks /\ Len(below) = 2 /\ below[1] = s[1] /\ below[2] = s[2]
    BY <1>2, Popped
  <2> HIDE DEF below
  <2> DEFINE r == Front(below)
  <2>3. r \in Stacks /\ Len(r) = 1 /\ r[1] = s[1]
    BY <2>2, Popped
  <2>4. Last(below) = s[2]
    BY <2>2, TopFacts
  <2> HIDE DEF r
  <2>5. s[1].at # "boot_sched" /\ s[1].at \notin Walking
    BY <1>0, <2>1 DEF BootLabels, Walking, InSchedule, IdleBases, UserBases
  <2>6. Shape(r, t)
    BY <1>0, <2>3, <2>5 DEF Shape
  <2>7. Last(r) = s[1] /\ Owner(r) = t /\ Head(r) = s[1]
    BY <2>3, <2>6, Tops
  <2>8. ~HasExit(r) /\ ~OnBoot(r) /\ ~OnBoot(s)
    BY <1>0, <2>1, <2>3, <2>7 DEF HasExit, OnBoot
  <2> QED BY <2>1, <2>4, <2>5, <2>6, <2>7, <2>8 DEF below, r
<1>3. CASE Len(s) = 4
  <2>1. s[1].at = "user" /\ s[2].at \in Waiting /\ s[3].at = "timer"
    BY <1>3 DEF Shape
  <2>2. below \in Stacks /\ Len(below) = 3 /\ below[1] = s[1] /\ below[2] = s[2] /\ below[3] = s[3]
    BY <1>3, Popped
  <2> HIDE DEF below
  <2> DEFINE r == Front(below)
  <2>3. r \in Stacks /\ Len(r) = 2 /\ r[1] = s[1] /\ r[2] = s[2]
    BY <2>2, Popped
  <2>4. Last(below) = s[3]
    <3>1. Last(below) = below[Len(below)]
      BY DEF Last
    <3> QED BY <2>2, <3>1
  <2> HIDE DEF r
  <2>5. Shape(r, t)
    BY <1>0, <2>1, <2>3 DEF Shape
  <2>6. Last(r) = s[2] /\ Owner(r) = t /\ Head(r) = s[1]
    BY <2>3, <2>5, Tops
  <2>7. ~HasExit(r) /\ ~OnBoot(r) /\ ~OnBoot(s)
    BY <1>0, <2>1, <2>3, <2>6 DEF HasExit, OnBoot, BootLabels, Waiting
  <2>8. s[2].at \notin Walking \union BootLabels
    BY <2>1 DEF Waiting, Walking, InSchedule, BootLabels
  <2> QED BY <2>1, <2>4, <2>5, <2>6, <2>7, <2>8 DEF below, r
<1>4. Len(s) # 1
  BY <1>0, Tops DEF Shape, IdleBases, UserBases
<1>5. Len(s) \in {1, 2, 3, 4}
  BY Tops
<1> QED BY <1>1, <1>2, <1>3, <1>4, <1>5
-----------------------------------------------------------------------------
(* The invariant. *)

Me == Owner(stack)

Types ==
  /\ listed \in 1 .. NTasks
  /\ tstate \in [Task -> {"READY", "RUNNING", "PAUSED", "COMPLETED", "BLOCKED"}]
  /\ slice \in [Task -> Nat]
  /\ wake \in [Task -> 0 .. (ClockMod - 1)]
  /\ tss \in Task \union {NoTask}
  /\ irqOn \in BOOLEAN
  /\ clock \in 0 .. (ClockMod - 1)
  /\ left \in [Task -> Nat]
  /\ overflowed \in BOOLEAN
  /\ bootTicks \in 0 .. MaxBootTicks
  /\ nullTick \in BOOLEAN

Shapes ==
  /\ Me \in Task /\ Shape(stack, Me)
  /\ esp \in [Task -> [stack : Stacks, flags : BOOLEAN]]
  /\ \A t \in Task :
       /\ Shape(esp[t].stack, t)
       /\ Last(esp[t].stack).at \in {"sched_back", "idle", "trampoline"}

(* Where current_task is while schedule() walks over the list: behind its   *)
(* own task, until it is at the head again.                                 *)
Walk ==
  /\ cur \in Listed \union {NoTask}
  /\ cur = NoTask => At("sched_wrap")
  /\ Top.at \notin InSchedule \/ At("sched_enter") => cur = Me
  /\ Top.at \in InSchedule /\ ~At("sched_enter") => Top.prev = Me /\ Top.start = Me
  /\ At("sched_spin") \/ At("sched_cli") => Me = 0 /\ cur = 0
  /\ Me # 0 =>
       /\ At("sched_next") => cur >= Me
       /\ At("sched_wrap") => cur = NoTask \/ cur > Me
       /\ At("sched_loop") \/ At("sched_test") => cur = 0 \/ cur > Me

(* One task runs, and none while schedule() looks for one.                  *)
Choosing == Top.at \in {"boot_load", "sched_next", "sched_wrap", "sched_loop", "sched_spin",
                        "sched_cli", "sched_test", "sched_run"}
States ==
  /\ tstate[0] \notin Asleep
  /\ Top.at \notin InSchedule \union {"boot_load"} \/ At("sched_switch") =>
       tstate[cur] = "RUNNING" /\ tss = cur
  /\ At("sched_run") => tstate[cur] \notin Asleep
  /\ \A t \in Task : tstate[t] = "RUNNING" => t = cur /\ ~Choosing
  /\ \A t \in Task : tstate[t] = "BLOCKED" => t \in Listed

(* Who has called exit has ended.                                           *)
Exits ==
  /\ HasExit(stack) => tstate[Me] = "COMPLETED"
  /\ \A t \in Task : t # Me /\ HasExit(esp[t].stack) => tstate[t] = "COMPLETED"

(* Until the boot thread is left for the first time its ticks are the only  *)
(* ones, too few to end a slice, and nobody can have gone to sleep.          *)
FirstWalk ==
  /\ Booting /\ ~At("sched_back") =>
       \A t \in Task : slice[t] + bootTicks >= Priority[t] /\ tstate[t] \notin Asleep
  /\ At("boot_load") => ~nullTick
  /\ nullTick => listed = 1
  /\ Booting /\ listed > 1 =>
       /\ At("sched_next") => cur = 0
       /\ At("sched_wrap") \/ At("sched_loop") \/ At("sched_test") => cur = 1
       /\ ~At("sched_spin") /\ ~At("sched_cli")

(* A tick never ends a slice on top of a schedule(): when it runs with IF    *)
(* set, it is the boot thread's, or the slice of the idle task is fresh.     *)
Ticks ==
  /\ Booting /\ At("sched_back") => slice[0] + bootTicks >= Priority[0]
  /\ OnBoot(esp[0].stack) /\ Me # 0 => slice[0] + bootTicks >= Priority[0]
  /\ Me = 0 /\ ~Booting /\ Top.at \in InSchedule /\ ~Top.hit => slice[0] = Priority[0]
  /\ irqOn /\ Top.at \in Walking => Booting \/ At("sched_spin") \/ At("sched_cli")
  /\ \A t \in Task : esp[t].flags /\ Last(esp[t].stack).at = "sched_back" => OnBoot(esp[t].stack)

(* The time left is the distance from the clock to the wake time.           *)
Sleeps == ~overflowed => \A t \in Task : /\ tstate[t] = "BLOCKED" <=> left[t] > 0
                                         /\ tstate[t] = "BLOCKED" => wake[t] = clock + left[t]

Inv == Types /\ Shapes /\ Walk /\ States /\ Exits /\ FirstWalk /\ Ticks /\ Sleeps

LEMMA TaskFacts ==
  /\ 0 \in Task /\ NoTask \notin Task /\ NoTask = -1
  /\ \A t \in Task : t \in Nat /\ Priority[t] \in Nat /\ Priority[t] > 1 /\ Priority[t] > MaxBootTicks
  /\ MaxBootTicks \in Nat
BY SchedAssumption DEF Task, NoTask

LEMMA ListedFacts ==
  ASSUME Types
  PROVE  Listed \subseteq Task /\ 0 \in Listed
BY SchedAssumption DEF Types, Listed, Task

LEMMA InvAtStart == Init => Inv
<1> SUFFICES ASSUME Init PROVE Inv
  OBVIOUS
<1>1. Types
  <2>1. 1 \in 1 .. NTasks /\ 0 \in 0 .. (ClockMod - 1) /\ 0 \in 0 .. MaxBootTicks
    BY SchedAssumption
  <2>2. overflowed \in BOOLEAN /\ nullTick \in BOOLEAN /\ irqOn \in BOOLEAN
    BY DEF Init
  <2>3. slice \in [Task -> Nat]
    BY SchedAssumption DEF Init
  <2> QED BY <2>1, <2>2, <2>3 DEF Init, Types, NoTask
<1>2. \A l \in {"boot_load", "idle", "trampoline"}, t \in Task :
        Base(l, t) \in Frames /\ Base(l, t).at = l /\ Base(l, t).owner = t
  BY FrameFacts DEF Labels
<1>3. \A f \in Frames : /\ <<f>> \in Stacks /\ Len(<<f>>) = 1 /\ <<f>>[1] = f
                        /\ Last(<<f>>) = f /\ Head(<<f>>) = f /\ Owner(<<f>>) = f.owner
  BY DEF Stacks, Last, Owner
<1>4. ASSUME NEW l \in {"boot_load", "idle", "trampoline"}, NEW t \in Task, t = 0 <=> l # "trampoline"
      PROVE  /\ Shape(<<Base(l, t)>>, t) /\ Owner(<<Base(l, t)>>) = t /\ Last(<<Base(l, t)>>) = Base(l, t)
             /\ ~HasExit(<<Base(l, t)>>) /\ (OnBoot(<<Base(l, t)>>) <=> l = "boot_load")
  <2> DEFINE f == Base(l, t)
  <2>1. f \in Frames /\ f.at = l /\ f.owner = t
    BY <1>2
  <2> HIDE DEF f
  <2>2. Shape(<<f>>, t)
    BY <1>3, <1>4, <2>1 DEF Shape, IdleBases, UserBases
  <2>3. ~HasExit(<<f>>)
    BY DEF HasExit
  <2>4. OnBoot(<<f>>) <=> l = "boot_load"
    BY <1>3, <2>1 DEF OnBoot, BootLabels
  <2> QED BY <1>3, <2>1, <2>2, <2>3, <2>4 DEF f
<1>5. /\ Me = 0 /\ Top.at = "boot_load" /\ Shape(stack, 0) /\ ~HasExit(stack) /\ OnBoot(stack)
  BY <1>2, <1>4, TaskFacts DEF Init, Me, Top
<1>6. ASSUME NEW t \in Task
      PROVE  /\ Shape(esp[t].stack, t) /\ Last(esp[t].stack).at \in {"idle", "trampoline"}
             /\ ~HasExit(esp[t].stack) /\ ~OnBoot(esp[t].stack)
  <2>1. esp[t].stack = <<Base(IF t = 0 THEN "idle" ELSE "trampoline", t)>>
    BY DEF Init
  <2>2. CASE t = 0 BY <1>2, <1>4, <2>1, <2>2
  <2>3. CASE t # 0 BY <1>2, <1>4, <2>1, <2>3
  <2> QED BY <2>2, <2>3
<1>7. esp \in [Task -> [stack : Stacks, flags : BOOLEAN]]
  BY <1>6 DEF Init, Shape
<1>8. Shapes
  BY <1>5, <1>6, <1>7, TaskFacts DEF Shapes
<1>9. Walk
  BY <1>5 DEF Init, Walk, At, InSchedule, Listed, NoTask
<1>10. States
  BY <1>5, TaskFacts DEF Init, States, At, InSchedule, Choosing, Asleep
<1>11. Exits
  BY <1>5, <1>6 DEF Exits
<1>12. FirstWalk
  BY <1>5, TaskFacts DEF Init, FirstWalk, At, Asleep
<1>13. Ticks
  BY <1>5, <1>6 DEF Init, Ticks, At, Walking, InSchedule, Booting, OnBoot, BootLabels
<1>14. Sleeps
  BY DEF Init, Sleeps
<1> QED BY <1>1, <1>8, <1>9, <1>10, <1>11, <1>12, <1>13, <1>14 DEF Inv
-----------------------------------------------------------------------------
(* The steps of schedule() that move on. *)

LEMMA RetopStep ==
  ASSUME Shapes, NEW f \in Frames, f.owner = Top.owner, Alike(Top.at, f.at),
         stack' = Retop(stack, f), esp' = esp
  PROVE  /\ Shapes' /\ Me' = Me /\ Top' = f
         /\ Booting' <=> Booting
         /\ HasExit(stack') <=> HasExit(stack)
<1>1. /\ Shape(Retop(stack, f), Me) /\ Last(Retop(stack, f)) = f
      /\ Owner(Retop(stack, f)) = Me
      /\ HasExit(Retop(stack, f)) <=> HasExit(stack)
      /\ OnBoot(Retop(stack, f)) <=> OnBoot(stack)
  BY RetopKeeps, SMTT(20) DEF Shapes, Top, Shape
<1>2. Me' = Me /\ Top' = f
  BY <1>1 DEF Me, Top
<1>3. Booting' <=> Booting
  BY <1>1 DEF Booting, OnBoot, BootLabels
<1>4. Shapes'
  BY <1>1, <1>2 DEF Shapes
<1>5. HasExit(stack') <=> HasExit(stack)
  BY <1>1
<1> QED BY <1>2, <1>3, <1>4, <1>5

LEMMA GotoStep ==
  ASSUME Shapes, NEW l \in Labels, Alike(Top.at, l), Goto(l), esp' = esp
  PROVE  /\ Shapes' /\ Me' = Me
         /\ Top'.at = l /\ Top'.prev = Top.prev /\ Top'.start = Top.start /\ Top'.hit = Top.hit
         /\ Booting' <=> Booting
         /\ HasExit(stack') <=> HasExit(stack)
<1> DEFINE f == [Top EXCEPT !.at = l]
<1>1. stack \in Stacks /\ Len(stack) > 0
  BY DEF Shapes, Shape
<1>2. Top \in Frames
  BY <1>1, TopFacts DEF Top
<1>3. /\ f \in Frames /\ f.owner = Top.owner /\ f.at = l
      /\ f.prev = Top.prev /\ f.start = Top.start /\ f.hit = Top.hit
  BY <1>2 DEF Frames
<1>4. stack' = Retop(stack, f)
  BY <1>1, MovedIsRetop DEF Goto, Top
<1> HIDE DEF f
<1> QED BY <1>3, <1>4, RetopStep

(* What such a step leaves alone. *)
Still == UNCHANGED <<listed, slice, wake, clock, left, overflowed, bootTicks, nullTick, esp>>

LEMMA SchedEnterKeeps ==
  ASSUME Inv, SchedEnter
  PROVE  Inv'
<1> DEFINE f == [Top EXCEPT !.at = "sched_next", !.prev = cur, !.start = cur]
<1> USE DEF Inv
<1>1. Still /\ Top.at = "sched_enter" /\ UNCHANGED <<cur, tss, irqOn>>
  BY DEF SchedEnter, At, Still, ghostVars
<1>2. cur = Me /\ cur \in Task /\ cur # NoTask
  BY <1>1, TaskFacts DEF Walk, At, Shapes
<1>3. Top \in Frames
  BY TopFacts DEF Shapes, Shape, Top
<1>4. f \in Frames /\ f.owner = Top.owner /\ f.at = "sched_next" /\ f.prev = cur /\ f.start = cur
      /\ f.hit = Top.hit
  BY <1>2, <1>3 DEF Frames, Labels, InSchedule
<1>5. stack' = Retop(stack, f)
  BY DEF SchedEnter, Retop, Push
<1>6. Alike(Top.at, f.at)
  BY <1>1, <1>4 DEF Alike, Walking, InSchedule
<1> HIDE DEF f
<1>7. /\ Shapes' /\ Me' = Me /\ Top' = f
      /\ Booting' <=> Booting
      /\ HasExit(stack') <=> HasExit(stack)
  BY <1>1, <1>4, <1>5, <1>6, RetopStep DEF Still
<1>8. /\ \A t \in Task : t # cur => tstate'[t] = tstate[t]
      /\ tstate[cur] \in Asleep => tstate'[cur] = tstate[cur]
      /\ tstate[cur] \notin Asleep => tstate'[cur] = "PAUSED"
      /\ tstate' \in [Task -> {"READY", "RUNNING", "PAUSED", "COMPLETED", "BLOCKED"}]
  BY <1>2 DEF SchedEnter, Types, Unrunnable
<1>9. Types'
  BY <1>1, <1>8 DEF Types, Still
<1>10. Walk'
  BY <1>1, <1>2, <1>4, <1>7, TaskFacts DEF Walk, At, Listed, Still, InSchedule
<1>11. States'
  BY <1>1, <1>2, <1>4, <1>7, <1>8, TaskFacts
  DEF States, At, Listed, Still, InSchedule, Asleep, Choosing, Types
<1>12. Exits'
  BY <1>1, <1>2, <1>7, <1>8 DEF Exits, Still, Asleep, Shapes
<1>13. FirstWalk'
  <2>1. Booting /\ listed > 1 => cur = 0
    BY <1>1, <1>2 DEF Shapes, Shape, Booting, BootLabels, UserBases
  <2> QED BY <1>1, <1>2, <1>4, <1>7, <1>8, <2>1, TaskFacts DEF FirstWalk, At, Still, Asleep
<1>14. Ticks'
  BY <1>1, <1>2, <1>4, <1>7 DEF Ticks, At, Still, InSchedule, Walking
<1>15. Sleeps'
  BY <1>1, <1>2, <1>8 DEF Sleeps, Still, Asleep
<1> QED BY <1>7, <1>9, <1>10, <1>11, <1>12, <1>13, <1>14, <1>15

(* The other steps of the walk move the label of the frame on top.          *)
LEMMA MoveOn ==
  ASSUME Inv, NEW l \in InSchedule, Top.at \in InSchedule, Goto(l), Still
  PROVE  /\ Shapes' /\ Me' = Me
         /\ Top'.at = l /\ Top'.prev = Top.prev /\ Top'.start = Top.start /\ Top'.hit = Top.hit
         /\ Booting' <=> Booting
         /\ HasExit(stack') <=> HasExit(stack)
BY GotoStep DEF Inv, Still, Alike, Walking, Labels

LEMMA SchedNextKeeps ==
  ASSUME Inv, SchedNext
  PROVE  Inv'
<1> USE DEF Inv
<1>1. Still /\ Top.at = "sched_next" /\ UNCHANGED <<tstate, tss, irqOn>> /\ cur' = NextOnList(cur)
      /\ Goto("sched_wrap")
  BY DEF SchedNext, At, Still, ghostVars, taskVars
<1>2. /\ Shapes' /\ Me' = Me
      /\ Top'.at = "sched_wrap" /\ Top'.prev = Top.prev /\ Top'.start = Top.start /\ Top'.hit = Top.hit
      /\ Booting' <=> Booting
      /\ HasExit(stack') <=> HasExit(stack)
  BY <1>1, MoveOn DEF InSchedule
<1>3. cur \in Listed /\ cur \in Nat /\ listed \in Nat
  BY <1>1, TaskFacts DEF Walk, At, Listed, Types
<1>4. cur' = NoTask \/ (cur' = cur + 1 /\ cur' \in Listed)
  <2>1. cur' = IF cur + 1 < listed THEN cur + 1 ELSE NoTask
    BY <1>1 DEF NextOnList
  <2>2. CASE cur + 1 < listed
    <3>1. cur' = cur + 1
      BY <2>1, <2>2
    <3>2. cur + 1 \in 0 .. (listed - 1)
      BY <1>3, <2>2
    <3> QED BY <3>1, <3>2 DEF Listed
  <2>3. CASE ~(cur + 1 < listed)
    BY <2>1, <2>3
  <2> QED BY <2>2, <2>3
<1>5. Types'
  BY <1>1 DEF Types, Still
<1>6. Walk'
  <2>1. Me \in Nat
    BY TaskFacts DEF Shapes
  <2> QED BY <1>1, <1>2, <1>3, <1>4, <2>1 DEF Walk, At, Listed, Still, InSchedule
<1>7. States'
  BY <1>1, <1>2 DEF States, At, Listed, Still, InSchedule, Choosing
<1>8. Exits'
  BY <1>1, <1>2 DEF Exits, Still
<1>9. FirstWalk'
  <2>1. Booting /\ listed > 1 => cur' = 1
    <3>1. Booting /\ listed > 1 => cur = 0
      BY <1>1 DEF FirstWalk, At
    <3> QED BY <1>1, <1>3, <3>1 DEF NextOnList
  <2> QED BY <1>1, <1>2, <2>1 DEF FirstWalk, At, Still
<1>10. Ticks'
  BY <1>1, <1>2 DEF Ticks, At, Still, InSchedule, Walking
<1>11. Sleeps'
  BY <1>1 DEF Sleeps, Still
<1> QED BY <1>2, <1>5, <1>6, <1>7, <1>8, <1>9, <1>10, <1>11

LEMMA SchedWrapKeeps ==
  ASSUME Inv, SchedWrap
  PROVE  Inv'
<1> USE DEF Inv
<1>1. Still /\ Top.at = "sched_wrap" /\ UNCHANGED <<tstate, tss, irqOn>>
      /\ cur' = (IF cur = NoTask THEN 0 ELSE cur)
      /\ Goto("sched_loop")
  BY DEF SchedWrap, At, Still, ghostVars, taskVars
<1>2. /\ Shapes' /\ Me' = Me
      /\ Top'.at = "sched_loop" /\ Top'.prev = Top.prev /\ Top'.start = Top.start /\ Top'.hit = Top.hit
      /\ Booting' <=> Booting
      /\ HasExit(stack') <=> HasExit(stack)
  BY <1>1, MoveOn DEF InSchedule
<1>3. cur' \in Listed /\ 0 \in Listed
  BY <1>1, ListedFacts DEF Walk
<1>4. Types'
  BY <1>1 DEF Types, Still
<1>5. Walk'
  BY <1>1, <1>2, <1>3, TaskFacts, ListedFacts DEF Walk, At, Listed, Still, InSchedule
<1>6. States'
  BY <1>1, <1>2 DEF States, At, Listed, Still, InSchedule, Choosing
<1>7. Exits'
  BY <1>1, <1>2 DEF Exits, Still
<1>8. FirstWalk'
  BY <1>1, <1>2, TaskFacts DEF FirstWalk, At, Still
<1>9. Ticks'
  BY <1>1, <1>2 DEF Ticks, At, Still, InSchedule, Walking
<1>10. Sleeps'
  BY <1>1 DEF Sleeps, Still
<1> QED BY <1>2, <1>4, <1>5, <1>6, <1>7, <1>8, <1>9, <1>10

(* Only the idle task comes back to where its walk began. *)
LEMMA SchedLoopKeeps ==
  ASSUME Inv, SchedLoop
  PROVE  Inv'
<1> USE DEF Inv
<1>1. Still /\ Top.at = "sched_loop" /\ UNCHANGED <<tstate, tss, cur>>
  BY DEF SchedLoop, At, Still, ghostVars, taskVars
<1>2. cur \in Listed /\ cur \in Task /\ Top.start = Me /\ Me \in Task
  BY <1>1, TaskFacts, ListedFacts DEF Walk, At, Shapes, InSchedule
<1>3. PICK l \in {"sched_spin", "sched_test"} :
        /\ Goto(l)
        /\ l = "sched_spin" => cur = Me /\ irqOn' = TRUE
        /\ l = "sched_test" => cur # Me /\ irqOn' = irqOn
  BY <1>2 DEF SchedLoop
<1>4. /\ Shapes' /\ Me' = Me
      /\ Top'.at = l /\ Top'.prev = Top.prev /\ Top'.start = Top.start /\ Top'.hit = Top.hit
      /\ Booting' <=> Booting
      /\ HasExit(stack') <=> HasExit(stack)
  BY <1>1, <1>3, MoveOn DEF InSchedule
<1>5. l = "sched_spin" => Me = 0 /\ cur = 0
  BY <1>1, <1>2, <1>3, TaskFacts DEF Walk, At
<1>6. Types'
  <2>1. irqOn' \in BOOLEAN
    BY <1>3 DEF Types
  <2> QED BY <1>1, <2>1 DEF Types, Still
<1>7. Walk'
  BY <1>1, <1>2, <1>4, <1>5, TaskFacts DEF Walk, At, Listed, Still, InSchedule
<1>8. States'
  BY <1>1, <1>4 DEF States, At, Listed, Still, InSchedule, Choosing
<1>9. Exits'
  BY <1>1, <1>4 DEF Exits, Still
<1>10. FirstWalk'
  BY <1>1, <1>2, <1>4, <1>5, TaskFacts DEF FirstWalk, At, Still
<1>11. Ticks'
  BY <1>1, <1>3, <1>4 DEF Ticks, At, Still, InSchedule, Walking
<1>12. Sleeps'
  BY <1>1 DEF Sleeps, Still
<1> QED BY <1>4, <1>6, <1>7, <1>8, <1>9, <1>10, <1>11, <1>12

LEMMA SchedSpinKeeps ==
  ASSUME Inv, SchedSpin
  PROVE  Inv'
<1> USE DEF Inv
<1>1. Still /\ Top.at = "sched_spin" /\ UNCHANGED <<tstate, tss, irqOn, cur>> /\ Goto("sched_cli")
  BY DEF SchedSpin, At, Still, ghostVars, taskVars
<1>2. /\ Shapes' /\ Me' = Me
      /\ Top'.at = "sched_cli" /\ Top'.prev = Top.prev /\ Top'.start = Top.start /\ Top'.hit = Top.hit
      /\ Booting' <=> Booting
      /\ HasExit(stack') <=> HasExit(stack)
  BY <1>1, MoveOn DEF InSchedule
<1>3. Types'
  BY <1>1 DEF Types, Still
<1>4. Walk'
  BY <1>1, <1>2 DEF Walk, At, Listed, Still, InSchedule
<1>5. States'
  BY <1>1, <1>2 DEF States, At, Listed, Still, InSchedule, Choosing
<1>6. Exits'
  BY <1>1, <1>2 DEF Exits, Still
<1>7. FirstWalk'
  BY <1>1, <1>2 DEF FirstWalk, At, Still
<1>8. Ticks'
  BY <1>1, <1>2 DEF Ticks, At, Still, InSchedule, Walking
<1>9. Sleeps'
  BY <1>1 DEF Sleeps, Still
<1> QED BY <1>2, <1>3, <1>4, <1>5, <1>6, <1>7, <1>8, <1>9

LEMMA SchedCliKeeps ==
  ASSUME Inv, SchedCli
  PROVE  Inv'
<1> USE DEF Inv
<1>1. Still /\ Top.at = "sched_cli" /\ UNCHANGED <<tstate, tss, cur>> /\ irqOn' = FALSE
      /\ Goto("sched_test")
  BY DEF SchedCli, At, Still, ghostVars, taskVars
<1>2. /\ Shapes' /\ Me' = Me
      /\ Top'.at = "sched_test" /\ Top'.prev = Top.prev /\ Top'.start = Top.start /\ Top'.hit = Top.hit
      /\ Booting' <=> Booting
      /\ HasExit(stack') <=> HasExit(stack)
  BY <1>1, MoveOn DEF InSchedule
<1>3. Types'
  BY <1>1 DEF Types, Still
<1>4. Walk'
  BY <1>1, <1>2 DEF Walk, At, Listed, Still, InSchedule
<1>5. States'
  BY <1>1, <1>2 DEF States, At, Listed, Still, InSchedule, Choosing
<1>6. Exits'
  BY <1>1, <1>2 DEF Exits, Still
<1>7. FirstWalk'
  BY <1>1, <1>2 DEF FirstWalk, At, Still
<1>8. Ticks'
  BY <1>1, <1>2 DEF Ticks, At, Still, InSchedule, Walking
<1>9. Sleeps'
  BY <1>1 DEF Sleeps, Still
<1> QED BY <1>2, <1>3, <1>4, <1>5, <1>6, <1>7, <1>8, <1>9

(* On the first walk a user task is always found: nobody has slept yet.     *)
LEMMA SchedTestKeeps ==
  ASSUME Inv, SchedTest
  PROVE  Inv'
<1> USE DEF Inv
<1>1. Still /\ Top.at = "sched_test" /\ UNCHANGED <<tstate, tss, irqOn, cur>>
  BY DEF SchedTest, At, Still, ghostVars, taskVars
<1>2. cur \in Listed /\ cur \in Task
  BY <1>1, ListedFacts DEF Walk, At
<1>3. PICK l \in {"sched_next", "sched_run"} :
        /\ Goto(l)
        /\ l = "sched_next" <=> tstate[cur] \in Asleep
  BY DEF SchedTest, Unrunnable
<1>4. /\ Shapes' /\ Me' = Me
      /\ Top'.at = l /\ Top'.prev = Top.prev /\ Top'.start = Top.start /\ Top'.hit = Top.hit
      /\ Booting' <=> Booting
      /\ HasExit(stack') <=> HasExit(stack)
  BY <1>1, <1>3, MoveOn DEF InSchedule
<1>5. l = "sched_next" => cur # 0 /\ ~Booting
  BY <1>1, <1>2, <1>3 DEF States, FirstWalk, At
<1>6. Types'
  BY <1>1 DEF Types, Still
<1>7. Walk'
  <2>1. cur \in Nat /\ Me \in Nat
    BY <1>2, TaskFacts DEF Shapes
  <2> QED BY <1>1, <1>2, <1>4, <1>5, <2>1 DEF Walk, At, Listed, Still, InSchedule
<1>8. States'
  BY <1>1, <1>3, <1>4 DEF States, At, Listed, Still, InSchedule, Choosing
<1>9. Exits'
  BY <1>1, <1>4 DEF Exits, Still
<1>10. FirstWalk'
  BY <1>1, <1>4, <1>5 DEF FirstWalk, At, Still
<1>11. Ticks'
  BY <1>1, <1>4 DEF Ticks, At, Still, InSchedule, Walking
<1>12. Sleeps'
  BY <1>1 DEF Sleeps, Still
<1> QED BY <1>4, <1>6, <1>7, <1>8, <1>9, <1>10, <1>11, <1>12

LEMMA SchedRunKeeps ==
  ASSUME Inv, SchedRun
  PROVE  Inv'
<1> USE DEF Inv
<1>1. Still /\ Top.at = "sched_run" /\ UNCHANGED <<irqOn, cur>> /\ tss' = cur /\ Goto("sched_switch")
  BY DEF SchedRun, At, Still, ghostVars
<1>2. cur \in Listed /\ cur \in Task
  BY <1>1, ListedFacts DEF Walk, At
<1>3. /\ Shapes' /\ Me' = Me
      /\ Top'.at = "sched_switch" /\ Top'.prev = Top.prev /\ Top'.start = Top.start
      /\ Top'.hit = Top.hit
      /\ Booting' <=> Booting
      /\ HasExit(stack') <=> HasExit(stack)
  BY <1>1, MoveOn DEF InSchedule
<1>4. /\ \A t \in Task : t # cur => tstate'[t] = tstate[t]
      /\ tstate'[cur] = "RUNNING"
      /\ tstate[cur] \notin Asleep
      /\ tstate' \in [Task -> {"READY", "RUNNING", "PAUSED", "COMPLETED", "BLOCKED"}]
  BY <1>1, <1>2 DEF SchedRun, Types, States, At
<1>5. Types'
  BY <1>1, <1>2, <1>4 DEF Types, Still
<1>6. Walk'
  BY <1>1, <1>3 DEF Walk, At, Listed, Still, InSchedule
<1>7. States'
  <2>1. \A t \in Task : t # cur => tstate'[t] # "RUNNING"
    BY <1>1, <1>4 DEF States, Choosing
  <2> QED BY <1>1, <1>2, <1>3, <1>4, <2>1, TaskFacts
      DEF States, At, Listed, Still, InSchedule, Choosing, Asleep
<1>8. Exits'
  BY <1>1, <1>3, <1>4 DEF Exits, Still, Asleep, Shapes
<1>9. FirstWalk'
  BY <1>1, <1>3, <1>4 DEF FirstWalk, At, Still, Asleep
<1>10. Ticks'
  BY <1>1, <1>3 DEF Ticks, At, Still, InSchedule, Walking
<1>11. Sleeps'
  BY <1>1, <1>4 DEF Sleeps, Still, Asleep
<1> QED BY <1>3, <1>5, <1>6, <1>7, <1>8, <1>9, <1>10, <1>11

(* The boot thread runs or is saved in HAL_Initialize or in its call of      *)
(* schedule().                                                              *)
LEMMA BootTop ==
  ASSUME NEW s \in Stacks, NEW t \in Task, Shape(s, t), OnBoot(s)
  PROVE  t = 0 /\ Last(s).at \in Walking \union {"boot_load"}
<1>1. s[1].at \in BootLabels
  BY Tops DEF OnBoot
<1>2. t = 0
  BY <1>1 DEF Shape, BootLabels, UserBases
<1>3. Last(s).at \in Walking \union {"boot_load"}
  <2>1. CASE Len(s) = 1
    BY <1>1, <2>1, Tops DEF Shape, BootLabels
  <2>2. CASE Len(s) # 1
    BY <1>1, <2>2, Tops DEF Shape, BootLabels
  <2> QED BY <2>1, <2>2
<1> QED BY <1>2, <1>3

(* The stack and the flags of a task come back as they were saved.          *)
LEMMA SwitchTaskKeeps ==
  ASSUME Inv, SwitchTask
  PROVE  Inv'
<1> DEFINE m == Moved(stack, "sched_back")
<1> USE DEF Inv
<1>1. /\ Top.at = "sched_switch"
      /\ UNCHANGED <<listed, slice, wake, tstate, tss, cur, clock, left, overflowed, bootTicks, nullTick>>
      /\ irqOn' = esp'[cur].flags /\ stack' = esp'[cur].stack
  BY DEF SwitchTask, At, Still, ghostVars, taskVars
<1>2. cur \in Listed /\ cur \in Task /\ Top.prev = Me /\ Me \in Task
  BY <1>1, ListedFacts DEF Walk, At, InSchedule, Shapes
<1>3. /\ Shape(m, Me) /\ Last(m).at = "sched_back"
      /\ OnBoot(m) <=> Booting
      /\ HasExit(m) <=> HasExit(stack)
  <2> DEFINE f == [Last(stack) EXCEPT !.at = "sched_back"]
  <2>1. stack \in Stacks /\ Len(stack) > 0 /\ Shape(stack, Me) /\ Me \in Task
    BY DEF Shapes, Shape
  <2>2. Last(stack) \in Frames /\ Last(stack).at = "sched_switch"
    BY <1>1, <2>1, TopFacts DEF Top
  <2>3. f \in Frames /\ f.at = "sched_back" /\ f.owner = Last(stack).owner
    BY <2>2 DEF Frames, Labels
  <2>4. m = Retop(stack, f)
    BY <2>1, MovedIsRetop DEF Labels
  <2>5. Alike(Last(stack).at, f.at)
    BY <2>2, <2>3 DEF Alike, Walking, InSchedule
  <2> HIDE DEF f, m
  <2>6. /\ Shape(Retop(stack, f), Me) /\ Last(Retop(stack, f)) = f
        /\ HasExit(Retop(stack, f)) <=> HasExit(stack)
        /\ OnBoot(Retop(stack, f)) <=> OnBoot(stack)
    BY <2>1, <2>3, <2>5, RetopKeeps
  <2> QED BY <2>3, <2>4, <2>6 DEF Booting, OnBoot, BootLabels
<1>4. m \in Stacks
  BY <1>3 DEF Shape
<1>5. /\ esp' = [esp EXCEPT ![Me] = [stack |-> m, flags |-> irqOn]]
      /\ esp \in [Task -> [stack : Stacks, flags : BOOLEAN]]
      /\ irqOn \in BOOLEAN
  BY <1>2 DEF SwitchTask, Shapes, Types
<1> HIDE DEF m
<1>6. /\ esp' \in [Task -> [stack : Stacks, flags : BOOLEAN]]
      /\ esp'[Me].stack = m /\ esp'[Me].flags = irqOn
      /\ \A t \in Task : t # Me => esp'[t] = esp[t]
  <2>1. [stack |-> m, flags |-> irqOn] \in [stack : Stacks, flags : BOOLEAN]
    BY <1>4, <1>5
  <2> QED BY <1>2, <1>5, <2>1
<1>7. \A t \in Task : /\ esp'[t].stack \in Stacks /\ Shape(esp'[t].stack, t)
                      /\ Last(esp'[t].stack).at \in {"sched_back", "idle", "trampoline"}
  BY <1>3, <1>4, <1>6, SMTT(20) DEF Shapes, Shape
<1>8. Me' = cur /\ stack' = esp'[cur].stack /\ Shape(stack', cur)
      /\ Top'.at \in {"sched_back", "idle", "trampoline"}
  <2>1. Owner(esp'[cur].stack) = cur
    BY <1>2, <1>7, Tops
  <2> QED BY <1>1, <1>2, <1>7, <2>1 DEF Me, Top
<1>9. Booting' <=> OnBoot(esp'[cur].stack)
  BY <1>8 DEF Booting, OnBoot, BootLabels
<1>10. Booting' => cur = 0 /\ Top'.at = "sched_back"
  BY <1>2, <1>7, <1>8, <1>9, BootTop DEF Top, Walking, InSchedule
<1>11. Shapes'
  BY <1>2, <1>6, <1>7, <1>8 DEF Shapes
<1>12. Types'
  BY <1>1, <1>2, <1>6 DEF Types
<1>13. Walk'
  BY <1>1, <1>2, <1>8, TaskFacts DEF Walk, At, Listed, InSchedule
<1>14. States'
  BY <1>1, <1>8 DEF States, At, Listed, InSchedule, Choosing
<1>15. Exits'
  <2>1. tstate[cur] = "RUNNING"
    BY <1>1 DEF States, At
  <2>2. \A t \in Task : HasExit(esp'[t].stack) => tstate[t] = "COMPLETED"
    BY <1>3, <1>6 DEF Exits
  <2> QED BY <1>1, <1>2, <1>8, <2>1, <2>2 DEF Exits
<1>16. FirstWalk'
  BY <1>1, <1>8, <1>10 DEF FirstWalk, At
<1>17. Booting => slice[0] + bootTicks >= Priority[0]
  BY <1>1, TaskFacts DEF FirstWalk, At
<1>18. irqOn => Booting
  BY <1>1 DEF Ticks, Walking, InSchedule, At
<1>19. \A t \in Task : OnBoot(esp[t].stack) => t = 0
  BY BootTop DEF Shapes, Shape
<1>20. Ticks'
  <2>1. Booting' => slice'[0] + bootTicks' >= Priority[0]
    BY <1>1, <1>2, <1>3, <1>6, <1>9, <1>10, <1>17 DEF Ticks
  <2>2. OnBoot(esp'[0].stack) /\ Me' # 0 => slice'[0] + bootTicks' >= Priority[0]
    BY <1>1, <1>2, <1>3, <1>6, <1>17, TaskFacts DEF Ticks
  <2>3. Me' = 0 /\ ~Booting' /\ Top'.at \in InSchedule /\ ~Top'.hit => slice'[0] = Priority[0]
    BY <1>8 DEF InSchedule
  <2>4. \A t \in Task : esp'[t].flags /\ Last(esp'[t].stack).at = "sched_back" => OnBoot(esp'[t].stack)
    <3> SUFFICES ASSUME NEW t \in Task, esp'[t].flags, Last(esp'[t].stack).at = "sched_back"
                 PROVE  OnBoot(esp'[t].stack)
      OBVIOUS
    <3>1. CASE t = Me BY <1>3, <1>6, <1>18, <3>1
    <3>2. CASE t # Me BY <1>6, <3>2 DEF Ticks
    <3> QED BY <3>1, <3>2
  <2>5. irqOn' /\ Top'.at \in Walking => Booting'
    BY <1>1, <1>2, <1>8, <1>9, <2>4 DEF Top, Walking, InSchedule
  <2> QED BY <2>1, <2>2, <2>3, <2>4, <2>5 DEF Ticks
<1>21. Sleeps'
  BY <1>1 DEF Sleeps
<1> QED BY <1>11, <1>12, <1>13, <1>14, <1>15, <1>16, <1>20, <1>21

(* Steps that end outside schedule() and the boot thread, and change no      *)
(* task.                                                                    *)
LEMMA OutsideKeeps ==
  ASSUME Inv, Shapes', Me' = Me, irqOn' \in BOOLEAN,
         UNCHANGED <<listed, tstate, slice, wake, cur, tss, esp, clock, left, overflowed,
                     bootTicks, nullTick>>,
         Top.at \notin InSchedule \union {"boot_load"},
         Top'.at \notin Walking \union {"boot_load"}, ~HasExit(stack')
  PROVE  Inv'
<1> USE DEF Inv
<1>1. Top'.at \notin InSchedule /\ Top'.at # "boot_load" /\ Top'.at # "sched_back"
  BY DEF Walking
<1>2. ~Booting'
  <2>1. Shape(stack', Me') /\ Me' \in Task /\ stack' \in Stacks
    BY DEF Shapes, Shape
  <2>2. ~OnBoot(stack')
    BY <2>1, BootTop DEF Top
  <2> QED BY <2>2 DEF Booting, OnBoot, BootLabels
<1>3. Types'
  BY DEF Types
<1>4. Walk'
  BY <1>1 DEF Walk, At, Listed, InSchedule
<1>5. States'
  BY <1>1 DEF States, At, Listed, InSchedule, Choosing
<1>6. Exits'
  BY DEF Exits
<1>7. FirstWalk'
  BY <1>1, <1>2 DEF FirstWalk, At
<1>8. Ticks'
  BY <1>1, <1>2 DEF Ticks, At
<1>9. Sleeps'
  BY DEF Sleeps
<1> QED BY <1>3, <1>4, <1>5, <1>6, <1>7, <1>8, <1>9

(* syscall_exit's call of schedule() is not among those that return.        *)
LEMMA SchedReturnKeeps ==
  ASSUME Inv, SchedReturn
  PROVE  Inv'
<1> USE DEF Inv
<1> DEFINE below == Front(stack)
<1>1. /\ Top.at = "sched_back"
      /\ UNCHANGED <<listed, tstate, slice, wake, cur, tss, esp, clock, left, overflowed,
                     bootTicks, nullTick>>
  BY DEF SchedReturn, At, ghostVars, taskVars
<1>2. stack \in Stacks /\ Shape(stack, Me) /\ Me \in Task /\ cur = Me /\ tstate[cur] = "RUNNING"
  BY <1>1 DEF Shapes, Shape, Walk, States, At, InSchedule
<1>3. ~HasExit(stack)
  BY <1>2 DEF Exits
<1>4. /\ Last(below).at \in {"timer", "sleep", "boot_sched"}
      /\ Last(below).at \in {"timer", "sleep"} =>
           /\ Shape(Front(below), Me) /\ Owner(Front(below)) = Me
           /\ Last(Front(below)).at \notin Walking \union BootLabels
           /\ ~HasExit(Front(below))
      /\ Last(below).at = "boot_sched" =>
           /\ Shape(Moved(below, "halt"), Me) /\ Owner(Moved(below, "halt")) = Me
           /\ Last(Moved(below, "halt")).at = "halt"
           /\ ~HasExit(Moved(below, "halt"))
  BY <1>1, <1>2, <1>3, ReturnPops DEF Top
<1>5. /\ Shape(stack', Me) /\ Owner(stack') = Me /\ ~HasExit(stack')
      /\ Last(stack').at \notin Walking \union {"boot_load"}
      /\ irqOn' \in BOOLEAN
  <2>1. CASE Last(below).at \in {"timer", "sleep"}
    <3>1. stack' = Front(below) /\ irqOn' = TRUE
      BY <2>1 DEF SchedReturn
    <3> QED BY <1>4, <2>1, <3>1 DEF BootLabels
  <2>2. CASE Last(below).at = "boot_sched"
    <3>1. stack' = Moved(below, "halt") /\ irqOn' = irqOn
      BY <2>2 DEF SchedReturn
    <3> QED BY <1>4, <2>2, <3>1 DEF Walking, InSchedule, Types
  <2> QED BY <1>4, <2>1, <2>2
<1>6. Me' = Me /\ Top'.at \notin Walking \union {"boot_load"}
  BY <1>5 DEF Me, Top
<1>7. Shapes'
  BY <1>1, <1>5, <1>6 DEF Shapes
<1> QED BY <1>1, <1>5, <1>6, <1>7, OutsideKeeps DEF InSchedule

(* The labels of a task that has not ended and is in no schedule(). *)
LEMMA GotoKeeps ==
  ASSUME Inv, NEW l \in Labels, Alike(Top.at, l), Goto(l), irqOn' \in BOOLEAN,
         UNCHANGED <<listed, tstate, slice, wake, cur, tss, esp, clock, left, overflowed,
                     bootTicks, nullTick>>,
         Top.at \notin InSchedule \union {"boot_load"}, l \notin Walking \union {"boot_load"}
  PROVE  Inv'
<1>1. Shapes' /\ Me' = Me /\ Top'.at = l /\ (HasExit(stack') <=> HasExit(stack))
  BY GotoStep DEF Inv
<1>2. ~HasExit(stack)
  BY DEF Inv, Exits, States, Walk
<1> QED BY <1>1, <1>2, OutsideKeeps

LEMMA EnterUsermodeKeeps ==
  ASSUME Inv, EnterUsermode
  PROVE  Inv'
<1>1. /\ Top.at = "trampoline" /\ Goto("user") /\ irqOn' = TRUE
      /\ UNCHANGED <<listed, tstate, slice, wake, cur, tss, esp, clock, left, overflowed,
                     bootTicks, nullTick>>
  BY DEF EnterUsermode, At, ghostVars, taskVars
<1>2. Alike(Top.at, "user") /\ "user" \in Labels
  BY <1>1 DEF Alike, Labels
<1> QED BY <1>1, <1>2, GotoKeeps DEF InSchedule, Walking

LEMMA KeySeenKeeps ==
  ASSUME Inv, KeySeen
  PROVE  Inv'
<1>1. /\ Top.at = "key_wait" /\ Goto("key_seen") /\ irqOn' = irqOn
      /\ UNCHANGED <<listed, tstate, slice, wake, cur, tss, esp, clock, left, overflowed,
                     bootTicks, nullTick>>
  BY DEF KeySeen, At, ghostVars, taskVars
<1>2. Alike(Top.at, "key_seen") /\ "key_seen" \in Labels
  BY <1>1 DEF Alike, Labels, Waiting
<1>3. irqOn' \in BOOLEAN
  BY <1>1 DEF Inv, Types
<1> QED BY <1>1, <1>2, <1>3, GotoKeeps DEF InSchedule, Walking

LEMMA KeyTakenKeeps ==
  ASSUME Inv, KeyTaken
  PROVE  Inv'
<1> USE DEF Inv
<1>1. /\ Top.at = "key_seen" /\ stack' = Front(stack) /\ irqOn' = irqOn
      /\ UNCHANGED <<listed, tstate, slice, wake, cur, tss, esp, clock, left, overflowed,
                     bootTicks, nullTick>>
  BY DEF KeyTaken, At, ghostVars, taskVars
<1>2. stack \in Stacks /\ Shape(stack, Me) /\ Me \in Task /\ Last(stack).at \in Waiting
  BY <1>1 DEF Shapes, Shape, Top, Waiting
<1>3. /\ Shape(stack', Me) /\ Last(stack').at = "user" /\ Owner(stack') = Me /\ ~HasExit(stack')
  BY <1>1, <1>2, WaitPops
<1>4. Me' = Me /\ Top'.at = "user"
  BY <1>3 DEF Me, Top
<1>5. Shapes' /\ irqOn' \in BOOLEAN
  BY <1>1, <1>3, <1>4 DEF Shapes, Types
<1> QED BY <1>1, <1>3, <1>4, <1>5, OutsideKeeps DEF InSchedule, Walking

LEMMA SysGetkeyKeeps ==
  ASSUME Inv, SysGetkey
  PROVE  Inv'
<1> USE DEF Inv
<1>1. /\ Top.at = "user" /\ stack' = Append(stack, Frame("key_wait")) /\ irqOn' = irqOn
      /\ UNCHANGED <<listed, tstate, slice, wake, cur, tss, esp, clock, left, overflowed,
                     bootTicks, nullTick>>
  BY DEF SysGetkey, At, ghostVars, taskVars
<1>2. stack \in Stacks /\ Shape(stack, Me) /\ Me \in Task /\ Last(stack).at = "user"
  BY <1>1 DEF Shapes, Shape, Top
<1>3. /\ Shape(stack', Me) /\ Last(stack') = Frame("key_wait") /\ Owner(stack') = Me
      /\ ~HasExit(stack')
  BY <1>1, <1>2, WaitPushes
<1>4. Me' = Me /\ Top'.at = "key_wait"
  BY <1>3, FrameFacts DEF Me, Top, Labels
<1>5. Shapes' /\ irqOn' \in BOOLEAN
  BY <1>1, <1>3, <1>4 DEF Shapes, Types
<1> QED BY <1>1, <1>3, <1>4, <1>5, OutsideKeeps DEF InSchedule, Walking

(* A task in ring 3 is never the idle task. *)
LEMMA UserFacts ==
  ASSUME Inv, Top.at = "user"
  PROVE  /\ cur = Me /\ cur # 0 /\ cur \in Listed /\ cur \in Task /\ tstate[cur] = "RUNNING"
         /\ stack \in Stacks /\ Shape(stack, cur) /\ Last(stack).at = "user" /\ ~Booting
<1> USE DEF Inv
<1>1. cur = Me /\ tstate[cur] = "RUNNING" /\ cur \in Listed /\ Me \in Task
  BY TaskFacts DEF Walk, States, At, InSchedule, Shapes
<1>2. stack \in Stacks /\ Shape(stack, cur) /\ Last(stack).at = "user"
  BY <1>1 DEF Shapes, Shape, Top
<1>3. cur # 0
  BY <1>1, <1>2, InUser
<1>4. ~OnBoot(stack)
  BY <1>1, <1>2, BootTop DEF Walking, InSchedule
<1> QED BY <1>1, <1>2, <1>3, <1>4 DEF Booting, OnBoot, BootLabels

LEMMA SysSleepKeeps ==
  ASSUME Inv, NEW ms \in SleepTimes, SysSleep(ms)
  PROVE  Inv'
<1> USE DEF Inv
<1>1. /\ Top.at = "user" /\ ms # 0 /\ stack' = stack \o <<Frame("sleep"), ScheduleCall>>
      /\ irqOn' = FALSE
      /\ UNCHANGED <<listed, slice, cur, tss, esp, clock, bootTicks, nullTick>>
  BY DEF SysSleep, At, SyscallGate
<1>2. /\ cur = Me /\ cur # 0 /\ cur \in Listed /\ cur \in Task /\ tstate[cur] = "RUNNING"
      /\ stack \in Stacks /\ Shape(stack, cur) /\ Last(stack).at = "user"
  BY <1>1, UserFacts
<1>3. /\ Shape(stack', cur) /\ Last(stack') = ScheduleCall /\ Owner(stack') = cur
      /\ ~HasExit(stack') /\ ~OnBoot(stack')
  BY <1>1, <1>2, CallPushes
<1>4. Me' = Me /\ Top'.at = "sched_enter" /\ ~Booting'
  BY <1>2, <1>3, FrameFacts DEF Me, Top, Labels, InSchedule, ScheduleCall, Booting, OnBoot, BootLabels
<1>5. ms \in 0 .. (ClockMod - 1) /\ ClockMod \in Nat \ {0} /\ clock \in 0 .. (ClockMod - 1)
  BY SchedAssumption DEF Types
<1>6. /\ WakeTime(ms) \in 0 .. (ClockMod - 1)
      /\ clock + ms < ClockMod => WakeTime(ms) = clock + ms
  BY <1>5 DEF WakeTime
<1>7. /\ tstate'[cur] = "BLOCKED" /\ wake'[cur] = WakeTime(ms) /\ left'[cur] = ms
      /\ \A t \in Task : t # cur => tstate'[t] = tstate[t] /\ wake'[t] = wake[t] /\ left'[t] = left[t]
      /\ tstate' \in [Task -> {"READY", "RUNNING", "PAUSED", "COMPLETED", "BLOCKED"}]
      /\ wake' \in [Task -> 0 .. (ClockMod - 1)]
      /\ left' \in [Task -> Nat]
  <2>1. ms \in Nat
    BY <1>5
  <2> QED BY <1>2, <1>6, <2>1 DEF SysSleep, Types
<1>8. overflowed' \in BOOLEAN /\ (overflowed' <=> overflowed \/ clock + ms >= ClockMod)
  BY DEF SysSleep, Types
<1>9. Types'
  BY <1>1, <1>7, <1>8 DEF Types
<1>10. Shapes'
  BY <1>1, <1>2, <1>3, <1>4 DEF Shapes
<1>11. Walk'
  BY <1>1, <1>2, <1>4, TaskFacts DEF Walk, At, Listed, InSchedule
<1>12. States'
  BY <1>1, <1>2, <1>4, <1>7, TaskFacts DEF States, At, Listed, InSchedule, Choosing
<1>13. Exits'
  BY <1>1, <1>2, <1>3, <1>4, <1>7 DEF Exits
<1>14. FirstWalk'
  BY <1>1, <1>4 DEF FirstWalk, At
<1>15. Ticks'
  BY <1>1, <1>2, <1>4 DEF Ticks, At
<1>16. Sleeps'
  <2> SUFFICES ASSUME ~overflowed', NEW t \in Task
               PROVE  /\ tstate'[t] = "BLOCKED" <=> left'[t] > 0
                      /\ tstate'[t] = "BLOCKED" => wake'[t] = clock' + left'[t]
    BY DEF Sleeps
  <2>1. ~overflowed /\ clock + ms < ClockMod
    BY <1>5, <1>8
  <2>2. CASE t = cur
    BY <1>1, <1>5, <1>6, <1>7, <2>1, <2>2
  <2>3. CASE t # cur
    BY <1>1, <1>7, <2>1, <2>3 DEF Sleeps
  <2> QED BY <2>2, <2>3
<1> QED BY <1>9, <1>10, <1>11, <1>12, <1>13, <1>14, <1>15, <1>16

LEMMA SysExitKeeps ==
  ASSUME Inv, SysExit
  PROVE  Inv'
<1> USE DEF Inv
<1>1. /\ Top.at = "user" /\ stack' = stack \o <<Frame("exit"), ScheduleCall>>
      /\ irqOn' = FALSE
      /\ UNCHANGED <<listed, slice, wake, cur, tss, esp, clock, left, overflowed, bootTicks, nullTick>>
  BY DEF SysExit, At, SyscallGate, ghostVars
<1>2. /\ cur = Me /\ cur # 0 /\ cur \in Listed /\ cur \in Task /\ tstate[cur] = "RUNNING"
      /\ stack \in Stacks /\ Shape(stack, cur) /\ Last(stack).at = "user"
  BY <1>1, UserFacts
<1>3. /\ Shape(stack', cur) /\ Last(stack') = ScheduleCall /\ Owner(stack') = cur
      /\ ~OnBoot(stack')
  BY <1>1, <1>2, CallPushes
<1>4. Me' = Me /\ Top'.at = "sched_enter" /\ ~Booting'
  BY <1>2, <1>3, FrameFacts DEF Me, Top, Labels, InSchedule, ScheduleCall, Booting, OnBoot, BootLabels
<1>5. /\ tstate'[cur] = "COMPLETED"
      /\ \A t \in Task : t # cur => tstate'[t] = tstate[t]
      /\ tstate' \in [Task -> {"READY", "RUNNING", "PAUSED", "COMPLETED", "BLOCKED"}]
  BY <1>2 DEF SysExit, Types
<1>6. Types'
  BY <1>1, <1>5 DEF Types
<1>7. Shapes'
  BY <1>1, <1>2, <1>3, <1>4 DEF Shapes
<1>8. Walk'
  BY <1>1, <1>2, <1>4, TaskFacts DEF Walk, At, Listed, InSchedule
<1>9. States'
  BY <1>1, <1>2, <1>4, <1>5, TaskFacts DEF States, At, Listed, InSchedule, Choosing
<1>10. Exits'
  BY <1>1, <1>2, <1>4, <1>5 DEF Exits
<1>11. FirstWalk'
  BY <1>1, <1>4 DEF FirstWalk, At
<1>12. Ticks'
  BY <1>1, <1>2, <1>4 DEF Ticks, At
<1>13. Sleeps'
  BY <1>1, <1>2, <1>5 DEF Sleeps
<1> QED BY <1>6, <1>7, <1>8, <1>9, <1>10, <1>11, <1>12, <1>13
-----------------------------------------------------------------------------
(* The boot thread. *)

LEMMA BootFacts ==
  ASSUME Inv, Top.at = "boot_load"
  PROVE  /\ Booting /\ cur = 0 /\ Me = 0 /\ ~HasExit(stack)
         /\ stack \in Stacks /\ Shape(stack, 0) /\ Last(stack).at = "boot_load"
<1> USE DEF Inv
<1>1. stack \in Stacks /\ Shape(stack, Me) /\ Me \in Task /\ Last(stack).at = "boot_load"
  BY DEF Shapes, Shape, Top
<1>2. Me = 0 /\ OnBoot(stack)
  BY <1>1, BootPushes
<1>3. Len(stack) = 1
  <2>1. Len(stack) # 2 /\ Len(stack) # 3 /\ Len(stack) # 4
    BY <1>1, Tops DEF Shape, Walking, Waiting, InSchedule
  <2> QED BY <1>1, <2>1, Tops
<1>4. ~HasExit(stack)
  BY <1>3 DEF HasExit
<1>5. cur = Me
  BY DEF Walk, InSchedule
<1> QED BY <1>1, <1>2, <1>4, <1>5 DEF Booting, OnBoot, BootLabels

LEMMA CreateUserTaskKeeps ==
  ASSUME Inv, CreateUserTask
  PROVE  Inv'
<1> USE DEF Inv
<1>1. /\ Top.at = "boot_load" /\ listed < NTasks /\ listed' = listed + 1
      /\ UNCHANGED <<tstate, slice, wake, cur, tss, esp, clock, left, overflowed, bootTicks,
                     nullTick, stack, irqOn>>
  BY DEF CreateUserTask, At, cpuVars, ghostVars
<1>2. Top' = Top /\ Me' = Me /\ (Booting' <=> Booting) /\ (HasExit(stack') <=> HasExit(stack))
  BY <1>1 DEF Top, Me, Booting
<1>3. listed \in Nat /\ listed' \in 1 .. NTasks /\ Listed \subseteq Listed'
  BY <1>1, SchedAssumption DEF Types, Listed
<1>4. Types'
  BY <1>1, <1>3 DEF Types
<1>5. Shapes'
  BY <1>1, <1>2 DEF Shapes
<1>6. Walk'
  BY <1>1, <1>2, <1>3 DEF Walk, At, InSchedule
<1>7. States'
  BY <1>1, <1>2, <1>3 DEF States, At, InSchedule, Choosing
<1>8. Exits'
  BY <1>1, <1>2 DEF Exits
<1>9. FirstWalk'
  BY <1>1, <1>2 DEF FirstWalk, At
<1>10. Ticks'
  BY <1>1, <1>2 DEF Ticks, At
<1>11. Sleeps'
  BY <1>1 DEF Sleeps
<1> QED BY <1>4, <1>5, <1>6, <1>7, <1>8, <1>9, <1>10, <1>11

LEMMA BootScheduleKeeps ==
  ASSUME Inv, BootSchedule
  PROVE  Inv'
<1> USE DEF Inv
<1>1. /\ Top.at = "boot_load" /\ stack' = Append(Moved(stack, "boot_sched"), ScheduleCall)
      /\ UNCHANGED <<listed, tstate, slice, wake, cur, tss, esp, clock, left, overflowed,
                     bootTicks, nullTick, irqOn>>
  BY DEF BootSchedule, At, taskVars, ghostVars
<1>2. /\ Booting /\ cur = 0 /\ Me = 0 /\ ~HasExit(stack)
      /\ stack \in Stacks /\ Shape(stack, 0) /\ Last(stack).at = "boot_load"
  BY <1>1, BootFacts
<1>3. /\ Shape(stack', 0) /\ Last(stack') = ScheduleCall /\ Owner(stack') = 0
      /\ ~HasExit(stack') /\ OnBoot(stack')
  BY <1>1, <1>2, TaskFacts, BootPushes
<1>4. Me' = 0 /\ Top'.at = "sched_enter" /\ Booting'
  BY <1>3, FrameFacts DEF Me, Top, Labels, InSchedule, ScheduleCall, Booting, OnBoot, BootLabels
<1>5. Types'
  BY <1>1 DEF Types
<1>6. Shapes'
  BY <1>1, <1>3, <1>4, TaskFacts DEF Shapes
<1>7. Walk'
  BY <1>1, <1>2, <1>4, TaskFacts DEF Walk, At, Listed, InSchedule
<1>8. States'
  BY <1>1, <1>4 DEF States, At, Listed, InSchedule, Choosing
<1>9. Exits'
  BY <1>1, <1>2, <1>3, <1>4 DEF Exits
<1>10. FirstWalk'
  BY <1>1, <1>2, <1>4 DEF FirstWalk, At
<1>11. Ticks'
  BY <1>1, <1>4 DEF Ticks, At
<1>12. Sleeps'
  BY <1>1 DEF Sleeps
<1> QED BY <1>5, <1>6, <1>7, <1>8, <1>9, <1>10, <1>11, <1>12
-----------------------------------------------------------------------------
(* The timer interrupt. *)

(* What a tick does to the time left and to the sleepers. *)
LEMMA TickFacts ==
  ASSUME Inv, TimerIrq
  PROVE  /\ clock' \in 0 .. (ClockMod - 1) /\ left' \in [Task -> Nat] /\ overflowed' \in BOOLEAN
         /\ tstate' \in [Task -> {"READY", "RUNNING", "PAUSED", "COMPLETED", "BLOCKED"}]
         /\ bootTicks' \in 0 .. MaxBootTicks
         /\ ~Booting => bootTicks' = bootTicks
         /\ Booting => bootTicks' = bootTicks + 1 /\ bootTicks < MaxBootTicks
         /\ \A t \in Task : tstate'[t] = tstate[t] \/ (tstate[t] = "BLOCKED" /\ tstate'[t] = "READY")
         /\ Sleeps'
<1> USE DEF Inv
<1>1. TickMayFall /\ TickTime /\ Unblock /\ wake' = wake
  BY DEF TimerIrq
<1>2. /\ ClockMod \in Nat \ {0} /\ clock \in 0 .. (ClockMod - 1) /\ TickMs \in Nat \ {0}
      /\ MaxBootTicks \in Nat /\ bootTicks \in 0 .. MaxBootTicks
  BY SchedAssumption DEF Types
<1>3. /\ clock' = (clock + TickMs) % ClockMod
      /\ overflowed' \in BOOLEAN /\ (overflowed' <=> overflowed \/ clock + TickMs >= ClockMod)
      /\ \A t \in Task : left'[t] = IF left[t] > TickMs THEN left[t] - TickMs ELSE 0
  BY <1>1 DEF TickTime, Types
<1>4. clock' \in 0 .. (ClockMod - 1) /\ (clock + TickMs < ClockMod => clock' = clock + TickMs)
  BY <1>2, <1>3
<1>5. left' \in [Task -> Nat]
  <2>1. \A t \in Task : (IF left[t] > TickMs THEN left[t] - TickMs ELSE 0) \in Nat
    BY <1>2 DEF Types
  <2> QED BY <1>1, <2>1 DEF TickTime
<1>6. /\ bootTicks' \in 0 .. MaxBootTicks
      /\ ~Booting => bootTicks' = bootTicks
      /\ Booting => bootTicks' = bootTicks + 1 /\ bootTicks < MaxBootTicks
  BY <1>1, <1>2 DEF TickTime, TickMayFall
<1>7. \A t \in Task : tstate'[t] = IF t \in Listed /\ tstate[t] = "BLOCKED" /\ clock' >= wake[t]
                                   THEN "READY" ELSE tstate[t]
  BY <1>1 DEF Unblock, Expired
<1>8. tstate' \in [Task -> {"READY", "RUNNING", "PAUSED", "COMPLETED", "BLOCKED"}]
  BY <1>1 DEF Unblock, Types
<1>9. Sleeps'
  <2> SUFFICES ASSUME ~overflowed', NEW t \in Task
               PROVE  /\ tstate'[t] = "BLOCKED" <=> left'[t] > 0
                      /\ tstate'[t] = "BLOCKED" => wake'[t] = clock' + left'[t]
    BY DEF Sleeps
  <2>1. ~overflowed /\ clock' = clock + TickMs
    BY <1>2, <1>3, <1>4
  <2>2. left[t] \in Nat /\ wake[t] \in Nat
    BY <1>2 DEF Types
  <2>3. CASE tstate[t] = "BLOCKED"
    <3>1. wake[t] = clock + left[t] /\ left[t] > 0 /\ t \in Listed
      BY <2>1, <2>3 DEF Sleeps, States
    <3>2. tstate'[t] = IF clock' >= wake[t] THEN "READY" ELSE "BLOCKED"
      BY <1>7, <2>3, <3>1
    <3>3. clock' >= wake[t] <=> ~(left[t] > TickMs)
      BY <1>2, <2>1, <2>2, <3>1
    <3>4. left[t] > TickMs => left'[t] = left[t] - TickMs /\ left'[t] > 0
                              /\ wake'[t] = clock' + left'[t]
      BY <1>1, <1>2, <1>3, <2>1, <2>2, <3>1
    <3>5. ~(left[t] > TickMs) => left'[t] = 0
      BY <1>3
    <3> QED BY <3>2, <3>3, <3>4, <3>5
  <2>4. CASE tstate[t] # "BLOCKED"
    <3>1. left[t] = 0
      BY <2>1, <2>2, <2>4 DEF Sleeps
    <3>2. left'[t] = 0 /\ tstate'[t] # "BLOCKED"
      BY <1>2, <1>3, <1>7, <2>4, <3>1
    <3> QED BY <3>2
  <2> QED BY <2>3, <2>4
<1> QED BY <1>3, <1>4, <1>5, <1>6, <1>7, <1>8, <1>9

(* The list is never left behind for good: a tick that finds no task is one  *)
(* of the boot thread's, and nobody else is on the list.                    *)
LEMMA NullTickKeeps ==
  ASSUME Inv, TimerIrq, cur = NoTask
  PROVE  Inv'
<1> USE DEF Inv
<1>1. /\ nullTick' = TRUE
      /\ UNCHANGED <<listed, slice, wake, cur, tss, esp, stack, irqOn>>
  BY DEF TimerIrq
<1>2. /\ clock' \in 0 .. (ClockMod - 1) /\ left' \in [Task -> Nat] /\ overflowed' \in BOOLEAN
      /\ tstate' \in [Task -> {"READY", "RUNNING", "PAUSED", "COMPLETED", "BLOCKED"}]
      /\ bootTicks' \in 0 .. MaxBootTicks
      /\ bootTicks' >= bootTicks
      /\ \A t \in Task : tstate'[t] = tstate[t] \/ (tstate[t] = "BLOCKED" /\ tstate'[t] = "READY")
      /\ Sleeps'
  <2>1. bootTicks \in Nat
    BY TaskFacts DEF Types
  <2> QED BY <2>1, TickFacts
<1>3. Top.at = "sched_wrap" /\ irqOn
  BY DEF Walk, At, TimerIrq, TickMayFall
<1>4. Booting
  BY <1>3 DEF Ticks, At, Walking, InSchedule
<1>5. listed = 1
  BY <1>3, <1>4, TaskFacts DEF FirstWalk, At, Types
<1>6. Top' = Top /\ Me' = Me /\ (Booting' <=> Booting) /\ (HasExit(stack') <=> HasExit(stack))
  BY <1>1 DEF Top, Me, Booting
<1>7. \A t \in Task : slice[t] + bootTicks >= Priority[t] => slice'[t] + bootTicks' >= Priority[t]
  BY <1>1, <1>2, TaskFacts DEF Types
<1>8. Types'
  BY <1>1, <1>2 DEF Types
<1>9. Shapes'
  BY <1>1, <1>6 DEF Shapes
<1>10. Walk'
  BY <1>1, <1>6 DEF Walk, At, InSchedule, Listed
<1>11. States'
  BY <1>1, <1>2, <1>3, <1>6, TaskFacts DEF States, At, InSchedule, Choosing, Listed, Asleep
<1>12. Exits'
  BY <1>1, <1>2, <1>6 DEF Exits, Shapes
<1>13. FirstWalk'
  BY <1>1, <1>2, <1>3, <1>5, <1>6, <1>7 DEF FirstWalk, At, Asleep
<1>14. Ticks'
  BY <1>1, <1>3, <1>4, <1>6, <1>7, TaskFacts DEF Ticks, At
<1> QED BY <1>2, <1>8, <1>9, <1>10, <1>11, <1>12, <1>13, <1>14

LEMMA StruckFacts ==
  ASSUME Inv
  PROVE  /\ Struck \in Frames /\ Struck.at = Top.at /\ Struck.owner = Top.owner
         /\ Struck.prev = Top.prev /\ Struck.start = Top.start
         /\ Struck.hit <=> Top.at \in {"sched_spin", "sched_cli"}
<1> DEFINE h == Top.at \in {"sched_spin", "sched_cli"}
<1>1. Top \in Frames
  BY TopFacts DEF Inv, Shapes, Shape, Top
<1>2. Struck = [Top EXCEPT !.hit = h] /\ h \in BOOLEAN
  BY DEF Struck
<1>3. h <=> Top.at \in {"sched_spin", "sched_cli"}
  OBVIOUS
<1> HIDE DEF h
<1>4. /\ Struck \in Frames /\ Struck.at = Top.at /\ Struck.owner = Top.owner
      /\ Struck.prev = Top.prev /\ Struck.start = Top.start /\ Struck.hit = h
  BY <1>1, <1>2 DEF Frames
<1> QED BY <1>3, <1>4

(* A slice that ends is never that of schedule() itself or of the boot       *)
(* thread.                                                                  *)
LEMMA SliceEndFacts ==
  ASSUME Inv, TimerIrq, cur # NoTask, Charge(cur) = 0
  PROVE  Top.at \notin Walking \union {"boot_load"} /\ ~Booting /\ cur = Me
<1> USE DEF Inv
<1>1. cur \in Task /\ cur \in Listed /\ TickMayFall /\ irqOn
  BY ListedFacts DEF Walk, TimerIrq, TickMayFall
<1>2. /\ slice[cur] \in Nat /\ bootTicks \in Nat /\ Priority[cur] \in Nat /\ Priority[cur] > 1
      /\ Priority[cur] > MaxBootTicks /\ MaxBootTicks \in Nat
  BY <1>1, TaskFacts DEF Types
<1>3. ~(slice[cur] > 1)
  <2>1. slice[cur] > 0 => slice[cur] - 1 = 0
    BY DEF Charge
  <2> QED BY <1>2, <2>1
<1>4. ~Booting
  <2> SUFFICES ASSUME Booting PROVE FALSE
    OBVIOUS
  <2>1. bootTicks < MaxBootTicks
    BY <1>1 DEF TickMayFall
  <2>2. CASE Top.at # "sched_back"
    <3>1. slice[cur] + bootTicks >= Priority[cur]
      BY <1>1, <2>2 DEF FirstWalk, At
    <3> QED BY <1>2, <1>3, <2>1, <3>1
  <2>3. CASE Top.at = "sched_back"
    <3>1. OnBoot(stack) /\ Me \in Task /\ stack \in Stacks /\ Shape(stack, Me)
      BY DEF Booting, OnBoot, BootLabels, Shapes, Shape
    <3>2. Me = 0
      BY <3>1, BootTop
    <3>3. cur = 0
      BY <2>3, <3>2 DEF Walk, InSchedule
    <3>4. slice[cur] + bootTicks >= Priority[cur]
      BY <2>3, <3>3 DEF Ticks, At
    <3> QED BY <1>2, <1>3, <2>1, <3>4
  <2> QED BY <2>2, <2>3
<1>5. ~At("sched_spin") /\ ~At("sched_cli")
  <2> SUFFICES ASSUME At("sched_spin") \/ At("sched_cli") PROVE FALSE
    OBVIOUS
  <2>1. Me = 0 /\ cur = 0
    BY DEF Walk
  <2>2. ~Top.hit
    BY <1>1, <2>1 DEF TickMayFall, Unrunnable, States
  <2>3. slice[0] = Priority[0]
    BY <1>4, <2>1, <2>2 DEF Ticks, At, InSchedule
  <2> QED BY <1>2, <1>3, <2>1, <2>3
<1>6. Top.at \notin Walking
  BY <1>1, <1>4, <1>5 DEF Ticks
<1>7. Top.at # "boot_load"
  BY <1>4, BootFacts
<1> QED BY <1>4, <1>6, <1>7 DEF Walk, Walking

LEMMA SliceEndKeeps ==
  ASSUME Inv, TimerIrq, cur # NoTask, Charge(cur) = 0
  PROVE  Inv'
<1> USE DEF Inv
<1>1. /\ SliceEnd /\ irqOn' = FALSE
      /\ UNCHANGED <<listed, wake, cur, tss, esp, nullTick>>
      /\ stack' = Front(stack) \o <<Struck, Frame("timer"), ScheduleCall>>
  BY DEF TimerIrq, SliceEnd
<1>2. /\ clock' \in 0 .. (ClockMod - 1) /\ left' \in [Task -> Nat] /\ overflowed' \in BOOLEAN
      /\ tstate' \in [Task -> {"READY", "RUNNING", "PAUSED", "COMPLETED", "BLOCKED"}]
      /\ bootTicks' \in 0 .. MaxBootTicks
      /\ \A t \in Task : tstate'[t] = tstate[t] \/ (tstate[t] = "BLOCKED" /\ tstate'[t] = "READY")
      /\ Sleeps'
  BY TickFacts
<1>3. Top.at \notin Walking \union {"boot_load"} /\ ~Booting /\ cur = Me
  BY SliceEndFacts
<1>4. bootTicks' = bootTicks
  BY <1>3, TickFacts
<1>5. stack \in Stacks /\ Shape(stack, Me) /\ Me \in Task
  BY DEF Shapes, Shape
<1>6. /\ Shape(stack', Me) /\ Last(stack') = ScheduleCall /\ Owner(stack') = Me
      /\ ~HasExit(stack') /\ ~OnBoot(stack')
  <2>1. Struck \in Frames /\ Struck.at = Last(stack).at /\ Struck.owner = Last(stack).owner
    BY StruckFacts DEF Top
  <2>2. Last(stack).at \notin Walking \union {"boot_load"}
    BY <1>3 DEF Top
  <2> QED BY <1>1, <1>5, <2>1, <2>2, TimerPushes
<1>7. Me' = Me /\ Top'.at = "sched_enter" /\ ~Booting'
  BY <1>6, FrameFacts DEF Me, Top, Labels, InSchedule, ScheduleCall, Booting, OnBoot, BootLabels
<1>8. /\ slice' \in [Task -> Nat] /\ slice'[cur] = Priority[cur]
      /\ \A t \in Task : t # cur => slice'[t] = slice[t]
  <2>1. Priority[cur] \in Nat /\ cur \in Task
    BY <1>3, <1>5, TaskFacts
  <2> QED BY <1>1, <2>1 DEF SliceEnd, Types
<1>9. Types'
  BY <1>1, <1>2, <1>8 DEF Types
<1>10. Shapes'
  BY <1>1, <1>5, <1>6, <1>7 DEF Shapes
<1>11. Walk'
  BY <1>1, <1>3, <1>5, <1>7, TaskFacts DEF Walk, At, InSchedule, Listed
<1>12. States'
  BY <1>1, <1>2, <1>7, TaskFacts DEF States, At, InSchedule, Choosing, Listed, Asleep
<1>13. Exits'
  BY <1>1, <1>2, <1>6, <1>7 DEF Exits, Shapes
<1>14. FirstWalk'
  BY <1>1, <1>7 DEF FirstWalk, At
<1>15. Ticks'
  BY <1>1, <1>3, <1>4, <1>7, <1>8, TaskFacts DEF Ticks, At
<1> QED BY <1>2, <1>9, <1>10, <1>11, <1>12, <1>13, <1>14, <1>15

LEMMA ChargeKeeps ==
  ASSUME Inv, TimerIrq, cur # NoTask, Charge(cur) # 0
  PROVE  Inv'
<1> USE DEF Inv
<1>1. /\ UNCHANGED <<listed, wake, cur, tss, esp, nullTick, irqOn>>
      /\ slice' = [slice EXCEPT ![cur] = Charge(cur)]
      /\ stack' = Retop(stack, Struck) /\ irqOn
  BY DEF TimerIrq, TickMayFall, Retop, Push
<1>2. /\ clock' \in 0 .. (ClockMod - 1) /\ left' \in [Task -> Nat] /\ overflowed' \in BOOLEAN
      /\ tstate' \in [Task -> {"READY", "RUNNING", "PAUSED", "COMPLETED", "BLOCKED"}]
      /\ bootTicks' \in 0 .. MaxBootTicks
      /\ ~Booting => bootTicks' = bootTicks
      /\ Booting => bootTicks' = bootTicks + 1
      /\ \A t \in Task : tstate'[t] = tstate[t] \/ (tstate[t] = "BLOCKED" /\ tstate'[t] = "READY")
      /\ Sleeps'
  BY TickFacts
<1>3. cur \in Listed /\ cur \in Task
  BY ListedFacts DEF Walk
<1>4. /\ slice' \in [Task -> Nat]
      /\ \A t \in Task : slice'[t] >= slice[t] - 1 /\ (t # cur => slice'[t] = slice[t])
  <2>1. slice[cur] \in Nat /\ slice \in [Task -> Nat]
    BY <1>3 DEF Types
  <2>2. Charge(cur) \in Nat /\ Charge(cur) >= slice[cur] - 1
    BY <2>1 DEF Charge
  <2>3. slice' \in [Task -> Nat] /\ slice'[cur] = Charge(cur)
        /\ \A t \in Task : t # cur => slice'[t] = slice[t]
    BY <1>1, <1>3, <2>1, <2>2
  <2>4. \A t \in Task : slice[t] \in Nat
    BY <2>1
  <2> QED BY <2>2, <2>3, <2>4
<1>5. /\ Struck \in Frames /\ Struck.at = Top.at /\ Struck.owner = Top.owner
      /\ Struck.prev = Top.prev /\ Struck.start = Top.start
      /\ Struck.hit <=> Top.at \in {"sched_spin", "sched_cli"}
  BY StruckFacts
<1>6. /\ Shapes' /\ Me' = Me /\ Top' = Struck
      /\ Booting' <=> Booting
      /\ HasExit(stack') <=> HasExit(stack)
  BY <1>1, <1>5, RetopStep DEF Alike
<1>7. Booting => \A t \in Task : slice[t] + bootTicks >= Priority[t] => slice'[t] + bootTicks' >= Priority[t]
  <2> SUFFICES ASSUME Booting, NEW t \in Task, slice[t] + bootTicks >= Priority[t]
               PROVE  slice'[t] + bootTicks' >= Priority[t]
    OBVIOUS
  <2>1. slice[t] \in Nat /\ slice'[t] \in Nat /\ bootTicks \in Nat /\ Priority[t] \in Nat
    BY <1>4, TaskFacts DEF Types
  <2> QED BY <1>2, <1>4, <2>1
<1>8. Types'
  BY <1>1, <1>2, <1>4 DEF Types
<1>9. Walk'
  BY <1>1, <1>5, <1>6 DEF Walk, At, Listed
<1>10. States'
  <2>1. tstate'[0] \notin Asleep
    BY <1>2, TaskFacts DEF States, Asleep
  <2>2. tstate[cur] \notin Asleep => tstate'[cur] = tstate[cur]
    BY <1>2, <1>3 DEF Asleep
  <2>3. \A t \in Task : /\ tstate'[t] = "RUNNING" => tstate[t] = "RUNNING"
                        /\ tstate'[t] = "BLOCKED" => tstate[t] = "BLOCKED"
    BY <1>2
  <2>4. Top'.at = Top.at /\ (Choosing' <=> Choosing)
    BY <1>5, <1>6 DEF Choosing
  <2> QED BY <1>1, <2>1, <2>2, <2>3, <2>4 DEF States, At, Listed, Asleep
<1>11. Exits'
  BY <1>1, <1>2, <1>6 DEF Exits, Shapes
<1>12. FirstWalk'
  BY <1>1, <1>2, <1>5, <1>6, <1>7 DEF FirstWalk, At, Asleep
<1>13. Ticks'
  <2>1. Booting' /\ At("sched_back")' => slice'[0] + bootTicks' >= Priority[0]
    BY <1>5, <1>6, <1>7, TaskFacts DEF Ticks, At
  <2>2. OnBoot(esp'[0].stack) /\ Me' # 0 => slice'[0] + bootTicks' >= Priority[0]
    <3> SUFFICES ASSUME OnBoot(esp[0].stack), Me # 0
                 PROVE  slice'[0] + bootTicks' >= Priority[0]
      BY <1>1, <1>6
    <3>1. ~OnBoot(stack)
      BY BootTop DEF Shapes, Shape
    <3>2. ~Booting
      BY <3>1 DEF Booting, OnBoot, BootLabels
    <3>3. cur # 0
      BY <1>1, <3>2 DEF Ticks, Walk, Walking
    <3> QED BY <1>2, <1>4, <3>2, <3>3, TaskFacts DEF Ticks
  <2>3. Me' = 0 /\ ~Booting' /\ Top'.at \in InSchedule => Top'.hit
    BY <1>1, <1>5, <1>6 DEF Ticks, Walking, At
  <2>4. irqOn' /\ Top'.at \in Walking => Booting' \/ At("sched_spin")' \/ At("sched_cli")'
    BY <1>1, <1>5, <1>6 DEF Ticks, At
  <2> QED BY <1>1, <2>1, <2>2, <2>3, <2>4 DEF Ticks
<1> QED BY <1>2, <1>6, <1>8, <1>9, <1>10, <1>11, <1>12, <1>13
-----------------------------------------------------------------------------
(* Keys, and steps of nobody. *)
LEMMA UntouchedKeeps ==
  ASSUME Inv, UNCHANGED <<listed, tstate, slice, wake, cur, tss, esp, stack, irqOn, clock, left,
                          overflowed, bootTicks, nullTick>>
  PROVE  Inv'
<1> USE DEF Inv
<1>1. Top' = Top /\ Me' = Me /\ (Booting' <=> Booting) /\ (HasExit(stack') <=> HasExit(stack))
  BY DEF Top, Me, Booting
<1>2. Types' /\ Shapes'
  BY <1>1 DEF Types, Shapes
<1>3. Walk' /\ States'
  BY <1>1 DEF Walk, States, At, Choosing, Listed
<1>4. Exits' /\ Sleeps'
  BY <1>1 DEF Exits, Sleeps
<1>5. FirstWalk' /\ Ticks'
  BY <1>1 DEF FirstWalk, Ticks, At
<1> QED BY <1>2, <1>3, <1>4, <1>5

LEMMA InvStep == Inv /\ [Next]_vars => Inv'
<1> SUFFICES ASSUME Inv, [Next]_vars PROVE Inv'
  OBVIOUS
<1>1. CASE CreateUserTask BY <1>1, CreateUserTaskKeeps
<1>2. CASE BootSchedule BY <1>2, BootScheduleKeeps
<1>3. CASE SchedEnter BY <1>3, SchedEnterKeeps
<1>4. CASE SchedNext BY <1>4, SchedNextKeeps
<1>5. CASE SchedWrap BY <1>5, SchedWrapKeeps
<1>6. CASE SchedLoop BY <1>6, SchedLoopKeeps
<1>7. CASE SchedSpin BY <1>7, SchedSpinKeeps
<1>8. CASE SchedCli BY <1>8, SchedCliKeeps
<1>9. CASE SchedTest BY <1>9, SchedTestKeeps
<1>10. CASE SchedRun BY <1>10, SchedRunKeeps
<1>11. CASE SwitchTask BY <1>11, SwitchTaskKeeps
<1>12. CASE SchedReturn BY <1>12, SchedReturnKeeps
<1>13. CASE EnterUsermode BY <1>13, EnterUsermodeKeeps
<1>14. CASE KeySeen BY <1>14, KeySeenKeeps
<1>15. CASE KeyTaken BY <1>15, KeyTakenKeeps
<1>16. CASE \E ms \in SleepTimes : SysSleep(ms) BY <1>16, SysSleepKeeps
<1>17. CASE SysExit BY <1>17, SysExitKeeps
<1>18. CASE SysGetkey BY <1>18, SysGetkeyKeeps
<1>19. CASE TimerIrq BY <1>19, NullTickKeeps, SliceEndKeeps, ChargeKeeps
<1>20. CASE KeyboardIrq BY <1>20, UntouchedKeeps DEF KeyboardIrq, taskVars, cpuVars, ghostVars
<1>21. CASE UNCHANGED vars BY <1>21, UntouchedKeeps DEF vars, taskVars, cpuVars, ghostVars
<1> QED
  BY <1>1, <1>2, <1>3, <1>4, <1>5, <1>6, <1>7, <1>8, <1>9, <1>10, <1>11, <1>12, <1>13, <1>14,
     <1>15, <1>16, <1>17, <1>18, <1>19, <1>20, <1>21 DEF Next, Kernel, User
-----------------------------------------------------------------------------
(* The mailbox and what goes with it. *)
KeyTypes ==
  /\ key \in KeyCodes
  /\ got \in [Task -> KeyCodes \union {NoTask}]
  /\ typed \in [Task -> BOOLEAN]

(* What is in the mailbox was put there after every task's last call.       *)
Keys == key # NUL => \A t \in Task : typed[t]

KeyInv == KeyTypes /\ Keys /\ KeyFresh

LEMMA KeysAtStart == Init => KeyInv
BY SchedAssumption DEF Init, KeyInv, KeyTypes, Keys, KeyFresh, NoTask, NUL

(* A key is pressed: it is new to every task. *)
LEMMA KeyPressed ==
  ASSUME KeyInv, KeyboardIrq
  PROVE  KeyInv'
<1>1. PICK k \in KeyCodes : key' = k /\ typed' = [t \in Task |-> typed[t] \/ k # NUL]
  BY DEF KeyboardIrq
<1>2. \A t \in Task : typed'[t] = (typed[t] \/ k # NUL)
  BY <1>1
<1>3. KeyTypes'
  <2>1. typed' \in [Task -> BOOLEAN]
    BY <1>1
  <2>2. got' = got
    BY DEF KeyboardIrq
  <2> QED BY <1>1, <2>1, <2>2 DEF KeyInv, KeyTypes
<1>4. Keys'
  BY <1>1, <1>2 DEF Keys
<1>5. KeyFresh'
  <2>1. got' = got
    BY DEF KeyboardIrq
  <2> QED BY <1>2, <2>1 DEF KeyInv, KeyFresh
<1> QED BY <1>3, <1>4, <1>5 DEF KeyInv

(* get_key empties the mailbox before it waits, and forgets what was typed. *)
LEMMA KeyForgotten ==
  ASSUME KeyInv, SysGetkey
  PROVE  KeyInv'
<1>1. /\ key' = NUL
      /\ typed' = [typed EXCEPT ![cur] = FALSE]
      /\ got' = [got EXCEPT ![cur] = NoTask]
  BY DEF SysGetkey
<1>2. NUL \in KeyCodes /\ NoTask \notin KeyCodes
  BY SchedAssumption DEF NoTask
<1>3. KeyTypes'
  BY <1>1, <1>2 DEF KeyInv, KeyTypes
<1>4. Keys'
  BY <1>1 DEF Keys
<1>5. ASSUME NEW t \in Task, got'[t] \in KeyCodes \ {NUL}
      PROVE  typed'[t]
  <2>1. t # cur /\ got'[t] = got[t]
    BY <1>1, <1>2, <1>5 DEF KeyInv, KeyTypes
  <2>2. typed'[t] = typed[t]
    BY <1>1, <2>1 DEF KeyInv, KeyTypes
  <2> QED BY <1>5, <2>1, <2>2 DEF KeyInv, KeyFresh
<1> QED BY <1>3, <1>4, <1>5 DEF KeyInv, KeyFresh

(* The second read of the mailbox: a character in it is new to its reader.   *)
LEMMA KeyRead ==
  ASSUME KeyInv, KeyTaken
  PROVE  KeyInv'
<1>1. key' = NUL /\ got' = [got EXCEPT ![cur] = key] /\ typed' = typed
  BY DEF KeyTaken
<1>2. NUL \in KeyCodes
  BY SchedAssumption
<1>3. KeyTypes'
  BY <1>1, <1>2 DEF KeyInv, KeyTypes
<1>4. Keys'
  BY <1>1 DEF Keys
<1>5. ASSUME NEW t \in Task, got'[t] \in KeyCodes \ {NUL}
      PROVE  typed'[t]
  <2>1. CASE t = cur
    <3>1. key # NUL
      BY <1>1, <1>5, <2>1 DEF KeyInv, KeyTypes
    <3> QED BY <1>1, <3>1 DEF KeyInv, Keys
  <2>2. CASE t # cur
    BY <1>1, <1>5, <2>2 DEF KeyInv, KeyTypes, KeyFresh
  <2> QED BY <2>1, <2>2
<1> QED BY <1>3, <1>4, <1>5 DEF KeyInv, KeyFresh

LEMMA KeysKept == KeyInv /\ [Next]_vars => KeyInv'
<1> SUFFICES ASSUME KeyInv, [Next]_vars PROVE KeyInv'
  OBVIOUS
<1>1. CASE UNCHANGED keyVars
  BY <1>1 DEF KeyInv, KeyTypes, Keys, KeyFresh, keyVars
<1>2. CASE KeyboardIrq
  BY <1>2, KeyPressed
<1>3. CASE SysGetkey
  BY <1>3, KeyForgotten
<1>4. CASE KeyTaken
  BY <1>4, KeyRead
<1>5. Kernel => UNCHANGED keyVars \/ KeyTaken
  BY DEF Kernel, CreateUserTask, BootSchedule, SchedEnter, SchedNext, SchedWrap, SchedLoop, SchedSpin,
         SchedCli, SchedTest, SchedRun, SwitchTask, SchedReturn, EnterUsermode, KeySeen
<1>6. User => UNCHANGED keyVars \/ SysGetkey
  BY DEF User, SysSleep, SysExit
<1>7. TimerIrq => UNCHANGED keyVars
  BY DEF TimerIrq
<1>8. UNCHANGED vars => UNCHANGED keyVars
  BY DEF vars, keyVars
<1> QED BY <1>1, <1>2, <1>3, <1>4, <1>5, <1>6, <1>7, <1>8 DEF Next

(* A character that getkey returns was pressed after the call, whatever the  *)
(* other tasks take out of the mailbox and whenever the interrupts come     *)
(* (keyboard.c:10-22): needs that nothing survives in the mailbox that a    *)
(* task, this one or another, has not seen being typed.                     *)
THEOREM KeysAreFresh == Spec => []KeyFresh
<1>1. Init => KeyInv
  BY KeysAtStart
<1>2. KeyInv /\ [Next]_vars => KeyInv'
  BY KeysKept
<1>3. KeyInv => KeyFresh
  BY DEF KeyInv
<1> QED BY <1>1, <1>2, <1>3, PTL DEF Spec
-----------------------------------------------------------------------------
(* What the invariant says about the properties of the runs.                *)

LEMMA SpecKeepsInv == Spec => []Inv
<1>1. Inv /\ [Next]_vars => Inv'
  BY InvStep
<1> QED BY <1>1, InvAtStart, PTL DEF Spec

(* The stack the processor runs on is current_task's outside schedule(), a   *)
(* saved one its own task's, and a task in ring 3 is the running one, with   *)
(* its own kernel stack in the TSS (task.c:136-142, task.asm:9-34): for      *)
(* every number of tasks and wherever the ticks fall.                       *)
THEOREM StacksAreOwn == Spec => []StackOwner
<1>1. ASSUME Inv PROVE StackOwner
  <2>1. \A t \in Task : Owner(esp[t].stack) = t
    BY <1>1, Tops DEF Inv, Shapes, Shape
  <2>2. Top.at \notin InSchedule => Owner(stack) = cur
    BY <1>1 DEF Inv, Walk, Me
  <2>3. At("user") => tstate[cur] = "RUNNING" /\ tss = cur
    BY <1>1 DEF Inv, States, At, InSchedule
  <2> QED BY <2>1, <2>2, <2>3 DEF StackOwner
<1>2. Inv => StackOwner
  BY <1>1
<1> QED BY <1>2, SpecKeepsInv, PTL

(* schedule() interrupted while it walks over the list (task.c:112-142): no  *)
(* tick is charged to a null task once there is a user task, the halt loop   *)
(* ends, no stack holds more than four frames, and the schedule() that       *)
(* syscall_exit calls never returns to it (syscall.c:77).                   *)
THEOREM WalkIsSound == Spec => []WalkSound
<1>1. ASSUME Inv PROVE WalkSound
  <2>1. TicksHaveATask
    BY <1>1 DEF Inv, FirstWalk, TicksHaveATask
  <2>2. SpinEnds
    BY <1>1 DEF Inv, Walk, States, SpinEnds, Unrunnable
  <2>3. StackBounded
    <3>1. ASSUME NEW s \in Stacks, NEW t \in Task, Shape(s, t) PROVE Len(s) <= 4
      <4>1. Len(s) \in {1, 2, 3, 4}
        BY <3>1, Tops
      <4>2. \A n \in {1, 2, 3, 4} : n <= 4
        OBVIOUS
      <4> QED BY <4>1, <4>2, Zenon
    <3> QED BY <1>1, <3>1, SMTT(20) DEF Inv, Shapes, Shape, StackBounded
  <2>4. ~At("exited")
    <3>1. stack \in Stacks /\ Shape(stack, Me)
      BY <1>1 DEF Inv, Shapes, Shape
    <3>2. Last(stack).at # "exited"
      BY <3>1, Tops DEF Shape, IdleBases, UserBases, Walking, Waiting, InSchedule
    <3> QED BY <3>2 DEF At, Top
  <2> QED BY <2>1, <2>2, <2>3, <2>4 DEF WalkSound
<1>2. Inv => WalkSound
  BY <1>1
<1> QED BY <1>2, SpecKeepsInv, PTL

(* A sleeper is woken by the tick that completes its time and by no other    *)
(* (pic.c:114, syscall.c:21-35), as long as no sum has passed 2^32.          *)
THEOREM SleepsAreExact == Spec => []SleepExact
<1>1. Inv => SleepExact
  BY DEF Inv, Sleeps, SleepExact
<1> QED BY <1>1, SpecKeepsInv, PTL

(* Every variable keeps its type; clocks and wake times stay 32 bits wide.   *)
THEOREM TypeCorrect == Spec => []TypeOK
<1>1. ASSUME Inv, KeyInv PROVE TypeOK
  <2>1. cur \in Task \union {NoTask}
    BY <1>1, ListedFacts DEF Inv, Walk
  <2>2. stack \in Stacks /\ esp \in [Task -> [stack : Stacks, flags : BOOLEAN]]
    BY <1>1 DEF Inv, Shapes, Shape
  <2> QED BY <1>1, <2>1, <2>2 DEF Inv, KeyInv, KeyTypes, Types, TypeOK
<1>2. Inv /\ KeyInv => TypeOK
  BY <1>1
<1>3. KeyInv /\ [Next]_vars => KeyInv'
  BY KeysKept
<1> QED BY <1>2, <1>3, KeysAtStart, SpecKeepsInv, PTL DEF Spec
-----------------------------------------------------------------------------
(* The life of the tasks. *)

(* Tasks.running, as Sched has it. *)
RunningIn(f) == IF {t \in Task : f[t] = "RUNNING"} = {} THEN NoTask
                ELSE CHOOSE t \in Task : f[t] = "RUNNING"

LEMMA RunningFacts ==
  ASSUME NEW f, \A t, u \in Task : f[t] = "RUNNING" /\ f[u] = "RUNNING" => t = u
  PROVE  /\ \A t \in Task : f[t] = "RUNNING" => RunningIn(f) = t
         /\ (\A t \in Task : f[t] # "RUNNING") => RunningIn(f) = NoTask
<1>1. ASSUME NEW t \in Task, f[t] = "RUNNING" PROVE RunningIn(f) = t
  <2> DEFINE c == CHOOSE u \in Task : f[u] = "RUNNING"
  <2>1. c \in Task /\ f[c] = "RUNNING"
    BY <1>1
  <2>2. c = t
    BY <1>1, <2>1
  <2>3. RunningIn(f) = c
    BY <1>1 DEF RunningIn
  <2> QED BY <2>2, <2>3
<1>2. ASSUME \A t \in Task : f[t] # "RUNNING" PROVE RunningIn(f) = NoTask
  BY <1>2 DEF RunningIn
<1> QED BY <1>1, <1>2

LEMMA OneRuns ==
  ASSUME Inv
  PROVE  /\ \A t, u \in Task : tstate[t] = "RUNNING" /\ tstate[u] = "RUNNING" => t = u
         /\ tstate \in [Task -> {"READY", "RUNNING", "PAUSED", "COMPLETED", "BLOCKED"}]
BY DEF Inv, States, Types

LEMMA StartsAsTasks == Init => Abstract!TasksInit
<1> SUFFICES ASSUME Init PROVE Abstract!TasksInit
  OBVIOUS
<1>1. \A t \in Task : tstate[t] = "READY"
  BY DEF Init
<1>2. TasksOf("RUNNING") = {} /\ TasksOf("BLOCKED") = {} /\ TasksOf("COMPLETED") = {}
  BY <1>1 DEF TasksOf
<1> QED BY <1>2 DEF Abstract!TasksInit

(* Nothing changes if no task starts or stops running, sleeps, wakes or ends. *)
LEMMA TasksStutter ==
  ASSUME Inv, Inv',
         \A t \in Task : \A s \in {"RUNNING", "BLOCKED", "COMPLETED"} : tstate'[t] = s <=> tstate[t] = s
  PROVE  UNCHANGED Abstract!taskVars
<1>1. \A s \in {"RUNNING", "BLOCKED", "COMPLETED"} : TasksOf(s)' = TasksOf(s)
  BY DEF TasksOf
<1>2. (CHOOSE t \in Task : tstate'[t] = "RUNNING") = (CHOOSE t \in Task : tstate[t] = "RUNNING")
  OBVIOUS
<1>3. RunningIn(tstate') = RunningIn(tstate)
  <2>1. CASE \E t \in Task : tstate[t] = "RUNNING"
    BY <2>1, OneRuns, RunningFacts DEF Inv, States
  <2>2. CASE \A t \in Task : tstate[t] # "RUNNING"
    BY <2>2 DEF RunningIn
  <2> QED BY <2>1, <2>2
<1> QED BY <1>1, <1>3 DEF Abstract!taskVars, RunningIn, TasksOf

(* schedule() takes the processor from the task that called it. *)
LEMMA EnterImplements ==
  ASSUME Inv, Inv', SchedEnter
  PROVE  Abstract!Preempt \/ UNCHANGED Abstract!taskVars
<1>1. cur \in Task
  BY ListedFacts DEF Inv, Walk, SchedEnter, At
<1>2. /\ tstate'[cur] = IF tstate[cur] \in Asleep THEN tstate[cur] ELSE "PAUSED"
      /\ \A t \in Task : t # cur => tstate'[t] = tstate[t]
  BY <1>1 DEF SchedEnter, Unrunnable, Inv, Types
<1>3. CASE tstate[cur] = "RUNNING"
  <2>1. RunningIn(tstate) = cur /\ \A t \in Task : tstate[t] = "RUNNING" => t = cur
    BY <1>1, <1>3, OneRuns, RunningFacts
  <2>2. \A t \in Task : tstate'[t] # "RUNNING"
    BY <1>2, <1>3, <2>1 DEF Asleep
  <2>3. RunningIn(tstate') = NoTask
    BY <2>2 DEF RunningIn
  <2>4. TasksOf("BLOCKED")' = TasksOf("BLOCKED") /\ TasksOf("COMPLETED")' = TasksOf("COMPLETED")
    BY <1>1, <1>2, <1>3 DEF TasksOf, Asleep
  <2>5. cur # NoTask
    BY <1>1, TaskFacts
  <2> QED BY <2>1, <2>3, <2>4, <2>5 DEF Abstract!Preempt, RunningIn, TasksOf
<1>4. CASE tstate[cur] # "RUNNING"
  <2>1. \A t \in Task : \A s \in {"RUNNING", "BLOCKED", "COMPLETED"} : tstate'[t] = s <=> tstate[t] = s
    BY <1>1, <1>2, <1>4 DEF Asleep
  <2> QED BY <2>1, TasksStutter
<1> QED BY <1>3, <1>4

(* It gives it to one that is neither asleep nor ended. *)
LEMMA RunImplements ==
  ASSUME Inv, Inv', SchedRun
  PROVE  \E t \in Task : Abstract!Dispatch(t)
<1>1. /\ cur \in Task /\ tstate[cur] \notin Asleep
      /\ \A t \in Task : tstate[t] # "RUNNING"
  BY ListedFacts DEF Inv, Walk, States, SchedRun, At, Choosing
<1>2. tstate'[cur] = "RUNNING" /\ \A t \in Task : t # cur => tstate'[t] = tstate[t]
  BY <1>1 DEF SchedRun, Inv, Types
<1>3. RunningIn(tstate) = NoTask
  BY <1>1 DEF RunningIn
<1>4. RunningIn(tstate') = cur
  <2>1. \A t, u \in Task : tstate'[t] = "RUNNING" /\ tstate'[u] = "RUNNING" => t = u
    BY <1>1, <1>2
  <2> QED BY <1>1, <1>2, <2>1, RunningFacts
<1>5. TasksOf("BLOCKED")' = TasksOf("BLOCKED") /\ TasksOf("COMPLETED")' = TasksOf("COMPLETED")
  BY <1>1, <1>2 DEF TasksOf, Asleep
<1>6. cur \notin TasksOf("BLOCKED") \union TasksOf("COMPLETED")
  BY <1>1 DEF TasksOf, Asleep
<1>7. Abstract!Dispatch(cur)
  BY <1>3, <1>4, <1>5, <1>6 DEF Abstract!Dispatch, RunningIn, TasksOf
<1> QED BY <1>1, <1>7 DEF Abstract!Dispatch

(* Only the running task sleeps or ends. *)
LEMMA CallImplements ==
  ASSUME Inv, Inv', Top.at = "user", NEW s \in {"BLOCKED", "COMPLETED"},
         tstate' = [tstate EXCEPT ![cur] = s]
  PROVE  IF s = "BLOCKED" THEN Abstract!Sleep ELSE Abstract!Exit
<1>1. cur \in Task /\ tstate[cur] = "RUNNING" /\ cur # NoTask
  BY UserFacts, TaskFacts
<1>2. tstate'[cur] = s /\ \A t \in Task : t # cur => tstate'[t] = tstate[t]
  BY <1>1 DEF Inv, Types
<1>3. RunningIn(tstate) = cur /\ \A t \in Task : tstate[t] = "RUNNING" => t = cur
  BY <1>1, OneRuns, RunningFacts
<1>4. \A t \in Task : tstate'[t] # "RUNNING"
  BY <1>2, <1>3
<1>5. RunningIn(tstate') = NoTask
  BY <1>4 DEF RunningIn
<1>6. CASE s = "BLOCKED"
  <2>1. /\ TasksOf("BLOCKED")' = TasksOf("BLOCKED") \union {cur}
        /\ TasksOf("COMPLETED")' = TasksOf("COMPLETED")
    BY <1>1, <1>2, <1>6 DEF TasksOf
  <2>2. Abstract!Sleep
    BY <1>1, <1>3, <1>5, <2>1 DEF Abstract!Sleep, RunningIn, TasksOf
  <2> QED BY <1>6, <2>2
<1>7. CASE s = "COMPLETED"
  <2>1. /\ TasksOf("COMPLETED")' = TasksOf("COMPLETED") \union {cur}
        /\ TasksOf("BLOCKED")' = TasksOf("BLOCKED")
    BY <1>1, <1>2, <1>7 DEF TasksOf
  <2>2. Abstract!Exit
    BY <1>1, <1>3, <1>5, <2>1 DEF Abstract!Exit, RunningIn, TasksOf
  <2> QED BY <1>7, <2>2
<1> QED BY <1>6, <1>7

(* A tick wakes sleepers and moves nobody else. *)
LEMMA TickImplements ==
  ASSUME Inv, Inv', TimerIrq
  PROVE  Abstract!Wake
<1>1. \A t \in Task : tstate'[t] = tstate[t] \/ (tstate[t] = "BLOCKED" /\ tstate'[t] = "READY")
  BY TickFacts
<1>2. \A t \in Task : tstate'[t] = "RUNNING" <=> tstate[t] = "RUNNING"
  BY <1>1
<1>3. RunningIn(tstate') = RunningIn(tstate)
  <2>1. CASE \E t \in Task : tstate[t] = "RUNNING"
    <3>1. PICK t \in Task : tstate[t] = "RUNNING" /\ tstate'[t] = "RUNNING"
      BY <1>2, <2>1
    <3>2. RunningIn(tstate) = t /\ RunningIn(tstate') = t
      BY <1>2, <3>1, OneRuns, RunningFacts
    <3> QED BY <3>2
  <2>2. CASE \A t \in Task : tstate[t] # "RUNNING"
    BY <1>2, <2>2 DEF RunningIn
  <2> QED BY <2>1, <2>2
<1>4. TasksOf("BLOCKED")' \subseteq TasksOf("BLOCKED") /\ TasksOf("COMPLETED")' = TasksOf("COMPLETED")
  BY <1>1 DEF TasksOf
<1> QED BY <1>3, <1>4 DEF Abstract!Wake, RunningIn, TasksOf

LEMMA StepImplements ==
  ASSUME Inv, Inv', [Next]_vars
  PROVE  [Abstract!TasksNext]_(Abstract!taskVars)
<1>1. CASE SchedEnter
  BY <1>1, EnterImplements DEF Abstract!TasksNext
<1>2. CASE SchedRun
  BY <1>2, RunImplements DEF Abstract!TasksNext
<1>3. CASE \E ms \in SleepTimes : SysSleep(ms)
  <2>1. Top.at = "user" /\ tstate' = [tstate EXCEPT ![cur] = "BLOCKED"]
    BY <1>3 DEF SysSleep, At
  <2>2. Abstract!Sleep
    BY <2>1, CallImplements
  <2> QED BY <2>2 DEF Abstract!TasksNext
<1>4. CASE SysExit
  <2>1. Top.at = "user" /\ tstate' = [tstate EXCEPT ![cur] = "COMPLETED"]
    BY <1>4 DEF SysExit, At
  <2>2. Abstract!Exit
    BY <2>1, CallImplements
  <2> QED BY <2>2 DEF Abstract!TasksNext
<1>5. CASE TimerIrq
  BY <1>5, TickImplements DEF Abstract!TasksNext
<1>6. CASE UNCHANGED tstate
  BY <1>6, TasksStutter
<1>7. Kernel => SchedEnter \/ SchedRun \/ UNCHANGED tstate
  BY DEF Kernel, CreateUserTask, BootSchedule, SchedNext, SchedWrap, SchedLoop, SchedSpin, SchedCli,
         SchedTest, SwitchTask, SchedReturn, EnterUsermode, KeySeen, KeyTaken, taskVars
<1>8. SysGetkey \/ KeyboardIrq \/ UNCHANGED vars => UNCHANGED tstate
  BY DEF SysGetkey, KeyboardIrq, vars, taskVars
<1> QED BY <1>1, <1>2, <1>3, <1>4, <1>5, <1>6, <1>7, <1>8 DEF Next, User

(* The kernel keeps what Tasks.tla promises, for any number of tasks: one    *)
(* task at a time has the processor, only it can go to sleep or end, nobody  *)
(* that sleeps or has ended is given the processor, and no one comes back   *)
(* from the end (task.c:112-142, syscall.c:21-35 and 67-78, pic.c:98-131).   *)
THEOREM SchedImplementsTasks == Spec => ImplementsTasks
<1>1. Init => Abstract!TasksInit
  BY StartsAsTasks
<1>2. Inv /\ Inv' /\ [Next]_vars => [Abstract!TasksNext]_(Abstract!taskVars)
  BY StepImplements
<1> QED BY <1>1, <1>2, SpecKeepsInv, PTL DEF Spec, ImplementsTasks, Abstract!TasksSpec
=============================================================================
