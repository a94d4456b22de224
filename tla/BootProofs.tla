----------------------------- MODULE BootProofs -----------------------------
(***************************************************************************)
(* Proofs about interrupts during boot, for any set of lines, any depth of *)
(* nesting and any number of devices: every interrupt finds a gate and a   *)
(* handler that ends it, an EOI ends the interrupt it is for, and, while   *)
(* devices are few enough, the page tables are nobody else's memory.       *)
(***************************************************************************)
EXTENDS Boot, SequenceTheorems, FiniteSetTheorems, TLAPS

USE LinesAssumption, InterruptBounds, EndAssumption, DevicesAssumption

-----------------------------------------------------------------------------
(* Frames *)

FrameType == [vector : 32..47 \cup {128}, at : {"eoi", "dispatch", "iret"},
              intr : BOOLEAN, cpl : 0..3, eax : Nat]

Handlers == {None, "keyboard_callback", "syscall_handler", "do_nothing",
             "timer_callback", "page_fault"}

\* Only the last frame is on its way to its handler, and with interrupts off;
\* only an interrupt that has not sent its EOI is in service.
Shape(fs, on, service) ==
  /\ \A k \in 1..(Len(fs) - 1) : fs[k].at = "iret"
  /\ on /\ fs # <<>> => fs[Len(fs)].at = "iret"
  /\ \/ service = {}
     \/ /\ fs # <<>> /\ fs[Len(fs)].at = "eoi"
        /\ \E l \in Lines : /\ fs[Len(fs)].vector = 32 + l
                            /\ service = {l, Level(l)}

\* The points of main before the tables are set up, and those from which on
\* there is a handler for int $0x80.
Before == {"scan", "ring", "data", "keyboard", "gdt", "idt"}
Serving == {"noop", "timer", "bitmap", "directory", "heap_table", "low_table",
            "fault", "tasking", "initrd", "write", "test_noop", "loop"}

Types ==
  /\ pc \in Before \cup {"zero", "syscalls"} \cup Serving
  /\ frames \in Seq(FrameType)
  /\ intr \in BOOLEAN /\ lost \in BOOLEAN /\ tasking \in BOOLEAN /\ cpl \in 0..3
  /\ interrupt_handlers \in [Vectors -> Handlers]

Phase ==
  /\ pc \notin Before => offset = RemappedOffset /\ gates = Gates
  /\ pc \in Before \cup {"zero"} => ~intr /\ frames = <<>> /\ in_service = {}
  /\ pc \in Serving => interrupt_handlers[128] = "syscall_handler"
  /\ \A k \in 1..Len(frames) :
       frames[k].vector = 128 => pc \in {"test_noop", "loop"}

BootInv == Types /\ Phase /\ (~lost => Shape(frames, intr, in_service))

LEMMA PushFacts ==
  ASSUME NEW s \in Seq(FrameType), NEW f \in FrameType
  PROVE  /\ Append(s, f) \in Seq(FrameType) /\ Append(s, f) # <<>>
         /\ Len(Append(s, f)) = Len(s) + 1 /\ Append(s, f)[Len(s) + 1] = f
         /\ \A k \in 1..Len(s) : Append(s, f)[k] = s[k]
  BY AppendProperties

LEMMA PopFacts ==
  ASSUME NEW s \in Seq(FrameType), s # <<>>
  PROVE  /\ Front(s) \in Seq(FrameType) /\ Len(Front(s)) = Len(s) - 1
         /\ \A k \in 1..(Len(s) - 1) : Front(s)[k] = s[k]
<1>1. Len(s) \in Nat /\ Len(s) > 0
  BY EmptySeq
<1> DEFINE n == Len(s) - 1
<1>2. 1 \in 1..(Len(s) + 1) /\ n \in 0..Len(s) /\ Front(s) = SubSeq(s, 1, n)
  BY <1>1 DEF Front
<1> HIDE DEF n
<1>3. /\ SubSeq(s, 1, n) \in Seq(FrameType)
      /\ Len(SubSeq(s, 1, n)) = IF 1 <= n THEN n - 1 + 1 ELSE 0
      /\ \A i \in 1..(n - 1 + 1) : SubSeq(s, 1, n)[i] = s[1 + i - 1]
  BY <1>2, SubSeqProperties
<1>4. n \in Nat /\ Len(SubSeq(s, 1, n)) = n
      /\ \A i \in 1..n : SubSeq(s, 1, n)[i] = s[i]
  BY <1>1, <1>2, <1>3
<1>5. QED
  BY <1>2, <1>4, <1>3 DEF n

\* The last frame goes on to the next point.
Moved(s, p) == [s EXCEPT ![Len(s)].at = p]

LEMMA GoToFacts ==
  ASSUME NEW s \in Seq(FrameType), s # <<>>,
         NEW p \in {"eoi", "dispatch", "iret"}
  PROVE  LET t == Moved(s, p) IN
         /\ t \in Seq(FrameType) /\ Len(t) = Len(s) /\ t # <<>>
         /\ t[Len(s)].at = p /\ t[Len(s)].vector = s[Len(s)].vector
         /\ \A k \in 1..(Len(s) - 1) : t[k] = s[k]
<1> SUFFICES ASSUME NEW t, t = Moved(s, p)
             PROVE  /\ t \in Seq(FrameType) /\ Len(t) = Len(s) /\ t # <<>>
                    /\ t[Len(s)].at = p /\ t[Len(s)].vector = s[Len(s)].vector
                    /\ \A k \in 1..(Len(s) - 1) : t[k] = s[k]
  OBVIOUS
<1>1. Len(s) \in Nat /\ Len(s) > 0 /\ DOMAIN s = 1..Len(s)
  BY EmptySeq
<1>2. Len(s) \in 1..Len(s) /\ s[Len(s)] \in FrameType
  BY <1>1
<1> DEFINE f == [s[Len(s)] EXCEPT !.at = p]
<1>3. f \in FrameType /\ f.at = p /\ f.vector = s[Len(s)].vector
  BY <1>2 DEF FrameType
<1>4. t = [s EXCEPT ![Len(s)] = f]
  BY DEF Moved
<1> HIDE DEF f
<1>5. t \in Seq(FrameType) /\ Len(t) = Len(s) /\ t[Len(s)] = f
      /\ \A k \in 1..(Len(s) - 1) : t[k] = s[k]
  <2> DEFINE n == Len(s)
  <2>1. t = [s EXCEPT ![n] = f] /\ n \in 1..n /\ n \in Nat /\ DOMAIN s = 1..n
    BY <1>1, <1>2, <1>4
  <2> HIDE DEF n
  <2>2. \A k \in 1..(n - 1) : k \in 1..n /\ k # n
    BY <2>1
  <2>3. /\ DOMAIN t = 1..n /\ t[n] = f
        /\ \A k \in 1..n : t[k] = IF k = n THEN f ELSE s[k]
    BY <2>1
  <2>4. \A k \in 1..n : t[k] \in FrameType
    BY <1>3, <2>3 DEF n
  <2>5. t \in [1..n -> FrameType]
    BY <2>1, <2>3, <2>4
  <2>6. t \in Seq(FrameType) /\ Len(t) = n
    BY <2>1, <2>5
  <2>7. QED
    BY <2>2, <2>3, <2>6 DEF n
<1>6. QED
  BY <1>1, <1>3, <1>5, EmptySeq

LEMMA LevelFacts ==
  ASSUME NEW l \in Lines
  PROVE  /\ l \in 0..15 /\ l # 2
         /\ Level(l) = IF l >= 8 THEN 2 ELSE l
         /\ IsSlave(l) <=> l >= 8
  BY DEF Level, IsSlave, Cascade

LEMMA VectorFacts ==
  ASSUME NEW l \in Lines, offset = RemappedOffset, gates = Gates
  PROVE  Vector(l) = 32 + l /\ Vector(l) \in gates /\ IsIrq(Vector(l))
<1>1. l \in 0..15
  BY LevelFacts
<1>2. Vector(l) = 32 + l
  BY <1>1 DEF Vector, IsSlave, RemappedOffset
<1>3. QED
  BY <1>1, <1>2 DEF Gates, IsIrq

LEMMA EndOfFacts ==
  ASSUME NEW x
  PROVE  EndOf({}) = {} /\ (x \in Nat => EndOf({x}) = {x})
<1>1. ASSUME x \in Nat PROVE Min({x}) = x
  <2>1. \E y \in {x} : \A z \in {x} : y <= z
    BY <1>1
  <2>2. QED
    BY <2>1, Zenon DEF Min
<1>2. QED
  BY <1>1 DEF EndOf

-----------------------------------------------------------------------------
(* The steps of an interrupt *)

LEMMA RaiseStep ==
  ASSUME BootInv, NEW l \in Lines, Raises(l)
  PROVE  BootInv'
  BY DEF BootInv, Types, Phase, Shape, Raises, Raise, tables, Level

\* The processor takes an interrupt or a trap.
LEMMA EnterStep ==
  ASSUME BootInv, ~lost, pc \notin Before \cup {"zero"},
         NEW v \in 32..47 \cup {128}, NEW eax \in Nat, Enter(v, eax),
         frames # <<>> => Last(frames).at = "iret",
         UNCHANGED <<tables, offset, tasking>>,
         pc' \notin Before \cup {"zero"}, pc \in Serving => pc' \in Serving,
         pc' \in Before \cup {"zero", "syscalls"} \cup Serving,
         pc' \in Serving => pc \in Serving,
         pc \in {"test_noop", "loop"} => pc' \in {"test_noop", "loop"},
         v = 128 => pc' \in {"test_noop", "loop"},
         \/ v = 128 /\ in_service' = {}
         \/ \E l \in Lines : v = 32 + l /\ in_service' = {l, Level(l)}
  PROVE  BootInv'
<1> DEFINE f == Frame(v, eax)
<1>1. Len(frames) \in Nat /\ DOMAIN frames = 1..Len(frames)
  BY DEF BootInv, Types
<1>2. f \in FrameType /\ f.vector = v
      /\ f.at = IF v = 128 THEN "dispatch" ELSE "eoi"
  BY DEF Frame, FrameType, IsIrq, BootInv, Types
<1>3. UNCHANGED <<gates, interrupt_handlers, offset, tasking>>
  BY DEF tables
<1>4. /\ intr' \in BOOLEAN /\ lost' \in BOOLEAN /\ cpl' \in 0..3
      /\ \/ lost' /\ frames' = frames
         \/ ~lost' /\ frames' = Append(frames, f) /\ intr' = FALSE
  <2>1. \/ frames' = Append(frames, f) /\ intr' = FALSE /\ cpl' = 0
             /\ lost' = lost
        \/ lost' = TRUE /\ frames' = frames /\ intr' = intr /\ cpl' = cpl
    BY Zenon DEF Enter
  <2>2. /\ intr \in BOOLEAN /\ lost = FALSE /\ cpl \in 0..3
    BY DEF BootInv, Types
  <2>3. 0 \in 0..3
    OBVIOUS
  <2> HIDE DEF f
  <2>4. CASE frames' = Append(frames, f) /\ intr' = FALSE /\ cpl' = 0 /\ lost' = lost
    <3>1. intr' \in BOOLEAN /\ cpl' \in 0..3
      BY <2>3, <2>4
    <3>2. lost' = FALSE
      BY <2>2, <2>4
    <3>3. QED
      BY <2>4, <3>1, <3>2, Zenon
  <2>5. CASE lost' = TRUE /\ frames' = frames /\ intr' = intr /\ cpl' = cpl
    BY <2>2, <2>5, Zenon
  <2>6. QED
    BY <2>1, <2>4, <2>5, Zenon
<1> HIDE DEF f
<1>5. CASE lost' /\ frames' = frames
  BY <1>3, <1>4, <1>5 DEF BootInv, Types, Phase
<1>6. CASE ~lost' /\ frames' = Append(frames, f) /\ intr' = FALSE
  <2>1. /\ frames' \in Seq(FrameType) /\ frames' # <<>>
        /\ Len(frames') = Len(frames) + 1 /\ frames'[Len(frames) + 1] = f
        /\ \A k \in 1..Len(frames) : frames'[k] = frames[k]
    BY <1>2, <1>6, PushFacts DEF BootInv, Types
  <2>2. \A k \in 1..Len(frames') : k = Len(frames) + 1 \/ k \in 1..Len(frames)
    BY <1>1, <2>1
  <2>3. Types'
    BY <1>3, <1>4, <2>1 DEF BootInv, Types
  <2>4. Phase'
    BY <1>2, <1>3, <2>1, <2>2 DEF BootInv, Phase
  <2>5. ASSUME NEW k \in 1..(Len(frames') - 1) PROVE frames'[k].at = "iret"
    <3>1. k \in 1..Len(frames)
      BY <1>1, <2>1
    <3>2. k = Len(frames) \/ k \in 1..(Len(frames) - 1)
      <4> DEFINE n == Len(frames)
      <4>1. n \in Nat /\ k \in 1..n
        BY <3>1, <1>1
      <4> HIDE DEF n
      <4>2. k = n \/ k \in 1..(n - 1)
        BY <4>1
      <4>3. QED
        BY <4>2 DEF n
    <3>3. CASE k = Len(frames)
      <4>1. frames # <<>>
        BY <3>1, <1>1
      <4>2. QED
        BY <4>1, <3>1, <3>3, <2>1 DEF Last
    <3>4. CASE k \in 1..(Len(frames) - 1)
      BY <3>1, <3>4, <2>1 DEF BootInv, Shape
    <3>5. QED
      BY <3>2, <3>3, <3>4
  <2>6. frames'[Len(frames')] = f
    BY <2>1
  <2>7. CASE v = 128 /\ in_service' = {}
    BY <1>6, <2>3, <2>4, <2>5, <2>7 DEF BootInv, Shape
  <2>8. ASSUME NEW l \in Lines, v = 32 + l, in_service' = {l, Level(l)}
        PROVE  BootInv'
    <3>1. v # 128
      BY <2>8, LevelFacts
    <3>2. Level(l)' = Level(l)
      BY DEF Level, IsSlave
    <3>3. \E m \in Lines : frames'[Len(frames')].vector = 32 + m
                           /\ in_service' = {m, Level(m)}
      BY <2>6, <2>8, <1>2
    <3>4. Shape(frames', intr', in_service')
      BY <1>2, <1>6, <2>1, <2>5, <2>6, <3>1, <3>3 DEF Shape
    <3>5. QED
      BY <2>3, <2>4, <3>4 DEF BootInv, Shape, Level, IsSlave
  <2>9. QED
    BY <2>7, <2>8
<1>7. QED
  BY <1>4, <1>5, <1>6

LEMMA AcceptStep ==
  ASSUME BootInv, NEW l \in Lines, Accepts(l)
  PROVE  BootInv'
<1>1. /\ intr /\ ~lost /\ Enter(Vector(l), 0)
      /\ in_service' = in_service \cup {l, Level(l)}
      /\ UNCHANGED <<tables, offset, tasking>> /\ pc' = pc
  BY DEF Accepts, Accept
<1>2. pc \notin Before \cup {"zero"} /\ Shape(frames, intr, in_service)
  BY <1>1 DEF BootInv, Phase
<1>3. Vector(l) = 32 + l
  BY <1>2, VectorFacts DEF BootInv, Phase
<1>4. Vector(l) \in 32..47 \cup {128} /\ Vector(l) # 128
  BY <1>3, LevelFacts
<1>5. frames # <<>> => Last(frames).at = "iret"
  BY <1>1, <1>2 DEF Shape, Last
<1>6. in_service = {}
  BY <1>1, <1>2 DEF Shape
<1>7. in_service' = {l, Level(l)}
  BY <1>1, <1>6
<1>8. pc' \in Before \cup {"zero", "syscalls"} \cup Serving
  BY <1>1 DEF BootInv, Types
<1>9. \E k \in Lines : Vector(l) = 32 + k /\ in_service' = {k, Level(k)}
  BY <1>3, <1>7
<1>10. pc' \notin Before \cup {"zero"} /\ 0 \in Nat
  BY <1>1, <1>2
<1> HIDE DEF BootInv
<1>11. QED
  BY <1>1, <1>2, <1>4, <1>5, <1>8, <1>9, <1>10, EnterStep

\* An interrupt goes on to the next point; what else it does is right for it.
LEMMA MoveStep ==
  ASSUME BootInv, ~lost, frames # <<>>, NEW p \in {"dispatch", "iret"}, GoTo(p),
         in_service' = {}, intr' \in BOOLEAN, p = "iret" \/ ~intr',
         UNCHANGED <<offset, tables, cpl, lost, tasking, pc>>
  PROVE  BootInv'
<1> DEFINE n == Len(frames)
<1>1. frames \in Seq(FrameType) /\ n \in Nat /\ n > 0
  BY EmptySeq DEF BootInv, Types
<1>2. frames' = Moved(frames, p) /\ p \in {"eoi", "dispatch", "iret"}
  BY DEF GoTo, Moved
<1>3. /\ frames' \in Seq(FrameType) /\ Len(frames') = n
      /\ frames' # <<>> /\ frames'[n].at = p
      /\ frames'[n].vector = frames[n].vector
      /\ \A k \in 1..(n - 1) : frames'[k] = frames[k]
  <2> DEFINE t == Moved(frames, p)
  <2>1. /\ t \in Seq(FrameType) /\ Len(t) = n /\ t # <<>>
        /\ t[n].at = p /\ t[n].vector = frames[n].vector
        /\ \A k \in 1..(n - 1) : t[k] = frames[k]
    BY <1>1, <1>2, GoToFacts
  <2> HIDE DEF t
  <2>2. t = frames'
    BY <1>2 DEF t
  <2>3. QED
    BY <2>1, <2>2
<1> HIDE DEF n
<1>4. UNCHANGED <<gates, interrupt_handlers>>
  BY DEF tables
<1>5. Types'
  BY <1>3, <1>4 DEF BootInv, Types
<1>6. \A k \in 1..n : k = n \/ k \in 1..(n - 1)
  BY <1>1
<1>7. pc \notin Before \cup {"zero"}
  BY DEF BootInv, Phase
<1>8. \A k \in 1..n : frames'[k].vector = frames[k].vector
  BY <1>3, <1>6
<1>9. Phase'
  BY <1>3, <1>4, <1>7, <1>8 DEF BootInv, Phase, n
<1>10. Shape(frames', intr', in_service')
  <2>1. \A k \in 1..(n - 1) : frames'[k].at = "iret"
    BY <1>3 DEF BootInv, Shape, n
  <2>2. QED
    BY <2>1, <1>3 DEF Shape
<1>11. QED
  BY <1>5, <1>9, <1>10 DEF BootInv

\* At a point before its handler an interrupt keeps interrupts off.
LEMMA AtFacts ==
  ASSUME BootInv, NEW p \in {"eoi", "dispatch", "iret"}, At(p)
  PROVE  /\ frames # <<>> /\ ~lost /\ Shape(frames, intr, in_service)
         /\ frames \in Seq(FrameType) /\ Top = frames[Len(frames)]
         /\ Top \in FrameType /\ Top.at = p
         /\ p # "iret" => intr = FALSE
         /\ p # "eoi" => in_service = {}
<1>1. /\ frames # <<>> /\ ~lost /\ Top = frames[Len(frames)] /\ Top.at = p
      /\ frames \in Seq(FrameType) /\ intr \in BOOLEAN
  BY DEF At, Top, Last, BootInv, Types
<1>2. Shape(frames, intr, in_service)
  BY <1>1 DEF BootInv
<1>3. Len(frames) \in 1..Len(frames)
  BY <1>1, EmptySeq
<1>4. Top \in FrameType
  BY <1>1, <1>3
<1>5. QED
  BY <1>1, <1>2, <1>4 DEF Shape

\* The EOI of the master ends the line that was accepted, or the cascade; that
\* of the slave ends the line behind it.
LEMMA AcknowledgeEnds ==
  ASSUME BootInv, Acknowledge
  PROVE  in_service' = {}
<1>1. /\ At("eoi")
      /\ in_service' = (in_service \ EndOf({l \in in_service : ~IsSlave(l)}))
           \ IF SlaveGetsEoi(Top.vector)
             THEN EndOf({l \in in_service : IsSlave(l)}) ELSE {}
  BY DEF Acknowledge
<1>2. Shape(frames, intr, in_service) /\ Top = frames[Len(frames)]
  BY <1>1, AtFacts
<1>3. CASE in_service = {}
  BY <1>1, <1>3
<1>4. ASSUME NEW l \in Lines, Top.vector = 32 + l, in_service = {l, Level(l)}
      PROVE  in_service' = {}
  <2>1. /\ l \in 0..15 /\ l # 2 /\ IsSlave(l) = (l >= 8) /\ IsSlave(2) = FALSE
        /\ Level(l) = IF l >= 8 THEN 2 ELSE l
    BY LevelFacts DEF IsSlave
  <2>2. CASE l >= 8
    <3>1. /\ {k \in in_service : ~IsSlave(k)} = {2}
          /\ {k \in in_service : IsSlave(k)} = {l}
      BY <1>4, <2>1, <2>2
    <3>2. EndOf({2}) = {2} /\ EndOf({l}) = {l}
      BY <2>1, EndOfFacts
    <3>3. SlaveGetsEoi(Top.vector)
      BY <1>4, <2>1, <2>2 DEF SlaveGetsEoi
    <3>4. QED
      BY <1>1, <1>4, <2>1, <2>2, <3>1, <3>2, <3>3
  <2>3. CASE ~(l >= 8)
    <3>1. in_service = {l} /\ {k \in in_service : ~IsSlave(k)} = {l}
      BY <1>4, <2>1, <2>3
    <3>2. EndOf({l}) = {l}
      BY <2>1, EndOfFacts
    <3>3. QED
      BY <1>1, <3>1, <3>2
  <2>4. QED
    BY <2>2, <2>3
<1>5. QED
  BY <1>2, <1>3, <1>4 DEF Shape

LEMMA HandlingStep ==
  ASSUME BootInv, HandlerStep
  PROVE  BootInv'
<1>1. pc' = pc
  BY DEF HandlerStep
<1>2. CASE Acknowledge
  <2>1. At("eoi") /\ GoTo("dispatch")
        /\ UNCHANGED <<offset, tables, intr, cpl, lost, tasking>>
    BY <1>2 DEF Acknowledge
  <2>2. frames # <<>> /\ ~lost /\ intr = FALSE
    BY <2>1, AtFacts
  <2>3. in_service' = {}
    BY <1>2, AcknowledgeEnds
  <2>4. QED
    BY <1>1, <2>1, <2>2, <2>3, MoveStep
<1>3. CASE Unhandled
  <2>1. /\ At("dispatch") /\ interrupt_handlers[Top.vector] = None
        /\ GoTo(IF IsIrq(Top.vector) THEN "iret" ELSE "spin")
        /\ UNCHANGED <<pic, tables, intr, cpl, lost, tasking>>
    BY <1>3 DEF Unhandled, Handles
  <2>2. /\ frames # <<>> /\ ~lost /\ intr = FALSE /\ in_service = {}
        /\ Top = frames[Len(frames)] /\ Top \in FrameType
        /\ frames \in Seq(FrameType)
    BY <2>1, AtFacts
  <2>3. Top.vector # 128
    <3>1. Len(frames) \in 1..Len(frames)
      BY <2>2, EmptySeq
    <3>2. Top.vector = 128 => interrupt_handlers[128] = "syscall_handler"
      BY <2>2, <3>1 DEF BootInv, Phase, Serving
    <3>3. QED
      BY <2>1, <3>2 DEF None
  <2>4. IsIrq(Top.vector)
    BY <2>2, <2>3 DEF FrameType, IsIrq
  <2>5. QED
    BY <1>1, <2>1, <2>2, <2>4, MoveStep DEF pic
<1>4. CASE TimerCallback
  <2>1. /\ At("dispatch") /\ GoTo("iret") /\ intr' = tasking
        /\ UNCHANGED <<pic, tables, cpl, lost, tasking>>
    BY <1>4 DEF TimerCallback, Handles
  <2>2. frames # <<>> /\ ~lost /\ in_service = {} /\ tasking \in BOOLEAN
    BY <2>1, AtFacts DEF BootInv, Types
  <2>3. QED
    BY <1>1, <2>1, <2>2, MoveStep DEF pic
<1>5. ASSUME NEW h \in {"keyboard_callback", "do_nothing"}, Callback(h)
      PROVE  BootInv'
  <2>1. /\ At("dispatch") /\ GoTo("iret")
        /\ UNCHANGED <<offset, tables, intr, cpl, lost, tasking>>
        /\ in_service' \subseteq in_service
    BY <1>5 DEF Callback, Handles
  <2>2. frames # <<>> /\ ~lost /\ in_service = {} /\ intr \in BOOLEAN
    BY <2>1, AtFacts DEF BootInv, Types
  <2>3. in_service' = {}
    BY <2>1, <2>2
  <2>4. QED
    BY <1>1, <2>1, <2>2, <2>3, MoveStep
<1>6. CASE SyscallHandler
  <2>1. /\ At("dispatch") /\ UNCHANGED <<pic, tables, intr, cpl, lost, tasking>>
        /\ \/ GoTo("iret")
           \/ frames' = Append([frames EXCEPT ![Len(frames)].at = "iret"],
                               Frame(34, 0))
    BY <1>6 DEF SyscallHandler, Handles
  <2>2. /\ frames # <<>> /\ ~lost /\ in_service = {} /\ intr = FALSE
        /\ Shape(frames, intr, in_service) /\ frames \in Seq(FrameType)
    BY <2>1, AtFacts
  <2>3. CASE GoTo("iret")
    BY <1>1, <2>1, <2>2, <2>3, MoveStep DEF pic
  <2>4. CASE frames' = Append([frames EXCEPT ![Len(frames)].at = "iret"],
                              Frame(34, 0))
    <3> DEFINE n == Len(frames)
               t == Moved(frames, "iret")
               f == Frame(34, 0)
    <3>1. n \in Nat /\ n > 0
      BY <2>2, EmptySeq
    <3>2. f \in FrameType /\ f.vector = 34
      BY DEF Frame, FrameType, IsIrq, BootInv, Types
    <3>3. /\ t \in Seq(FrameType) /\ Len(t) = n /\ t[n].at = "iret"
          /\ t[n].vector = frames[n].vector
          /\ \A k \in 1..(n - 1) : t[k] = frames[k]
      BY <2>2, GoToFacts
    <3>4. \A k \in 1..n : k = n \/ k \in 1..(n - 1)
      <4> HIDE DEF n
      <4>1. QED
        BY <3>1
    <3> HIDE DEF t, f, n
    <3>5. \A k \in 1..n : t[k].at = "iret" /\ t[k].vector = frames[k].vector
      BY <2>2, <3>3, <3>4 DEF Shape, n
    <3>6. frames' = Append(t, f)
      BY <2>4 DEF t, f, Moved
    <3>7. /\ frames' \in Seq(FrameType) /\ frames' # <<>>
          /\ Len(frames') = n + 1 /\ frames'[n + 1] = f
          /\ \A k \in 1..n : frames'[k] = t[k]
      BY <3>2, <3>3, <3>6, PushFacts
    <3>8. UNCHANGED <<gates, interrupt_handlers, offset, in_service>>
      BY <2>1 DEF tables, pic
    <3>9. Types'
      BY <1>1, <2>1, <3>7, <3>8 DEF BootInv, Types
    <3>10. \A k \in 1..(n + 1) : k = n + 1 \/ k \in 1..n
      BY <3>1
    <3>11. \A k \in 1..(n + 1) :
             frames'[k].vector = 128 => k \in 1..n /\ frames[k].vector = 128
      BY <3>2, <3>5, <3>7, <3>10
    <3>12. pc \notin Before \cup {"zero"}
      BY <2>2 DEF BootInv, Phase
    <3>13. Phase'
      BY <1>1, <3>7, <3>8, <3>11, <3>12 DEF BootInv, Phase, n
    <3>14. Shape(frames', intr', in_service')
      <4>1. \A k \in 1..(Len(frames') - 1) : k \in 1..n
        BY <3>1, <3>7
      <4>2. QED
        BY <2>1, <2>2, <3>5, <3>7, <3>8, <4>1 DEF Shape
    <3>15. QED
      BY <3>9, <3>13, <3>14 DEF BootInv
  <2>5. QED
    BY <2>1, <2>3, <2>4
<1>7. CASE IRet
  <2>1. /\ At("iret") /\ intr' = Top.intr /\ cpl' = Top.cpl
        /\ frames' = Front(frames)
        /\ UNCHANGED <<pic, tables, lost, tasking>>
    BY <1>7 DEF IRet
  <2>2. /\ frames # <<>> /\ ~lost /\ in_service = {}
        /\ Shape(frames, intr, in_service) /\ frames \in Seq(FrameType)
        /\ Top \in FrameType
    BY <2>1, AtFacts
  <2> DEFINE n == Len(frames)
  <2>3. n \in Nat /\ n > 0
    BY <2>2, EmptySeq
  <2>4. /\ frames' \in Seq(FrameType) /\ Len(frames') = n - 1
        /\ \A k \in 1..(n - 1) : frames'[k] = frames[k]
    BY <2>1, <2>2, PopFacts
  <2>5. \A k \in 1..(n - 1) : frames'[k].at = "iret"
    BY <2>2, <2>4 DEF Shape
  <2>6. UNCHANGED <<gates, interrupt_handlers, offset, in_service>>
    BY <2>1 DEF tables, pic
  <2>7. intr' \in BOOLEAN /\ cpl' \in 0..3
    BY <2>1, <2>2 DEF FrameType
  <2>8. Types'
    BY <1>1, <2>1, <2>4, <2>6, <2>7 DEF BootInv, Types
  <2>9. pc \notin Before \cup {"zero"}
    BY <2>2 DEF BootInv, Phase
  <2>10. \A k \in 1..(n - 1) : k \in 1..n
    BY <2>3
  <2> HIDE DEF n
  <2>11. Phase'
    BY <1>1, <2>4, <2>6, <2>9, <2>10 DEF BootInv, Phase, n
  <2>12. Shape(frames', intr', in_service')
    <3>1. \A k \in 1..(Len(frames') - 1) : k \in 1..(n - 1)
      BY <2>3, <2>4
    <3>2. ASSUME frames' # <<>> PROVE frames'[Len(frames')].at = "iret"
      <4>1. Len(frames') \in 1..(n - 1)
        BY <2>3, <2>4, <3>2, EmptySeq
      <4>2. QED
        BY <2>5, <4>1
    <3>3. QED
      BY <2>2, <2>5, <2>6, <3>1, <3>2 DEF Shape
  <2>13. QED
    BY <2>8, <2>11, <2>12 DEF BootInv
<1>8. QED
  BY <1>2, <1>3, <1>4, <1>5, <1>6, <1>7 DEF HandlerStep, Handling

-----------------------------------------------------------------------------
(* The steps of main *)

LEMMA MainStep ==
  ASSUME BootInv, Main
  PROVE  BootInv'
<1>1. /\ frames = <<>> /\ ~lost /\ Len(frames) = 0
      /\ Types /\ Phase /\ Shape(frames, intr, in_service)
  BY EmptySeq DEF Main, BootInv, ScanPciBus, ScanDone, CreateRing, CreateRingData,
     KeyboardInstall, InitGdt, InitIdt, ZeroHandlers, InitialiseSyscalls,
     RegisterNoop, InitTimer, InitialiseFrames, MakeDirectory, MakeHeapTable,
     MakeLowTable, EnablePaging, InitialiseTasking, SwitchToUserMode, Syscall,
     MemoryStep, TableStep, Goes
<1>2. in_service = {}
  BY <1>1 DEF Shape
<1>3. CASE ScanPciBus \/ ScanDone \/ CreateRing \/ CreateRingData
           \/ InitialiseFrames \/ MakeDirectory \/ MakeHeapTable \/ MakeLowTable
  <2>1. /\ UNCHANGED interrupt_vars
        /\ \/ pc \in Before /\ pc' \in Before
           \/ pc \in Serving /\ pc' \in Serving
    BY <1>3 DEF ScanPciBus, ScanDone, CreateRing, CreateRingData,
       InitialiseFrames, MakeDirectory, MakeHeapTable, MakeLowTable,
       MemoryStep, Goes, Before, Serving
  <2>2. /\ UNCHANGED <<frames, in_service, offset, gates, interrupt_handlers>>
        /\ UNCHANGED <<intr, lost, tasking, cpl>>
    BY <2>1 DEF interrupt_vars, pic, tables
  <2>3. Types' /\ Phase'
    BY <1>1, <1>2, <2>1, <2>2 DEF Types, Phase, Before, Serving
  <2>4. QED
    BY <1>1, <2>2, <2>3 DEF BootInv
<1>4. ASSUME NEW n \in Vectors, NEW h \in Handlers,
             register_interrupt_handler(n, h), n = 128 => h = "syscall_handler",
             UNCHANGED <<pic, gates, frames, cpl, lost, tasking>>,
             pc' \in Before \cup {"zero", "syscalls"} \cup Serving,
             \/ pc \in Before /\ pc' \in Before /\ intr' = intr
             \/ pc \in Serving /\ pc' \in Serving /\ intr' \in BOOLEAN
             \/ pc = "syscalls" /\ pc' = "noop" /\ n = 128 /\ intr' = intr
      PROVE  BootInv'
  <2>1. UNCHANGED <<irr, in_service, offset>>
    BY <1>4 DEF pic
  <2>2. /\ interrupt_handlers' \in [Vectors -> Handlers]
        /\ interrupt_handlers'[128] =
             IF n = 128 THEN h ELSE interrupt_handlers[128]
    <3>1. 128 \in Vectors
      BY DEF Vectors
    <3>2. interrupt_handlers \in [Vectors -> Handlers]
      BY <1>1 DEF Types
    <3>3. interrupt_handlers' = [interrupt_handlers EXCEPT ![n] = h]
      BY <1>4 DEF register_interrupt_handler
    <3>4. QED
      BY <1>4, <3>1, <3>2, <3>3
  <2>3. intr' \in BOOLEAN
    BY <1>1, <1>4 DEF Types
  <2>4. Types'
    BY <1>1, <1>4, <2>2, <2>3 DEF Types
  <2>5. Phase'
    BY <1>1, <1>2, <1>4, <2>1, <2>2 DEF Phase, Before, Serving
  <2>6. Shape(frames', intr', in_service')
    BY <1>1, <1>2, <1>4, <2>1 DEF Shape
  <2>7. QED
    BY <2>4, <2>5, <2>6 DEF BootInv
<1>5. CASE KeyboardInstall
  BY <1>4, <1>5 DEF KeyboardInstall, TableStep, Goes, Vectors, Handlers, Before
<1>6. CASE InitialiseSyscalls
  BY <1>4, <1>6 DEF InitialiseSyscalls, TableStep, Goes, Vectors, Handlers, Serving
<1>7. CASE RegisterNoop
  BY <1>1, <1>4, <1>7 DEF RegisterNoop, TableStep, Goes, Vectors, Handlers, Serving, Types
<1>8. CASE InitTimer
  BY <1>4, <1>8 DEF InitTimer, TableStep, Goes, Vectors, Handlers, Serving
<1>9. CASE EnablePaging
  BY <1>1, <1>4, <1>9 DEF EnablePaging, TableStep, Goes, Vectors, Handlers, Serving,
     Types
<1>10. CASE InitGdt
  BY <1>1, <1>2, <1>10 DEF InitGdt, TableStep, Goes, pic, BootInv, Types, Phase,
     Shape, Before, Serving
<1>11. CASE InitIdt
  BY <1>1, <1>2, <1>11 DEF InitIdt, TableStep, Goes, BootInv, Types, Phase, Shape,
     Before, Serving
<1>12. CASE ZeroHandlers
  <2>1. /\ pc = "zero" /\ pc' = "syscalls" /\ intr' = TRUE
        /\ UNCHANGED <<in_service, offset, gates, cpl, frames, lost, tasking>>
        /\ interrupt_handlers' = [v \in Vectors |-> None]
    BY <1>12 DEF ZeroHandlers, TableStep, Goes, pic
  <2>2. interrupt_handlers' \in [Vectors -> Handlers]
    BY <2>1 DEF Handlers
  <2>3. QED
    BY <1>1, <1>2, <2>1, <2>2 DEF BootInv, Types, Phase, Shape, Before, Serving
<1>13. CASE InitialiseTasking
  BY <1>1, <1>2, <1>13 DEF InitialiseTasking, TableStep, Goes, pic, tables, BootInv,
     Types, Phase, Shape, Before, Serving
<1>14. CASE SwitchToUserMode
  <2>1. /\ pc = "initrd" /\ pc' = "write" /\ intr' = TRUE /\ cpl' = UserCode % 4
        /\ UNCHANGED <<pic, tables, frames, lost, tasking>>
    BY <1>14 DEF SwitchToUserMode, Goes
  <2>2. cpl' \in 0..3
    BY <2>1 DEF UserCode
  <2>3. QED
    BY <1>1, <1>2, <2>1, <2>2 DEF pic, tables, BootInv, Types, Phase, Shape, Before,
       Serving
<1>15. ASSUME NEW from \in {"write", "test_noop"}, NEW to \in {"test_noop", "loop"},
              NEW eax \in Nat, Syscall(from, to, eax)
       PROVE  BootInv'
  <2>1. /\ pc = from /\ pc' = to /\ Enter(128, eax)
        /\ UNCHANGED <<tables, offset, tasking>> /\ in_service' = in_service
    BY <1>15 DEF Syscall, Goes, pic
  <2>2. /\ pc \in Serving /\ pc' \in Serving /\ pc' \in {"test_noop", "loop"}
        /\ pc \notin Before \cup {"zero"} /\ pc' \notin Before \cup {"zero"}
    BY <2>1 DEF Serving, Before
  <2>3. 128 \in 32..47 \cup {128} /\ in_service' = {}
    BY <1>2, <2>1
  <2> HIDE DEF BootInv
  <2>4. QED
    BY <1>1, <2>1, <2>2, <2>3, EnterStep
<1>16. CASE Syscall("write", "test_noop", 0) \/ Syscall("test_noop", "loop", 3)
  BY <1>15, <1>16
<1>17. QED
  BY <1>3, <1>5, <1>6, <1>7, <1>8, <1>9, <1>10, <1>11, <1>12, <1>13, <1>14, <1>16
     DEF Main

LEMMA NextBoot == BootInv /\ [BootNext]_boot_vars => BootInv'
<1> SUFFICES ASSUME BootInv, [BootNext]_boot_vars PROVE BootInv'
  OBVIOUS
<1>1. CASE UNCHANGED boot_vars
  <2>1. /\ UNCHANGED <<frames, in_service, offset, gates, interrupt_handlers>>
        /\ UNCHANGED <<intr, lost, tasking, cpl, pc>>
    BY <1>1 DEF boot_vars, interrupt_vars, pic, tables
  <2>2. QED
    BY <2>1 DEF BootInv, Types, Phase
<1>2. QED
  BY <1>1, MainStep, HandlingStep, AcceptStep, RaiseStep DEF BootNext

LEMMA InitBoot == BootInit => BootInv
<1> SUFFICES ASSUME BootInit PROVE BootInv
  OBVIOUS
<1>1. /\ pc = "scan" /\ frames = <<>> /\ intr = FALSE /\ lost = FALSE /\ cpl = 0
      /\ tasking = FALSE /\ in_service = {}
      /\ interrupt_handlers = [v \in Vectors |-> None]
  BY DEF BootInit, InterruptsInit
<1>2. <<>> \in Seq(FrameType) /\ Len(<<>>) = 0
  BY EmptySeq
<1>3. interrupt_handlers \in [Vectors -> Handlers]
  BY <1>1 DEF Handlers
<1>4. Types
  <2>1. frames \in Seq(FrameType)
    BY <1>1, <1>2, Zenon
  <2>2. cpl \in 0..3 /\ pc \in Before
    BY <1>1 DEF Before
  <2>3. intr \in BOOLEAN /\ lost \in BOOLEAN /\ tasking \in BOOLEAN
    BY <1>1
  <2>4. QED
    BY <1>3, <2>1, <2>2, <2>3, Zenon DEF Types
<1>5. Phase
  BY <1>1, <1>2 DEF Phase, Before, Serving
<1>6. Shape(frames, intr, in_service)
  BY <1>1, <1>2 DEF Shape
<1>7. QED
  BY <1>4, <1>5, <1>6 DEF BootInv

\* Where interrupts are, what is in service, and which tables are set up.
THEOREM Invariance == BootSpec => []BootInv
<1>1. QED
  BY InitBoot, NextBoot, PTL DEF BootSpec

\* Every interrupt finds a gate, and every trap of main a handler.
THEOREM ServedTheorem == BootSpec => []InterruptsAreServed
<1>1. BootInv => InterruptsAreServed
  <2> SUFFICES ASSUME BootInv PROVE InterruptsAreServed
    OBVIOUS
  <2>1. ASSUME intr, NEW l \in Lines
        PROVE  Vector(l) \in gates /\ IsIrq(Vector(l))
    <3>1. offset = RemappedOffset /\ gates = Gates
      BY <2>1 DEF BootInv, Phase
    <3>2. QED
      BY <3>1, VectorFacts
  <2>2. ASSUME NEW k \in DOMAIN frames PROVE frames[k].at # "spin"
    <3>1. frames[k] \in FrameType
      BY DEF BootInv, Types
    <3>2. QED
      BY <3>1 DEF FrameType
  <2>3. QED
    BY <2>1, <2>2 DEF InterruptsAreServed
<1>2. QED
  BY <1>1, Invariance, PTL

\* While interrupts are on nothing waits for an EOI, whatever handlers do.
THEOREM NothingInServiceTheorem == BootSpec => []NothingInService
<1>1. BootInv => NothingInService
  BY DEF BootInv, Shape, NothingInService
<1>2. QED
  BY <1>1, Invariance, PTL

\* No EOI ends an interrupt other than that of the handler that sends it.
THEOREM EoiTheorem == BootSpec => EoiEndsOwn
<1> DEFINE Own == frames # <<>> =>
             \A l \in in_service \ in_service' :
               Top.vector \in
                 {Vector(m) : m \in {k \in Lines : Level(k) = Level(l)}}
<1>1. ASSUME BootInv, [BootNext]_boot_vars PROVE Own
  <2> SUFFICES ASSUME frames # <<>>, NEW l \in in_service, l \notin in_service'
               PROVE  Top.vector \in
                        {Vector(m) : m \in {k \in Lines : Level(k) = Level(l)}}
    OBVIOUS
  <2>1. HandlerStep
    <3>1. in_service' # in_service
      OBVIOUS
    <3>2. ~UNCHANGED boot_vars
      BY <3>1 DEF boot_vars, interrupt_vars, pic
    <3>3. ~Main
      BY EmptySeq DEF Main, ScanPciBus, ScanDone, CreateRing, CreateRingData,
         KeyboardInstall, InitGdt, InitIdt, ZeroHandlers, InitialiseSyscalls,
         RegisterNoop, InitTimer, InitialiseFrames, MakeDirectory, MakeHeapTable,
         MakeLowTable, EnablePaging, InitialiseTasking, SwitchToUserMode, Syscall,
         MemoryStep, TableStep, Goes
    <3>4. ASSUME NEW k \in Lines, Accepts(k) \/ Raises(k) PROVE FALSE
      BY <3>4 DEF Accepts, Raises, Accept, Raise
    <3>5. QED
      BY <1>1, <3>2, <3>3, <3>4 DEF BootNext
  <2>2. Acknowledge
    <3>1. in_service' # in_service
      OBVIOUS
    <3>2. ~Unhandled /\ ~TimerCallback /\ ~SyscallHandler /\ ~IRet
      BY <3>1 DEF Unhandled, TimerCallback, SyscallHandler, IRet, pic
    <3>3. ASSUME NEW h \in {"keyboard_callback", "do_nothing"}, Callback(h)
          PROVE  FALSE
      <4>1. At("dispatch")
        BY <3>3 DEF Callback, Handles
      <4>2. in_service = {}
        BY <1>1, <4>1, AtFacts
      <4>3. QED
        BY <4>2
    <3>4. QED
      BY <2>1, <3>2, <3>3 DEF HandlerStep, Handling
  <2>3. At("eoi")
    BY <2>2 DEF Acknowledge
  <2>4. /\ Shape(frames, intr, in_service) /\ Top = frames[Len(frames)]
        /\ intr = FALSE /\ frames \in Seq(FrameType)
    BY <1>1, <2>3, AtFacts
  <2>5. PICK m \in Lines : Top.vector = 32 + m /\ in_service = {m, Level(m)}
    BY <2>4 DEF Shape
  <2>6. pc \notin Before
    BY <1>1 DEF BootInv, Phase
  <2>7. Vector(m) = 32 + m
    BY <1>1, <2>6, VectorFacts DEF BootInv, Phase
  <2>8. Level(m) = Level(l)
    <3>1. CASE l = m
      BY <3>1
    <3>2. CASE l = Level(m)
      BY <3>2, LevelFacts DEF Level, IsSlave, Cascade
    <3>3. QED
      BY <2>5, <3>1, <3>2
  <2>9. QED
    BY <2>5, <2>7, <2>8
<1>2. BootInv /\ [BootNext]_boot_vars => [Own]_boot_vars
  BY <1>1
<1>3. QED
  BY <1>2, Invariance, PTL DEF BootSpec, EoiEndsOwn

-----------------------------------------------------------------------------
(* The memory handed out before there is a heap *)

\* So few devices that what they get, and what is written behind it, ends
\* below the page boundary that the page directory is moved to.
Fits == 68 * MaxDevices + 544 <= PageSize /\ End + 7 * PageSize <= IdentityMapped

Directory == [name |-> "kernel_directory", at |-> End + 4096, used |-> 8196]
HeapTable == [name |-> "heap_table", at |-> End + 16384, used |-> 4096]
LowTable == [name |-> "low_table", at |-> End + 24576, used |-> 4096]
Tables == {Directory, HeapTable, LowTable}

Low(o) == /\ o.name \notin Pages /\ o.at \in Nat /\ o.used \in Nat
          /\ o.at >= End /\ o.at + o.used <= End + 4096

Scanned == 68 * MaxDevices

MemoryInv ==
  /\ \A o \in objects : o \in Tables \/ Low(o)
  /\ pc \in Before \cup {"zero", "syscalls", "noop", "timer", "bitmap", "directory",
                       "heap_table", "low_table"} => placement_address \in Nat
  /\ pc = "scan" =>
       /\ IsFiniteSet(objects) /\ Cardinality(objects) <= MaxDevices
       /\ placement_address = End + 68 * Cardinality(objects)
       /\ \A o \in objects : o.at < placement_address
  /\ pc = "ring" => placement_address \in End..(End + Scanned + 4)
  /\ pc = "data" => placement_address \in End..(End + Scanned + 24)
  /\ pc \in (Before \cup {"zero", "syscalls", "noop", "timer", "bitmap"})
             \ {"scan", "ring", "data"} =>
       placement_address \in End..(End + Scanned + 32)
  /\ pc = "directory" => placement_address \in End..(End + Scanned + 160)
  /\ pc = "heap_table" => placement_address = End + 12292
  /\ pc = "low_table" => placement_address = End + 20480

LEMMA AlignedFacts ==
  /\ \A a \in End..(End + 4095) : Aligned(a) = End + 4096
  /\ Aligned(End + 12292) = End + 16384
  /\ Aligned(End + 20480) = End + 24576
<1>1. End \in Nat /\ End % 4096 = 0 /\ End >= 4096
  BY DEF PageSize
<1>2. \A a \in End..(End + 24575) :
        Aligned(a) = (a \div 4096 + 1) * 4096
  BY <1>1 DEF Aligned, PageSize
<1>3. (End \div 4096) * 4096 = End
  BY <1>1
<1> DEFINE q == End \div 4096
<1>4. q \in Nat /\ End = 4096 * q
  BY <1>1, <1>3
<1> HIDE DEF q
<1>5. \A a \in End..(End + 4095) : a \div 4096 = q
  BY <1>4
<1>6. (End + 12292) \div 4096 = q + 3 /\ (End + 20480) \div 4096 = q + 5
  BY <1>4
<1>7. ASSUME NEW a \in End..(End + 4095) PROVE Aligned(a) = End + 4096
  <2>1. a \in End..(End + 24575)
    BY <1>1
  <2>2. QED
    BY <2>1, <1>2, <1>4, <1>5
<1>8. QED
  BY <1>1, <1>2, <1>4, <1>6, <1>7

\* A new object among the others.
LEMMA PlaceStep ==
  ASSUME MemoryInv, NEW name, NEW at, NEW size, NEW used, Place(name, at, size, used),
         LET o == [name |-> name, at |-> at, used |-> used] IN
           o \in Tables \/ Low(o)
  PROVE  /\ \A o \in objects' : o \in Tables \/ Low(o)
         /\ placement_address' = at + size
  BY DEF Place, MemoryInv

LEMMA MemoryMain ==
  ASSUME Fits, MemoryInv, Main
  PROVE  MemoryInv'
<1>1. /\ MaxDevices \in Nat /\ End \in Nat /\ Scanned \in Nat
      /\ Scanned + 544 <= 4096
  BY DEF Fits, PageSize, Scanned
<1>2. CASE ScanPciBus
  <2> DEFINE new == [name |-> "pci_header", at |-> placement_address, used |-> 60]
             n == Cardinality(objects)
  <2>1. /\ pc = "scan" /\ pc' = "scan" /\ n < MaxDevices
        /\ Place("pci_header", placement_address, 68, 60)
        /\ objects' = objects \cup {new}
    BY <1>2 DEF ScanPciBus, MemoryStep, Goes, Places, Place
  <2>2. /\ IsFiniteSet(objects) /\ placement_address = End + 68 * n
        /\ n \in Nat /\ \A o \in objects : o.at < placement_address
    BY <2>1, FS_CardinalityType DEF MemoryInv
  <2>3. new \notin objects
    <3>1. placement_address \in Nat /\ new.at = placement_address
      BY <1>1, <2>2
    <3>2. QED
      BY <2>2, <3>1
  <2>4. IsFiniteSet(objects') /\ Cardinality(objects') = n + 1
    BY <2>1, <2>2, <2>3, FS_AddElement
  <2> HIDE DEF n
  <2>5. 68 * n + 68 <= Scanned /\ 68 * (n + 1) = 68 * n + 68
    BY <1>1, <2>1, <2>2 DEF Scanned
  <2>6. placement_address \in Nat /\ placement_address + 60 <= End + 4096
        /\ placement_address >= End
    BY <1>1, <2>2, <2>5
  <2>7. Low(new)
    BY <2>6 DEF Low, Pages
  <2>8. /\ \A o \in objects' : o \in Tables \/ Low(o)
        /\ placement_address' = placement_address + 68
    BY <2>1, <2>7, PlaceStep
  <2>9. placement_address' = End + 68 * (n + 1) /\ placement_address' \in Nat
    BY <1>1, <2>2, <2>5, <2>6, <2>8
  <2>10. \A o \in objects' : o.at < placement_address'
    <3>1. new.at < placement_address'
      BY <2>6, <2>8
    <3>2. ASSUME NEW o \in objects PROVE o.at < placement_address'
      <4>1. o.at < placement_address /\ o.at \in Nat
        BY <1>1, <2>2 DEF MemoryInv, Low, Tables, Directory, HeapTable, LowTable
      <4>2. QED
        BY <4>1, <2>6, <2>8
    <3>3. QED
      BY <2>1, <3>1, <3>2
  <2>11. n + 1 <= MaxDevices
    BY <2>1, <2>2, <1>1
  <2>12. QED
    BY <2>1, <2>4, <2>8, <2>9, <2>10, <2>11 DEF MemoryInv
<1>3. CASE ScanDone
  <2>1. /\ pc = "scan" /\ pc' = "ring"
        /\ Place("keyboard", placement_address, 4, 312)
    BY <1>3 DEF ScanDone, MemoryStep, Goes, Places
  <2> DEFINE n == Cardinality(objects)
  <2>2. /\ IsFiniteSet(objects) /\ placement_address = End + 68 * n
        /\ n <= MaxDevices /\ n \in Nat
    BY <2>1, FS_CardinalityType DEF MemoryInv
  <2> HIDE DEF n
  <2>3. 68 * n <= Scanned
    BY <1>1, <2>2 DEF Scanned
  <2>4. placement_address \in End..(End + Scanned)
    BY <1>1, <2>2, <2>3
  <2>5. Low([name |-> "keyboard", at |-> placement_address, used |-> 312])
    BY <1>1, <2>4 DEF Low, Pages
  <2>6. /\ \A o \in objects' : o \in Tables \/ Low(o)
        /\ placement_address' = placement_address + 4
    BY <2>1, <2>5, PlaceStep
  <2>7. placement_address' \in End..(End + Scanned + 4)
    BY <1>1, <2>4, <2>6
  <2>8. placement_address' \in Nat
    BY <1>1, <2>7
  <2>9. QED
    BY <2>1, <2>6, <2>7, <2>8 DEF MemoryInv
<1>4. CASE CreateRing
  <2>1. /\ pc = "ring" /\ pc' = "data" /\ Place("ring_buffer", placement_address, 20, 20)
        /\ placement_address \in End..(End + Scanned + 4)
    BY <1>4 DEF CreateRing, MemoryStep, Goes, Places, MemoryInv
  <2>2. Low([name |-> "ring_buffer", at |-> placement_address, used |-> 20])
    BY <1>1, <2>1 DEF Low, Pages
  <2>3. /\ \A o \in objects' : o \in Tables \/ Low(o)
        /\ placement_address' = placement_address + 20
    BY <2>1, <2>2, PlaceStep
  <2>4. /\ placement_address' \in End..(End + Scanned + 24)
        /\ placement_address' \in Nat
    BY <1>1, <2>1, <2>3
  <2>5. QED
    BY <2>1, <2>3, <2>4 DEF MemoryInv
<1>5. CASE CreateRingData
  <2>1. /\ pc = "data" /\ pc' = "keyboard" /\ Place("ring_data", placement_address, 8, 8)
        /\ placement_address \in End..(End + Scanned + 24)
    BY <1>5 DEF CreateRingData, MemoryStep, Goes, Places, MemoryInv
  <2>2. Low([name |-> "ring_data", at |-> placement_address, used |-> 8])
    BY <1>1, <2>1 DEF Low, Pages
  <2>3. /\ \A o \in objects' : o \in Tables \/ Low(o)
        /\ placement_address' = placement_address + 8
    BY <2>1, <2>2, PlaceStep
  <2>4. /\ placement_address' \in End..(End + Scanned + 32)
        /\ placement_address' \in Nat
    BY <1>1, <2>1, <2>3
  <2>5. QED
    BY <2>1, <2>3, <2>4 DEF MemoryInv
<1>6. CASE InitialiseFrames
  <2>1. /\ pc = "bitmap" /\ pc' = "directory" /\ Place("frames", placement_address, 128, 512)
        /\ placement_address \in End..(End + Scanned + 32)
    BY <1>6 DEF InitialiseFrames, MemoryStep, Goes, Places, MemoryInv
  <2>2. Low([name |-> "frames", at |-> placement_address, used |-> 512])
    BY <1>1, <2>1 DEF Low, Pages
  <2>3. /\ \A o \in objects' : o \in Tables \/ Low(o)
        /\ placement_address' = placement_address + 128
    BY <2>1, <2>2, PlaceStep
  <2>4. /\ placement_address' \in End..(End + Scanned + 160)
        /\ placement_address' \in Nat
    BY <1>1, <2>1, <2>3
  <2>5. QED
    BY <2>1, <2>3, <2>4 DEF MemoryInv, Before
<1>7. CASE MakeDirectory
  <2>1. /\ pc = "directory" /\ pc' = "heap_table"
        /\ Place("kernel_directory", Aligned(placement_address), 8196, 8196)
        /\ placement_address \in End..(End + Scanned + 160)
    BY <1>7 DEF MakeDirectory, MemoryStep, Goes, PlacesPages, MemoryInv
  <2>2. placement_address \in End..(End + 4095)
    BY <1>1, <2>1
  <2>3. Aligned(placement_address) = End + 4096
    BY <2>2, AlignedFacts
  <2>4. /\ \A o \in objects' : o \in Tables \/ Low(o)
        /\ placement_address' = End + 4096 + 8196
    BY <2>1, <2>3, PlaceStep DEF Tables, Directory
  <2>5. placement_address' = End + 12292 /\ placement_address' \in Nat
    BY <1>1, <2>4
  <2>6. QED
    BY <2>1, <2>4, <2>5 DEF MemoryInv, Before
<1>8. CASE MakeHeapTable
  <2>1. /\ pc = "heap_table" /\ pc' = "low_table"
        /\ Place("heap_table", Aligned(placement_address), 4096, 4096)
        /\ placement_address = End + 12292
    BY <1>8 DEF MakeHeapTable, MemoryStep, Goes, PlacesPages, MemoryInv
  <2>2. Aligned(placement_address) = End + 16384
    BY <2>1, AlignedFacts
  <2>3. /\ \A o \in objects' : o \in Tables \/ Low(o)
        /\ placement_address' = End + 16384 + 4096
    BY <2>1, <2>2, PlaceStep DEF Tables, HeapTable
  <2>4. placement_address' = End + 20480 /\ placement_address' \in Nat
    BY <1>1, <2>3
  <2>5. QED
    BY <2>1, <2>3, <2>4 DEF MemoryInv, Before
<1>9. CASE MakeLowTable
  <2>1. /\ pc = "low_table" /\ pc' = "fault"
        /\ Place("low_table", Aligned(placement_address), 4096, 4096)
        /\ placement_address = End + 20480
    BY <1>9 DEF MakeLowTable, MemoryStep, Goes, PlacesPages, MemoryInv
  <2>2. Aligned(placement_address) = End + 24576
    BY <2>1, AlignedFacts
  <2>3. \A o \in objects' : o \in Tables \/ Low(o)
    BY <2>1, <2>2, PlaceStep DEF Tables, LowTable
  <2>4. QED
    BY <2>1, <2>3 DEF MemoryInv, Before
<1>10. CASE KeyboardInstall \/ InitGdt \/ InitIdt \/ ZeroHandlers \/ InitialiseSyscalls
            \/ RegisterNoop \/ InitTimer \/ EnablePaging \/ InitialiseTasking
            \/ SwitchToUserMode \/ Syscall("write", "test_noop", 0)
            \/ Syscall("test_noop", "loop", 3)
  <2> DEFINE Kept == {"keyboard", "gdt", "idt", "zero", "syscalls", "noop",
                      "timer", "bitmap"}
             Late == {"tasking", "initrd", "write", "test_noop", "loop"}
  <2>1. /\ UNCHANGED <<placement_address, objects>>
        /\ \/ pc \in Kept /\ pc' \in Kept
           \/ pc' \in Late
    BY <1>10 DEF KeyboardInstall, InitGdt, InitIdt, ZeroHandlers,
       InitialiseSyscalls, RegisterNoop, InitTimer, EnablePaging,
       InitialiseTasking, SwitchToUserMode, Syscall, TableStep, Goes
  <2>2. QED
    BY <2>1 DEF MemoryInv, Before
<1>11. QED
  BY <1>2, <1>3, <1>4, <1>5, <1>6, <1>7, <1>8, <1>9, <1>10 DEF Main

LEMMA NextMemory ==
  ASSUME Fits, MemoryInv, [BootNext]_boot_vars
  PROVE  MemoryInv'
<1>1. CASE UNCHANGED <<pc, placement_address, objects>>
  BY <1>1 DEF MemoryInv
<1>2. CASE Main
  BY <1>2, MemoryMain
<1>3. QED
  BY <1>1, <1>2 DEF BootNext, HandlerStep, Accepts, Raises, boot_vars

\* With few enough devices nothing that main or its callees place is written
\* into the page directory or a page table, and paging finds all of it mapped.
THEOREM TablesTheorem ==
  ASSUME Fits
  PROVE  BootSpec => []TablesUntouched
<1>1. BootInit => MemoryInv
  <2> SUFFICES ASSUME BootInit PROVE MemoryInv
    OBVIOUS
  <2>1. pc = "scan" /\ placement_address = End /\ objects = {}
    BY DEF BootInit
  <2>2. IsFiniteSet({}) /\ Cardinality({}) = 0
    BY FS_EmptySet
  <2>3. QED
    BY <2>1, <2>2 DEF MemoryInv
<1>2. MemoryInv /\ [BootNext]_boot_vars => MemoryInv'
  BY NextMemory
<1>3. MemoryInv => TablesUntouched
  <2> SUFFICES ASSUME MemoryInv, NEW p \in objects, p.name \in Pages
               PROVE  /\ p.at % PageSize = 0
                      /\ \A o \in objects \ {p} :
                           o.at + o.used <= p.at \/ p.at + p.used <= o.at
                      /\ p.at + p.used <= IdentityMapped
    BY DEF TablesUntouched
  <2>1. /\ End \in Nat /\ End % 4096 = 0
        /\ End + 28672 <= IdentityMapped /\ IdentityMapped \in Nat
    BY DEF Fits, PageSize, IdentityMapped
  <2>2. p \in Tables
    BY DEF MemoryInv, Low
  <2>3. /\ p.at \in {End + 4096, End + 16384, End + 24576}
        /\ p.at + p.used <= IdentityMapped
        /\ p.at \in Nat /\ p.at >= End + 4096
    BY <2>1, <2>2 DEF Tables, Directory, HeapTable, LowTable
  <2>4. p.at % PageSize = 0
    BY <2>1, <2>3 DEF PageSize
  <2>5. ASSUME NEW o \in objects, o # p
        PROVE  o.at + o.used <= p.at \/ p.at + p.used <= o.at
    <3>1. CASE Low(o)
      BY <2>1, <2>3, <3>1 DEF Low
    <3>2. CASE o \in Tables
      BY <2>1, <2>2, <2>5, <3>2 DEF Tables, Directory, HeapTable, LowTable
    <3>3. QED
      BY <3>1, <3>2 DEF MemoryInv
  <2>6. QED
    BY <2>3, <2>4, <2>5
<1>4. QED
  BY <1>1, <1>2, <1>3, PTL DEF BootSpec

=============================================================================
