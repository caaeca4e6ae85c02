--------------------------- MODULE KeyboardProofs ---------------------------
(***************************************************************************)
(* Proofs about the keyboard driver, for every size of the ring and of the *)
(* line, every pair of maps and every interleaving of the handlers with    *)
(* the reader: the ring implements a queue, and the line that              *)
(* keyboard_gets() returns is what was typed.                              *)
(***************************************************************************)
EXTENDS Keyboard, SequenceTheorems, FiniteSetTheorems, WellFoundedInduction, TLAPS

-----------------------------------------------------------------------------
(* A set of numbers that is not empty has a least number: a counterexample *)
(* to a claim about numbers may be taken least.                            *)
LEMMA Least ==
  ASSUME NEW T, T \subseteq Nat, T # {}
  PROVE  \E x \in T : \A y \in T : x <= y
  <1> DEFINE R == {pair \in Nat \X Nat : pair[1] < pair[2]}
  <1>1. IsWellFoundedOn(R, Nat)
    BY NatLessThanWellFounded, Zenon DEF OpToRel
  <1>2. \A x, y \in Nat : <<y, x>> \notin R => x <= y
    OBVIOUS
  <1> HIDE DEF R
  <1>3. PICK x \in T : \A y \in T : <<y, x>> \notin R
    BY <1>1, WFMin, Zenon
  <1>4. \A y \in T : x <= y
    BY <1>2, <1>3
  <1> QED BY <1>4

(* The greatest number of a bounded set                                    *)
LEMMA Greatest ==
  ASSUME NEW n \in Nat, NEW T, T \subseteq 0 .. n, T # {}
  PROVE  \E x \in T : \A y \in T : x >= y
  <1> DEFINE U == {n - x : x \in T}
  <1>1. U \subseteq Nat
    OBVIOUS
  <1>2. U # {}
    OBVIOUS
  <1>3. PICK u \in U : \A y \in U : u <= y
    <2> HIDE DEF U
    <2> QED BY <1>1, <1>2, Least
  <1>4. PICK x \in T : u = n - x
    BY <1>3
  <1>5. \A y \in T : u <= n - y
    BY <1>3
  <1>6. \A y \in T : y \in Int
    OBVIOUS
  <1>7. \A y \in T : x >= y
    BY <1>4, <1>5, <1>6
  <1> QED BY <1>7

-----------------------------------------------------------------------------
(* The ring, for any contents and any two indexes                          *)

Slots == 0 .. (KBD_BUFFER_SIZE - 1)

Cells == Char \cup {0}

Buffers == [Slots -> Cells]

CountOf(head, tail) ==
  IF head >= tail THEN head - tail ELSE head + KBD_BUFFER_SIZE - tail

SlotOf(tail, k) ==
  IF tail + k - 1 < KBD_BUFFER_SIZE THEN tail + k - 1 ELSE tail + k - 1 - KBD_BUFFER_SIZE

ContentsOf(buffer, head, tail) ==
  [k \in 1 .. CountOf(head, tail) |-> buffer[SlotOf(tail, k)]]

LEMMA WaitingIsContents ==
  /\ Waiting = ContentsOf(kbd_buffer, kbd_head, kbd_tail)
  /\ Waiting' = ContentsOf(kbd_buffer', kbd_head', kbd_tail')
  BY DEF Waiting, ContentsOf, CountOf, SlotOf

(* The index after a slot: the next one, or the first after the last.      *)
LEMMA NextSlotValue ==
  ASSUME NEW slot \in Slots
  PROVE  NextSlot(slot) = IF slot + 1 = KBD_BUFFER_SIZE THEN 0 ELSE slot + 1
  BY BufferSizeAssumption DEF Slots, NextSlot

(* The contents are a sequence as long as the indexes are apart, and all   *)
(* of its slots are in the ring.                                           *)
LEMMA ContentsAreASequence ==
  ASSUME NEW buffer \in Buffers, NEW head \in Slots, NEW tail \in Slots
  PROVE  /\ CountOf(head, tail) \in 0 .. (KBD_BUFFER_SIZE - 1)
         /\ CountOf(head, tail) = 0 <=> head = tail
         /\ \A k \in 1 .. CountOf(head, tail) : SlotOf(tail, k) \in Slots \ {head}
         /\ ContentsOf(buffer, head, tail) \in Seq(Cells)
         /\ Len(ContentsOf(buffer, head, tail)) = CountOf(head, tail)
  <1>1. /\ CountOf(head, tail) \in 0 .. (KBD_BUFFER_SIZE - 1)
        /\ CountOf(head, tail) = 0 <=> head = tail
    BY BufferSizeAssumption DEF CountOf, Slots
  <1>2. \A k \in 1 .. CountOf(head, tail) : SlotOf(tail, k) \in Slots \ {head}
    BY BufferSizeAssumption DEF CountOf, SlotOf, Slots
  <1>3. ContentsOf(buffer, head, tail) \in [1 .. CountOf(head, tail) -> Cells]
    BY <1>2 DEF ContentsOf, Buffers
  <1>4. /\ ContentsOf(buffer, head, tail) \in Seq(Cells)
        /\ Len(ContentsOf(buffer, head, tail)) = CountOf(head, tail)
    BY <1>1, <1>3
  <1> QED BY <1>1, <1>2, <1>4

(* Writing the slot at head and stepping head appends a character.         *)
LEMMA PushAppends ==
  ASSUME NEW buffer \in Buffers, NEW head \in Slots, NEW tail \in Slots,
         NEW ch \in Cells, NextSlot(head) # tail
  PROVE  /\ NextSlot(head) \in Slots
         /\ CountOf(head, tail) < KBD_BUFFER_SIZE - 1
         /\ ContentsOf([buffer EXCEPT ![head] = ch], NextSlot(head), tail)
              = Append(ContentsOf(buffer, head, tail), ch)
  <1> DEFINE n == CountOf(head, tail)
             b == [buffer EXCEPT ![head] = ch]
             old == ContentsOf(buffer, head, tail)
             new == ContentsOf(b, NextSlot(head), tail)
  <1>1. /\ NextSlot(head) \in Slots
        /\ CountOf(NextSlot(head), tail) = n + 1
        /\ n < KBD_BUFFER_SIZE - 1
        /\ SlotOf(tail, n + 1) = head
    BY NextSlotValue, BufferSizeAssumption DEF CountOf, SlotOf, Slots
  <1>2. b \in Buffers /\ b[head] = ch /\ \A s \in Slots \ {head} : b[s] = buffer[s]
    BY DEF Buffers
  <1>3. /\ n \in Nat /\ old \in Seq(Cells) /\ Len(old) = n
        /\ \A k \in 1 .. n : SlotOf(tail, k) \in Slots \ {head}
    BY ContentsAreASequence, BufferSizeAssumption
  <1>4. new \in Seq(Cells) /\ Len(new) = n + 1
    BY <1>1, <1>2, ContentsAreASequence
  <1>5. \A k \in 1 .. n : new[k] = old[k]
    BY <1>1, <1>2, <1>3 DEF ContentsOf
  <1>6. new[n + 1] = ch
    BY <1>1, <1>2, <1>3 DEF ContentsOf
  <1> HIDE DEF n, b, old, new
  <1>7. /\ Append(old, ch) \in Seq(Cells) /\ Len(Append(old, ch)) = n + 1
        /\ \A k \in 1 .. n : Append(old, ch)[k] = old[k]
        /\ Append(old, ch)[n + 1] = ch
    BY <1>3, AppendProperties
  <1>8. \A k \in 1 .. Len(new) : new[k] = Append(old, ch)[k]
    BY <1>3, <1>4, <1>5, <1>6, <1>7
  <1>9. new = Append(old, ch)
    BY <1>4, <1>7, <1>8, SeqEqual
  <1> QED BY <1>1, <1>9 DEF n, b, old, new

(* When the slot after head is the one at tail, the ring is full.          *)
LEMMA FullRing ==
  ASSUME NEW head \in Slots, NEW tail \in Slots, NextSlot(head) = tail
  PROVE  CountOf(head, tail) = KBD_BUFFER_SIZE - 1
  BY NextSlotValue, BufferSizeAssumption DEF CountOf, Slots

(* Stepping tail takes the oldest character.                               *)
LEMMA AdvanceTakes ==
  ASSUME NEW buffer \in Buffers, NEW head \in Slots, NEW tail \in Slots,
         head # tail
  PROVE  /\ NextSlot(tail) \in Slots
         /\ ContentsOf(buffer, head, tail) # << >>
         /\ Head(ContentsOf(buffer, head, tail)) = buffer[tail]
         /\ ContentsOf(buffer, head, NextSlot(tail)) = Tail(ContentsOf(buffer, head, tail))
  <1> DEFINE n == CountOf(head, tail)
             old == ContentsOf(buffer, head, tail)
             new == ContentsOf(buffer, head, NextSlot(tail))
  <1>1. /\ NextSlot(tail) \in Slots
        /\ CountOf(head, NextSlot(tail)) = n - 1
        /\ n \in Nat \ {0}
        /\ SlotOf(tail, 1) = tail
        /\ \A k \in 1 .. (n - 1) : SlotOf(NextSlot(tail), k) = SlotOf(tail, k + 1)
    BY NextSlotValue, BufferSizeAssumption DEF CountOf, SlotOf, Slots
  <1>2. old \in Seq(Cells) /\ Len(old) = n /\ new \in Seq(Cells) /\ Len(new) = n - 1
    BY <1>1, ContentsAreASequence
  <1>3. old[1] = buffer[tail] /\ \A k \in 1 .. (n - 1) : new[k] = old[k + 1]
    BY <1>1 DEF ContentsOf
  <1> HIDE DEF n, old, new
  <1>4. old # << >> /\ Head(old) = old[1]
    BY <1>1, <1>2
  <1>5. /\ Tail(old) \in Seq(Cells) /\ Len(Tail(old)) = n - 1
        /\ \A k \in 1 .. (n - 1) : Tail(old)[k] = old[k + 1]
    BY <1>1, <1>2, <1>4, HeadTailProperties
  <1>6. \A k \in 1 .. Len(new) : new[k] = Tail(old)[k]
    BY <1>1, <1>2, <1>3, <1>5
  <1>7. new = Tail(old)
    BY <1>2, <1>5, <1>6, SeqEqual
  <1> QED BY <1>1, <1>3, <1>4, <1>7 DEF n, old, new

-----------------------------------------------------------------------------
(* The driver: what it has accepted and not handed on is in the ring, and  *)
(* the reader that found a character still finds it when it reads.         *)

RingInv ==
  /\ in_service = {}
  /\ port \in Seq(Scancodes)
  /\ sent \in 0 .. MaxKeys
  /\ shift_pressed \in BOOLEAN
  /\ caps_lock \in BOOLEAN
  /\ kbd_buffer \in Buffers
  /\ kbd_head \in Slots
  /\ kbd_tail \in Slots
  /\ ContentsOf(kbd_buffer, kbd_head, kbd_tail) \in Seq(Char)
  /\ pc \in {"check", "hlt", "halted", "read", "advance", "execute"}
  /\ pc \in {"read", "advance"} => kbd_head # kbd_tail
  /\ c \in Cells
  /\ pc = "advance" => c = kbd_buffer[kbd_tail]
  /\ taken \in Seq(Char)
  /\ dropped \in Nat

(* Each handler ends the only interrupt in service.                        *)
LEMMA EndOfInterrupt ==
  ASSUME NEW irq \in Int
  PROVE  piceoi({} \cup {irq}) = {}
  <1>1. Min({irq}) = irq
    BY DEF Min
  <1> QED BY <1>1 DEF piceoi

LEMMA InitRingInv == Init => RingInv
  <1> SUFFICES ASSUME Init PROVE RingInv
    OBVIOUS
  <1>1. /\ 0 \in Slots
        /\ kbd_buffer \in Buffers
    BY BufferSizeAssumption DEF Init, Slots, Buffers, Cells
  <1>2. /\ CountOf(0, 0) = 0
        /\ ContentsOf(kbd_buffer, 0, 0) = << >>
    BY DEF CountOf, ContentsOf
  <1>3. pc \in {"check", "execute"}
    BY DEF Init, GetsBegins
  <1>4. sent \in 0 .. MaxKeys /\ 0 \in Cells
    BY MaxKeysAssumption DEF Init, Cells
  <1>5. << >> \in Seq(Char) /\ << >> \in Seq(Scancodes)
    BY EmptySeq
  <1>6. /\ kbd_head = 0 /\ kbd_tail = 0 /\ port = << >> /\ taken = << >>
        /\ in_service = {} /\ dropped = 0 /\ c = 0
        /\ shift_pressed = FALSE /\ caps_lock = FALSE
    BY DEF Init
  <1> QED BY <1>1, <1>2, <1>3, <1>4, <1>5, <1>6 DEF RingInv

(* What a step does to the ring: a character is accepted, one is refused,  *)
(* the oldest is taken, or nothing changes.                                *)
Accepted(ch) ==
  /\ NextSlot(kbd_head) # kbd_tail
  /\ kbd_buffer' = [kbd_buffer EXCEPT ![kbd_head] = ch]
  /\ kbd_head' = NextSlot(kbd_head)
  /\ UNCHANGED <<kbd_tail, dropped>>

Refused ==
  /\ NextSlot(kbd_head) = kbd_tail
  /\ dropped' = dropped + 1
  /\ UNCHANGED ring

(* A handler that takes a scancode accepts or refuses a character, or      *)
(* leaves the ring alone.                                                  *)
LEMMA HandlerStep ==
  ASSUME RingInv, keyboard_handler
  PROVE  /\ \/ \E ch \in Char : Accepted(ch)
            \/ Refused
            \/ UNCHANGED <<ring, dropped>>
         /\ in_service' = {}
         /\ port' \in Seq(Scancodes)
         /\ shift_pressed' \in BOOLEAN
         /\ caps_lock' \in BOOLEAN
         /\ UNCHANGED <<sent, c, line, taken>>
         /\ pc' = IF pc = "halted" THEN "check" ELSE pc
  <1> DEFINE sc == Head(port)
  <1>1. port # << >> /\ port \in Seq(Scancodes)
    BY DEF keyboard_handler, RingInv
  <1>2. sc \in Scancodes /\ port' \in Seq(Scancodes)
    BY <1>1, HeadTailProperties DEF keyboard_handler
  <1>3. Translate(sc) \in Char \cup {0}
    BY MapAssumption DEF Translate
  <1>4. in_service' = {}
    BY EndOfInterrupt DEF keyboard_handler, RingInv
  <1>5. /\ \/ \E ch \in Char : Accepted(ch)
           \/ Refused
           \/ UNCHANGED <<ring, dropped>>
        /\ shift_pressed' \in BOOLEAN
        /\ caps_lock' \in BOOLEAN
    <2> HIDE DEF sc
    <2>1. CASE KeyReleased(sc)
      BY <2>1 DEF KeyReleased, RingInv
    <2>2. CASE ModifierPressed(sc)
      BY <2>2 DEF ModifierPressed, RingInv
    <2>3. CASE KeyPressed(sc)
      <3>1. shift_pressed' \in BOOLEAN /\ caps_lock' \in BOOLEAN
        BY <2>3 DEF KeyPressed, modifiers, RingInv
      <3>2. CASE Translate(sc) = 0
        BY <2>3, <3>1, <3>2 DEF KeyPressed
      <3>3. CASE Translate(sc) # 0
        <4>1. Translate(sc) \in Char /\ kbd_push(Translate(sc))
          BY <1>3, <2>3, <3>3 DEF KeyPressed
        <4>2. Accepted(Translate(sc)) \/ Refused
          BY <4>1 DEF kbd_push, Accepted, Refused
        <4> QED BY <3>1, <4>1, <4>2
      <3> QED BY <3>2, <3>3
    <2> QED BY <2>1, <2>2, <2>3 DEF keyboard_handler, sc
  <1> QED BY <1>2, <1>4, <1>5 DEF keyboard_handler, Wake

(* Accepting a character keeps the invariant and is the queue's Put.       *)
LEMMA AcceptedStep ==
  ASSUME RingInv, NEW ch \in Char, Accepted(ch)
  PROVE  /\ kbd_buffer' \in Buffers /\ kbd_head' \in Slots /\ kbd_tail' \in Slots
         /\ ContentsOf(kbd_buffer', kbd_head', kbd_tail')
              = Append(ContentsOf(kbd_buffer, kbd_head, kbd_tail), ch)
         /\ ContentsOf(kbd_buffer', kbd_head', kbd_tail') \in Seq(Char)
         /\ CountOf(kbd_head, kbd_tail) < KBD_BUFFER_SIZE - 1
         /\ kbd_head' # kbd_tail'
         /\ kbd_head # kbd_tail => kbd_buffer'[kbd_tail'] = kbd_buffer[kbd_tail]
         /\ dropped' = dropped
  <1> DEFINE old == ContentsOf(kbd_buffer, kbd_head, kbd_tail)
             new == ContentsOf(kbd_buffer', kbd_head', kbd_tail')
  <1>1. /\ kbd_buffer \in Buffers /\ kbd_head \in Slots /\ kbd_tail \in Slots
        /\ old \in Seq(Char) /\ ch \in Cells
    BY DEF RingInv, Cells
  <1>2. /\ kbd_buffer' = [kbd_buffer EXCEPT ![kbd_head] = ch]
        /\ kbd_head' = NextSlot(kbd_head) /\ NextSlot(kbd_head) # kbd_tail
        /\ kbd_tail' = kbd_tail /\ dropped' = dropped
    BY DEF Accepted
  <1>3. /\ NextSlot(kbd_head) \in Slots /\ CountOf(kbd_head, kbd_tail) < KBD_BUFFER_SIZE - 1
        /\ new = Append(old, ch)
    BY <1>1, <1>2, PushAppends
  <1>4. kbd_buffer' \in Buffers
    BY <1>1, <1>2 DEF Buffers
  <1>5. kbd_head # kbd_tail => kbd_buffer'[kbd_tail'] = kbd_buffer[kbd_tail]
    BY <1>1, <1>2 DEF Buffers
  <1>6. Append(old, ch) \in Seq(Char)
    <2> HIDE DEF old
    <2> QED BY <1>1, AppendProperties
  <1> QED BY <1>1, <1>2, <1>3, <1>4, <1>5, <1>6

(* A character is refused when all slots but one hold characters.          *)
LEMMA RefusedStep ==
  ASSUME RingInv, Refused
  PROVE  /\ CountOf(kbd_head, kbd_tail) = KBD_BUFFER_SIZE - 1
         /\ dropped' = dropped + 1
         /\ dropped' \in Nat
         /\ UNCHANGED <<kbd_buffer, kbd_head, kbd_tail>>
  BY FullRing DEF RingInv, Refused, ring

(* The reader takes the character that has waited longest.                 *)
LEMMA AdvanceStep ==
  ASSUME RingInv, AdvanceTail
  PROVE  /\ kbd_buffer' \in Buffers /\ kbd_head' \in Slots /\ kbd_tail' \in Slots
         /\ ContentsOf(kbd_buffer, kbd_head, kbd_tail) # << >>
         /\ ContentsOf(kbd_buffer', kbd_head', kbd_tail')
              = Tail(ContentsOf(kbd_buffer, kbd_head, kbd_tail))
         /\ ContentsOf(kbd_buffer', kbd_head', kbd_tail') \in Seq(Char)
         /\ c = Head(ContentsOf(kbd_buffer, kbd_head, kbd_tail))
         /\ c \in Char
         /\ taken' = Append(taken, c)
         /\ taken' \in Seq(Char)
         /\ dropped' = dropped
  <1> DEFINE old == ContentsOf(kbd_buffer, kbd_head, kbd_tail)
             new == ContentsOf(kbd_buffer', kbd_head', kbd_tail')
  <1>1. /\ kbd_buffer \in Buffers /\ kbd_head \in Slots /\ kbd_tail \in Slots
        /\ old \in Seq(Char) /\ pc = "advance" /\ kbd_head # kbd_tail
        /\ c = kbd_buffer[kbd_tail] /\ taken \in Seq(Char)
    BY DEF RingInv, AdvanceTail
  <1>2. /\ kbd_buffer' = kbd_buffer /\ kbd_head' = kbd_head
        /\ kbd_tail' = NextSlot(kbd_tail) /\ taken' = Append(taken, c)
        /\ dropped' = dropped
    BY DEF AdvanceTail
  <1>3. /\ NextSlot(kbd_tail) \in Slots /\ old # << >> /\ Head(old) = kbd_buffer[kbd_tail]
        /\ new = Tail(old)
    BY <1>1, <1>2, AdvanceTakes
  <1>4. Head(old) \in Char /\ Tail(old) \in Seq(Char)
    <2> HIDE DEF old
    <2> QED BY <1>1, <1>3, HeadTailProperties
  <1>5. taken' \in Seq(Char)
    BY <1>1, <1>2, <1>3, <1>4, AppendProperties
  <1> QED BY <1>1, <1>2, <1>3, <1>4, <1>5

LEMMA NextRingInv == RingInv /\ [Next]_vars => RingInv'
  <1> SUFFICES ASSUME RingInv, [Next]_vars PROVE RingInv'
    OBVIOUS
  <1>1. CASE \E sc \in Scancodes : SendScancode(sc)
    <2>1. PICK sc \in Scancodes : SendScancode(sc)
      BY <1>1
    <2>2. port' \in Seq(Scancodes)
      BY <2>1, AppendProperties DEF SendScancode, RingInv
    <2>3. sent' \in 0 .. MaxKeys
      BY <2>1, MaxKeysAssumption DEF SendScancode, RingInv
    <2> QED BY <2>1, <2>2, <2>3 DEF SendScancode, RingInv, ring, modifiers
  <1>2. CASE keyboard_handler
    <2>1. /\ in_service' = {}
          /\ port' \in Seq(Scancodes)
          /\ shift_pressed' \in BOOLEAN
          /\ caps_lock' \in BOOLEAN
          /\ sent' = sent /\ c' = c /\ taken' = taken
          /\ pc' = IF pc = "halted" THEN "check" ELSE pc
      BY <1>2, HandlerStep DEF line
    <2>2. CASE \E ch \in Char : Accepted(ch)
      <3>1. PICK ch \in Char : Accepted(ch)
        BY <2>2
      <3> QED BY <2>1, <3>1, AcceptedStep DEF RingInv
    <2>3. CASE Refused
      BY <2>1, <2>3, RefusedStep DEF RingInv
    <2>4. CASE UNCHANGED <<ring, dropped>>
      BY <2>1, <2>4 DEF RingInv, ring
    <2> QED BY <1>2, <2>2, <2>3, <2>4, HandlerStep
  <1>3. CASE pitirq
    <2>1. in_service' = {}
      BY <1>3, EndOfInterrupt DEF pitirq, RingInv
    <2> QED BY <1>3, <2>1 DEF pitirq, Wake, RingInv, ring, modifiers
  <1>4. CASE TestForChar
    BY <1>4 DEF TestForChar, keyboard_has_char, RingInv, ring, modifiers
  <1>5. CASE Halt
    BY <1>5 DEF Halt, RingInv, ring, modifiers
  <1>6. CASE ReadChar
    <2>1. kbd_buffer[kbd_tail] \in Cells
      BY DEF RingInv, Buffers
    <2> QED BY <1>6, <2>1 DEF ReadChar, RingInv, ring, modifiers
  <1>7. CASE AdvanceTail
    <2>1. pc' \in {"check", "execute"} /\ c' \in Cells
      BY <1>7 DEF AdvanceTail, EditLine, RingInv
    <2>2. /\ port' = port /\ sent' = sent /\ in_service' = in_service
          /\ shift_pressed' = shift_pressed /\ caps_lock' = caps_lock
          /\ dropped' = dropped
      BY <1>7 DEF AdvanceTail, modifiers
    <2> QED BY <1>7, <2>1, <2>2, AdvanceStep DEF RingInv
  <1>8. CASE NextCommand
    BY <1>8 DEF NextCommand, GetsBegins, RingInv, ring, modifiers
  <1>9. CASE UNCHANGED vars
    BY <1>9 DEF vars, RingInv, ring, modifiers
  <1> QED
    BY <1>1, <1>2, <1>3, <1>4, <1>5, <1>6, <1>7, <1>8, <1>9 DEF Next, thread

(* A step of the driver is a step of the queue, or one that the queue does *)
(* not see.                                                                *)
LEMMA StepIsOfTheQueue ==
  RingInv /\ [Next]_vars => [Abstract!Next]_(Abstract!queueVars)
  <1> SUFFICES ASSUME RingInv, [Next]_vars
               PROVE  [Abstract!Next]_(Abstract!queueVars)
    OBVIOUS
  <1> DEFINE old == ContentsOf(kbd_buffer, kbd_head, kbd_tail)
             new == ContentsOf(kbd_buffer', kbd_head', kbd_tail')
  <1>1. /\ Waiting = old /\ Waiting' = new
        /\ Len(old) = CountOf(kbd_head, kbd_tail)
    BY WaitingIsContents, ContentsAreASequence DEF RingInv
  <1>2. ASSUME UNCHANGED <<ring, taken, dropped>>
        PROVE  UNCHANGED Abstract!queueVars
    BY <1>1, <1>2 DEF ring, Abstract!queueVars
  <1>3. CASE keyboard_handler
    <2>1. taken' = taken
      BY <1>3, HandlerStep
    <2>2. CASE \E ch \in Char : Accepted(ch)
      <3>1. PICK ch \in Char : Accepted(ch)
        BY <2>2
      <3>2. new = Append(old, ch) /\ Len(old) < KBD_BUFFER_SIZE - 1 /\ dropped' = dropped
        BY <1>1, <3>1, AcceptedStep
      <3>3. Abstract!Put(ch)
        BY <1>1, <2>1, <3>2 DEF Abstract!Put
      <3> QED BY <3>3 DEF Abstract!Next
    <2>3. CASE Refused
      <3>1. /\ CountOf(kbd_head, kbd_tail) = KBD_BUFFER_SIZE - 1
            /\ dropped' = dropped + 1
            /\ UNCHANGED <<kbd_buffer, kbd_head, kbd_tail>>
        BY <2>3, RefusedStep
      <3>2. KBD_BUFFER_SIZE - 1 >= KBD_BUFFER_SIZE - 1
        BY BufferSizeAssumption
      <3>3. Abstract!Drop
        BY <1>1, <2>1, <3>1, <3>2 DEF Abstract!Drop
      <3> QED BY <3>3 DEF Abstract!Next
    <2>4. CASE UNCHANGED <<ring, dropped>>
      BY <1>2, <2>1, <2>4
    <2> QED BY <1>3, <2>2, <2>3, <2>4, HandlerStep
  <1>4. CASE AdvanceTail
    <2>1. old # << >> /\ new = Tail(old) /\ taken' = Append(taken, Head(old))
          /\ dropped' = dropped
      BY <1>4, AdvanceStep
    <2>2. Abstract!Take
      BY <1>1, <2>1 DEF Abstract!Take
    <2> QED BY <2>2 DEF Abstract!Next
  <1>5. CASE \E sc \in Scancodes : SendScancode(sc)
    BY <1>2, <1>5 DEF SendScancode
  <1>6. CASE pitirq
    BY <1>2, <1>6 DEF pitirq
  <1>7. CASE TestForChar
    BY <1>2, <1>7 DEF TestForChar
  <1>8. CASE Halt
    BY <1>2, <1>8 DEF Halt
  <1>9. CASE ReadChar
    BY <1>2, <1>9 DEF ReadChar
  <1>10. CASE NextCommand
    BY <1>2, <1>10 DEF NextCommand
  <1>11. CASE UNCHANGED vars
    BY <1>2, <1>11 DEF vars
  <1> QED
    BY <1>3, <1>4, <1>5, <1>6, <1>7, <1>8, <1>9, <1>10, <1>11 DEF Next, thread

(* Whatever the interleaving of the handlers with the reader, the ring of  *)
(* kbd_push() and keyboard_getchar() is a first-in first-out queue that    *)
(* holds one character less than it has slots, and a character is dropped  *)
(* only when it is full: true for every size of the ring.                  *)
THEOREM KeyboardIsAQueue == Spec => ImplementsKeyQueue
  <1>1. Init => Abstract!Init
    <2> SUFFICES ASSUME Init PROVE Abstract!Init
      OBVIOUS
    <2>1. CountOf(0, 0) = 0
      BY DEF CountOf
    <2>2. Waiting = << >>
      BY <2>1, WaitingIsContents DEF Init, ContentsOf
    <2> QED BY <2>2 DEF Init, Abstract!Init
  <1> QED
    BY <1>1, InitRingInv, NextRingInv, StepIsOfTheQueue, PTL
    DEF Spec, ImplementsKeyQueue, Abstract!Spec

-----------------------------------------------------------------------------
(* The line, for any sequence of typed characters: which of them no        *)
(* backspace has erased, and what one more character changes.              *)

PrintsIn(t, from, to) == {k \in from .. to : Printable(t[k])}

ErasesIn(t, from, to) == {k \in from .. to : t[k] = BACKSPACE}

(* How many more printable characters than backspaces follow j up to k     *)
Surplus(t, j, k) ==
  Cardinality(PrintsIn(t, j + 1, k)) - Cardinality(ErasesIn(t, j + 1, k))

KeptOf(t) ==
  {j \in 1 .. Len(t) : /\ Printable(t[j])
                       /\ \A k \in (j + 1) .. Len(t) : Surplus(t, j, k) >= 0}

LaterThan(K, j) == {i \in K : i > j}

RankIn(K, j) == Cardinality({i \in K : i <= j})

(* A kept character is erased when as many backspaces come as characters   *)
(* are kept after it, and one more.                                        *)
Balanced(t) ==
  \A j \in KeptOf(t) : Surplus(t, j, Len(t)) = Cardinality(LaterThan(KeptOf(t), j))

(* The line holds the kept characters in the order they were typed.        *)
Holds(b, t) ==
  /\ b \in Seq(Char)
  /\ Len(b) = Cardinality(KeptOf(t))
  /\ \A j \in KeptOf(t) : b[RankIn(KeptOf(t), j)] = t[j]

Change(ch) == IF Printable(ch) THEN 1 ELSE IF ch = BACKSPACE THEN -1 ELSE 0

LEMMA CountsAreNumbers ==
  ASSUME NEW t, NEW from \in Int, NEW to \in Int
  PROVE  /\ IsFiniteSet(PrintsIn(t, from, to)) /\ Cardinality(PrintsIn(t, from, to)) \in Nat
         /\ IsFiniteSet(ErasesIn(t, from, to)) /\ Cardinality(ErasesIn(t, from, to)) \in Nat
  <1>1. IsFiniteSet(from .. to)
    BY FS_Interval
  <1>2. /\ PrintsIn(t, from, to) \in SUBSET (from .. to)
        /\ ErasesIn(t, from, to) \in SUBSET (from .. to)
    BY DEF PrintsIn, ErasesIn
  <1>3. IsFiniteSet(PrintsIn(t, from, to)) /\ IsFiniteSet(ErasesIn(t, from, to))
    BY <1>1, <1>2, FS_Subset
  <1> QED BY <1>3, FS_CardinalityType

LEMMA KeptIsFinite ==
  ASSUME NEW t \in Seq(Char)
  PROVE  /\ IsFiniteSet(KeptOf(t)) /\ Cardinality(KeptOf(t)) \in Nat
         /\ KeptOf(t) \subseteq 1 .. Len(t)
  <1>1. Len(t) \in Nat /\ IsFiniteSet(1 .. Len(t))
    BY LenProperties, FS_Interval
  <1>2. KeptOf(t) \in SUBSET (1 .. Len(t))
    BY DEF KeptOf
  <1>3. IsFiniteSet(KeptOf(t))
    BY <1>1, <1>2, FS_Subset
  <1> QED BY <1>2, <1>3, FS_CardinalityType

LEMMA BackspaceIsNotPrintable == ~Printable(BACKSPACE) /\ ~Printable(NEWLINE)
  BY DEF Printable, BACKSPACE, NEWLINE

(* One more character changes the surplus by one or not at all.            *)
LEMMA SurplusSteps ==
  ASSUME NEW t \in Seq(Char), NEW ch \in Char, NEW j \in 1 .. Len(t)
  PROVE  /\ \A k \in j .. Len(t) : /\ Surplus(t, j, k) \in Int
                                   /\ Surplus(Append(t, ch), j, k) = Surplus(t, j, k)
         /\ Surplus(Append(t, ch), j, Len(t) + 1) = Surplus(t, j, Len(t)) + Change(ch)
  <1> DEFINE L == Len(t)
             u == Append(t, ch)
  <1>1. L \in Nat /\ Len(u) = L + 1 /\ u[L + 1] = ch /\ \A k \in 1 .. L : u[k] = t[k]
    BY AppendProperties, LenProperties
  <1> HIDE DEF L, u
  <1>2. j \in 1 .. L
    BY DEF L
  <1>3. ASSUME NEW k \in j .. L
        PROVE  Surplus(t, j, k) \in Int /\ Surplus(u, j, k) = Surplus(t, j, k)
    <2>1. PrintsIn(u, j + 1, k) = PrintsIn(t, j + 1, k)
      BY <1>1, <1>2 DEF PrintsIn
    <2>2. ErasesIn(u, j + 1, k) = ErasesIn(t, j + 1, k)
      BY <1>1, <1>2 DEF ErasesIn
    <2>3. j + 1 \in Int /\ k \in Int
      BY <1>1, <1>2
    <2>4. /\ Cardinality(PrintsIn(t, j + 1, k)) \in Nat
          /\ Cardinality(ErasesIn(t, j + 1, k)) \in Nat
      BY <2>3, CountsAreNumbers
    <2> QED BY <2>1, <2>2, <2>4 DEF Surplus
  <1>4. Surplus(u, j, L + 1) = Surplus(t, j, L) + Change(ch)
    <2> DEFINE p == PrintsIn(t, j + 1, L)
               e == ErasesIn(t, j + 1, L)
    <2>1. IsFiniteSet(p) /\ Cardinality(p) \in Nat /\ IsFiniteSet(e) /\ Cardinality(e) \in Nat
      BY <1>1, <1>2, CountsAreNumbers
    <2>2. L + 1 \notin p /\ L + 1 \notin e
      BY <1>1 DEF PrintsIn, ErasesIn
    <2>3. PrintsIn(u, j + 1, L + 1) = IF Printable(ch) THEN p \cup {L + 1} ELSE p
      BY <1>1, <1>2 DEF PrintsIn
    <2>4. ErasesIn(u, j + 1, L + 1) = IF ch = BACKSPACE THEN e \cup {L + 1} ELSE e
      BY <1>1, <1>2 DEF ErasesIn
    <2>5. ch = BACKSPACE => ~Printable(ch)
      BY BackspaceIsNotPrintable
    <2> HIDE DEF p, e
    <2>6. /\ Cardinality(p \cup {L + 1}) = Cardinality(p) + 1
          /\ Cardinality(e \cup {L + 1}) = Cardinality(e) + 1
      BY <2>1, <2>2, FS_AddElement
    <2>7. Surplus(t, j, L) = Cardinality(p) - Cardinality(e)
      BY DEF Surplus, p, e
    <2> QED BY <2>1, <2>3, <2>4, <2>5, <2>6, <2>7 DEF Surplus, Change
  <1> QED BY <1>2, <1>3, <1>4 DEF L, u

(* A character stays kept as long as its surplus is not negative.          *)
LEMMA KeptSteps ==
  ASSUME NEW t \in Seq(Char), NEW ch \in Char
  PROVE  /\ Append(t, ch) \in Seq(Char)
         /\ KeptOf(Append(t, ch)) \subseteq 1 .. (Len(t) + 1)
         /\ \A j \in 1 .. Len(t) :
              j \in KeptOf(Append(t, ch))
                <=> j \in KeptOf(t) /\ Surplus(t, j, Len(t)) + Change(ch) >= 0
         /\ Len(t) + 1 \in KeptOf(Append(t, ch)) <=> Printable(ch)
         /\ Surplus(Append(t, ch), Len(t) + 1, Len(t) + 1) = 0
  <1> DEFINE L == Len(t)
             u == Append(t, ch)
  <1>1. /\ L \in Nat /\ u \in Seq(Char) /\ Len(u) = L + 1 /\ u[L + 1] = ch
        /\ \A k \in 1 .. L : u[k] = t[k]
    BY AppendProperties, LenProperties
  <1>2. ASSUME NEW j \in 1 .. L
        PROVE  /\ \A k \in j .. L : /\ Surplus(t, j, k) \in Int
                                    /\ Surplus(u, j, k) = Surplus(t, j, k)
               /\ Surplus(u, j, L + 1) = Surplus(t, j, L) + Change(ch)
    BY SurplusSteps
  <1> HIDE DEF u
  <1>3. ASSUME NEW j \in 1 .. L
        PROVE  j \in KeptOf(u) <=> j \in KeptOf(t) /\ Surplus(t, j, L) + Change(ch) >= 0
    <2>1. u[j] = t[j]
      BY <1>1
    <2>2. j \in KeptOf(t) <=> Printable(t[j]) /\ \A k \in (j + 1) .. L : Surplus(t, j, k) >= 0
      BY DEF KeptOf
    <2>3. j \in KeptOf(u)
            <=> Printable(t[j]) /\ \A k \in (j + 1) .. (L + 1) : Surplus(u, j, k) >= 0
      BY <1>1, <2>1 DEF KeptOf
    <2>4. \A k \in (j + 1) .. (L + 1) : k \in (j + 1) .. L \/ k = L + 1
      BY <1>1
    <2>5. \A k \in (j + 1) .. L : k \in j .. L /\ k \in (j + 1) .. (L + 1)
      BY <1>1
    <2>6. L + 1 \in (j + 1) .. (L + 1)
      BY <1>1
    <2> QED BY <1>2, <2>2, <2>3, <2>4, <2>5, <2>6
  <1>4. \A k \in (L + 1 + 1) .. (L + 1) : FALSE
    BY <1>1
  <1>5. L + 1 \in KeptOf(u) <=> Printable(ch)
    BY <1>1, <1>4 DEF KeptOf
  <1>6. PrintsIn(u, L + 1 + 1, L + 1) = {} /\ ErasesIn(u, L + 1 + 1, L + 1) = {}
    BY <1>4 DEF PrintsIn, ErasesIn
  <1>7. Surplus(u, L + 1, L + 1) = 0
    <2>1. Cardinality({}) = 0
      BY FS_EmptySet
    <2>2. /\ Cardinality(PrintsIn(u, L + 1 + 1, L + 1)) = 0
          /\ Cardinality(ErasesIn(u, L + 1 + 1, L + 1)) = 0
      BY <1>6, <2>1, Zenon
    <2> QED BY <2>2 DEF Surplus
  <1>8. KeptOf(u) \subseteq 1 .. (L + 1)
    BY <1>1 DEF KeptOf
  <1> QED BY <1>1, <1>3, <1>5, <1>7, <1>8 DEF u

LEMMA PrintableIsKept ==
  ASSUME NEW t \in Seq(Char), NEW ch \in Char, Balanced(t), Printable(ch)
  PROVE  /\ KeptOf(Append(t, ch)) = KeptOf(t) \cup {Len(t) + 1}
         /\ Balanced(Append(t, ch))
  <1> DEFINE L == Len(t)
             u == Append(t, ch)
             K == KeptOf(t)
  <1>1. /\ L \in Nat /\ u \in Seq(Char) /\ Len(u) = L + 1 /\ Change(ch) = 1
        /\ IsFiniteSet(K) /\ K \subseteq 1 .. L
    BY AppendProperties, LenProperties, KeptIsFinite DEF Change
  <1>2. \A j \in K : Surplus(t, j, L) = Cardinality(LaterThan(K, j))
    BY DEF Balanced
  <1>3. ASSUME NEW j \in K
        PROVE  /\ IsFiniteSet(LaterThan(K, j)) /\ Cardinality(LaterThan(K, j)) \in Nat
    <2> HIDE DEF K
    <2>1. LaterThan(K, j) \in SUBSET K
      BY DEF LaterThan
    <2>2. IsFiniteSet(LaterThan(K, j))
      BY <1>1, <2>1, FS_Subset
    <2> QED BY <2>2, FS_CardinalityType
  <1>4. /\ KeptOf(u) \subseteq 1 .. (L + 1)
        /\ \A j \in 1 .. L : j \in KeptOf(u) <=> j \in K /\ Surplus(t, j, L) + 1 >= 0
        /\ L + 1 \in KeptOf(u)
        /\ Surplus(u, L + 1, L + 1) = 0
    BY <1>1, KeptSteps
  <1>5. \A j \in K : Surplus(u, j, L + 1) = Surplus(t, j, L) + 1
    BY <1>1, SurplusSteps
  <1> HIDE DEF L, u, K
  <1>6. \A j \in K : Surplus(t, j, L) + 1 >= 0
    BY <1>2, <1>3
  <1>7. KeptOf(u) = K \cup {L + 1}
    <2>1. \A j \in 1 .. L : j \in KeptOf(u) <=> j \in K
      BY <1>4, <1>6
    <2>2. \A j \in KeptOf(u) : j \in 1 .. L \/ j = L + 1
      BY <1>1, <1>4
    <2>3. \A j \in K : j \in 1 .. L
      BY <1>1
    <2> QED BY <1>4, <2>1, <2>2, <2>3
  <1>8. ASSUME NEW j \in KeptOf(u)
        PROVE  Surplus(u, j, L + 1) = Cardinality(LaterThan(KeptOf(u), j))
    <2>1. CASE j \in K
      <3>1. LaterThan(KeptOf(u), j) = LaterThan(K, j) \cup {L + 1}
        BY <1>1, <1>7, <2>1 DEF LaterThan
      <3>2. L + 1 \notin LaterThan(K, j)
        BY <1>1 DEF LaterThan
      <3>3. Cardinality(LaterThan(K, j) \cup {L + 1}) = Cardinality(LaterThan(K, j)) + 1
        BY <1>3, <2>1, <3>2, FS_AddElement
      <3> QED BY <1>2, <1>5, <2>1, <3>1, <3>3
    <2>2. CASE j = L + 1
      <3>0. \A i \in KeptOf(u) : ~(i > L + 1)
        BY <1>1, <1>4
      <3>1. LaterThan(KeptOf(u), j) = {}
        BY <2>2, <3>0 DEF LaterThan
      <3>2. Cardinality({}) = 0
        BY FS_EmptySet
      <3>3. Cardinality(LaterThan(KeptOf(u), j)) = 0
        BY <3>1, <3>2, Zenon
      <3> QED BY <1>4, <2>2, <3>3
    <2> QED BY <1>7, <2>1, <2>2
  <1>9. Balanced(u)
    BY <1>1, <1>8 DEF Balanced
  <1> QED BY <1>7, <1>9 DEF L, u, K

(* A backspace erases the kept character typed last, and no other.         *)
LEMMA BackspaceErasesTheLast ==
  ASSUME NEW t \in Seq(Char), Balanced(t), KeptOf(t) # {}
  PROVE  /\ \E m \in KeptOf(t) :
              /\ \A j \in KeptOf(t) : j <= m
              /\ KeptOf(Append(t, BACKSPACE)) = KeptOf(t) \ {m}
         /\ Balanced(Append(t, BACKSPACE))
  <1> DEFINE L == Len(t)
             u == Append(t, BACKSPACE)
             K == KeptOf(t)
  <1>0. BACKSPACE \in Char
    BY DEF BACKSPACE, Char
  <1>1. /\ L \in Nat /\ u \in Seq(Char) /\ Len(u) = L + 1 /\ Change(BACKSPACE) = -1
        /\ IsFiniteSet(K) /\ K \subseteq 1 .. L /\ ~Printable(BACKSPACE)
    BY <1>0, AppendProperties, LenProperties, KeptIsFinite, BackspaceIsNotPrintable DEF Change
  <1>2. \A j \in K : Surplus(t, j, L) = Cardinality(LaterThan(K, j))
    BY DEF Balanced
  <1>3. ASSUME NEW j \in K
        PROVE  /\ IsFiniteSet(LaterThan(K, j)) /\ Cardinality(LaterThan(K, j)) \in Nat
    <2> HIDE DEF K
    <2>1. LaterThan(K, j) \in SUBSET K
      BY DEF LaterThan
    <2>2. IsFiniteSet(LaterThan(K, j))
      BY <1>1, <2>1, FS_Subset
    <2> QED BY <2>2, FS_CardinalityType
  <1>4. /\ KeptOf(u) \subseteq 1 .. (L + 1)
        /\ \A j \in 1 .. L : j \in KeptOf(u) <=> j \in K /\ Surplus(t, j, L) + (-1) >= 0
        /\ L + 1 \notin KeptOf(u)
    BY <1>0, <1>1, KeptSteps
  <1>5. \A j \in K : Surplus(u, j, L + 1) = Surplus(t, j, L) + (-1)
    BY <1>0, <1>1, SurplusSteps
  <1> HIDE DEF L, u, K
  <1>6. PICK m \in K : \A j \in K : m >= j
    <2>1. K \subseteq 0 .. L /\ K # {}
      BY <1>1 DEF K
    <2> QED BY <1>1, <2>1, Greatest
  <1>7. Cardinality({}) = 0
    BY FS_EmptySet
  <1>8. Cardinality(LaterThan(K, m)) = 0
    <2>1. \A j \in K : j \in Int /\ m \in Int
      BY <1>1
    <2>2. \A j \in K : ~(j > m)
      BY <1>6, <2>1
    <2>3. LaterThan(K, m) = {}
      BY <2>2 DEF LaterThan
    <2> QED BY <1>7, <2>3, Zenon
  <1>9. \A j \in K \ {m} : Cardinality(LaterThan(K, j)) >= 1
    <2> SUFFICES ASSUME NEW j \in K \ {m} PROVE Cardinality(LaterThan(K, j)) >= 1
      OBVIOUS
    <2>1. m \in LaterThan(K, j)
      BY <1>1, <1>6 DEF LaterThan
    <2>2. Cardinality(LaterThan(K, j)) # 0
      BY <1>3, <2>1, FS_EmptySet
    <2> QED BY <1>3, <2>2
  <1>10. KeptOf(u) = K \ {m}
    <2>1. \A j \in K : Surplus(t, j, L) + (-1) >= 0 <=> j # m
      BY <1>2, <1>3, <1>8, <1>9
    <2>2. \A j \in 1 .. L : j \in KeptOf(u) <=> j \in K /\ j # m
      BY <1>4, <2>1
    <2>3. \A j \in KeptOf(u) : j \in 1 .. L
      BY <1>1, <1>4
    <2> QED BY <1>1, <2>2, <2>3
  <1>11. ASSUME NEW j \in KeptOf(u)
         PROVE  Surplus(u, j, L + 1) = Cardinality(LaterThan(KeptOf(u), j))
    <2>1. j \in K /\ j # m
      BY <1>10
    <2>2. LaterThan(KeptOf(u), j) = LaterThan(K, j) \ {m}
      BY <1>10 DEF LaterThan
    <2>3. m \in LaterThan(K, j)
      BY <1>1, <1>6, <2>1 DEF LaterThan
    <2>4. Cardinality(LaterThan(K, j) \ {m}) = Cardinality(LaterThan(K, j)) - 1
      BY <1>3, <2>1, <2>3, FS_RemoveElement
    <2> QED BY <1>2, <1>3, <1>5, <2>1, <2>2, <2>4
  <1>12. Balanced(u)
    BY <1>1, <1>11 DEF Balanced
  <1>13. \A j \in K : j <= m
    BY <1>1, <1>6
  <1> QED BY <1>6, <1>10, <1>12, <1>13 DEF L, u, K

(* Any other character, or a backspace on an empty line, changes nothing.  *)
LEMMA OthersAreIgnored ==
  ASSUME NEW t \in Seq(Char), NEW ch \in Char, Balanced(t), ~Printable(ch),
         ch # BACKSPACE \/ KeptOf(t) = {}
  PROVE  /\ KeptOf(Append(t, ch)) = KeptOf(t)
         /\ Balanced(Append(t, ch))
  <1> DEFINE L == Len(t)
             u == Append(t, ch)
             K == KeptOf(t)
  <1>1. /\ L \in Nat /\ u \in Seq(Char) /\ Len(u) = L + 1
        /\ IsFiniteSet(K) /\ K \subseteq 1 .. L
        /\ K # {} => Change(ch) = 0
    BY AppendProperties, LenProperties, KeptIsFinite DEF Change
  <1>2. \A j \in K : Surplus(t, j, L) = Cardinality(LaterThan(K, j))
    BY DEF Balanced
  <1>3. \A j \in K : Cardinality(LaterThan(K, j)) \in Nat
    <2> HIDE DEF K
    <2> SUFFICES ASSUME NEW j \in K PROVE Cardinality(LaterThan(K, j)) \in Nat
      OBVIOUS
    <2>1. LaterThan(K, j) \in SUBSET K
      BY DEF LaterThan
    <2>2. IsFiniteSet(LaterThan(K, j))
      BY <1>1, <2>1, FS_Subset
    <2> QED BY <2>2, FS_CardinalityType
  <1>4. /\ KeptOf(u) \subseteq 1 .. (L + 1)
        /\ \A j \in 1 .. L :
             j \in KeptOf(u) <=> j \in K /\ Surplus(t, j, L) + Change(ch) >= 0
        /\ L + 1 \notin KeptOf(u)
    BY KeptSteps
  <1>5. \A j \in K : Surplus(u, j, L + 1) = Surplus(t, j, L) + Change(ch)
    BY <1>1, SurplusSteps
  <1> HIDE DEF L, u, K
  <1>6. \A j \in K : Surplus(t, j, L) + Change(ch) = Surplus(t, j, L) /\ Surplus(t, j, L) >= 0
    BY <1>1, <1>2, <1>3
  <1>7. KeptOf(u) = K
    <2>1. \A j \in 1 .. L : j \in KeptOf(u) <=> j \in K
      BY <1>4, <1>6
    <2>2. \A j \in KeptOf(u) : j \in 1 .. L
      BY <1>1, <1>4
    <2> QED BY <1>1, <2>1, <2>2
  <1>8. Balanced(u)
    BY <1>1, <1>2, <1>5, <1>6, <1>7 DEF Balanced
  <1> QED BY <1>7, <1>8 DEF L, u, K

(* The rank of a kept character is a place of the line, and does not       *)
(* depend on the characters kept after it.                                 *)
LEMMA Ranks ==
  ASSUME NEW n \in Nat, NEW K, K \subseteq 1 .. n, NEW j \in K
  PROVE  /\ IsFiniteSet(K)
         /\ RankIn(K, j) \in 1 .. Cardinality(K)
         /\ (\A i \in K : i <= j) => RankIn(K, j) = Cardinality(K)
         /\ \A x \in Nat : x > j => /\ RankIn(K \cup {x}, j) = RankIn(K, j)
                                    /\ RankIn(K \ {x}, j) = RankIn(K, j)
                                    /\ x \in K => RankIn(K, j) <= Cardinality(K) - 1
  <1> DEFINE R == {i \in K : i <= j}
  <1>1. IsFiniteSet(1 .. n) /\ K \in SUBSET (1 .. n) /\ j \in 1 .. n
    BY FS_Interval
  <1>2. IsFiniteSet(K) /\ Cardinality(K) \in Nat
    BY <1>1, FS_Subset, FS_CardinalityType
  <1>3. R \in SUBSET K /\ j \in R
    BY <1>1
  <1> HIDE DEF R
  <1>4. IsFiniteSet(R) /\ Cardinality(R) \in Nat /\ Cardinality(R) <= Cardinality(K)
    BY <1>2, <1>3, FS_Subset, FS_CardinalityType
  <1>5. Cardinality(R) # 0
    BY <1>3, <1>4, FS_EmptySet
  <1>6. (\A i \in K : i <= j) => R = K
    BY DEF R
  <1>7. ASSUME NEW x \in Nat, x > j
        PROVE  /\ {i \in K \cup {x} : i <= j} = R
               /\ {i \in K \ {x} : i <= j} = R
               /\ x \in K => Cardinality(R) <= Cardinality(K) - 1
    <2>1. ~(x <= j)
      BY <1>1, <1>7
    <2>2. {i \in K \cup {x} : i <= j} = R /\ {i \in K \ {x} : i <= j} = R
      BY <2>1 DEF R
    <2>3. IsFiniteSet(K \ {x}) /\ (x \in K => Cardinality(K \ {x}) = Cardinality(K) - 1)
      BY <1>2, FS_RemoveElement
    <2>4. R \in SUBSET (K \ {x})
      BY <1>3, <2>1 DEF R
    <2>5. Cardinality(R) <= Cardinality(K \ {x})
      BY <2>3, <2>4, FS_Subset
    <2> QED BY <2>2, <2>3, <2>5
  <1>8. RankIn(K, j) = Cardinality(R)
    BY DEF RankIn, R
  <1>9. \A x \in Nat : x > j => /\ RankIn(K \cup {x}, j) = RankIn(K, j)
                                /\ RankIn(K \ {x}, j) = RankIn(K, j)
                                /\ x \in K => RankIn(K, j) <= Cardinality(K) - 1
    BY <1>7, <1>8 DEF RankIn
  <1> QED BY <1>2, <1>4, <1>5, <1>6, <1>8, <1>9

(* What keyboard_gets() makes of the line when it reads a character        *)
Edited(b, ch) ==
  IF ch = BACKSPACE /\ b # << >> THEN Front(b)
  ELSE IF ch \in 32 .. 126 THEN Append(b, ch)
  ELSE b

LEMMA FrontProps ==
  ASSUME NEW b \in Seq(Char), b # << >>
  PROVE  /\ Front(b) \in Seq(Char)
         /\ Len(Front(b)) = Len(b) - 1
         /\ \A k \in 1 .. (Len(b) - 1) : Front(b)[k] = b[k]
  <1> DEFINE n == Len(b) - 1
             front == SubSeq(b, 1, n)
  <1>1. n \in Nat
    BY EmptySeq
  <1>2. \A k \in 1 .. n : b[k] \in Char
    BY ElementOfSeq
  <1> HIDE DEF n
  <1>3. /\ front \in Seq(Char)
        /\ Len(front) = IF 1 <= n THEN n - 1 + 1 ELSE 0
        /\ \A k \in 1 .. (n - 1 + 1) : front[k] = b[1 + k - 1]
    BY <1>1, <1>2, SubSeqProperties
  <1>4. Front(b) = front
    BY DEF Front, n
  <1> HIDE DEF front
  <1>5. Len(front) = n /\ \A k \in 1 .. n : front[k] = b[k]
    <2>1. \A k \in 1 .. n : 1 + k - 1 = k /\ k \in 1 .. (n - 1 + 1)
      BY <1>1
    <2>2. Len(front) = n
      BY <1>1, <1>3
    <2> QED BY <1>3, <2>1, <2>2
  <1> QED BY <1>3, <1>4, <1>5 DEF n

LEMMA LineFollows ==
  ASSUME NEW t \in Seq(Char), NEW ch \in Char, NEW b, Balanced(t), Holds(b, t)
  PROVE  /\ Append(t, ch) \in Seq(Char)
         /\ Balanced(Append(t, ch))
         /\ Holds(Edited(b, ch), Append(t, ch))
         /\ Len(Edited(b, ch)) <= Len(b) + 1
  <1> DEFINE L == Len(t)
             u == Append(t, ch)
             K == KeptOf(t)
             e == Edited(b, ch)
  <1>1. /\ L \in Nat /\ u \in Seq(Char) /\ u[L + 1] = ch
        /\ \A k \in 1 .. L : u[k] = t[k]
        /\ IsFiniteSet(K) /\ Cardinality(K) \in Nat /\ K \subseteq 1 .. L
    BY AppendProperties, LenProperties, KeptIsFinite
  <1>2. /\ b \in Seq(Char) /\ Len(b) = Cardinality(K)
        /\ \A j \in K : b[RankIn(K, j)] = t[j]
    BY DEF Holds
  <1>3. b = << >> <=> K = {}
    <2>1. b = << >> <=> Len(b) = 0
      BY <1>2, EmptySeq
    <2>2. Cardinality(K) = 0 <=> K = {}
      <3> HIDE DEF K
      <3> QED BY <1>1, FS_EmptySet
    <2> QED BY <1>2, <2>1, <2>2
  <1>4. \A j \in K : u[j] = t[j]
    BY <1>1
  <1>5. ASSUME NEW j \in K
        PROVE  /\ RankIn(K, j) \in 1 .. Cardinality(K)
               /\ (\A i \in K : i <= j) => RankIn(K, j) = Cardinality(K)
               /\ \A x \in Nat : x > j =>
                     /\ RankIn(K \cup {x}, j) = RankIn(K, j)
                     /\ RankIn(K \ {x}, j) = RankIn(K, j)
                     /\ x \in K => RankIn(K, j) <= Cardinality(K) - 1
    <2> HIDE DEF K
    <2> QED BY <1>1, Ranks
  <1>6. CASE Printable(ch)
    <2>1. KeptOf(u) = K \cup {L + 1} /\ Balanced(u)
      BY <1>6, PrintableIsKept
    <2>2. ch # BACKSPACE /\ ch \in 32 .. 126
      BY <1>6, BackspaceIsNotPrintable DEF Printable
    <2>3. e = Append(b, ch)
      BY <2>2 DEF Edited
    <2>4. /\ e \in Seq(Char) /\ Len(e) = Len(b) + 1 /\ e[Len(b) + 1] = ch
          /\ \A k \in 1 .. Len(b) : e[k] = b[k]
      BY <1>2, <2>3, AppendProperties
    <2> HIDE DEF L, u, K, e
    <2>5. L + 1 \notin K /\ K \cup {L + 1} \subseteq 1 .. (L + 1)
      BY <1>1
    <2>6. Cardinality(K \cup {L + 1}) = Cardinality(K) + 1
      BY <1>1, <2>5, FS_AddElement
    <2>7. \A i \in K \cup {L + 1} : i <= L + 1
      BY <1>1, <2>5
    <2>8. RankIn(K \cup {L + 1}, L + 1) = Cardinality(K \cup {L + 1})
      BY <1>1, <2>5, <2>7, Ranks
    <2>9. \A j \in K : L + 1 > j /\ L + 1 \in Nat
      BY <1>1
    <2>10. \A j \in K : RankIn(K \cup {L + 1}, j) = RankIn(K, j)
      BY <1>5, <2>9
    <2>11. ASSUME NEW j \in KeptOf(u) PROVE e[RankIn(KeptOf(u), j)] = u[j]
      <3>1. CASE j \in K
        BY <1>2, <1>4, <1>5, <2>1, <2>4, <2>10, <3>1
      <3>2. CASE j = L + 1
        BY <1>1, <1>2, <2>1, <2>4, <2>6, <2>8, <3>2
      <3> QED BY <2>1, <3>1, <3>2
    <2>12. Holds(e, u)
      BY <1>2, <2>1, <2>4, <2>6, <2>11 DEF Holds
    <2>13. Len(e) <= Len(b) + 1
      BY <1>1, <1>2, <2>4
    <2> QED BY <1>1, <2>1, <2>12, <2>13 DEF L, u, K, e
  <1>7. CASE ch = BACKSPACE /\ K # {}
    <2>1. e = Front(b) /\ b # << >>
      BY <1>3, <1>7 DEF Edited
    <2>2. /\ e \in Seq(Char) /\ Len(e) = Len(b) - 1
          /\ \A k \in 1 .. (Len(b) - 1) : e[k] = b[k]
      BY <1>2, <2>1, FrontProps
    <2>3. Balanced(u)
      BY <1>7, BackspaceErasesTheLast
    <2>4. PICK m \in K : (\A j \in K : j <= m) /\ KeptOf(u) = K \ {m}
      BY <1>7, BackspaceErasesTheLast
    <2> HIDE DEF L, u, K, e
    <2>5. Cardinality(K \ {m}) = Cardinality(K) - 1
      BY <1>1, <2>4, FS_RemoveElement
    <2>6. ASSUME NEW j \in KeptOf(u) PROVE e[RankIn(KeptOf(u), j)] = u[j]
      <3>01. j \in K /\ j # m /\ j <= m
        BY <2>4
      <3>02. j \in 1 .. L /\ m \in 1 .. L
        BY <1>1, <3>01
      <3>1. j \in K /\ m > j /\ m \in Nat
        BY <3>01, <3>02
      <3>2. /\ RankIn(KeptOf(u), j) = RankIn(K, j)
            /\ RankIn(K, j) \in 1 .. Cardinality(K)
            /\ RankIn(K, j) <= Cardinality(K) - 1
        BY <1>5, <2>4, <3>1
      <3>3. RankIn(K, j) \in 1 .. (Len(b) - 1)
        BY <1>1, <1>2, <3>2
      <3> QED BY <1>2, <1>4, <2>2, <3>1, <3>2, <3>3
    <2>7. Holds(e, u)
      BY <1>2, <2>2, <2>4, <2>5, <2>6 DEF Holds
    <2>8. Len(e) <= Len(b) + 1
      BY <1>1, <1>2, <2>2
    <2> QED BY <1>1, <2>3, <2>7, <2>8 DEF L, u, K, e
  <1>8. CASE ~Printable(ch) /\ (ch # BACKSPACE \/ K = {})
    <2>1. KeptOf(u) = K /\ Balanced(u)
      BY <1>8, OthersAreIgnored
    <2>2. e = b
      BY <1>3, <1>8 DEF Edited, Printable
    <2> HIDE DEF L, u, K, e
    <2>3. Holds(e, u)
      BY <1>2, <1>4, <2>1, <2>2 DEF Holds
    <2>4. Len(e) <= Len(b) + 1
      BY <1>1, <1>2, <2>2
    <2> QED BY <1>1, <2>1, <2>3, <2>4 DEF L, u, K, e
  <1> QED BY <1>6, <1>7, <1>8, BackspaceIsNotPrintable

-----------------------------------------------------------------------------
(* The reader: keyboard_gets() keeps the line it has been typed.           *)

LineInv ==
  /\ typed \in Seq(Char)
  /\ Balanced(typed)
  /\ Holds(buf, typed)
  /\ Len(buf) <= MAX_LEN - 1
  /\ pc # "execute" => Len(buf) < MAX_LEN - 1
  /\ pc = "execute" => \/ Len(buf) = MAX_LEN - 1
                       \/ typed # << >> /\ Last(typed) = NEWLINE

LEMMA EmptyLine ==
  /\ << >> \in Seq(Char) /\ Len(<< >>) = 0
  /\ Balanced(<< >>) /\ Holds(<< >>, << >>)
  /\ 0 <= MAX_LEN - 1
  /\ GetsBegins = "check" \/ GetsBegins = "execute"
  /\ GetsBegins # "execute" => 0 < MAX_LEN - 1
  /\ GetsBegins = "execute" => 0 = MAX_LEN - 1
  <1>1. << >> \in Seq(Char) /\ Len(<< >>) = 0
    BY EmptySeq
  <1>2. KeptOf(<< >>) = {}
    BY <1>1 DEF KeptOf
  <1>3. Balanced(<< >>)
    BY <1>2 DEF Balanced
  <1>4. Cardinality(KeptOf(<< >>)) = 0
    BY <1>2, FS_EmptySet, Zenon
  <1>5. Holds(<< >>, << >>)
    BY <1>1, <1>2, <1>4 DEF Holds
  <1>6. /\ 0 <= MAX_LEN - 1
        /\ GetsBegins = "check" \/ GetsBegins = "execute"
        /\ GetsBegins # "execute" => 0 < MAX_LEN - 1
        /\ GetsBegins = "execute" => 0 = MAX_LEN - 1
    BY MaxLenAssumption DEF GetsBegins
  <1> QED BY <1>1, <1>3, <1>5, <1>6

LEMMA NextLineInv == RingInv /\ LineInv /\ [Next]_vars => LineInv'
  <1> SUFFICES ASSUME RingInv, LineInv, [Next]_vars PROVE LineInv'
    OBVIOUS
  <1>1. ASSUME UNCHANGED line, pc' = "execute" <=> pc = "execute"
        PROVE  LineInv'
    BY <1>1 DEF line, LineInv
  <1>2. CASE AdvanceTail
    <2>1. /\ pc = "advance" /\ typed' = Append(typed, c) /\ buf' = Edited(buf, c)
          /\ pc' = IF c = NEWLINE \/ Len(buf') >= MAX_LEN - 1 THEN "execute" ELSE "check"
      BY <1>2 DEF AdvanceTail, EditLine, Edited
    <2>2. c \in Char
      BY <1>2, AdvanceStep
    <2>3. /\ typed \in Seq(Char) /\ Balanced(typed) /\ Holds(buf, typed)
          /\ Len(buf) < MAX_LEN - 1 /\ Len(buf) \in Nat
      BY <2>1, LenProperties DEF LineInv, Holds
    <2>4. /\ typed' \in Seq(Char) /\ Balanced(typed') /\ Holds(buf', typed')
          /\ Len(buf') <= Len(buf) + 1
      BY <2>1, <2>2, <2>3, LineFollows
    <2>5. Len(buf') \in Nat
      BY <2>4, LenProperties DEF Holds
    <2>6. Len(buf') <= MAX_LEN - 1
      BY <2>3, <2>4, <2>5, MaxLenAssumption
    <2>7. typed' # << >> /\ Last(typed') = c
      <3>1. /\ typed' # << >> /\ Len(typed') = Len(typed) + 1
            /\ typed'[Len(typed) + 1] = c
        BY <2>1, <2>2, <2>3, AppendProperties
      <3> QED BY <3>1 DEF Last
    <2>8. pc' # "execute" => Len(buf') < MAX_LEN - 1
      BY <2>1, <2>5, MaxLenAssumption
    <2>9. pc' = "execute" => Len(buf') = MAX_LEN - 1 \/ c = NEWLINE
      BY <2>1, <2>5, <2>6, MaxLenAssumption
    <2> QED BY <2>4, <2>6, <2>7, <2>8, <2>9 DEF LineInv
  <1>3. CASE NextCommand
    <2>1. buf' = << >> /\ typed' = << >> /\ pc' = GetsBegins
      BY <1>3 DEF NextCommand
    <2> QED BY <2>1, EmptyLine DEF LineInv
  <1>4. CASE \E sc \in Scancodes : SendScancode(sc)
    BY <1>1, <1>4 DEF SendScancode
  <1>5. CASE keyboard_handler
    BY <1>1, <1>5 DEF keyboard_handler, Wake
  <1>6. CASE pitirq
    BY <1>1, <1>6 DEF pitirq, Wake
  <1>7. CASE TestForChar
    BY <1>1, <1>7 DEF TestForChar
  <1>8. CASE Halt
    BY <1>1, <1>8 DEF Halt
  <1>9. CASE ReadChar
    BY <1>1, <1>9 DEF ReadChar
  <1>10. CASE UNCHANGED vars
    BY <1>1, <1>10 DEF vars
  <1> QED
    BY <1>2, <1>3, <1>4, <1>5, <1>6, <1>7, <1>8, <1>9, <1>10 DEF Next, thread

(* The property speaks of the line as the invariant does.                  *)
LEMMA KeptIsKeptOf ==
  ASSUME typed \in Seq(Char)
  PROVE  Kept = KeptOf(typed)
  <1>1. Len(typed) \in Nat
    BY LenProperties
  <1>2. ASSUME NEW j \in 1 .. Len(typed), NEW k \in (j + 1) .. Len(typed)
        PROVE  Surplus(typed, j, k) >= 0 <=> Backspaces(j + 1, k) <= Printables(j + 1, k)
    <2>1. j + 1 \in Int /\ k \in Int
      BY <1>1
    <2>2. /\ Cardinality(PrintsIn(typed, j + 1, k)) \in Nat
          /\ Cardinality(ErasesIn(typed, j + 1, k)) \in Nat
      BY <2>1, CountsAreNumbers
    <2>3. /\ Printables(j + 1, k) = Cardinality(PrintsIn(typed, j + 1, k))
          /\ Backspaces(j + 1, k) = Cardinality(ErasesIn(typed, j + 1, k))
      BY DEF Printables, Backspaces, PrintsIn, ErasesIn
    <2> QED BY <2>2, <2>3 DEF Surplus
  <1> QED BY <1>2 DEF Kept, KeptOf, Survives

LEMMA InvariantsImplyLine == RingInv /\ LineInv => LineIsWhatWasTyped
  <1> SUFFICES ASSUME RingInv, LineInv PROVE LineIsWhatWasTyped
    OBVIOUS
  <1>1. TypeOK
    BY DEF RingInv, LineInv, Holds, Buffers, Slots, Cells, TypeOK
  <1>2. Kept = KeptOf(typed)
    BY KeptIsKeptOf DEF LineInv
  <1>3. \A j \in Kept : Cardinality(KeptUpTo(j)) = RankIn(KeptOf(typed), j)
    BY <1>2 DEF KeptUpTo, RankIn
  <1> QED BY <1>1, <1>2, <1>3 DEF LineInv, Holds, LineIsWhatWasTyped

(* Whatever is typed and however the handlers interleave, keyboard_gets()  *)
(* holds exactly the characters of the line that no backspace has erased,  *)
(* in order, never more than its buffer has room for, and returns only at  *)
(* a newline or when the buffer is full: for every size of the buffer.     *)
THEOREM LineIsAlwaysWhatWasTyped == Spec => []LineIsWhatWasTyped
  <1>1. Init => LineInv
    BY EmptyLine DEF Init, LineInv
  <1> QED
    BY <1>1, InitRingInv, NextRingInv, NextLineInv, InvariantsImplyLine, PTL DEF Spec

=============================================================================
