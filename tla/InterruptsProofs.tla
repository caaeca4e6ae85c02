-------------------------- MODULE InterruptsProofs --------------------------
(***************************************************************************)
(* Proofs about interrupts, for every set of devices and exceptions, every *)
(* mask the firmware may have left and every order in which interrupts,    *)
(* spurious ones included, arrive: the tables, the controllers and the     *)
(* handlers fit each other, every interrupt is ended, and sleep() does not *)
(* return early.  That it returns at all is left to TLC.                   *)
(***************************************************************************)
EXTENDS Interrupts, SequenceTheorems, FiniteSetTheorems, WellFoundedInduction, TLAPS

-----------------------------------------------------------------------------
(* A set of numbers that is not empty has a least number: a counterexample *)
(* to a claim about numbers may be taken least.                            *)
LEMMA Least ==
  ASSUME NEW T, T \subseteq Nat, T # {}
  PROVE  \E x \in T : \A y \in T : x <= y
  <1> DEFINE R == {pair \in Nat \X Nat : pair[1] < pair[2]}
  <1>1. IsWellFoundedOn(R, Nat)
    BY NatLessThanWellFounded, Zenon DEF OpToRel
  <1>2. \A x, y \in Nat : <<y, x>> \notin R => x <= y
    OBVIOUS
  <1> HIDE DEF R
  <1>3. PICK x \in T : \A y \in T : <<y, x>> \notin R
    BY <1>1, WFMin, Zenon
  <1>4. \A y \in T : x <= y
    BY <1>2, <1>3
  <1> QED BY <1>4

-----------------------------------------------------------------------------
Chips == {MASTER, SLAVE}

Chip == [irr : SUBSET (0 .. 7), isr : SUBSET (0 .. 7), imr : SUBSET (0 .. 7),
         base : Nat, wired : {2, 4}, icw : {0, 2, 3, 4}]

-----------------------------------------------------------------------------
(* The inductive invariant, part by part                                   *)

SetupWords == [chip : Chips, port : {"CMD", "DAT"}, word : Nat \cup SUBSET (0 .. 7)]

EndWords == [chip : Chips, port : {"CMD"}, word : Nat]

(* The words that initialise the controllers, for masks read before        *)
Words(masks) ==
  <<Command(MASTER, ICW1), Command(SLAVE, ICW1),
    Data(MASTER, 32), Data(SLAVE, 40),
    Data(MASTER, 4), Data(SLAVE, 2), Data(MASTER, 1), Data(SLAVE, 1),
    Data(MASTER, masks[MASTER]), Data(SLAVE, masks[SLAVE])>>

FirmwareMask == [chip \in Chips |-> LinesOf(chip, firmware)]

(* A controller after the first n of the five words it is sent             *)
WrittenTo(p, n, base, wired, mask) ==
  /\ p.icw = CASE n = 1 -> 2 [] n = 2 -> 3 [] n = 3 -> 4 [] OTHER -> 0
  /\ p.imr = IF n \in 1 .. 4 THEN {} ELSE mask
  /\ n >= 2 => p.base = base
  /\ n >= 3 => p.wired = wired

BaseOf(chip) == IF chip = MASTER THEN 32 ELSE 40
WiredOf(chip) == IF chip = MASTER THEN 4 ELSE 2

Written(chip, n) ==
  WrittenTo(pic[chip], n, BaseOf(chip), WiredOf(chip), FirmwareMask[chip])

(* init() is at its n-th write to the controllers.                         *)
RemapAt(n) ==
  /\ Len(todo) = 10 - n
  /\ \A k \in 1 .. (10 - n) : todo[k] = Words(FirmwareMask)[n + k]
  /\ Written(MASTER, (n + 1) \div 2)
  /\ Written(SLAVE, n \div 2)

(* The lines whose masks have been taken off at pc                         *)
Unmasked ==
  CASE pc = "keyboard" -> {} [] pc = "timer" -> {1} [] OTHER -> {0, 1}

Remapped ==
  \A chip \in Chips :
    /\ pic[chip].icw = 0
    /\ pic[chip].base = BaseOf(chip)
    /\ pic[chip].wired = WiredOf(chip)
    /\ pic[chip].imr = LinesOf(chip, firmware \ Unmasked)

PicInv ==
  /\ pic \in [Chips -> Chip]
  /\ firmware \subseteq 0 .. 15
  /\ pc \in {"gdt", "idt"} => Written(MASTER, 0) /\ Written(SLAVE, 0)
  /\ pc = "remap" => todo \in Seq(SetupWords) /\ \E n \in 0 .. 10 : RemapAt(n)
  /\ pc \notin {"gdt", "idt", "remap"} => Remapped

(* The gate of a vector, as init_idt() and init_timer() set it             *)
HandlerAt(v) ==
  CASE v < 32 -> FaultOf(v)
    [] v = 32 -> IF pc \in {"remap", "keyboard", "timer"} THEN "nop_master" ELSE "pitirq"
    [] v = 33 -> "irq1_stub"
    [] v \in 34 .. 39 -> "nop_master"
    [] v > 39 -> "nop_slave"

TablesInv ==
  /\ gdt = IF pc = "gdt" THEN gdt_array ELSE Segments
  /\ cs = 8 /\ (pc # "gdt" => ss = 16)
  /\ star \in {<< >>, <<8, 24>>}
  /\ star # << >> => pc # "gdt"
  /\ DOMAIN idt = 0 .. 47
  /\ lidt \in BOOLEAN
  /\ lidt <=> pc \notin {"gdt", "idt", "remap"}
  /\ pc \notin {"gdt", "idt"} =>
       \A v \in 0 .. 47 :
         idt[v] = [handler |-> HandlerAt(v), type |-> IF v < 32 THEN TRAP ELSE INTERRUPT,
                   selector |-> 8]

(* The thread and its clock                                                *)
ThreadInv ==
  /\ iflag \in BOOLEAN /\ (iflag => Up)
  /\ Up \/ pc \in {"gdt", "idt", "remap", "keyboard", "timer", "sti"}
  /\ timerticks \in 0 .. MaxTicks /\ until \in 0 .. MaxTicks
  /\ slept.want \in 0 .. (WORD - 1) /\ slept.began \in 0 .. timerticks
  /\ pc \in {"test", "hlt", "halted"} => until = (slept.began + slept.want) % WORD

-----------------------------------------------------------------------------
(* The handlers that run, and what is in service for them                  *)

Quiet == pic[MASTER].isr = {} /\ pic[SLAVE].isr = {}

HandlerOf(irq) ==
  CASE irq = 0 -> "pitirq" [] irq = 1 -> "irq1_stub"
    [] irq \in 2 .. 7 -> "nop_master" [] irq \in 8 .. 15 -> "nop_slave"

EndMaster == Command(MASTER, EOI)
EndSlave == Command(SLAVE, EOI)

(* An interrupt's handler, before, between and after its writes            *)
Served(f) ==
  \/ /\ f.irq < 8 /\ f.todo = <<EndMaster>>
     /\ pic[MASTER].isr \subseteq {f.irq} /\ pic[SLAVE].isr = {}
  \/ /\ f.irq >= 8 /\ f.todo = <<EndSlave, EndMaster>>
     /\ pic[MASTER].isr = {CASCADE} /\ pic[SLAVE].isr \subseteq {f.irq - 8}
  \/ /\ f.irq >= 8 /\ f.todo = <<EndMaster>>
     /\ pic[MASTER].isr = {CASCADE} /\ pic[SLAVE].isr = {}
  \/ f.todo = << >> /\ Quiet

IrqFrame(f) ==
  /\ f.irq \in 0 .. 15 /\ f.handler = HandlerOf(f.irq)
  /\ f.iflag \in BOOLEAN
  /\ Up /\ ~iflag
  /\ Served(f)

FaultFrame(f) ==
  /\ f.irq = -1 /\ f.todo = << >>
  /\ f.iflag \in BOOLEAN
  /\ \E v \in raised : f.handler = FaultOf(v)

IrqHandlers == {"nop_slave", "nop_master", "irq1_stub", "pitirq"}

Handlers == IrqHandlers \cup {FaultOf(v) : v \in 0 .. 31}

Frames == [handler : Handlers, irq : Int, todo : Seq(EndWords),
           iflag : BOOLEAN]

StackInv ==
  /\ stack \in Seq(Frames)
  /\ Len(stack) <= 2
  /\ \A k \in 1 .. Len(stack) : IrqFrame(stack[k]) \/ FaultFrame(stack[k])
  /\ Len(stack) = 2 => (FaultFrame(stack[1]) <=> IrqFrame(stack[2]))
  /\ (\A k \in 1 .. Len(stack) : FaultFrame(stack[k])) => Quiet
  /\ raised \subseteq 0 .. 31
  /\ reported \subseteq {FaultOf(v) : v \in raised}

IntInv == PicInv /\ TablesInv /\ ThreadInv /\ StackInv

-----------------------------------------------------------------------------
(* What is written to a controller                                         *)

LEMMA ChipNames == MASTER # SLAVE /\ MASTER \in Chips /\ SLAVE \in Chips
  BY DEF MASTER, SLAVE, Chips

LEMMA LinesAreLines ==
  ASSUME NEW chip \in Chips, NEW irqs \in SUBSET (0 .. 15)
  PROVE  LinesOf(chip, irqs) \in SUBSET (0 .. 7)
  BY DEF LinesOf, LineOf

(* The words of the initialisation, in their order                         *)
LEMMA FiveWords ==
  ASSUME NEW p \in Chip, NEW base \in Nat, NEW wired \in {2, 4},
         NEW mask \in SUBSET (0 .. 7)
  PROVE  /\ WrittenTo(p, 0, base, wired, mask) =>
              /\ OnCommand(p, ICW1) \in Chip /\ OnCommand(p, ICW1).isr = {}
              /\ WrittenTo(OnCommand(p, ICW1), 1, base, wired, mask)
         /\ \A n \in 1 .. 4 : \A word :
              /\ WrittenTo(p, n, base, wired, mask)
              /\ word = CASE n = 1 -> base [] n = 2 -> wired [] n = 3 -> 1 [] n = 4 -> mask
              => /\ OnData(p, word) \in Chip /\ OnData(p, word).isr = p.isr
                 /\ WrittenTo(OnData(p, word), n + 1, base, wired, mask)
  <1>1. ASSUME WrittenTo(p, 0, base, wired, mask)
        PROVE  /\ OnCommand(p, ICW1) \in Chip /\ OnCommand(p, ICW1).isr = {}
               /\ WrittenTo(OnCommand(p, ICW1), 1, base, wired, mask)
    <2>1. OnCommand(p, ICW1) = [p EXCEPT !.irr = {}, !.isr = {}, !.imr = {}, !.icw = 2]
      BY DEF OnCommand
    <2>2. OnCommand(p, ICW1) \in Chip
      BY <2>1 DEF Chip
    <2> QED BY <2>1, <2>2 DEF WrittenTo, Chip
  <1>2. ASSUME NEW word, WrittenTo(p, 1, base, wired, mask), word = base
        PROVE  /\ OnData(p, word) \in Chip /\ OnData(p, word).isr = p.isr
               /\ WrittenTo(OnData(p, word), 2, base, wired, mask)
    <2>1. p.icw = 2 /\ p.imr = {}
      BY <1>2 DEF WrittenTo
    <2>2. OnData(p, word) = [p EXCEPT !.base = word, !.icw = 3]
      BY <2>1 DEF OnData
    <2>3. OnData(p, word) \in Chip
      BY <1>2, <2>2 DEF Chip
    <2> QED BY <1>2, <2>1, <2>2, <2>3 DEF WrittenTo, Chip
  <1>3. ASSUME NEW word, WrittenTo(p, 2, base, wired, mask), word = wired
        PROVE  /\ OnData(p, word) \in Chip /\ OnData(p, word).isr = p.isr
               /\ WrittenTo(OnData(p, word), 3, base, wired, mask)
    <2>1. p.icw = 3 /\ p.imr = {} /\ p.base = base
      BY <1>3 DEF WrittenTo
    <2>2. OnData(p, word) = [p EXCEPT !.wired = word, !.icw = 4]
      BY <2>1 DEF OnData
    <2>3. OnData(p, word) \in Chip
      BY <1>3, <2>2 DEF Chip
    <2> QED BY <1>3, <2>1, <2>2, <2>3 DEF WrittenTo, Chip
  <1>4. ASSUME NEW word, WrittenTo(p, 3, base, wired, mask), word = 1
        PROVE  /\ OnData(p, word) \in Chip /\ OnData(p, word).isr = p.isr
               /\ WrittenTo(OnData(p, word), 4, base, wired, mask)
    BY <1>4 DEF Chip, WrittenTo, OnData
  <1>5. ASSUME NEW word, WrittenTo(p, 4, base, wired, mask), word = mask
        PROVE  /\ OnData(p, word) \in Chip /\ OnData(p, word).isr = p.isr
               /\ WrittenTo(OnData(p, word), 5, base, wired, mask)
    BY <1>5 DEF Chip, WrittenTo, OnData
  <1>6. ASSUME NEW n \in 1 .. 4, NEW word, WrittenTo(p, n, base, wired, mask),
               word = CASE n = 1 -> base [] n = 2 -> wired [] n = 3 -> 1 [] n = 4 -> mask
        PROVE  /\ OnData(p, word) \in Chip /\ OnData(p, word).isr = p.isr
               /\ WrittenTo(OnData(p, word), n + 1, base, wired, mask)
    <2>1. CASE n = 1
      BY <1>2, <1>6, <2>1
    <2>2. CASE n = 2
      BY <1>3, <1>6, <2>2
    <2>3. CASE n = 3
      BY <1>4, <1>6, <2>3
    <2>4. CASE n = 4
      BY <1>5, <1>6, <2>4
    <2> QED BY <2>1, <2>2, <2>3, <2>4
  <1> QED BY <1>1, <1>6

(* A mask that is written while the controller works                       *)
LEMMA MaskIsWritten ==
  ASSUME NEW p \in Chip, p.icw = 0, NEW mask \in SUBSET (0 .. 7)
  PROVE  OnData(p, mask) = [p EXCEPT !.imr = mask] /\ OnData(p, mask) \in Chip
  BY DEF Chip, OnData

LEMMA OutbWrites ==
  ASSUME NEW chips \in [Chips -> Chip], NEW w, w.chip \in Chips
  PROVE  /\ DOMAIN outb(chips, w) = Chips
         /\ outb(chips, w)[w.chip] = IF w.port = "CMD" THEN OnCommand(chips[w.chip], w.word)
                                     ELSE OnData(chips[w.chip], w.word)
         /\ \A c \in Chips : c # w.chip => outb(chips, w)[c] = chips[c]
         /\ outb(chips, w)[w.chip] \in Chip => outb(chips, w) \in [Chips -> Chip]
  BY DEF outb

-----------------------------------------------------------------------------
(* The controllers: initialised once, with the firmware's masks, and then  *)
(* changed by taking lines off the masks and by interrupts only            *)

ServiceShrinks == \A chip \in Chips : pic'[chip].isr \subseteq pic[chip].isr

LEMMA MasksOfFirmware ==
  ASSUME firmware \subseteq 0 .. 15
  PROVE  \A chip \in Chips : FirmwareMask[chip] \in SUBSET (0 .. 7)
  BY LinesAreLines DEF FirmwareMask

LEMMA PicStarts == Init => PicInv
  <1> SUFFICES ASSUME Init
               PROVE  PicInv
    OBVIOUS
  <1>1. firmware \in SUBSET (0 .. 15)
    BY InterruptsAssumption DEF Init
  <1> DEFINE start(chip) ==
               [irr |-> {}, isr |-> {}, imr |-> LinesOf(chip, firmware),
                base |-> IF chip = MASTER THEN 8 ELSE 112,
                wired |-> IF chip = MASTER THEN 4 ELSE 2, icw |-> 0]
  <1>2. \A chip \in Chips :
          start(chip) \in Chip /\ start(chip).icw = 0 /\ start(chip).imr = LinesOf(chip, firmware)
    <2> SUFFICES ASSUME NEW chip \in Chips
                 PROVE  start(chip) \in Chip /\ start(chip).icw = 0
                        /\ start(chip).imr = LinesOf(chip, firmware)
      OBVIOUS
    <2>1. LinesOf(chip, firmware) \in SUBSET (0 .. 7)
      BY <1>1, LinesAreLines
    <2>2. CASE chip = MASTER
      BY <2>1, <2>2 DEF Chip
    <2>3. CASE chip # MASTER
      BY <2>1, <2>3 DEF Chip
    <2> QED BY <2>2, <2>3
  <1>3. pic = [chip \in Chips |-> start(chip)]
    BY DEF Init, Chips
  <1> HIDE DEF start
  <1>4. pic \in [Chips -> Chip]
    BY <1>2, <1>3
  <1>5. Written(MASTER, 0) /\ Written(SLAVE, 0)
    BY <1>2, <1>3, ChipNames DEF Written, WrittenTo, FirmwareMask
  <1> QED BY <1>1, <1>4, <1>5 DEF PicInv, Init

(* Steps that leave the set-up of the controllers alone                    *)
LEMMA SetupKept ==
  ASSUME PicInv, pic' \in [Chips -> Chip], UNCHANGED <<firmware, todo>>,
         pc' = pc \/ (Up /\ Up'),
         \A chip \in Chips :
           /\ pic'[chip].icw = pic[chip].icw /\ pic'[chip].imr = pic[chip].imr
           /\ pic'[chip].base = pic[chip].base /\ pic'[chip].wired = pic[chip].wired
  PROVE  PicInv'
  <1>1. FirmwareMask' = FirmwareMask
    BY DEF FirmwareMask
  <1>2. \A chip \in Chips, n \in 0 .. 10 : Written(chip, n)' = Written(chip, n)
    BY <1>1 DEF Written, WrittenTo
  <1>3. \A n \in 0 .. 10 : RemapAt(n) => RemapAt(n)'
    <2> SUFFICES ASSUME NEW n \in 0 .. 10, RemapAt(n)
                 PROVE  RemapAt(n)'
      OBVIOUS
    <2>1. (n + 1) \div 2 \in 0 .. 10 /\ n \div 2 \in 0 .. 10
      OBVIOUS
    <2> QED BY <1>1, <1>2, <2>1, ChipNames DEF RemapAt
  <1>4. CASE pc' = pc
    <2>1. Remapped => Remapped'
      BY <1>4 DEF Remapped, Unmasked
    <2> QED BY <1>2, <1>3, <1>4, <2>1, ChipNames DEF PicInv
  <1>5. CASE Up /\ Up'
    <2>1. Remapped
      BY <1>5 DEF Up, PicInv
    <2>2. Unmasked' = Unmasked
      BY <1>5 DEF Up, Unmasked
    <2>3. Remapped'
      BY <2>1, <2>2 DEF Remapped
    <2> QED BY <1>5, <2>3 DEF Up, PicInv
  <1> QED BY <1>4, <1>5

LEMMA WordsInOrder ==
  ASSUME NEW masks, NEW n \in 0 .. 9
  PROVE  /\ Words(masks)[n + 1].chip = IF n % 2 = 0 THEN MASTER ELSE SLAVE
         /\ Words(masks)[n + 1].port = IF n < 2 THEN "CMD" ELSE "DAT"
         /\ Words(masks)[n + 1].word =
              CASE n < 2 -> ICW1 [] n = 2 -> 32 [] n = 3 -> 40 [] n = 4 -> 4 [] n = 5 -> 2
                [] n \in 6 .. 7 -> 1 [] n = 8 -> masks[MASTER] [] n = 9 -> masks[SLAVE]
  BY DEF Words, Command, Data

(* One of the ten writes                                                   *)
LEMMA RemapWrites ==
  ASSUME PicInv, RemapStep
  PROVE  PicInv' /\ ServiceShrinks
  <1>1. /\ pc = "remap" /\ pc' = "remap" /\ todo # << >> /\ todo' = Tail(todo)
        /\ pic' = outb(pic, Head(todo)) /\ firmware' = firmware
    BY DEF RemapStep, Thread, history
  <1>2. todo \in Seq(SetupWords) /\ pic \in [Chips -> Chip] /\ firmware \subseteq 0 .. 15
    BY <1>1 DEF PicInv
  <1>3. PICK n \in 0 .. 10 : RemapAt(n)
    BY <1>1 DEF PicInv
  <1> DEFINE w == Words(FirmwareMask)[n + 1]
  <1>4. /\ n \in 0 .. 9 /\ Head(todo) = w
        /\ Tail(todo) \in Seq(SetupWords) /\ Len(Tail(todo)) = 10 - (n + 1)
        /\ \A k \in 1 .. (10 - (n + 1)) : Tail(todo)[k] = Words(FirmwareMask)[(n + 1) + k]
    <2>1. Len(todo) # 0 /\ Len(todo) = 10 - n /\ n \in 0 .. 9
      BY <1>1, <1>2, <1>3, EmptySeq DEF RemapAt
    <2>2. /\ Head(todo) = todo[1]
          /\ Tail(todo) \in Seq(SetupWords) /\ Len(Tail(todo)) = Len(todo) - 1
          /\ \A k \in 1 .. (Len(todo) - 1) : Tail(todo)[k] = todo[k + 1]
      BY <1>1, <1>2, HeadTailProperties
    <2>3. \A k \in 1 .. (10 - n) : todo[k] = Words(FirmwareMask)[n + k]
      BY <1>3 DEF RemapAt
    <2>4. Head(todo) = w
      BY <2>1, <2>2, <2>3
    <2>5. \A k \in 1 .. (10 - (n + 1)) :
            Tail(todo)[k] = Words(FirmwareMask)[(n + 1) + k]
      BY <2>1, <2>2, <2>3
    <2> QED BY <2>1, <2>2, <2>4, <2>5
  <1>5. /\ w.chip = IF n % 2 = 0 THEN MASTER ELSE SLAVE
        /\ w.port = IF n < 2 THEN "CMD" ELSE "DAT"
        /\ w.word = CASE n < 2 -> ICW1 [] n = 2 -> 32 [] n = 3 -> 40 [] n = 4 -> 4 [] n = 5 -> 2
                      [] n \in 6 .. 7 -> 1
                      [] n = 8 -> FirmwareMask[MASTER] [] n = 9 -> FirmwareMask[SLAVE]
    BY <1>4, WordsInOrder
  <1> HIDE DEF w
  <1> DEFINE chip == IF n % 2 = 0 THEN MASTER ELSE SLAVE
             step == n \div 2
  <1>6. /\ chip \in Chips /\ step \in 0 .. 4
        /\ (n = 2 * step /\ chip = MASTER) \/ (n = 2 * step + 1 /\ chip = SLAVE)
        /\ Written(chip, step)
    <2>1. n % 2 = 0 => (n + 1) \div 2 = n \div 2
      BY <1>4
    <2>2. n = 2 * (n \div 2) + (n % 2) /\ n % 2 \in {0, 1} /\ n \div 2 \in 0 .. 4
      BY <1>4
    <2> QED BY <1>3, <2>1, <2>2, ChipNames DEF RemapAt
  <1> HIDE DEF chip, step
  <1>7. /\ FirmwareMask[chip] \in SUBSET (0 .. 7) /\ pic[chip] \in Chip
        /\ BaseOf(chip) \in Nat /\ WiredOf(chip) \in {2, 4}
    BY <1>2, <1>6, MasksOfFirmware DEF BaseOf, WiredOf
  <1> DEFINE q == IF w.port = "CMD" THEN OnCommand(pic[chip], w.word)
                  ELSE OnData(pic[chip], w.word)
  <1>8. /\ q \in Chip /\ q.isr \subseteq pic[chip].isr
        /\ WrittenTo(q, step + 1, BaseOf(chip), WiredOf(chip), FirmwareMask[chip])
    <2>1. WrittenTo(pic[chip], step, BaseOf(chip), WiredOf(chip), FirmwareMask[chip])
      BY <1>6 DEF Written
    <2>2. CASE step = 0
      <3>1. w.port = "CMD" /\ w.word = ICW1
        BY <1>5, <1>6, <2>2
      <3> QED BY <1>7, <2>1, <2>2, <3>1, FiveWords
    <2>3. CASE step \in 1 .. 4
      <3>1. /\ w.port = "DAT"
            /\ w.word = CASE step = 1 -> BaseOf(chip) [] step = 2 -> WiredOf(chip)
                          [] step = 3 -> 1 [] step = 4 -> FirmwareMask[chip]
        BY <1>5, <1>6, <2>3, ChipNames DEF BaseOf, WiredOf
      <3> QED BY <1>7, <2>1, <2>3, <3>1, FiveWords
    <2> QED BY <1>6, <2>2, <2>3
  <1>9. /\ pic' \in [Chips -> Chip] /\ pic'[chip] = q
        /\ \A c \in Chips : c # chip => pic'[c] = pic[c]
    <2>1. w.chip = chip
      BY <1>5 DEF chip
    <2> QED BY <1>1, <1>2, <1>4, <1>6, <1>8, <2>1, OutbWrites
  <1> HIDE DEF q
  <1>10. ServiceShrinks
    BY <1>8, <1>9 DEF ServiceShrinks
  <1>11. FirmwareMask' = FirmwareMask
    BY <1>1 DEF FirmwareMask
  <1>12. Written(chip, step + 1)'
    BY <1>8, <1>9, <1>11 DEF Written
  <1>13. Written(MASTER, (n + 2) \div 2)' /\ Written(SLAVE, (n + 1) \div 2)'
    <2>1. CASE chip = MASTER
      <3>1. (n + 2) \div 2 = step + 1 /\ (n + 1) \div 2 = n \div 2
        BY <1>6, <2>1, ChipNames
      <3>2. Written(SLAVE, n \div 2)'
        BY <1>3, <1>9, <1>11, <2>1, ChipNames DEF RemapAt, Written
      <3> QED BY <1>12, <2>1, <3>1, <3>2
    <2>2. CASE chip = SLAVE
      <3>1. (n + 1) \div 2 = step + 1 /\ (n + 2) \div 2 = (n + 1) \div 2
        BY <1>6, <2>2, ChipNames
      <3>2. Written(MASTER, (n + 1) \div 2)'
        BY <1>3, <1>9, <1>11, <2>2, ChipNames DEF RemapAt, Written
      <3> QED BY <1>12, <2>2, <3>1, <3>2
    <2> QED BY <1>6, <2>1, <2>2
  <1>14. RemapAt(n + 1)'
    <2>1. (n + 1) + 1 = n + 2
      BY <1>4
    <2> QED BY <1>1, <1>4, <1>11, <1>13, <2>1 DEF RemapAt
  <1> QED BY <1>1, <1>2, <1>4, <1>9, <1>10, <1>14 DEF PicInv

LEMMA LinesMember ==
  ASSUME NEW irqs, irqs \subseteq 0 .. 15, NEW x
  PROVE  /\ x \in LinesOf(MASTER, irqs) <=> x \in irqs /\ x < 8
         /\ x \in LinesOf(SLAVE, irqs) <=> x \in 0 .. 7 /\ x + 8 \in irqs
  <1>1. \A irq \in 0 .. 15 :
          /\ irq < 8 => ChipOf(irq) = MASTER /\ LineOf(irq) = irq
          /\ irq >= 8 => ChipOf(irq) = SLAVE /\ LineOf(irq) = irq - 8
    BY DEF ChipOf, LineOf
  <1>2. /\ x \in LinesOf(MASTER, irqs) <=>
              \E irq \in irqs : ChipOf(irq) = MASTER /\ x = LineOf(irq)
        /\ x \in LinesOf(SLAVE, irqs) <=>
              \E irq \in irqs : ChipOf(irq) = SLAVE /\ x = LineOf(irq)
    BY DEF LinesOf
  <1>3. x \in LinesOf(MASTER, irqs) <=> x \in irqs /\ x < 8
    <2>1. ASSUME x \in LinesOf(MASTER, irqs)
          PROVE  x \in irqs /\ x < 8
      <3>1. PICK irq \in irqs : ChipOf(irq) = MASTER /\ x = LineOf(irq)
        BY <1>2, <2>1
      <3>2. irq \in 0 .. 15
        OBVIOUS
      <3>3. /\ irq < 8 => ChipOf(irq) = MASTER /\ LineOf(irq) = irq
            /\ irq >= 8 => ChipOf(irq) = SLAVE /\ LineOf(irq) = irq - 8
        BY <1>1, <3>2
      <3> QED BY <3>1, <3>2, <3>3, ChipNames
    <2>2. ASSUME x \in irqs, x < 8
          PROVE  x \in LinesOf(MASTER, irqs)
      <3>1. x \in 0 .. 15
        BY <2>2
      <3>2. ChipOf(x) = MASTER /\ LineOf(x) = x
        BY <1>1, <2>2, <3>1
      <3> QED BY <1>2, <2>2, <3>2
    <2> QED BY <2>1, <2>2
  <1>4. ASSUME x \in LinesOf(SLAVE, irqs)
        PROVE  x \in 0 .. 7 /\ x + 8 \in irqs
    <2>1. PICK irq \in irqs : ChipOf(irq) = SLAVE /\ x = LineOf(irq)
      BY <1>2, <1>4
    <2>2. irq \in 0 .. 15
      OBVIOUS
    <2>3. /\ irq < 8 => ChipOf(irq) = MASTER
          /\ irq >= 8 => LineOf(irq) = irq - 8
      BY <1>1, <2>2
    <2>4. irq \in 8 .. 15 /\ x = irq - 8
      BY <2>1, <2>2, <2>3, ChipNames
    <2> QED BY <2>4
  <1>5. ASSUME x \in 0 .. 7, x + 8 \in irqs
        PROVE  x \in LinesOf(SLAVE, irqs)
    <2>1. ChipOf(x + 8) = SLAVE /\ LineOf(x + 8) = x
      BY <1>1, <1>5
    <2> QED BY <1>2, <1>5, <2>1
  <1> QED BY <1>3, <1>4, <1>5

LEMMA LinesWithout ==
  ASSUME NEW irqs, irqs \subseteq 0 .. 15, NEW line \in 0 .. 7
  PROVE  /\ LinesOf(MASTER, irqs \ {line}) = LinesOf(MASTER, irqs) \ {line}
         /\ LinesOf(SLAVE, irqs \ {line}) = LinesOf(SLAVE, irqs)
  <1>1. irqs \ {line} \subseteq 0 .. 15
    OBVIOUS
  <1>2. ASSUME NEW x
        PROVE  x \in LinesOf(MASTER, irqs \ {line}) <=> x \in LinesOf(MASTER, irqs) \ {line}
    <2>1. /\ x \in LinesOf(MASTER, irqs \ {line}) <=> x \in irqs \ {line} /\ x < 8
          /\ x \in LinesOf(MASTER, irqs) <=> x \in irqs /\ x < 8
      BY <1>1, LinesMember
    <2> QED BY <2>1
  <1>3. ASSUME NEW x
        PROVE  x \in LinesOf(SLAVE, irqs \ {line}) <=> x \in LinesOf(SLAVE, irqs)
    <2>1. /\ x \in LinesOf(SLAVE, irqs \ {line}) <=> x \in 0 .. 7 /\ x + 8 \in irqs \ {line}
          /\ x \in LinesOf(SLAVE, irqs) <=> x \in 0 .. 7 /\ x + 8 \in irqs
      BY <1>1, LinesMember
    <2> QED BY <2>1
  <1> QED BY <1>2, <1>3

LEMMA SetupEnds ==
  ASSUME PicInv, LoadIdt
  PROVE  PicInv'
  <1>1. /\ pc = "remap" /\ pc' = "keyboard" /\ todo = << >>
        /\ pic' = pic /\ firmware' = firmware
    BY DEF LoadIdt, Thread, history
  <1>2. Written(MASTER, 5) /\ Written(SLAVE, 5)
    <2>1. PICK n \in 0 .. 10 : RemapAt(n)
      BY <1>1 DEF PicInv
    <2>2. n = 10
      BY <1>1, <2>1, EmptySeq DEF RemapAt
    <2>3. (n + 1) \div 2 = 5 /\ n \div 2 = 5
      BY <2>2
    <2> QED BY <2>1, <2>3 DEF RemapAt
  <1>3. \A chip \in Chips :
          /\ pic[chip].icw = 0 /\ pic[chip].imr = LinesOf(chip, firmware)
          /\ pic[chip].base = BaseOf(chip) /\ pic[chip].wired = WiredOf(chip)
    BY <1>2 DEF Chips, Written, WrittenTo, FirmwareMask
  <1>4. firmware \ {} = firmware
    OBVIOUS
  <1>5. Remapped'
    BY <1>1, <1>3, <1>4 DEF Remapped, Unmasked
  <1> QED BY <1>1, <1>5 DEF PicInv

(* unmaskirq() of a line of the master                                     *)
LEMMA LineUnmasked ==
  ASSUME PicInv, pc \in {"keyboard", "timer"}, pc' \notin {"gdt", "idt", "remap"},
         firmware' = firmware, NEW irq \in {0, 1}, pic' = unmaskirq(irq),
         firmware \ Unmasked' = (firmware \ Unmasked) \ {irq}
  PROVE  PicInv' /\ ServiceShrinks
  <1>1. ChipOf(irq) = MASTER /\ LineOf(irq) = irq
    BY DEF ChipOf, LineOf
  <1>2. pic \in [Chips -> Chip] /\ Remapped /\ firmware \subseteq 0 .. 15
    BY DEF PicInv
  <1>3. /\ pic[MASTER] \in Chip /\ pic[MASTER].icw = 0
        /\ pic[MASTER].imr \ {irq} \in SUBSET (0 .. 7)
    BY <1>2, ChipNames DEF Remapped, Chip
  <1> DEFINE w == Data(MASTER, pic[MASTER].imr \ {irq})
             q == OnData(pic[MASTER], pic[MASTER].imr \ {irq})
  <1>4. pic' = outb(pic, w) /\ w.chip = MASTER /\ w.port = "DAT"
        /\ w.word = pic[MASTER].imr \ {irq}
    BY <1>1 DEF unmaskirq, Data
  <1>5. q = [pic[MASTER] EXCEPT !.imr = pic[MASTER].imr \ {irq}] /\ q \in Chip
    BY <1>3, MaskIsWritten
  <1> HIDE DEF w
  <1>6. /\ pic' \in [Chips -> Chip] /\ pic'[MASTER] = q
        /\ pic'[SLAVE] = pic[SLAVE]
    <2>1. w.chip \in Chips /\ w.port # "CMD"
      BY <1>4, ChipNames
    <2> DEFINE o == outb(pic, w)
    <2>2. /\ o[w.chip] = OnData(pic[w.chip], w.word)
          /\ \A c \in Chips : c # w.chip => o[c] = pic[c]
          /\ o[w.chip] \in Chip => o \in [Chips -> Chip]
      <3>1. pic \in [Chips -> Chip]
        BY <1>2
      <3> QED BY <2>1, <3>1, OutbWrites
    <2> HIDE DEF o
    <2>4. pic' = o
      BY <1>4 DEF o
    <2>3. pic'[MASTER] = q
      BY <1>4, <2>2, <2>4
    <2> QED BY <1>4, <1>5, <2>2, <2>3, <2>4, ChipNames
  <1>7. /\ q.icw = pic[MASTER].icw /\ q.base = pic[MASTER].base
        /\ q.wired = pic[MASTER].wired /\ q.isr = pic[MASTER].isr
        /\ q.imr = pic[MASTER].imr \ {irq}
    BY <1>3, <1>5 DEF Chip
  <1> HIDE DEF q
  <1>8. firmware \ Unmasked \subseteq 0 .. 15
    BY <1>2
  <1>9. /\ LinesOf(MASTER, firmware \ Unmasked') = LinesOf(MASTER, firmware \ Unmasked) \ {irq}
        /\ LinesOf(SLAVE, firmware \ Unmasked') = LinesOf(SLAVE, firmware \ Unmasked)
    BY <1>8, 0 \in 0 .. 7, 1 \in 0 .. 7, LinesWithout
  <1>10. Remapped'
    <2>1. /\ pic'[MASTER].icw = 0 /\ pic'[MASTER].base = BaseOf(MASTER)
          /\ pic'[MASTER].wired = WiredOf(MASTER)
          /\ pic'[MASTER].imr = LinesOf(MASTER, firmware \ Unmasked')
      BY <1>2, <1>6, <1>7, <1>9, ChipNames DEF Remapped
    <2>2. /\ pic'[SLAVE].icw = 0 /\ pic'[SLAVE].base = BaseOf(SLAVE)
          /\ pic'[SLAVE].wired = WiredOf(SLAVE)
          /\ pic'[SLAVE].imr = LinesOf(SLAVE, firmware \ Unmasked')
      BY <1>2, <1>6, <1>9, ChipNames DEF Remapped
    <2> QED BY <2>1, <2>2 DEF Remapped, Chips
  <1>11. ServiceShrinks
    BY <1>6, <1>7 DEF ServiceShrinks, Chips
  <1> QED BY <1>2, <1>6, <1>10, <1>11 DEF PicInv

(* init() from the descriptors to sti                                      *)
LEMMA PicInitialised ==
  ASSUME PicInv, init
  PROVE  PicInv' /\ ServiceShrinks
  <1>1. CASE init_gdt
    BY <1>1 DEF init_gdt, Thread, history, PicInv, Written, WrittenTo, FirmwareMask, ServiceShrinks
  <1>2. CASE init_idt
    <2>1. pc = "idt" /\ pc' = "remap" /\ pic' = pic /\ firmware' = firmware
      BY <1>2 DEF init_idt, Thread, history
    <2>2. Written(MASTER, 0) /\ Written(SLAVE, 0)
      BY <2>1 DEF PicInv
    <2>3. /\ pic[MASTER].imr = FirmwareMask[MASTER] /\ pic[SLAVE].imr = FirmwareMask[SLAVE]
      BY <2>2 DEF Written, WrittenTo
    <2>4. todo' = Words(FirmwareMask)
      BY <1>2, <2>3 DEF init_idt, remappic, Words
    <2>5. FirmwareMask' = FirmwareMask
      BY <2>1 DEF FirmwareMask
    <2>6. Len(todo') = 10 /\ todo' \in Seq(SetupWords)
      <3>1. FirmwareMask[MASTER] \in SUBSET (0 .. 7) /\ FirmwareMask[SLAVE] \in SUBSET (0 .. 7)
        BY ChipNames, MasksOfFirmware DEF PicInv
      <3>2. ASSUME NEW word \in Nat \cup SUBSET (0 .. 7), NEW chip \in Chips
            PROVE  Command(chip, word) \in SetupWords /\ Data(chip, word) \in SetupWords
        BY DEF Command, Data, SetupWords
      <3>3. /\ Command(MASTER, ICW1) \in SetupWords /\ Command(SLAVE, ICW1) \in SetupWords
            /\ Data(MASTER, 32) \in SetupWords /\ Data(SLAVE, 40) \in SetupWords
            /\ Data(MASTER, 4) \in SetupWords /\ Data(SLAVE, 2) \in SetupWords
            /\ Data(MASTER, 1) \in SetupWords /\ Data(SLAVE, 1) \in SetupWords
            /\ Data(MASTER, FirmwareMask[MASTER]) \in SetupWords
            /\ Data(SLAVE, FirmwareMask[SLAVE]) \in SetupWords
        BY <3>1, <3>2, ChipNames DEF ICW1
      <3> QED BY <2>4, <3>3 DEF Words
    <2>7. RemapAt(0)'
      <3>1. Written(MASTER, 0)' /\ Written(SLAVE, 0)'
        BY <2>1, <2>2, <2>5 DEF Written
      <3>2. (0 + 1) \div 2 = 0 /\ 0 \div 2 = 0
        OBVIOUS
      <3> QED BY <2>4, <2>5, <2>6, <3>1, <3>2 DEF RemapAt
    <2> QED BY <2>1, <2>6, <2>7 DEF PicInv, ServiceShrinks
  <1>3. CASE RemapStep
    BY <1>3, RemapWrites
  <1>4. CASE LoadIdt
    <2>1. ServiceShrinks
      BY <1>4 DEF LoadIdt, ServiceShrinks
    <2> QED BY <1>4, <2>1, SetupEnds
  <1>5. CASE keyboard_init
    <2>1. pc = "keyboard" /\ pc' = "timer" /\ firmware' = firmware /\ pic' = unmaskirq(1)
      BY <1>5 DEF keyboard_init, Thread, history
    <2>2. firmware \ Unmasked' = (firmware \ Unmasked) \ {1}
      BY <2>1 DEF Unmasked
    <2> QED BY <2>1, <2>2, LineUnmasked
  <1>6. CASE init_timer
    <2>1. pc = "timer" /\ pc' = "sti" /\ firmware' = firmware /\ pic' = unmaskirq(0)
      BY <1>6 DEF init_timer, Thread, history
    <2>2. firmware \ Unmasked' = (firmware \ Unmasked) \ {0}
      BY <2>1 DEF Unmasked
    <2> QED BY <2>1, <2>2, LineUnmasked
  <1>7. CASE EnableInterrupts
    <2>1. pc = "sti" /\ pc' = "run" /\ pic' = pic /\ firmware' = firmware
      BY <1>7 DEF EnableInterrupts, Thread, history
    <2> QED BY <2>1 DEF PicInv, Remapped, Unmasked, ServiceShrinks
  <1> QED BY <1>1, <1>2, <1>3, <1>4, <1>5, <1>6, <1>7 DEF init

-----------------------------------------------------------------------------
(* The descriptor tables                                                   *)

LEMMA TablesStart == Init => TablesInv
  BY DEF Init, TablesInv, TOSAITHE_CS_SEG

LEMMA TablesKept ==
  ASSUME TablesInv, UNCHANGED tables, pc' = pc \/ (Up /\ Up')
  PROVE  TablesInv'
  <1>1. UNCHANGED <<gdt, cs, ss, star, idt, lidt>>
    BY DEF tables
  <1>2. pc \notin {"gdt", "idt", "remap"} <=> pc' \notin {"gdt", "idt", "remap"}
    BY DEF Up
  <1>3. \A v \in 0 .. 47 : HandlerAt(v)' = HandlerAt(v)
    BY DEF Up, HandlerAt
  <1>4. CASE pc' = pc
    BY <1>1, <1>3, <1>4 DEF TablesInv
  <1>5. CASE Up /\ Up'
    BY <1>1, <1>3, <1>5 DEF TablesInv, Up
  <1> QED BY <1>4, <1>5

LEMMA TablesInitialised ==
  ASSUME TablesInv, init
  PROVE  TablesInv'
  <1>1. CASE init_gdt
    BY <1>1 DEF init_gdt, Thread, TablesInv
  <1>2. CASE init_idt
    <2>1. /\ pc = "idt" /\ pc' = "remap" /\ idt' = Gates
          /\ UNCHANGED <<gdt, cs, ss, star, lidt>>
      BY <1>2 DEF init_idt, Thread
    <2>2. DOMAIN idt = 0 .. 47
      BY DEF TablesInv
    <2>3. DOMAIN Gates = 0 .. 47
      BY DEF Gates, addirq
    <2>4. ASSUME NEW v \in 0 .. 47
          PROVE  Gates[v] = [handler |-> HandlerAt(v)', type |-> IF v < 32 THEN TRAP ELSE INTERRUPT,
                             selector |-> 8]
      BY <2>1, <2>2 DEF Gates, addirq, HandlerAt
    <2> QED BY <2>1, <2>3, <2>4 DEF TablesInv
  <1>3. CASE RemapStep
    <2>1. UNCHANGED tables /\ pc' = pc
      BY <1>3 DEF RemapStep
    <2> QED BY <2>1, TablesKept
  <1>4. CASE LoadIdt
    BY <1>4 DEF LoadIdt, Thread, TablesInv, HandlerAt
  <1>5. CASE keyboard_init
    BY <1>5 DEF keyboard_init, Thread, tables, TablesInv, HandlerAt
  <1>6. CASE init_timer
    <2>1. /\ pc = "timer" /\ pc' = "sti" /\ idt' = addirq(idt, 32, "pitirq", INTERRUPT)
          /\ UNCHANGED <<gdt, cs, ss, star, lidt>>
      BY <1>6 DEF init_timer, Thread
    <2>2. /\ DOMAIN idt' = 0 .. 47
          /\ idt'[32] = [handler |-> "pitirq", type |-> INTERRUPT, selector |-> 8]
          /\ \A v \in 0 .. 47 : v # 32 => idt'[v] = idt[v]
      BY <2>1 DEF addirq, TablesInv
    <2>3. /\ HandlerAt(32)' = "pitirq"
          /\ \A v \in 0 .. 47 : v # 32 => HandlerAt(v)' = HandlerAt(v)
      BY <2>1 DEF HandlerAt
    <2>4. ASSUME NEW v \in 0 .. 47
          PROVE  idt'[v] = [handler |-> HandlerAt(v)',
                            type |-> IF v < 32 THEN TRAP ELSE INTERRUPT, selector |-> 8]
      <3>1. CASE v = 32
        BY <2>2, <2>3, <3>1
      <3>2. CASE v # 32
        <4>1. idt[v] = [handler |-> HandlerAt(v), type |-> IF v < 32 THEN TRAP ELSE INTERRUPT,
                        selector |-> 8]
          BY <2>1 DEF TablesInv
        <4> QED BY <2>2, <2>3, <3>2, <4>1
      <3> QED BY <3>1, <3>2
    <2> QED BY <2>1, <2>2, <2>4 DEF TablesInv
  <1>7. CASE EnableInterrupts
    BY <1>7 DEF EnableInterrupts, Thread, tables, TablesInv, HandlerAt
  <1> QED BY <1>1, <1>2, <1>3, <1>4, <1>5, <1>6, <1>7 DEF init

-----------------------------------------------------------------------------
(* The thread and its clock                                                *)

LEMMA ThreadStarts == Init => ThreadInv
  <1> SUFFICES ASSUME Init
               PROVE  ThreadInv
    OBVIOUS
  <1>1. 0 \in 0 .. MaxTicks /\ 0 \in 0 .. (WORD - 1) /\ 0 \in 0 .. 0
    BY InterruptsAssumption
  <1>2. /\ pc = "gdt" /\ iflag = FALSE /\ timerticks = 0 /\ until = 0
        /\ slept.want = 0 /\ slept.began = 0
    BY DEF Init
  <1> QED BY <1>1, <1>2 DEF ThreadInv, Up

LEMMA EndOfSleepFits ==
  ASSUME NEW n \in SleepArgs, timerticks \in 0 .. MaxTicks
  PROVE  EndOfSleep(n) \in Nat
  BY InterruptsAssumption DEF EndOfSleep

(* Steps that leave the clock alone and the thread where it may be         *)
LEMMA ThreadKept ==
  ASSUME ThreadInv, UNCHANGED clock, iflag' \in BOOLEAN, iflag' => Up',
         \/ pc' = pc
         \/ Up /\ Up' /\ (pc' \in {"test", "hlt", "halted"} => pc # "run")
         \/ ~Up /\ pc' \in {"idt", "remap", "keyboard", "timer", "sti", "run"}
  PROVE  ThreadInv'
  BY DEF ThreadInv, clock, Up

LEMMA ThreadPreserved ==
  ASSUME ThreadInv, Next, iflag' \in BOOLEAN, iflag' => Up'
  PROVE  ThreadInv'
  <1>1. CASE init
    <2>1. /\ UNCHANGED clock /\ ~Up
          /\ pc' \in {"idt", "remap", "keyboard", "timer", "sti", "run"}
      BY <1>1 DEF init, init_gdt, init_idt, RemapStep, LoadIdt, keyboard_init, init_timer,
                  EnableInterrupts, Thread, Up
    <2> QED BY <2>1, ThreadKept
  <1>2. CASE SleepTest \/ SleepHalt
    <2>1. /\ UNCHANGED clock /\ Up /\ Up' /\ pc # "run"
      BY <1>2 DEF SleepTest, SleepHalt, Thread, Up
    <2> QED BY <2>1, ThreadKept
  <1>3. ASSUME NEW n \in SleepArgs, sleep(n)
        PROVE  ThreadInv'
    <2>1. /\ pc' = "test" /\ until' = (timerticks + n) % WORD /\ timerticks' = timerticks
          /\ slept'.want = n /\ slept'.began = timerticks
          /\ EndOfSleep(n) <= MaxTicks /\ until' = EndOfSleep(n)
      BY <1>3 DEF sleep, EndOfSleep
    <2>2. timerticks \in 0 .. MaxTicks
      BY DEF ThreadInv
    <2>3. until' \in 0 .. MaxTicks
      BY <2>1, <2>2, EndOfSleepFits, InterruptsAssumption
    <2>4. n \in 0 .. (WORD - 1) /\ timerticks \in 0 .. timerticks
      BY <2>2, InterruptsAssumption
    <2> QED BY <2>1, <2>2, <2>3, <2>4 DEF ThreadInv, Up
  <1>4. CASE HandlerWrite
    BY <1>4, InterruptsAssumption DEF HandlerWrite, ThreadInv, Up
  <1>5. CASE init_syscall \/ HandlerReturn \/ Report \/ \E irq \in Devices : Raise(irq)
    <2>1. UNCHANGED clock /\ pc' = pc
      BY <1>5 DEF init_syscall, HandlerReturn, Report, Raise
    <2> QED BY <2>1, ThreadKept
  <1>6. CASE \/ Acknowledge
             \/ \E chip \in {MASTER, SLAVE} : Spurious(chip)
             \/ \E v \in Exceptions : Exception(v)
    <2>1. UNCHANGED clock /\ EndsHalt
      BY <1>6 DEF Acknowledge, Spurious, Exception
    <2>2. pc' = pc \/ (pc = "halted" /\ pc' = "test")
      BY <2>1 DEF EndsHalt
    <2> QED BY <2>1, <2>2, ThreadKept DEF Up
  <1> QED BY <1>1, <1>2, <1>3, <1>4, <1>5, <1>6 DEF Next, thread, handlers

-----------------------------------------------------------------------------
(* The handlers of exceptions and those of interrupts                      *)

LEMMA FaultHandlerNames ==
  \A v \in DOMAIN FaultHandlers : FaultHandlers[v] \notin IrqHandlers
  BY DEF FaultHandlers, IrqHandlers

LEMMA FaultNames ==
  ASSUME NEW v
  PROVE  /\ FaultOf(v) \notin IrqHandlers
         /\ piceoi(FaultOf(v)) = << >>
         /\ \A f : f.handler = FaultOf(v) => IsFault(f)
  <1>1. FaultOf(v) \notin IrqHandlers
    BY FaultHandlerNames DEF FaultOf, IrqHandlers
  <1>2. piceoi(FaultOf(v)) = << >>
    BY <1>1 DEF piceoi, IrqHandlers
  <1>3. \A f : f.handler = FaultOf(v) => IsFault(f)
    BY DEF FaultOf, IsFault
  <1> QED BY <1>1, <1>2, <1>3

LEMMA IrqNames ==
  ASSUME NEW irq \in 0 .. 15
  PROVE  /\ HandlerOf(irq) \in IrqHandlers
         /\ \A f : f.handler = HandlerOf(irq) => ~IsFault(f)
         /\ piceoi(HandlerOf(irq)) = IF irq < 8 THEN <<EndMaster>> ELSE <<EndSlave, EndMaster>>
  <1>1. HandlerOf(irq) \in IrqHandlers /\ (HandlerOf(irq) = "nop_slave" <=> irq >= 8)
    BY DEF HandlerOf, IrqHandlers
  <1>2. \A f : f.handler = HandlerOf(irq) => ~IsFault(f)
    BY <1>1, FaultHandlerNames DEF IsFault, IrqHandlers
  <1>3. piceoi(HandlerOf(irq)) = IF irq < 8 THEN <<EndMaster>> ELSE <<EndSlave, EndMaster>>
    BY <1>1 DEF piceoi, IrqHandlers, EndMaster, EndSlave
  <1> QED BY <1>1, <1>2, <1>3

LEMMA FramesAreOfOneKind ==
  ASSUME NEW f
  PROVE  /\ IrqFrame(f) => ~IsFault(f) /\ ~FaultFrame(f) /\ ~iflag
         /\ FaultFrame(f) => IsFault(f)
  BY IrqNames, FaultNames DEF IrqFrame, FaultFrame

LEMMA GateOfIrq ==
  ASSUME TablesInv, Up, NEW irq \in 0 .. 15
  PROVE  /\ idt[32 + irq].handler = HandlerOf(irq)
         /\ idt[32 + irq].type = INTERRUPT
  <1>1. 32 + irq \in 0 .. 47
    OBVIOUS
  <1>2. idt[32 + irq] = [handler |-> HandlerAt(32 + irq),
                         type |-> IF 32 + irq < 32 THEN TRAP ELSE INTERRUPT, selector |-> 8]
    BY <1>1 DEF TablesInv, Up
  <1>3. HandlerAt(32 + irq) = HandlerOf(irq)
    BY DEF Up, HandlerAt, HandlerOf
  <1> QED BY <1>2, <1>3

LEMMA GateOfFault ==
  ASSUME TablesInv, lidt, NEW v \in 0 .. 31
  PROVE  idt[v].handler = FaultOf(v) /\ idt[v].type = TRAP
  <1>1. idt[v] = [handler |-> HandlerAt(v), type |-> IF v < 32 THEN TRAP ELSE INTERRUPT,
                  selector |-> 8]
    <2>1. v \in 0 .. 47 /\ pc \notin {"gdt", "idt"}
      BY DEF TablesInv
    <2> QED BY <2>1 DEF TablesInv
  <1>2. HandlerAt(v) = FaultOf(v)
    BY DEF HandlerAt
  <1> QED BY <1>1, <1>2

-----------------------------------------------------------------------------
(* The stack of handlers                                                   *)

LEMMA StackStarts == Init => StackInv
  <1> SUFFICES ASSUME Init
               PROVE  StackInv
    OBVIOUS
  <1>1. /\ stack = << >> /\ Len(stack) = 0 /\ stack \in Seq(Frames)
        /\ raised = {} /\ reported = {}
    BY EmptySeq DEF Init
  <1>2. Quiet
    BY ChipNames DEF Init, Quiet, Chips
  <1> QED BY <1>1, <1>2 DEF StackInv

(* Steps that change neither the stack nor what is in service              *)
LEMMA StackKept ==
  ASSUME StackInv, UNCHANGED <<stack, iflag>>, Up => Up',
         pic'[MASTER].isr = pic[MASTER].isr, pic'[SLAVE].isr = pic[SLAVE].isr,
         raised' = raised, reported' \subseteq {FaultOf(v) : v \in raised}
  PROVE  StackInv'
  <1>1. \A f : Served(f) => Served(f)'
    BY DEF Served, Quiet
  <1>2. \A f : (IrqFrame(f) => IrqFrame(f)') /\ (FaultFrame(f) <=> FaultFrame(f)')
    BY <1>1 DEF IrqFrame, FaultFrame
  <1>3. \A k \in 1 .. Len(stack) : IrqFrame(stack[k]) \/ FaultFrame(stack[k])
    BY DEF StackInv
  <1>4. Len(stack) = 2 => (FaultFrame(stack[1])' <=> IrqFrame(stack[2])')
    <2> SUFFICES ASSUME Len(stack) = 2
                 PROVE  FaultFrame(stack[1])' <=> IrqFrame(stack[2])'
      OBVIOUS
    <2>1. FaultFrame(stack[1]) <=> IrqFrame(stack[2])
      BY DEF StackInv
    <2>2. ~IrqFrame(stack[2]) => ~IrqFrame(stack[2])'
      <3>1. IrqFrame(stack[2]) \/ FaultFrame(stack[2])
        BY <1>3
      <3>2. FaultFrame(stack[2])' => ~IrqFrame(stack[2])'
        BY DEF FaultFrame, IrqFrame
      <3> QED BY <1>2, <3>1, <3>2
    <2> QED BY <1>2, <2>1, <2>2
  <1> QED BY <1>2, <1>3, <1>4 DEF StackInv, Quiet

LEMMA StackEmpty ==
  ASSUME StackInv, stack = << >>, stack' = << >>, ServiceShrinks,
         raised' = raised, reported' = reported
  PROVE  StackInv'
  <1>1. Len(stack) = 0
    BY EmptySeq
  <1>2. Quiet
    BY <1>1 DEF StackInv
  <1>3. Quiet'
    BY <1>2, ChipNames DEF ServiceShrinks, Quiet
  <1> QED BY <1>1, <1>3 DEF StackInv

(* While interrupts are on, no handler of a device runs.                   *)
LEMMA NoneInService ==
  ASSUME StackInv, iflag
  PROVE  /\ \A k \in 1 .. Len(stack) : FaultFrame(stack[k])
         /\ Len(stack) \in {0, 1} /\ Quiet
  <1>1. \A k \in 1 .. Len(stack) : FaultFrame(stack[k])
    BY FramesAreOfOneKind DEF StackInv
  <1>2. Len(stack) \in Nat /\ Len(stack) <= 2
    BY DEF StackInv
  <1>3. Len(stack) # 2
    <2> SUFFICES ASSUME Len(stack) = 2
                 PROVE  FALSE
      OBVIOUS
    <2>1. FaultFrame(stack[1]) /\ (FaultFrame(stack[1]) <=> IrqFrame(stack[2]))
      BY <1>1 DEF StackInv
    <2> QED BY <2>1, FramesAreOfOneKind
  <1>4. Len(stack) \in {0, 1}
    <2>1. \A n \in Nat : n <= 2 /\ n # 2 => n \in {0, 1}
      OBVIOUS
    <2> QED BY <1>2, <1>3, <2>1
  <1>5. Quiet
    BY <1>1 DEF StackInv
  <1> QED BY <1>1, <1>4, <1>5

-----------------------------------------------------------------------------
(* A handler starts                                                        *)

LEMMA StackGrows ==
  ASSUME NEW s \in Seq(Frames), NEW f \in Frames
  PROVE  /\ Append(s, f) \in Seq(Frames) /\ Len(Append(s, f)) = Len(s) + 1
         /\ \A k \in 1 .. Len(s) : Append(s, f)[k] = s[k]
         /\ Append(s, f)[Len(s) + 1] = f
  BY AppendProperties

LEMMA IrqEnters ==
  ASSUME TablesInv, ThreadInv, StackInv, iflag, NEW irq \in 0 .. 15, Enter(32 + irq, irq),
         Up', raised' = raised, reported' = reported,
         irq < 8 => pic'[MASTER].isr \subseteq {irq} /\ pic'[SLAVE].isr = {},
         irq >= 8 => pic'[MASTER].isr = {CASCADE} /\ pic'[SLAVE].isr \subseteq {irq - 8}
  PROVE  StackInv' /\ iflag' = FALSE
  <1>0. PICK f : f = Frame(32 + irq, irq)
    OBVIOUS
  <1>1. stack' = Append(stack, f) /\ stack \in Seq(Frames)
    BY <1>0 DEF Enter, StackInv
  <1>2. Up
    BY DEF ThreadInv
  <1>3. iflag' = FALSE
    <2>1. idt[32 + irq].type # TRAP
      BY <1>2, GateOfIrq DEF TRAP, INTERRUPT
    <2> QED BY <2>1 DEF Enter
  <1>4. /\ f.handler = HandlerOf(irq) /\ f.irq = irq /\ f.iflag = iflag
        /\ f.todo = IF irq < 8 THEN <<EndMaster>> ELSE <<EndSlave, EndMaster>>
        /\ f \in Frames
    <2>1. /\ f.handler = HandlerOf(irq) /\ f.irq = irq /\ f.iflag = iflag
          /\ f.todo = IF irq < 8 THEN <<EndMaster>> ELSE <<EndSlave, EndMaster>>
      <3>1. idt[32 + irq].handler = HandlerOf(irq)
        BY <1>2, GateOfIrq
      <3> QED BY <1>0, <3>1, IrqNames DEF Frame
    <2>2. HandlerOf(irq) \in Handlers
      BY IrqNames DEF Handlers
    <2>3. EndMaster \in EndWords /\ EndSlave \in EndWords
      BY ChipNames DEF EndMaster, EndSlave, EndWords, Command, EOI
    <2>4. f.todo \in Seq(EndWords)
      <3>1. <<EndMaster>> \in Seq(EndWords) /\ <<EndSlave, EndMaster>> \in Seq(EndWords)
        BY <2>3
      <3> QED BY <2>1, <3>1
    <2>5. iflag \in BOOLEAN
      BY DEF ThreadInv
    <2> QED BY <1>0, <2>1, <2>2, <2>4, <2>5 DEF Frames, Frame
  <1>5. IrqFrame(f)'
    <2>1. Served(f)'
      BY <1>4 DEF Served
    <2> QED BY <1>3, <1>4, <2>1 DEF IrqFrame, ThreadInv
  <1>6. /\ \A k \in 1 .. Len(stack) : FaultFrame(stack[k])
        /\ Len(stack) \in {0, 1}
    BY NoneInService
  <1>7. \A g : FaultFrame(g)' <=> FaultFrame(g)
    BY DEF FaultFrame
  <1>8. /\ stack' \in Seq(Frames) /\ Len(stack') = Len(stack) + 1
        /\ \A k \in 1 .. Len(stack) : stack'[k] = stack[k]
        /\ stack'[Len(stack) + 1] = f
    BY <1>1, <1>4, StackGrows
  <1>9. \A k \in 1 .. Len(stack') : (k = Len(stack) + 1 /\ IrqFrame(stack[k])')
                                   \/ (k \in 1 .. Len(stack) /\ FaultFrame(stack[k])')
    BY <1>5, <1>6, <1>7, <1>8
  <1>10. Len(stack') = 2 => FaultFrame(stack[1])' /\ IrqFrame(stack[2])'
    <2> SUFFICES ASSUME Len(stack') = 2
                 PROVE  FaultFrame(stack[1])' /\ IrqFrame(stack[2])'
      OBVIOUS
    <2>1. Len(stack) = 1 /\ 1 \in 1 .. Len(stack') /\ 2 \in 1 .. Len(stack')
      BY <1>6, <1>8
    <2>2. FaultFrame(stack[1])'
      BY <1>9, <2>1
    <2>3. IrqFrame(stack[2])'
      BY <1>9, <2>1
    <2> QED BY <2>2, <2>3
  <1>11. ~ \A k \in 1 .. Len(stack') : FaultFrame(stack[k])'
    <2>1. Len(stack) + 1 \in 1 .. Len(stack')
      BY <1>6, <1>8
    <2>2. ~FaultFrame(f)'
      BY <1>5 DEF IrqFrame, FaultFrame
    <2> QED BY <1>8, <2>1, <2>2
  <1> QED BY <1>3, <1>6, <1>8, <1>9, <1>10, <1>11 DEF StackInv

(* An exception, in the thread or (the one from outside) in a handler      *)
LEMMA FaultEnters ==
  ASSUME TablesInv, ThreadInv, StackInv, NEW v \in Exceptions, Exception(v)
  PROVE  StackInv' /\ iflag' = iflag /\ (Up => Up')
  <1>0. PICK f : f = Frame(v, -1)
    OBVIOUS
  <1>1. /\ stack' = Append(stack, f) /\ stack \in Seq(Frames) /\ lidt
        /\ ~Faulted /\ raised' = raised \cup {v} /\ pic' = pic /\ reported' = reported
        /\ v \in 0 .. 31
    BY <1>0, InterruptsAssumption DEF Exception, Enter, StackInv
  <1>2. iflag' = iflag
    BY <1>1, GateOfFault DEF Exception, Enter, ThreadInv
  <1>3. Up => Up'
    BY DEF Exception, EndsHalt, Up
  <1>4. /\ f.handler = FaultOf(v) /\ f.irq = -1 /\ f.iflag = iflag /\ f.todo = << >>
        /\ f \in Frames
    <2>1. f.handler = FaultOf(v) /\ f.irq = -1 /\ f.iflag = iflag /\ f.todo = << >>
      <3>1. idt[v].handler = FaultOf(v)
        BY <1>1, GateOfFault
      <3> QED BY <1>0, <3>1, FaultNames DEF Frame
    <2>2. FaultOf(v) \in Handlers
      BY <1>1 DEF Handlers
    <2>3. iflag \in BOOLEAN /\ << >> \in Seq(EndWords)
      BY EmptySeq DEF ThreadInv
    <2>4. f = [handler |-> FaultOf(v), irq |-> -1, todo |-> << >>, iflag |-> iflag]
      BY <1>0, <2>1 DEF Frame
    <2>5. -1 \in Int
      OBVIOUS
    <2>6. f \in Frames
      BY <2>2, <2>3, <2>4, <2>5 DEF Frames
    <2> QED BY <2>1, <2>6
  <1>5. FaultFrame(f)'
    BY <1>1, <1>4 DEF FaultFrame, ThreadInv
  <1>6. \A k \in 1 .. Len(stack) : IrqFrame(stack[k])
    BY <1>1, FramesAreOfOneKind DEF StackInv, Faulted
  <1>7. Len(stack) \in {0, 1}
    <2>1. Len(stack) # 2
      <3> SUFFICES ASSUME Len(stack) = 2
                   PROVE  FALSE
        OBVIOUS
      <3>1. IrqFrame(stack[1]) /\ IrqFrame(stack[2])
        BY <1>6
      <3> QED BY <3>1, FramesAreOfOneKind DEF StackInv
    <2>2. Len(stack) \in Nat /\ Len(stack) <= 2
      BY DEF StackInv
    <2>3. \A n \in Nat : n <= 2 /\ n # 2 => n \in {0, 1}
      OBVIOUS
    <2> QED BY <2>1, <2>2, <2>3
  <1>8. \A g : IrqFrame(g) => IrqFrame(g)'
    BY <1>1, <1>2, <1>3 DEF IrqFrame, Served, Quiet
  <1>9. /\ stack' \in Seq(Frames) /\ Len(stack') = Len(stack) + 1
        /\ \A k \in 1 .. Len(stack) : stack'[k] = stack[k]
        /\ stack'[Len(stack) + 1] = f
    BY <1>1, <1>4, StackGrows
  <1>10. \A k \in 1 .. Len(stack') : (k = Len(stack) + 1 /\ FaultFrame(stack[k])')
                                    \/ (k \in 1 .. Len(stack) /\ IrqFrame(stack[k])')
    BY <1>5, <1>6, <1>7, <1>8, <1>9
  <1>11. \A g : ~(IrqFrame(g)' /\ FaultFrame(g)')
    BY DEF IrqFrame, FaultFrame
  <1>12. Len(stack') = 2 => (FaultFrame(stack[1])' <=> IrqFrame(stack[2])')
    BY <1>7, <1>9, <1>10, <1>11
  <1>13. (\A k \in 1 .. Len(stack') : FaultFrame(stack[k])') => Quiet'
    <2> SUFFICES ASSUME \A k \in 1 .. Len(stack') : FaultFrame(stack[k])'
                 PROVE  Quiet'
      OBVIOUS
    <2>1. Len(stack) # 1
      BY <1>9, <1>10, <1>11
    <2>2. \A k \in 1 .. Len(stack) : FaultFrame(stack[k])
      BY <1>7, <2>1
    <2> QED BY <1>1, <2>2 DEF StackInv, Quiet
  <1>14. raised' \subseteq 0 .. 31 /\ reported' \subseteq {FaultOf(x) : x \in raised'}
    BY <1>1 DEF StackInv
  <1> QED BY <1>2, <1>3, <1>7, <1>9, <1>10, <1>12, <1>13, <1>14 DEF StackInv

-----------------------------------------------------------------------------
(* The controllers deliver.                                                *)

LEMMA LinePresented ==
  ASSUME NEW p \in Chip
  PROVE  Presented(p) \in 0 .. 8
  <1> DEFINE lines == {k \in p.irr \ p.imr : \A j \in p.isr : k < j}
  <1>1. lines \subseteq 0 .. 7
    BY DEF Chip
  <1>2. Presented(p) = IF lines = {} \/ p.icw # 0 THEN 8 ELSE Min(lines)
    BY DEF Presented
  <1> HIDE DEF lines
  <1>3. CASE lines # {}
    <2>2. lines \subseteq Nat
      BY <1>1
    <2>3. \E x \in lines : \A y \in lines : x <= y
      BY <1>3, <2>2, Least
    <2>4. Min(lines) \in lines
      BY <2>3 DEF Min
    <2>5. Min(lines) \in 0 .. 7
      BY <1>1, <2>4, Zenon
    <2>6. \A n \in 0 .. 7 : n \in 0 .. 8
      OBVIOUS
    <2>7. Min(lines) \in 0 .. 8
      BY <2>5, <2>6, Zenon
    <2> QED BY <1>2, <2>7
  <1> QED BY <1>2, <1>3

(* Two controllers that differ in the requests they hold only              *)
SameBut(p, q) ==
  /\ q \in Chip
  /\ q.icw = p.icw /\ q.imr = p.imr /\ q.base = p.base /\ q.wired = p.wired

LEMMA RequestsHeld ==
  ASSUME NEW p \in Chip, NEW line \in 0 .. 7
  PROVE  /\ SameBut(p, [p EXCEPT !.irr = p.irr \cup {line}])
         /\ [p EXCEPT !.irr = p.irr \cup {line}].isr = p.isr
         /\ SameBut(p, [p EXCEPT !.isr = p.isr \cup {line}])
         /\ [p EXCEPT !.isr = p.isr \cup {line}].isr = p.isr \cup {line}
         /\ SameBut(p, Acknowledged(p, line))
         /\ Acknowledged(p, line).isr = p.isr \cup {line}
  <1>1. p \in Chip /\ p.irr \cup {line} \in SUBSET (0 .. 7)
        /\ p.isr \cup {line} \in SUBSET (0 .. 7) /\ p.irr \ {line} \in SUBSET (0 .. 7)
    BY DEF Chip
  <1>2. /\ SameBut(p, [p EXCEPT !.irr = p.irr \cup {line}])
        /\ [p EXCEPT !.irr = p.irr \cup {line}].isr = p.isr
    BY <1>1 DEF Chip, SameBut
  <1>3. /\ SameBut(p, [p EXCEPT !.isr = p.isr \cup {line}])
        /\ [p EXCEPT !.isr = p.isr \cup {line}].isr = p.isr \cup {line}
    BY <1>1 DEF Chip, SameBut
  <1>4. /\ SameBut(p, Acknowledged(p, line))
        /\ Acknowledged(p, line).isr = p.isr \cup {line}
    BY <1>1 DEF Chip, SameBut, Acknowledged
  <1> QED BY <1>2, <1>3, <1>4

LEMMA SlaveRequests ==
  ASSUME NEW chips \in [Chips -> Chip]
  PROVE  /\ WithSlave(chips) \in [Chips -> Chip]
         /\ \A c \in Chips : /\ SameBut(chips[c], WithSlave(chips)[c])
                             /\ WithSlave(chips)[c].isr = chips[c].isr
  <1>1. CASE WithSlave(chips) = chips
    BY <1>1 DEF SameBut
  <1>2. CASE WithSlave(chips) = [chips EXCEPT ![MASTER].irr = @ \cup {CASCADE}]
    <2> DEFINE q == [chips[MASTER] EXCEPT !.irr = chips[MASTER].irr \cup {CASCADE}]
    <2>1. chips[MASTER] \in Chip /\ CASCADE \in 0 .. 7
      BY ChipNames DEF CASCADE
    <2>2. SameBut(chips[MASTER], q) /\ q.isr = chips[MASTER].isr /\ q \in Chip
      BY <2>1, RequestsHeld DEF SameBut
    <2>3. WithSlave(chips) = [chips EXCEPT ![MASTER] = q]
      BY <1>2, ChipNames
    <2> HIDE DEF q
    <2>4. /\ WithSlave(chips) \in [Chips -> Chip] /\ WithSlave(chips)[MASTER] = q
          /\ \A c \in Chips : c # MASTER => WithSlave(chips)[c] = chips[c]
      BY <2>2, <2>3, ChipNames
    <2> QED BY <2>2, <2>4 DEF SameBut
  <1> QED BY <1>1, <1>2 DEF WithSlave

(* PicInv where each controller keeps its set-up                           *)
LEMMA SetupKeptByBoth ==
  ASSUME PicInv, DOMAIN pic' = Chips, UNCHANGED <<firmware, todo>>,
         pc' = pc \/ (Up /\ Up'),
         SameBut(pic[MASTER], pic'[MASTER]), SameBut(pic[SLAVE], pic'[SLAVE]),
         pic' = [c \in Chips |-> pic'[c]]
  PROVE  PicInv'
  <1>1. pic' \in [Chips -> Chip]
    BY DEF SameBut, Chips
  <1>2. \A chip \in Chips :
           /\ pic'[chip].icw = pic[chip].icw /\ pic'[chip].imr = pic[chip].imr
           /\ pic'[chip].base = pic[chip].base /\ pic'[chip].wired = pic[chip].wired
    BY DEF SameBut, Chips
  <1> QED BY <1>1, <1>2, SetupKept

-----------------------------------------------------------------------------
(* What a device, the processor and a handler do to the controllers        *)

LEMMA DeviceRaises ==
  ASSUME PicInv, NEW irq \in 0 .. 15, Raise(irq)
  PROVE  PicInv' /\ pic'[MASTER].isr = pic[MASTER].isr /\ pic'[SLAVE].isr = pic[SLAVE].isr
  <1> DEFINE chip == ChipOf(irq)
             q == [pic[chip] EXCEPT !.irr = pic[chip].irr \cup {LineOf(irq)}]
  <1>1. chip \in Chips /\ LineOf(irq) \in 0 .. 7
    BY ChipNames DEF ChipOf, LineOf
  <1>2. pic \in [Chips -> Chip] /\ pic[chip] \in Chip
    BY <1>1 DEF PicInv
  <1>3. SameBut(pic[chip], q) /\ q.isr = pic[chip].isr
    BY <1>1, <1>2, RequestsHeld
  <1>4. pic' = [pic EXCEPT ![chip] = q] /\ UNCHANGED <<firmware, todo, pc>>
    BY <1>1, <1>2 DEF Raise, history
  <1> HIDE DEF q, chip
  <1>5. /\ DOMAIN pic' = Chips /\ pic'[chip] = q
        /\ pic' = [c \in Chips |-> pic'[c]]
        /\ \A c \in Chips : c # chip => pic'[c] = pic[c]
    BY <1>1, <1>2, <1>4
  <1>6. \A c \in Chips : SameBut(pic[c], pic'[c]) /\ pic'[c].isr = pic[c].isr
    <2>1. \A c \in Chips : SameBut(pic[c], pic[c])
      BY <1>2 DEF SameBut
    <2> QED BY <1>3, <1>5, <2>1
  <1> QED BY <1>4, <1>5, <1>6, ChipNames, SetupKeptByBoth

(* An end of interrupt, for one line in service or for none                *)
LEMMA InterruptEnds ==
  ASSUME PicInv, NEW chip \in Chips, pic' = outb(pic, Command(chip, EOI)),
         UNCHANGED <<firmware, todo, pc>>
  PROVE  /\ PicInv'
         /\ \A line \in 0 .. 7 : pic[chip].isr \subseteq {line} => pic'[chip].isr = {}
         /\ \A c \in Chips : c # chip => pic'[c].isr = pic[c].isr
  <1> DEFINE w == Command(chip, EOI)
             p == pic[chip]
             q == OnCommand(pic[chip], EOI)
  <1>1. pic \in [Chips -> Chip] /\ p \in Chip
    BY DEF PicInv
  <1>2. w.chip = chip /\ w.port = "CMD" /\ w.word = EOI
    BY DEF Command
  <1>3. q = [p EXCEPT !.isr = IF p.isr = {} THEN {} ELSE p.isr \ {Min(p.isr)}]
    BY DEF OnCommand, EOI, ICW1
  <1>4. SameBut(p, q) /\ q.isr = IF p.isr = {} THEN {} ELSE p.isr \ {Min(p.isr)}
    <2>1. (IF p.isr = {} THEN {} ELSE p.isr \ {Min(p.isr)}) \in SUBSET (0 .. 7)
      BY <1>1 DEF Chip
    <2> HIDE DEF p
    <2> QED BY <1>1, <1>3, <2>1 DEF Chip, SameBut
  <1>5. \A line \in 0 .. 7 : p.isr \subseteq {line} => q.isr = {}
    <2> SUFFICES ASSUME NEW line \in 0 .. 7, p.isr \subseteq {line}, p.isr # {}
                 PROVE  p.isr \ {Min(p.isr)} = {}
      BY <1>4
    <2>1. p.isr = {line}
      OBVIOUS
    <2>2. Min({line}) = line
      BY DEF Min
    <2> QED BY <2>1, <2>2
  <1> HIDE DEF q, p, w
  <1>6. /\ pic'[chip] = q /\ pic' \in [Chips -> Chip]
        /\ \A c \in Chips : c # chip => pic'[c] = pic[c]
    <2> DEFINE o == outb(pic, w)
    <2>1. /\ o[w.chip] = OnCommand(pic[w.chip], w.word)
          /\ \A c \in Chips : c # w.chip => o[c] = pic[c]
          /\ o[w.chip] \in Chip => o \in [Chips -> Chip]
      BY <1>1, <1>2, OutbWrites
    <2> HIDE DEF o
    <2>2. pic' = o
      BY DEF o, w
    <2>3. pic'[chip] = q
      BY <1>2, <2>1, <2>2 DEF q
    <2> QED BY <1>2, <1>4, <2>1, <2>2, <2>3 DEF SameBut
  <1>7. \A c \in Chips : SameBut(pic[c], pic'[c])
    <2>1. \A c \in Chips : SameBut(pic[c], pic[c])
      BY <1>1 DEF SameBut
    <2> QED BY <1>4, <1>6, <2>1 DEF p
  <1>8. PicInv'
    BY <1>6, <1>7, ChipNames, SetupKeptByBoth
  <1> QED BY <1>5, <1>6, <1>8 DEF p

-----------------------------------------------------------------------------
(* A handler writes, returns or reports                                    *)

LEMMA TopIsAFrame ==
  ASSUME StackInv, stack # << >>
  PROVE  /\ Len(stack) \in {1, 2} /\ Top = stack[Len(stack)] /\ Top \in Frames
         /\ IrqFrame(Top) \/ FaultFrame(Top)
         /\ \A k \in 1 .. Len(stack) : k # Len(stack) => k = 1 /\ Len(stack) = 2
  <1>1. stack \in Seq(Frames) /\ Len(stack) \in Nat /\ Len(stack) <= 2 /\ Len(stack) # 0
    BY EmptySeq DEF StackInv
  <1>2. \A n \in Nat : n <= 2 /\ n # 0 => n \in {1, 2}
    OBVIOUS
  <1>3. Len(stack) \in {1, 2}
    BY <1>1, <1>2
  <1>4. stack[Len(stack)] \in Frames
    BY <1>1, <1>3, ElementOfSeq
  <1> QED BY <1>3, <1>4 DEF Top, StackInv

LEMMA HandlerEndsInterrupt ==
  ASSUME PicInv, StackInv, HandlerWrite
  PROVE  PicInv' /\ StackInv'
  <1>1. PICK f : f = Top
    OBVIOUS
  <1>2. /\ Len(stack) \in {1, 2} /\ f = stack[Len(stack)] /\ f \in Frames
        /\ stack \in Seq(Frames) /\ f.todo # << >>
        /\ IrqFrame(f)
    <2>1. stack # << >> /\ f.todo # << >>
      BY <1>1 DEF HandlerWrite
    <2> QED BY <1>1, <2>1, TopIsAFrame DEF StackInv, FaultFrame
  <1>3. /\ UNCHANGED <<firmware, todo, pc, iflag, raised, reported>>
        /\ pic' = outb(pic, Head(f.todo))
        /\ stack' = [stack EXCEPT ![Len(stack)].todo = Tail(@)]
    BY <1>1 DEF HandlerWrite, history
  <1>4. PICK g : g = [f EXCEPT !.todo = Tail(f.todo)]
    OBVIOUS
  <1>5. /\ g \in Frames /\ g.irq = f.irq /\ g.handler = f.handler /\ g.iflag = f.iflag
        /\ g.todo = Tail(f.todo)
    <2>1. Tail(f.todo) \in Seq(EndWords)
      BY <1>2, HeadTailProperties DEF Frames
    <2> QED BY <1>2, <1>4, <2>1 DEF Frames
  <1>6. /\ stack' \in Seq(Frames) /\ Len(stack') = Len(stack) /\ stack'[Len(stack)] = g
        /\ \A k \in 1 .. Len(stack) : k # Len(stack) => stack'[k] = stack[k]
    <2>1. stack' = [stack EXCEPT ![Len(stack)] = g]
      BY <1>2, <1>3, <1>4
    <2>2. Len(stack) \in 1 .. Len(stack)
      BY <1>2
    <2> QED BY <1>2, <1>5, <2>1, <2>2, ExceptSeq
  <1>7. PicInv' /\ IrqFrame(g)'
    <2>1. Served(f) /\ f.irq \in 0 .. 15
      BY <1>2 DEF IrqFrame
    <2>2. CASE f.irq < 8 /\ f.todo = <<EndMaster>>
      <3>1. pic' = outb(pic, Command(MASTER, EOI)) /\ g.todo = << >>
        BY <1>3, <1>5, <2>2 DEF EndMaster
      <3>2. /\ PicInv' /\ pic'[SLAVE].isr = pic[SLAVE].isr
            /\ pic[MASTER].isr \subseteq {f.irq} => pic'[MASTER].isr = {}
        BY <1>3, <2>1, <2>2, <3>1, ChipNames, InterruptEnds
      <3>3. Quiet'
        BY <2>1, <2>2, <3>2 DEF Served, Quiet
      <3> QED BY <1>2, <1>3, <1>5, <3>1, <3>2, <3>3 DEF IrqFrame, Served, Up
    <2>3. CASE f.irq >= 8 /\ f.todo = <<EndSlave, EndMaster>>
      <3>1. pic' = outb(pic, Command(SLAVE, EOI)) /\ g.todo = <<EndMaster>>
        BY <1>3, <1>5, <2>3 DEF EndSlave
      <3>2. pic[MASTER].isr = {CASCADE} /\ pic[SLAVE].isr \subseteq {f.irq - 8}
        BY <2>1, <2>3 DEF Served
      <3>3. PicInv' /\ pic'[MASTER].isr = pic[MASTER].isr /\ pic'[SLAVE].isr = {}
        <4>1. f.irq - 8 \in 0 .. 7
          BY <2>1, <2>3
        <4> QED BY <1>3, <3>1, <3>2, <4>1, ChipNames, InterruptEnds
      <3> QED BY <1>2, <1>3, <1>5, <2>3, <3>1, <3>2, <3>3 DEF IrqFrame, Served, Up
    <2>4. CASE f.irq >= 8 /\ f.todo = <<EndMaster>>
      <3>1. pic' = outb(pic, Command(MASTER, EOI)) /\ g.todo = << >>
        BY <1>3, <1>5, <2>4 DEF EndMaster
      <3>2. pic[MASTER].isr = {CASCADE} /\ pic[SLAVE].isr = {}
        BY <2>1, <2>4 DEF Served
      <3>3. PicInv' /\ pic'[SLAVE].isr = pic[SLAVE].isr /\ pic'[MASTER].isr = {}
        <4>1. CASCADE \in 0 .. 7
          BY DEF CASCADE
        <4> QED BY <1>3, <3>1, <3>2, <4>1, ChipNames, InterruptEnds
      <3>4. Quiet'
        BY <3>2, <3>3 DEF Quiet
      <3> QED BY <1>2, <1>3, <1>5, <3>1, <3>3, <3>4 DEF IrqFrame, Served, Up
    <2> QED BY <1>2, <2>1, <2>2, <2>3, <2>4 DEF Served
  <1>8. Len(stack) = 2 => FaultFrame(stack[1])'
    <2> SUFFICES ASSUME Len(stack) = 2
                 PROVE  FaultFrame(stack[1])'
      OBVIOUS
    <2>1. FaultFrame(stack[1])
      BY <1>2 DEF StackInv
    <2>2. \A x : FaultFrame(x) => FaultFrame(x)'
      BY <1>3 DEF FaultFrame
    <2>3. stack'[1] = stack[1]
      BY <1>6
    <2> QED BY <2>1, <2>2, <2>3
  <1>9. \A k \in 1 .. Len(stack') : (k = Len(stack) /\ IrqFrame(stack[k])')
                                  \/ (k = 1 /\ Len(stack) = 2 /\ FaultFrame(stack[k])')
    BY <1>2, <1>6, <1>7, <1>8
  <1>10. ~ \A k \in 1 .. Len(stack') : FaultFrame(stack[k])'
    <2>1. Len(stack) \in 1 .. Len(stack')
      BY <1>2, <1>6
    <2>2. ~FaultFrame(g)'
      BY <1>7 DEF IrqFrame, FaultFrame
    <2> QED BY <1>6, <2>1, <2>2
  <1>11. Len(stack') = 2 => FaultFrame(stack[1])' /\ IrqFrame(stack[2])'
    BY <1>6, <1>7, <1>8
  <1>12. /\ \A k \in 1 .. Len(stack') : IrqFrame(stack[k])' \/ FaultFrame(stack[k])'
         /\ Len(stack') <= 2
    BY <1>2, <1>6, <1>9
  <1> QED BY <1>3, <1>6, <1>7, <1>10, <1>11, <1>12 DEF StackInv

LEMMA HandlerGoes ==
  ASSUME StackInv, HandlerReturn
  PROVE  StackInv' /\ iflag' \in BOOLEAN /\ Up
  <1>1. PICK f : f = Top
    OBVIOUS
  <1>2. /\ Len(stack) \in {1, 2} /\ f = stack[Len(stack)] /\ stack \in Seq(Frames)
        /\ f.todo = << >> /\ IrqFrame(f)
    <2>1. stack # << >> /\ f.todo = << >> /\ ~IsFault(f)
      BY <1>1 DEF HandlerReturn
    <2> QED BY <1>1, <2>1, TopIsAFrame, FramesAreOfOneKind DEF StackInv
  <1>3. /\ iflag' = f.iflag /\ UNCHANGED <<pic, pc, raised, reported>>
        /\ stack' = SubSeq(stack, 1, Len(stack) - 1)
    BY <1>1 DEF HandlerReturn, history
  <1>4. Up /\ iflag' \in BOOLEAN /\ Quiet'
    <2>1. Quiet
      BY <1>2 DEF IrqFrame, Served
    <2> QED BY <1>2, <1>3, <2>1 DEF IrqFrame, Quiet
  <1>5. /\ stack' \in Seq(Frames) /\ Len(stack') = Len(stack) - 1
        /\ \A k \in 1 .. (Len(stack) - 1) : stack'[k] = stack[k]
    <2>1. /\ 1 \in 1 .. (Len(stack) + 1) /\ Len(stack) - 1 \in (1 - 1) .. Len(stack)
          /\ (Len(stack) - 1) - 1 + 1 = Len(stack) - 1
      BY <1>2
    <2>2. /\ SubSeq(stack, 1, Len(stack) - 1) \in Seq(Frames)
          /\ Len(SubSeq(stack, 1, Len(stack) - 1)) = Len(stack) - 1
          /\ \A k \in 1 .. (Len(stack) - 1) :
               SubSeq(stack, 1, Len(stack) - 1)[k] = stack[1 + k - 1]
      BY <1>2, <2>1, SubSeqProperties
    <2> QED BY <1>3, <2>2
  <1>6. \A k \in 1 .. Len(stack') : FaultFrame(stack[k])'
    <2> SUFFICES ASSUME NEW k \in 1 .. Len(stack')
                 PROVE  FaultFrame(stack[k])'
      OBVIOUS
    <2>1. k = 1 /\ Len(stack) = 2 /\ stack'[k] = stack[k]
      BY <1>2, <1>5
    <2>2. FaultFrame(stack[1])
      BY <1>2, <2>1 DEF StackInv
    <2>3. \A x : FaultFrame(x) => FaultFrame(x)'
      BY <1>3 DEF FaultFrame
    <2> QED BY <2>1, <2>2, <2>3
  <1>7. Len(stack') <= 2 /\ Len(stack') # 2
    BY <1>2, <1>5
  <1> QED BY <1>3, <1>4, <1>5, <1>6, <1>7 DEF StackInv

(* What a handler prints is what happened.                                 *)
LEMMA HandlerReports ==
  ASSUME StackInv, Report
  PROVE  StackInv'
  <1>1. IrqFrame(Top) \/ FaultFrame(Top)
    BY TopIsAFrame DEF Report
  <1>2. FaultFrame(Top)
    BY <1>1, FramesAreOfOneKind DEF Report
  <1>3. PICK v \in raised : Top.handler = FaultOf(v)
    BY <1>2 DEF FaultFrame
  <1>4. /\ UNCHANGED <<stack, iflag, pic, pc, raised>>
        /\ reported' = reported \cup {Top.handler}
    BY DEF Report
  <1>5. reported' \subseteq {FaultOf(x) : x \in raised}
    BY <1>3, <1>4 DEF StackInv
  <1> QED BY <1>4, <1>5, StackKept DEF Up

-----------------------------------------------------------------------------
(* The processor takes an interrupt.                                       *)

LEMMA EndsHaltKeepsUp ==
  ASSUME ThreadInv, iflag, EndsHalt
  PROVE  Up /\ Up'
  BY DEF ThreadInv, EndsHalt, Up

LEMMA SetupWhenUp ==
  ASSUME PicInv, Up
  PROVE  /\ pic \in [Chips -> Chip] /\ pic[MASTER] \in Chip /\ pic[SLAVE] \in Chip
         /\ pic[MASTER].base = 32 /\ pic[SLAVE].base = 40
  <1>1. Remapped /\ pic \in [Chips -> Chip]
    BY DEF PicInv, Up
  <1> QED BY <1>1, ChipNames DEF Remapped, BaseOf

LEMMA InterruptIsTaken ==
  ASSUME PicInv, TablesInv, ThreadInv, StackInv, Acknowledge
  PROVE  PicInv' /\ StackInv' /\ iflag' = FALSE
  <1>1. Up /\ Up' /\ iflag /\ Quiet
    BY EndsHaltKeepsUp, NoneInService DEF Acknowledge
  <1>2. PICK chips : chips = WithSlave(pic)
    OBVIOUS
  <1>3. PICK m : m = chips[MASTER]
    OBVIOUS
  <1>4. PICK s : s = chips[SLAVE]
    OBVIOUS
  <1>5. /\ chips \in [Chips -> Chip] /\ m \in Chip /\ s \in Chip
        /\ m.isr = {} /\ s.isr = {} /\ m.base = 32 /\ s.base = 40
        /\ SameBut(pic[MASTER], m) /\ SameBut(pic[SLAVE], s)
    <2>1. pic \in [Chips -> Chip] /\ pic[MASTER].base = 32 /\ pic[SLAVE].base = 40
      BY <1>1, SetupWhenUp
    <2>2. /\ chips \in [Chips -> Chip]
          /\ \A c \in Chips : SameBut(pic[c], chips[c]) /\ chips[c].isr = pic[c].isr
      BY <1>2, <2>1, SlaveRequests
    <2> QED BY <1>1, <1>3, <1>4, <2>1, <2>2, ChipNames DEF SameBut, Quiet
  <1>6. PICK line : line = Presented(m)
    OBVIOUS
  <1>7. PICK sline : sline = Presented(s)
    OBVIOUS
  <1>8. line \in 0 .. 7 /\ sline \in 0 .. 8
    <2>1. line # 8
      BY <1>2, <1>3, <1>6 DEF Acknowledge
    <2>2. line \in 0 .. 8 /\ sline \in 0 .. 8
      BY <1>5, <1>6, <1>7, LinePresented
    <2> QED BY <2>1, <2>2
  <1>9. UNCHANGED <<firmware, todo, raised, reported>>
    BY DEF Acknowledge, history
  <1>10. /\ SameBut(pic[MASTER], Acknowledged(m, line)) /\ Acknowledged(m, line).isr = {line}
         /\ SameBut(pic[MASTER], Acknowledged(m, CASCADE))
         /\ Acknowledged(m, CASCADE).isr = {CASCADE}
         /\ sline # 8 => /\ SameBut(pic[SLAVE], Acknowledged(s, sline))
                         /\ Acknowledged(s, sline).isr = {sline}
    <2>1. \A p, q, r : SameBut(p, q) /\ SameBut(q, r) => SameBut(p, r)
      BY DEF SameBut
    <2>2. /\ SameBut(m, Acknowledged(m, line))
          /\ Acknowledged(m, line).isr = m.isr \cup {line}
      BY <1>5, <1>8, RequestsHeld
    <2>3. /\ SameBut(m, Acknowledged(m, CASCADE))
          /\ Acknowledged(m, CASCADE).isr = m.isr \cup {CASCADE}
      <3>1. CASCADE \in 0 .. 7
        BY DEF CASCADE
      <3> QED BY <1>5, <3>1, RequestsHeld
    <2>4. ASSUME sline # 8
          PROVE  /\ SameBut(s, Acknowledged(s, sline))
                 /\ Acknowledged(s, sline).isr = s.isr \cup {sline}
      <3>1. sline \in 0 .. 7
        BY <1>8, <2>4
      <3> QED BY <1>5, <3>1, RequestsHeld
    <2> QED BY <1>5, <2>1, <2>2, <2>3, <2>4
  <1>11. CASE line = CASCADE /\ sline # 8
    <2>1. /\ pic' = [chips EXCEPT ![MASTER] = Acknowledged(@, CASCADE),
                                  ![SLAVE] = Acknowledged(@, sline)]
          /\ Enter(s.base + sline, 8 + sline)
      BY <1>2, <1>3, <1>4, <1>6, <1>7, <1>11 DEF Acknowledge
    <2>2. /\ DOMAIN pic' = Chips /\ pic' = [c \in Chips |-> pic'[c]]
          /\ pic'[MASTER] = Acknowledged(m, CASCADE)
          /\ pic'[SLAVE] = Acknowledged(s, sline)
      BY <1>3, <1>4, <1>5, <2>1, ChipNames
    <2>3. PicInv'
      BY <1>1, <1>9, <1>10, <1>11, <2>2, SetupKeptByBoth
    <2>4. 8 + sline \in 0 .. 15 /\ s.base + sline = 32 + (8 + sline) /\ (8 + sline) - 8 = sline
      BY <1>5, <1>8, <1>11
    <2>5. Enter(32 + (8 + sline), 8 + sline)
      BY <2>1, <2>4
    <2>6. pic'[MASTER].isr = {CASCADE} /\ pic'[SLAVE].isr \subseteq {(8 + sline) - 8}
      BY <1>10, <1>11, <2>2, <2>4
    <2>7. StackInv' /\ iflag' = FALSE
      <3>1. PICK irq : irq = 8 + sline
        OBVIOUS
      <3>2. irq \in 0 .. 15 /\ ~(irq < 8) /\ Enter(32 + irq, irq)
        BY <1>8, <1>11, <2>4, <2>5, <3>1
      <3>3. /\ irq < 8 => pic'[MASTER].isr \subseteq {irq} /\ pic'[SLAVE].isr = {}
            /\ irq >= 8 => pic'[MASTER].isr = {CASCADE} /\ pic'[SLAVE].isr \subseteq {irq - 8}
        BY <2>6, <3>1, <3>2
      <3> QED BY <1>1, <1>9, <3>2, <3>3, IrqEnters
    <2> QED BY <2>3, <2>7
  <1>12. CASE ~(line = CASCADE /\ sline # 8)
    <2>1. /\ pic' = [chips EXCEPT ![MASTER] = Acknowledged(@, line)]
          /\ Enter(m.base + line, line)
      BY <1>2, <1>3, <1>4, <1>6, <1>7, <1>12 DEF Acknowledge
    <2>2. /\ DOMAIN pic' = Chips /\ pic' = [c \in Chips |-> pic'[c]]
          /\ pic'[MASTER] = Acknowledged(m, line) /\ pic'[SLAVE] = s
      BY <1>3, <1>4, <1>5, <2>1, ChipNames
    <2>3. PicInv'
      BY <1>1, <1>5, <1>9, <1>10, <2>2, SetupKeptByBoth
    <2>4. line \in 0 .. 15 /\ line < 8 /\ Enter(32 + line, line)
      BY <1>5, <1>8, <2>1
    <2>5. pic'[MASTER].isr \subseteq {line} /\ pic'[SLAVE].isr = {}
      BY <1>5, <1>10, <2>2
    <2>6. StackInv' /\ iflag' = FALSE
      <3>1. /\ line < 8 => pic'[MASTER].isr \subseteq {line} /\ pic'[SLAVE].isr = {}
            /\ line >= 8 => pic'[MASTER].isr = {CASCADE} /\ pic'[SLAVE].isr \subseteq {line - 8}
        BY <1>8, <2>5
      <3> QED BY <1>1, <1>9, <2>4, <3>1, IrqEnters
    <2> QED BY <2>3, <2>6
  <1> QED BY <1>11, <1>12

LEMMA SpuriousIsTaken ==
  ASSUME PicInv, TablesInv, ThreadInv, StackInv, NEW chip \in Chips, Spurious(chip)
  PROVE  PicInv' /\ StackInv' /\ iflag' = FALSE
  <1>1. Up /\ Up' /\ iflag /\ Quiet
    BY EndsHaltKeepsUp, NoneInService DEF Spurious
  <1>2. /\ pic \in [Chips -> Chip] /\ pic[MASTER] \in Chip /\ pic[SLAVE] \in Chip
        /\ pic[MASTER].base = 32 /\ pic[SLAVE].base = 40
    BY <1>1, SetupWhenUp
  <1>3. UNCHANGED <<firmware, todo, raised, reported>>
    BY DEF Spurious, history
  <1>4. SameBut(pic[MASTER], pic[MASTER]) /\ SameBut(pic[SLAVE], pic[SLAVE])
    BY <1>2 DEF SameBut
  <1>5. CASE chip = MASTER
    <2>1. pic' = pic /\ Enter(32 + 7, 7)
      BY <1>2, <1>5 DEF Spurious
    <2>2. PicInv'
      BY <1>1, <1>2, <1>3, <1>4, <2>1, SetupKeptByBoth
    <2>3. StackInv' /\ iflag' = FALSE
      <3>1. PICK irq : irq = 7
        OBVIOUS
      <3>2. irq \in 0 .. 15 /\ irq < 8 /\ Enter(32 + irq, irq)
        BY <2>1, <3>1
      <3>3. /\ irq < 8 => pic'[MASTER].isr \subseteq {irq} /\ pic'[SLAVE].isr = {}
            /\ irq >= 8 => pic'[MASTER].isr = {CASCADE} /\ pic'[SLAVE].isr \subseteq {irq - 8}
        BY <1>1, <2>1, <3>2 DEF Quiet
      <3> QED BY <1>1, <1>3, <3>2, <3>3, IrqEnters
    <2> QED BY <2>2, <2>3
  <1>6. CASE chip = SLAVE
    <2> DEFINE q == [pic[MASTER] EXCEPT !.isr = pic[MASTER].isr \cup {CASCADE}]
    <2>1. /\ pic' = [pic EXCEPT ![MASTER] = q] /\ Enter(40 + 7, 15)
      BY <1>2, <1>6, ChipNames DEF Spurious
    <2>2. SameBut(pic[MASTER], q) /\ q.isr = pic[MASTER].isr \cup {CASCADE}
      <3>1. CASCADE \in 0 .. 7
        BY DEF CASCADE
      <3> QED BY <1>2, <3>1, RequestsHeld
    <2> HIDE DEF q
    <2>3. /\ DOMAIN pic' = Chips /\ pic' = [c \in Chips |-> pic'[c]]
          /\ pic'[MASTER] = q /\ pic'[SLAVE] = pic[SLAVE]
      BY <1>2, <2>1, ChipNames
    <2>4. PicInv'
      BY <1>1, <1>3, <1>4, <2>2, <2>3, SetupKeptByBoth
    <2>5. StackInv' /\ iflag' = FALSE
      <3>1. PICK irq : irq = 15
        OBVIOUS
      <3>2. irq \in 0 .. 15 /\ ~(irq < 8) /\ Enter(32 + irq, irq)
        <4>1. 40 + 7 = 32 + irq
          BY <3>1
        <4> QED BY <2>1, <3>1, <4>1
      <3>3. /\ irq < 8 => pic'[MASTER].isr \subseteq {irq} /\ pic'[SLAVE].isr = {}
            /\ irq >= 8 => pic'[MASTER].isr = {CASCADE} /\ pic'[SLAVE].isr \subseteq {irq - 8}
        BY <1>1, <2>2, <2>3, <3>2 DEF Quiet
      <3> QED BY <1>1, <1>3, <3>2, <3>3, IrqEnters
    <2> QED BY <2>4, <2>5
  <1> QED BY <1>5, <1>6 DEF Chips

-----------------------------------------------------------------------------
(* Every step                                                              *)

LEMMA IntStarts == Init => IntInv
  BY PicStarts, TablesStart, ThreadStarts, StackStarts DEF IntInv

LEMMA ThreadKeepsInterrupts ==
  ASSUME IntInv, thread \/ (\E n \in SleepArgs : sleep(n)) \/ init_syscall
  PROVE  IntInv'
  <1>1. PicInv /\ TablesInv /\ ThreadInv /\ StackInv
    BY DEF IntInv
  <1>2. CASE init
    <2>1. PicInv' /\ ServiceShrinks /\ TablesInv'
      BY <1>1, <1>2, PicInitialised, TablesInitialised
    <2>2. /\ stack = << >> /\ stack' = stack /\ raised' = raised /\ reported' = reported
          /\ iflag' = iflag \/ (iflag' = TRUE /\ pc' = "run")
          /\ ~Up
      BY <1>2 DEF init, init_gdt, init_idt, RemapStep, LoadIdt, keyboard_init, init_timer,
                  EnableInterrupts, Thread, history, Up
    <2>3. StackInv'
      BY <1>1, <2>1, <2>2, StackEmpty
    <2>4. iflag' \in BOOLEAN /\ (iflag' => Up')
      <3>1. iflag = FALSE
        BY <1>1, <2>2 DEF ThreadInv
      <3>2. CASE iflag' = iflag
        BY <3>1, <3>2
      <3>3. CASE iflag' = TRUE /\ pc' = "run"
        BY <3>3 DEF Up
      <3> QED BY <2>2, <3>2, <3>3
    <2>5. ThreadInv'
      BY <1>1, <1>2, <2>4, ThreadPreserved DEF Next, thread
    <2> QED BY <2>1, <2>3, <2>5 DEF IntInv
  <1>3. CASE SleepTest \/ SleepHalt \/ \E n \in SleepArgs : sleep(n)
    <2>1. /\ UNCHANGED <<pic, tables, iflag, stack, todo, firmware, raised, reported>>
          /\ Up /\ Up'
      BY <1>3 DEF SleepTest, SleepHalt, sleep, Thread, history, Up
    <2>2. TablesInv'
      BY <1>1, <2>1, TablesKept
    <2>3. PicInv'
      <3>1. pic \in [Chips -> Chip]
        BY <1>1 DEF PicInv
      <3> QED BY <1>1, <2>1, <3>1, SetupKept
    <2>4. StackInv'
      <3>1. reported' \subseteq {FaultOf(v) : v \in raised}
        BY <1>1, <2>1 DEF StackInv
      <3> QED BY <1>1, <2>1, <3>1, StackKept
    <2>5. iflag' \in BOOLEAN /\ (iflag' => Up')
      BY <1>1, <2>1 DEF ThreadInv
    <2>6. ThreadInv'
      BY <1>1, <1>3, <2>5, ThreadPreserved DEF Next, thread
    <2> QED BY <2>2, <2>3, <2>4, <2>6 DEF IntInv
  <1>4. CASE init_syscall
    <2>1. /\ UNCHANGED <<pic, gdt, cs, ss, idt, lidt, iflag, stack, pc, todo, clock>>
          /\ UNCHANGED <<firmware, raised, reported>>
          /\ star' = <<8, 24>> /\ pc = "run"
      BY <1>4 DEF init_syscall, Thread, history
    <2>2. TablesInv'
      BY <1>1, <2>1 DEF TablesInv, HandlerAt
    <2>3. PicInv'
      <3>1. pic \in [Chips -> Chip]
        BY <1>1 DEF PicInv
      <3> QED BY <1>1, <2>1, <3>1, SetupKept
    <2>4. StackInv'
      <3>1. reported' \subseteq {FaultOf(v) : v \in raised} /\ (Up => Up')
        BY <1>1, <2>1 DEF StackInv, Up
      <3> QED BY <1>1, <2>1, <3>1, StackKept
    <2>5. iflag' \in BOOLEAN /\ (iflag' => Up')
      BY <1>1, <2>1 DEF ThreadInv, Up
    <2>6. ThreadInv'
      BY <1>1, <1>4, <2>5, ThreadPreserved DEF Next
    <2> QED BY <2>2, <2>3, <2>4, <2>6 DEF IntInv
  <1> QED BY <1>2, <1>3, <1>4 DEF thread

LEMMA HandlersKeepInterrupts ==
  ASSUME IntInv, handlers
  PROVE  IntInv'
  <1>1. PicInv /\ TablesInv /\ ThreadInv /\ StackInv
    BY DEF IntInv
  <1>2. UNCHANGED <<tables, pc, todo, firmware>>
    BY DEF handlers, HandlerWrite, HandlerReturn, Report, history
  <1>3. TablesInv' /\ (Up' <=> Up)
    BY <1>1, <1>2, TablesKept DEF Up
  <1>4. CASE HandlerWrite
    <2>1. PicInv' /\ StackInv'
      BY <1>1, <1>4, HandlerEndsInterrupt
    <2>2. iflag' \in BOOLEAN /\ (iflag' => Up')
      BY <1>1, <1>3, <1>4 DEF ThreadInv, HandlerWrite
    <2>3. ThreadInv'
      BY <1>1, <1>4, <2>2, ThreadPreserved DEF Next, handlers
    <2> QED BY <1>3, <2>1, <2>3 DEF IntInv
  <1>5. CASE HandlerReturn \/ Report
    <2>1. StackInv' /\ iflag' \in BOOLEAN /\ (iflag' => Up')
      <3>1. CASE HandlerReturn
        BY <1>1, <1>3, <3>1, HandlerGoes
      <3>2. CASE Report
        <4>1. iflag' = iflag
          BY <3>2 DEF Report
        <4> QED BY <1>1, <1>3, <3>2, <4>1, HandlerReports DEF ThreadInv
      <3> QED BY <1>5, <3>1, <3>2
    <2>2. PicInv'
      <3>1. pic' = pic
        BY <1>5 DEF HandlerReturn, Report
      <3>2. pic \in [Chips -> Chip]
        BY <1>1 DEF PicInv
      <3> QED BY <1>1, <1>2, <3>1, <3>2, SetupKept
    <2>3. ThreadInv'
      BY <1>1, <1>5, <2>1, ThreadPreserved DEF Next, handlers
    <2> QED BY <1>3, <2>1, <2>2, <2>3 DEF IntInv
  <1> QED BY <1>4, <1>5 DEF handlers

LEMMA DevicesKeepInterrupts ==
  ASSUME IntInv,
         \/ Acknowledge
         \/ \E irq \in Devices : Raise(irq)
         \/ \E chip \in {MASTER, SLAVE} : Spurious(chip)
         \/ \E v \in Exceptions : Exception(v)
  PROVE  IntInv'
  <1>1. PicInv /\ TablesInv /\ ThreadInv /\ StackInv
    BY DEF IntInv
  <1>2. CASE \E irq \in Devices : Raise(irq)
    <2>1. PICK irq \in 0 .. 15 : irq \in Devices /\ Raise(irq)
      BY <1>2, InterruptsAssumption
    <2>2. UNCHANGED <<tables, iflag, stack, pc, raised, reported>> /\ (Up' <=> Up)
      BY <2>1 DEF Raise, history, Up
    <2>3. PicInv' /\ pic'[MASTER].isr = pic[MASTER].isr /\ pic'[SLAVE].isr = pic[SLAVE].isr
      BY <1>1, <2>1, DeviceRaises
    <2>4. StackInv'
      <3>1. reported' \subseteq {FaultOf(v) : v \in raised}
        BY <1>1, <2>2 DEF StackInv
      <3> QED BY <1>1, <2>2, <2>3, <3>1, StackKept
    <2>5. TablesInv'
      BY <1>1, <2>2, TablesKept
    <2>6. iflag' \in BOOLEAN /\ (iflag' => Up')
      BY <1>1, <2>2 DEF ThreadInv
    <2>7. ThreadInv'
      BY <1>1, <1>2, <2>6, ThreadPreserved DEF Next
    <2> QED BY <2>3, <2>4, <2>5, <2>7 DEF IntInv
  <1>3. CASE Acknowledge \/ \E chip \in {MASTER, SLAVE} : Spurious(chip)
    <2>1. PicInv' /\ StackInv' /\ iflag' = FALSE
      BY <1>1, <1>3, InterruptIsTaken, SpuriousIsTaken DEF Chips
    <2>2. UNCHANGED tables /\ Up /\ Up'
      <3>1. UNCHANGED tables /\ iflag /\ EndsHalt
        BY <1>3 DEF Acknowledge, Spurious
      <3> QED BY <1>1, <3>1, EndsHaltKeepsUp
    <2>3. TablesInv'
      BY <1>1, <2>2, TablesKept
    <2>4. ThreadInv'
      BY <1>1, <1>3, <2>1, ThreadPreserved DEF Next
    <2> QED BY <2>1, <2>3, <2>4 DEF IntInv
  <1>4. CASE \E v \in Exceptions : Exception(v)
    <2>1. PICK v \in Exceptions : Exception(v)
      BY <1>4
    <2>2. StackInv' /\ iflag' = iflag /\ (Up => Up')
      BY <1>1, <2>1, FaultEnters
    <2>3. /\ UNCHANGED <<tables, pic, todo, firmware>>
          /\ pc' = pc \/ (Up /\ Up')
      BY <2>1 DEF Exception, EndsHalt, Up
    <2>4. TablesInv'
      BY <1>1, <2>3, TablesKept
    <2>5. PicInv'
      <3>1. pic \in [Chips -> Chip]
        BY <1>1 DEF PicInv
      <3> QED BY <1>1, <2>3, <3>1, SetupKept
    <2>6. iflag' \in BOOLEAN /\ (iflag' => Up')
      BY <1>1, <2>2 DEF ThreadInv
    <2>7. ThreadInv'
      BY <1>1, <1>4, <2>6, ThreadPreserved DEF Next
    <2> QED BY <2>2, <2>4, <2>5, <2>7 DEF IntInv
  <1> QED BY <1>2, <1>3, <1>4

LEMMA IntPreserved == IntInv /\ [Next]_vars => IntInv'
  <1> SUFFICES ASSUME IntInv, [Next]_vars
               PROVE  IntInv'
    OBVIOUS
  <1>1. CASE thread \/ (\E n \in SleepArgs : sleep(n)) \/ init_syscall
    BY <1>1, ThreadKeepsInterrupts
  <1>2. CASE handlers
    BY <1>2, HandlersKeepInterrupts
  <1>3. CASE \/ Acknowledge
             \/ \E irq \in Devices : Raise(irq)
             \/ \E chip \in {MASTER, SLAVE} : Spurious(chip)
             \/ \E v \in Exceptions : Exception(v)
    BY <1>3, DevicesKeepInterrupts
  <1>4. CASE UNCHANGED vars
    <2>1. /\ UNCHANGED <<pic, iflag, stack, pc, todo, timerticks, until, slept>>
          /\ UNCHANGED <<gdt, cs, ss, star, idt, lidt, firmware, raised, reported>>
      BY <1>4 DEF vars, tables, clock, history
    <2>2. FirmwareMask' = FirmwareMask /\ (Up' <=> Up) /\ Unmasked' = Unmasked
      BY <2>1 DEF FirmwareMask, Up, Unmasked
    <2>3. PicInv'
      <3>1. pic \in [Chips -> Chip] /\ PicInv
        BY DEF IntInv, PicInv
      <3> QED BY <2>1, <3>1, SetupKept
    <2>4. TablesInv'
      BY <2>1, TablesKept DEF IntInv, tables
    <2>5. ThreadInv'
      BY <2>1 DEF IntInv, ThreadInv, Up
    <2>6. StackInv'
      <3>1. reported' \subseteq {FaultOf(v) : v \in raised} /\ StackInv
        BY <2>1 DEF IntInv, StackInv
      <3> QED BY <2>1, <2>2, <3>1, StackKept
    <2> QED BY <2>3, <2>4, <2>5, <2>6 DEF IntInv
  <1> QED BY <1>1, <1>2, <1>3, <1>4 DEF Next

-----------------------------------------------------------------------------
(* What the invariant means                                                *)

LEMMA EndsFollow == IntInv => EveryInterruptIsEnded
  <1> SUFFICES ASSUME IntInv
               PROVE  EveryInterruptIsEnded
    OBVIOUS
  <1>1. StackInv /\ Len(stack) \in Nat /\ Len(stack) <= 2
    BY DEF IntInv, StackInv
  <1>2. \A k \in 1 .. Len(stack) :
          /\ IrqFrame(stack[k]) <=> stack[k].irq # -1
          /\ FaultFrame(stack[k]) <=> stack[k].irq = -1
    BY <1>1 DEF StackInv, IrqFrame, FaultFrame
  <1>3. IrqFrames = {} => Quiet
    BY <1>1, <1>2 DEF StackInv, IrqFrames
  <1>4. \E k \in {1, 2} : IrqFrames \subseteq {k}
    <2>1. CASE Len(stack) = 2
      <3>1. FaultFrame(stack[1]) <=> IrqFrame(stack[2])
        BY <1>1, <2>1 DEF StackInv
      <3>2. stack[1].irq = -1 \/ stack[2].irq = -1
        BY <1>2, <2>1, <3>1
      <3>3. \A k \in IrqFrames : k \in {1, 2} /\ stack[k].irq # -1
        BY <2>1 DEF IrqFrames
      <3>4. IrqFrames \subseteq {1} \/ IrqFrames \subseteq {2}
        BY <3>2, <3>3
      <3> QED BY <3>4
    <2>2. CASE Len(stack) # 2
      <3>1. \A n \in Nat : n <= 2 /\ n # 2 => 1 .. n \subseteq {1}
        OBVIOUS
      <3>2. 1 .. Len(stack) \subseteq {1}
        BY <1>1, <2>2, <3>1
      <3>3. IrqFrames \subseteq {1}
        BY <3>2, Zenon DEF IrqFrames
      <3> QED BY <3>3
    <2> QED BY <2>1, <2>2
  <1>5. Cardinality(IrqFrames) <= 1
    <2>1. PICK k : IrqFrames \subseteq {k}
      BY <1>4
    <2>2. IrqFrames = {} \/ IrqFrames = {k}
      BY <2>1
    <2>3. Cardinality({}) = 0
      BY FS_EmptySet
    <2>4. Cardinality({k}) = 1
      BY FS_Singleton
    <2> QED BY <2>2, <2>3, <2>4
  <1> QED BY <1>1, <1>3, <1>5 DEF EveryInterruptIsEnded, Quiet

Descriptors == [access : 0 .. 255, long : BOOLEAN]

LEMMA OneAdded ==
  ASSUME NEW D, NEW n \in Nat, NEW s \in Seq(D), Len(s) = n, NEW x \in D, NEW t, t = Append(s, x)
  PROVE  /\ t \in Seq(D) /\ Len(t) = n + 1 /\ t[n + 1] = x
         /\ \A k \in 1 .. n : t[k] = s[k]
  BY AppendProperties

LEMMA SixAdded ==
  ASSUME NEW D, NEW a \in D, NEW b \in D, NEW c \in D, NEW d \in D, NEW e \in D, NEW f \in D,
         NEW s, s = Append(Append(Append(Append(Append(Append(<< >>, a), b), c), d), e), f)
  PROVE  s \in Seq(D) /\ s[2] = b /\ s[3] = c /\ s[5] = e /\ s[6] = f
  <1>1. PICK s1 : s1 = Append(<< >>, a)
    OBVIOUS
  <1>2. s1 \in Seq(D) /\ Len(s1) = 1
    BY <1>1
  <1>3. PICK s2 : s2 = Append(s1, b)
    OBVIOUS
  <1>4. s2 \in Seq(D) /\ Len(s2) = 2 /\ s2[2] = b
    <2>1. PICK n \in Nat : n = 1
      OBVIOUS
    <2>2. s1 \in Seq(D) /\ Len(s1) = n
      BY <1>2, <2>1
    <2>3. /\ s2 \in Seq(D) /\ Len(s2) = n + 1 /\ s2[n + 1] = b
          /\ \A k \in 1 .. n : s2[k] = s1[k]
      BY <1>3, <2>2, OneAdded
    <2> QED BY <1>2, <2>1, <2>3
  <1>5. PICK s3 : s3 = Append(s2, c)
    OBVIOUS
  <1>6. s3 \in Seq(D) /\ Len(s3) = 3 /\ s3[2] = b /\ s3[3] = c
    <2>1. PICK n \in Nat : n = 2
      OBVIOUS
    <2>2. s2 \in Seq(D) /\ Len(s2) = n
      BY <1>4, <2>1
    <2>3. /\ s3 \in Seq(D) /\ Len(s3) = n + 1 /\ s3[n + 1] = c
          /\ \A k \in 1 .. n : s3[k] = s2[k]
      BY <1>5, <2>2, OneAdded
    <2> QED BY <1>4, <2>1, <2>3
  <1>7. PICK s4 : s4 = Append(s3, d)
    OBVIOUS
  <1>8. s4 \in Seq(D) /\ Len(s4) = 4 /\ s4[2] = b /\ s4[3] = c
    <2>1. PICK n \in Nat : n = 3
      OBVIOUS
    <2>2. s3 \in Seq(D) /\ Len(s3) = n
      BY <1>6, <2>1
    <2>3. /\ s4 \in Seq(D) /\ Len(s4) = n + 1 /\ s4[n + 1] = d
          /\ \A k \in 1 .. n : s4[k] = s3[k]
      BY <1>7, <2>2, OneAdded
    <2> QED BY <1>6, <2>1, <2>3
  <1>9. PICK s5 : s5 = Append(s4, e)
    OBVIOUS
  <1>10. s5 \in Seq(D) /\ Len(s5) = 5 /\ s5[2] = b /\ s5[3] = c /\ s5[5] = e
    <2>1. PICK n \in Nat : n = 4
      OBVIOUS
    <2>2. s4 \in Seq(D) /\ Len(s4) = n
      BY <1>8, <2>1
    <2>3. /\ s5 \in Seq(D) /\ Len(s5) = n + 1 /\ s5[n + 1] = e
          /\ \A k \in 1 .. n : s5[k] = s4[k]
      BY <1>9, <2>2, OneAdded
    <2> QED BY <1>8, <2>1, <2>3
  <1>11. s = Append(s5, f)
    BY <1>1, <1>3, <1>5, <1>7, <1>9
  <1> QED BY <1>10, <1>11

LEMMA DescriptorsAre ==
  /\ Segments \in Seq(Descriptors)
  /\ Segments[2] = [access |-> CODE, long |-> TRUE] /\ Segments[3].access = DATA
  /\ Segments[5].access = USER_DATA /\ Segments[6] = [access |-> USER_CODE, long |-> TRUE]
  /\ gdt_array \in Seq(Descriptors)
  /\ gdt_array[2] = [access |-> CODE, long |-> TRUE]
  <1>1. PICK a, b, c, e, f : /\ a = [access |-> 0, long |-> FALSE]
                             /\ b = [access |-> CODE, long |-> TRUE]
                             /\ c = [access |-> DATA, long |-> FALSE]
                             /\ e = [access |-> USER_DATA, long |-> FALSE]
                             /\ f = [access |-> USER_CODE, long |-> TRUE]
    OBVIOUS
  <1>2. /\ a \in Descriptors /\ b \in Descriptors /\ c \in Descriptors
        /\ e \in Descriptors /\ f \in Descriptors
    BY <1>1 DEF Descriptors, CODE, DATA, USER_DATA, USER_CODE
  <1>3. Segments = Append(Append(Append(Append(Append(Append(<< >>, a), b), c), a), e), f)
    BY <1>1, Zenon DEF Segments, gdtadd
  <1>4. /\ Segments \in Seq(Descriptors) /\ Segments[2] = b /\ Segments[3] = c
        /\ Segments[5] = e /\ Segments[6] = f
    BY <1>2, <1>3, SixAdded
  <1>5. cons_dt_code64_descriptor = b
    <2>1. 128 + 32 * 0 + DT_ROCODE = CODE
      BY DEF DT_ROCODE, CODE
    <2>2. cons_dt_code64_descriptor = [access |-> CODE, long |-> (64 = 64)]
      BY <2>1, Zenon DEF cons_dt_code64_descriptor, gdt_entry
    <2> QED BY <1>1, <2>2
  <1>6. gdt_array = <<a, b>>
    BY <1>1, <1>5, Zenon DEF gdt_array
  <1>7. gdt_array \in Seq(Descriptors) /\ gdt_array[2] = b
    BY <1>2, <1>6
  <1> QED BY <1>1, <1>4, <1>7

LEMMA SelectorsFollow == TablesInv => SelectorsFitTheTable
  <1> SUFFICES ASSUME TablesInv
               PROVE  SelectorsFitTheTable
    OBVIOUS
  <1>1. CASE pc = "gdt"
    <2>1. gdt = gdt_array /\ cs = 8 /\ star = << >> /\ lidt = FALSE
      BY <1>1 DEF TablesInv
    <2>2. Descriptor(cs) = [access |-> CODE, long |-> TRUE]
      <3>1. 8 \div 8 = 1
        OBVIOUS
      <3> QED BY <2>1, <3>1, DescriptorsAre DEF Descriptor
    <2> QED BY <1>1, <2>1, <2>2 DEF SelectorsFitTheTable
  <1>2. CASE pc # "gdt"
    <2>1. gdt = Segments /\ cs = 8 /\ ss = 16 /\ star \in {<< >>, <<8, 24>>}
      BY <1>2 DEF TablesInv
    <2>2. /\ Descriptor(8) = [access |-> CODE, long |-> TRUE]
          /\ Descriptor(16).access = DATA
          /\ Descriptor(32).access = USER_DATA
          /\ Descriptor(40) = [access |-> USER_CODE, long |-> TRUE]
      <3>1. gdt[2] = [access |-> CODE, long |-> TRUE] /\ gdt[3].access = DATA
            /\ gdt[5].access = USER_DATA /\ gdt[6] = [access |-> USER_CODE, long |-> TRUE]
        BY <2>1, DescriptorsAre
      <3>2. 8 \div 8 = 1 /\ 16 \div 8 = 2 /\ 32 \div 8 = 4 /\ 40 \div 8 = 5
        OBVIOUS
      <3> QED BY <3>1, <3>2 DEF Descriptor
    <2>3. lidt => \A v \in 0 .. 47 : idt[v].selector = 8
      <3>1. lidt => pc \notin {"gdt", "idt"}
        BY DEF TablesInv
      <3>2. ASSUME pc \notin {"gdt", "idt"}, NEW v \in 0 .. 47
            PROVE  idt[v].selector = 8
        <4>1. \E h, y : idt[v] = [handler |-> h, type |-> y, selector |-> 8]
          BY <3>2, Zenon DEF TablesInv
        <4> QED BY <4>1
      <3> QED BY <3>1, <3>2
    <2>4. star # << >> => star[1] = 8 /\ star[2] = 24
      BY <2>1
    <2>5. star # << >> =>
            /\ Descriptor(star[1]) = [access |-> CODE, long |-> TRUE]
            /\ Descriptor(star[1] + 8).access = DATA
            /\ Descriptor(star[2] + 8).access = USER_DATA
            /\ Descriptor(star[2] + 16) = [access |-> USER_CODE, long |-> TRUE]
      <3>1. 8 + 8 = 16 /\ 24 + 8 = 32 /\ 24 + 16 = 40
        OBVIOUS
      <3> QED BY <2>2, <2>4, <3>1
    <2> QED BY <1>2, <2>1, <2>2, <2>3, <2>5 DEF SelectorsFitTheTable
  <1> QED BY <1>1, <1>2

LEMMA TypesFollow == IntInv => TypeOK
  <1> SUFFICES ASSUME IntInv
               PROVE  TypeOK
    OBVIOUS
  <1>1. PicInv /\ TablesInv /\ ThreadInv
    BY DEF IntInv
  <1>2. \A chip \in {MASTER, SLAVE} : pic[chip] \in Chip
    BY <1>1 DEF PicInv, Chips
  <1>3. gdt \in Seq([access : 0 .. 255, long : BOOLEAN])
    <2>1. Segments \in Seq([access : 0 .. 255, long : BOOLEAN])
      BY DescriptorsAre DEF Descriptors
    <2>2. gdt_array \in Seq([access : 0 .. 255, long : BOOLEAN])
      BY DescriptorsAre DEF Descriptors
    <2> QED BY <1>1, <2>1, <2>2 DEF TablesInv
  <1>4. DOMAIN idt = 0 .. 47 /\ lidt \in BOOLEAN
    BY <1>1 DEF TablesInv
  <1> QED BY <1>1, <1>2, <1>3, <1>4 DEF TypeOK, ThreadInv, Chip

LEMMA WiringFollows == IntInv => InterruptsAreWired
  <1> SUFFICES ASSUME IntInv
               PROVE  InterruptsAreWired
    OBVIOUS
  <1>1. PicInv /\ TablesInv /\ StackInv
    BY DEF IntInv
  <1>2. ReportsAreTrue
    BY <1>1 DEF StackInv, ReportsAreTrue
  <1>3. EachLineHasItsHandler
    <2> SUFFICES ASSUME NEW k \in 1 .. Len(stack), stack[k].irq # -1
                 PROVE  stack[k].handler = HandlerOf(stack[k].irq)
      BY DEF EachLineHasItsHandler, HandlerOf
    <2> QED BY <1>1 DEF StackInv, IrqFrame, FaultFrame
  <1>4. MasksAreKept
    <2> SUFFICES ASSUME Up, NEW chip \in Chips
                 PROVE  pic[chip].imr = LinesOf(chip, firmware \ {0, 1})
      BY DEF MasksAreKept, Chips
    <2>1. Unmasked = {0, 1} /\ Remapped
      BY <1>1 DEF PicInv, Up, Unmasked
    <2> QED BY <2>1 DEF Remapped
  <1> QED BY <1>1, <1>2, <1>3, <1>4, SelectorsFollow, TypesFollow DEF InterruptsAreWired

(* The end of a sleep is as far away as it was asked to be, unless it      *)
(* wrapped around.                                                         *)
LEMMA SleepIsOver ==
  ASSUME IntInv, Next, pc = "test", pc' = "run"
  PROVE  timerticks - slept.began >= slept.want \/ slept.began + slept.want >= WORD
  <1>1. SleepTest
    <2>1. ~init /\ ~SleepHalt /\ ~init_syscall /\ ~handlers
      BY DEF init, init_gdt, init_idt, RemapStep, LoadIdt, keyboard_init, init_timer,
             EnableInterrupts, Thread, SleepHalt, init_syscall, handlers, HandlerWrite,
             HandlerReturn, Report
    <2>2. \A n \in SleepArgs : ~sleep(n)
      BY DEF sleep, Thread
    <2>3. ~Acknowledge /\ (\A chip \in {MASTER, SLAVE} : ~Spurious(chip))
          /\ \A v \in Exceptions : ~Exception(v)
      BY DEF Acknowledge, Spurious, Exception, EndsHalt
    <2>4. \A irq \in Devices : ~Raise(irq)
      BY DEF Raise
    <2> QED BY <2>1, <2>2, <2>3, <2>4 DEF Next, thread
  <1>2. ~(timerticks < until)
    BY <1>1 DEF SleepTest, Thread
  <1>3. /\ until = (slept.began + slept.want) % WORD
        /\ timerticks \in Nat /\ slept.began \in Nat /\ slept.want \in Nat /\ WORD \in Nat
    BY InterruptsAssumption DEF IntInv, ThreadInv
  <1>4. slept.began + slept.want < WORD => until = slept.began + slept.want
    <2>1. \A a \in Nat : a < WORD => a % WORD = a
      BY <1>3
    <2> QED BY <1>3, <2>1
  <1> QED BY <1>2, <1>3, <1>4

-----------------------------------------------------------------------------
(* When no handler of a device runs nothing is in service, so that no line *)
(* stays blocked, and handlers of devices never interrupt each other:      *)
(* piceoi() and the stubs end every interrupt, spurious ones included.     *)
THEOREM AllInterruptsEnd == Spec => []EveryInterruptIsEnded
  <1>1. Init => IntInv
    BY IntStarts
  <1>2. IntInv /\ [Next]_vars => IntInv'
    BY IntPreserved
  <1>3. IntInv => EveryInterruptIsEnded
    BY EndsFollow
  <1> QED BY <1>1, <1>2, <1>3, PTL DEF Spec

(* What init_gdt(), init_idt(), remappic() and the drivers set up fits     *)
(* together: every line is served by its own handler over valid            *)
(* descriptors, no interrupt is taken for an exception, and the firmware's *)
(* masks are kept.                                                         *)
THEOREM AlwaysWired == Spec => []InterruptsAreWired
  <1>1. Init => IntInv
    BY IntStarts
  <1>2. IntInv /\ [Next]_vars => IntInv'
    BY IntPreserved
  <1>3. IntInv => InterruptsAreWired
    BY WiringFollows
  <1> QED BY <1>1, <1>2, <1>3, PTL DEF Spec

(* sleep() never returns before the ticks it was asked to wait for, unless *)
(* the tick it waits for does not fit in its 64 bits.                      *)
THEOREM NoShortSleep == Spec => SleepsLongEnough
  <1> DEFINE LongEnough ==
               pc = "test" /\ pc' = "run" =>
                 timerticks - slept.began >= slept.want \/ slept.began + slept.want >= WORD
  <1>1. Init => IntInv
    BY IntStarts
  <1>2. IntInv /\ [Next]_vars => IntInv'
    BY IntPreserved
  <1>3. IntInv /\ [Next]_vars => [LongEnough]_vars
    BY SleepIsOver
  <1>4. Spec => [][LongEnough]_vars
    BY <1>1, <1>2, <1>3, PTL DEF Spec
  <1> QED BY <1>4 DEF SleepsLongEnough

=============================================================================
