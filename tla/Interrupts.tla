----------------------------- MODULE Interrupts -----------------------------
(***************************************************************************)
(* Bringing up interrupts and living with them: the descriptor tables      *)
(* (cpu/GDT/GDT.c, cpu/ints/IDT.c), the two interrupt controllers          *)
(* (cpu/ints/PIC.c), the timer and sleep() (cpu/ints/timer/PIT.c), in the  *)
(* order in which init() of kernel/x86_64/init.c calls them.               *)
(*                                                                         *)
(* The kernel's thread runs at the bottom of a stack of frames, one for    *)
(* each handler that has not returned.  Devices, the controllers and the   *)
(* processor's delivery of interrupts are external.  What the keyboard's   *)
(* handler does besides ending its interrupt is in Keyboard.               *)
(***************************************************************************)
EXTENDS Integers, Sequences, FiniteSets, FiniteSetsExt

CONSTANTS
  Devices,              \* interrupt lines (0 .. 15) that devices raise
  Exceptions,           \* exceptions that occur
  FirmwareMasks,        \* the lines the firmware may have left masked
  SleepArgs,            \* ticks sleep() is called with
  WORD,                 \* 2^64
  MaxTicks              \* bound: timer interrupts that are counted

ASSUME InterruptsAssumption ==
  /\ Devices \subseteq 0 .. 15 /\ 0 \in Devices
  /\ Exceptions \subseteq 0 .. 31
  /\ \A masks \in FirmwareMasks : masks \subseteq 0 .. 15
  /\ WORD \in Nat /\ MaxTicks \in 0 .. (WORD - 1)
  /\ SleepArgs \subseteq 0 .. (WORD - 1)

VARIABLES
  pic,                  \* the two controllers
  gdt,                  \* descriptors, from entry 0 on
  cs, ss, star,         \* selectors loaded, and those of STAR
  idt,                  \* gates; those not set yet are Absent
  lidt,                 \* whether the processor uses idt
  iflag,                \* RFLAGS.IF
  stack,                \* handlers that run, innermost last
  pc,                   \* where the thread is
  todo,                 \* words init() has still to write to the controllers
  timerticks,
  until,                \* end of sleep()
  slept,                \* history: argument of sleep() and timerticks at its call
  firmware,             \* history: the lines that were masked at first
  raised, reported      \* history: exceptions, and what error() printed

tables == <<gdt, cs, ss, star, idt, lidt>>
clock == <<timerticks, until, slept>>
history == <<firmware, raised, reported>>
vars == <<pic, tables, iflag, stack, pc, todo, clock, history>>

-----------------------------------------------------------------------------
(* The interrupt controllers (external).  icw is the initialisation word a *)
(* controller waits for, 0 when it works; a mask is a set of lines.        *)

MASTER == "PIC1"
SLAVE == "PIC2"
CASCADE == 2            \* the master's line that the slave is wired to
ICW1 == 17
EOI == 32

ChipOf(irq) == IF irq < 8 THEN MASTER ELSE SLAVE
LineOf(irq) == irq % 8
LinesOf(chip, irqs) == {LineOf(irq) : irq \in {i \in irqs : ChipOf(i) = chip}}

Command(chip, word) == [chip |-> chip, port |-> "CMD", word |-> word]
Data(chip, word) == [chip |-> chip, port |-> "DAT", word |-> word]

(* A non-specific end of interrupt takes the line of the highest priority  *)
(* out of service.                                                         *)
OnCommand(p, word) ==
  IF word = ICW1 THEN [p EXCEPT !.irr = {}, !.isr = {}, !.imr = {}, !.icw = 2]
  ELSE [p EXCEPT !.isr = IF @ = {} THEN {} ELSE @ \ {Min(@)}]

OnData(p, word) ==
  CASE p.icw = 2 -> [p EXCEPT !.base = word, !.icw = 3]
    [] p.icw = 3 -> [p EXCEPT !.wired = word, !.icw = 4]
    [] p.icw = 4 -> [p EXCEPT !.icw = 0]
    [] p.icw = 0 -> [p EXCEPT !.imr = word]

outb(chips, w) ==
  [chips EXCEPT ![w.chip] = IF w.port = "CMD" THEN OnCommand(@, w.word) ELSE OnData(@, w.word)]

(* The line a controller presents: the highest one that is not masked, if  *)
(* none as high is in service; 8 for none                                  *)
Presented(p) ==
  LET lines == {k \in p.irr \ p.imr : \A j \in p.isr : k < j}
  IN  IF lines = {} \/ p.icw # 0 THEN 8 ELSE Min(lines)

WithSlave(chips) ==
  IF Presented(chips[SLAVE]) # 8 /\ chips[MASTER].wired = 4 /\ chips[SLAVE].wired = 2
    THEN [chips EXCEPT ![MASTER].irr = @ \cup {CASCADE}]
    ELSE chips

Acknowledged(p, line) == [p EXCEPT !.irr = @ \ {line}, !.isr = @ \cup {line}]

-----------------------------------------------------------------------------
(* Descriptor tables                                                       *)

CODE == 154             \* 0x9A
DATA == 146             \* 0x92
USER_DATA == 242        \* 0xF2
USER_CODE == 250        \* 0xFA

gdtadd(table, access, longcode) == Append(table, [access |-> access, long |-> longcode])

(* A descriptor of the boot loader: of a code or data segment (bit 4 of    *)
(* the type), present                                                      *)
gdt_entry(entry_type, size, dpl) ==
  [access |-> 128 + 32 * dpl + entry_type, long |-> size = 64]

DT_ROCODE == 16 + 10

cons_dt_code64_descriptor == gdt_entry(DT_ROCODE, 64, 0)

(* The table the kernel is entered with                                    *)
gdt_array == << [access |-> 0, long |-> FALSE], cons_dt_code64_descriptor >>

TOSAITHE_CS_SEG == 8

Segments ==
  gdtadd(gdtadd(gdtadd(gdtadd(gdtadd(gdtadd(<< >>,
    0, FALSE), CODE, TRUE), DATA, FALSE), 0, FALSE), USER_DATA, FALSE), USER_CODE, TRUE)

TRAP == 143             \* 0x8F: IF stays as it is
INTERRUPT == 142        \* 0x8E: IF is cleared

Absent == [handler |-> "none", type |-> 0, selector |-> 0]

addirq(table, entry, offset, type) ==
  [table EXCEPT ![entry] = [handler |-> offset, type |-> type, selector |-> 8]]

(* The handlers of the exceptions that have one of their own               *)
FaultHandlers ==
  [v \in (0 .. 8) \cup (10 .. 14) |->
     << "div_0_fault", "debug_fault", "non_maskable_interrupt", "breakpoint_fault",
        "overflow_fault", "bound_fault", "inv_opcode_fault", "no_device_fault",
        "double_fault", "none", "inv_tss_fault", "no_segment_fault", "stack_fault",
        "gp_fault", "page_fault" >>[v + 1]]

FaultOf(v) == IF v \in DOMAIN FaultHandlers THEN FaultHandlers[v] ELSE "general_fault"

(* The table after the loops and the calls of init_idt()                   *)
Gates ==
  LET filled == [v \in 0 .. 47 |->
                  addirq(idt, v,
                         IF v < 32 THEN FaultOf(v) ELSE IF v < 40 THEN "nop_master" ELSE "nop_slave",
                         IF v < 32 THEN TRAP ELSE INTERRUPT)[v]]
  IN  addirq(filled, 33, "irq1_stub", INTERRUPT)

-----------------------------------------------------------------------------
(* The boot loader enters the kernel with its own descriptors, interrupts  *)
(* off and no stack segment; init() follows.                               *)

Init ==
  /\ firmware \in FirmwareMasks
  /\ pic = [chip \in {MASTER, SLAVE} |->
              [irr |-> {}, isr |-> {}, imr |-> LinesOf(chip, firmware),
               base |-> IF chip = MASTER THEN 8 ELSE 112,
               wired |-> IF chip = MASTER THEN 4 ELSE 2, icw |-> 0]]
  /\ gdt = gdt_array /\ cs = TOSAITHE_CS_SEG /\ ss = 0 /\ star = << >>
  /\ idt = [v \in 0 .. 47 |-> Absent]
  /\ lidt = FALSE
  /\ iflag = FALSE
  /\ stack = << >>
  /\ pc = "gdt"
  /\ todo = << >>
  /\ timerticks = 0 /\ until = 0 /\ slept = [want |-> 0, began |-> 0]
  /\ raised = {} /\ reported = {}

(* The handlers that run have the processor; the thread goes on when none  *)
(* does.                                                                   *)
Thread(at) == stack = << >> /\ pc = at

init_gdt ==
  /\ Thread("gdt")
  /\ gdt' = Segments
  /\ cs' = 8 /\ ss' = 16
  /\ pc' = "idt"
  /\ UNCHANGED <<pic, star, idt, lidt, iflag, stack, todo, clock, history>>

(* The words remappic() writes; the masks are those it has read first      *)
remappic_bases_swapped(master, slave) ==
  <<Command(MASTER, ICW1), Command(SLAVE, ICW1),
    Data(MASTER, slave), Data(SLAVE, master),
    Data(MASTER, 4), Data(SLAVE, 2), Data(MASTER, 1), Data(SLAVE, 1),
    Data(MASTER, pic[MASTER].imr), Data(SLAVE, pic[SLAVE].imr)>>

remappic(master, slave) ==
  <<Command(MASTER, ICW1), Command(SLAVE, ICW1),
    Data(MASTER, master), Data(SLAVE, slave),
    Data(MASTER, 4), Data(SLAVE, 2), Data(MASTER, 1), Data(SLAVE, 1),
    Data(MASTER, pic[MASTER].imr), Data(SLAVE, pic[SLAVE].imr)>>

init_idt ==
  /\ Thread("idt")
  /\ idt' = Gates
  /\ todo' = remappic(32, 40)
  /\ pc' = "remap"
  /\ UNCHANGED <<pic, gdt, cs, ss, star, lidt, iflag, stack, clock, history>>

RemapStep ==
  /\ Thread("remap")
  /\ todo # << >>
  /\ pic' = outb(pic, Head(todo))
  /\ todo' = Tail(todo)
  /\ UNCHANGED <<tables, iflag, stack, pc, clock, history>>

LoadIdt ==
  /\ Thread("remap")
  /\ todo = << >>
  /\ lidt' = TRUE
  /\ pc' = "keyboard"
  /\ UNCHANGED <<pic, gdt, cs, ss, star, idt, iflag, stack, todo, clock, history>>

(* The mask is read and written back without the line.                     *)
unmaskirq(irq) == outb(pic, Data(ChipOf(irq), pic[ChipOf(irq)].imr \ {LineOf(irq)}))

keyboard_init ==
  /\ Thread("keyboard")
  /\ pic' = unmaskirq(1)
  /\ pc' = "timer"
  /\ UNCHANGED <<tables, iflag, stack, todo, clock, history>>

init_timer ==
  /\ Thread("timer")
  /\ idt' = addirq(idt, 32, "pitirq", INTERRUPT)
  /\ pic' = unmaskirq(0)
  /\ pc' = "sti"
  /\ UNCHANGED <<gdt, cs, ss, star, lidt, iflag, stack, todo, clock, history>>

EnableInterruptsForgotten ==
  /\ Thread("sti")
  /\ pc' = "run"
  /\ UNCHANGED <<pic, tables, iflag, stack, todo, clock, history>>

EnableInterrupts ==
  /\ Thread("sti")
  /\ iflag' = TRUE
  /\ pc' = "run"
  /\ UNCHANGED <<pic, tables, stack, todo, clock, history>>

init ==
  \/ init_gdt \/ init_idt \/ RemapStep \/ LoadIdt
  \/ keyboard_init \/ init_timer \/ EnableInterrupts

-----------------------------------------------------------------------------
(* Devices, and the delivery of interrupts and exceptions (external)       *)

Raise(irq) ==
  /\ pic' = [pic EXCEPT ![ChipOf(irq)].irr = @ \cup {LineOf(irq)}]
  /\ UNCHANGED <<tables, iflag, stack, pc, todo, clock, history>>

EndsHalt == pc' = IF stack = << >> /\ pc = "halted" THEN "test" ELSE pc

(* The words a handler writes: piceoi()                                    *)
EoiOfMasterOnly(handler) ==
  IF handler \in {"nop_slave", "nop_master", "irq1_stub", "pitirq"}
    THEN <<Command(MASTER, EOI)>> ELSE << >>

piceoi(handler) ==
  CASE handler = "nop_slave" -> <<Command(SLAVE, EOI), Command(MASTER, EOI)>>
    [] handler \in {"nop_master", "irq1_stub", "pitirq"} -> <<Command(MASTER, EOI)>>
    [] OTHER -> << >>

(* A frame; irq is -1 for an exception.                                    *)
Frame(v, irq) ==
  [handler |-> idt[v].handler, irq |-> irq, todo |-> piceoi(idt[v].handler), iflag |-> iflag]

Enter(v, irq) ==
  /\ lidt
  /\ stack' = Append(stack, Frame(v, irq))
  /\ iflag' = (iflag /\ idt[v].type = TRAP)

Acknowledge ==
  LET chips == WithSlave(pic)
      line == Presented(chips[MASTER])
      sline == Presented(chips[SLAVE])
  IN  /\ iflag
      /\ line # 8
      /\ IF line = CASCADE /\ sline # 8
           THEN /\ pic' = [chips EXCEPT ![MASTER] = Acknowledged(@, CASCADE),
                                        ![SLAVE] = Acknowledged(@, sline)]
                /\ Enter(chips[SLAVE].base + sline, 8 + sline)
           ELSE /\ pic' = [chips EXCEPT ![MASTER] = Acknowledged(@, line)]
                /\ Enter(chips[MASTER].base + line, line)
      /\ EndsHalt
      /\ UNCHANGED <<tables, todo, clock, history>>

(* A request that is gone when the processor asks for it: the controller   *)
(* names its line 7 and keeps nothing in service; the master's line of the *)
(* slave stays in service.                                                 *)
Spurious(chip) ==
  /\ iflag
  /\ \A j \in pic[MASTER].isr : CASCADE < j
  /\ chip = SLAVE => CASCADE \notin pic[MASTER].imr
  /\ pic' = IF chip = MASTER THEN pic ELSE [pic EXCEPT ![MASTER].isr = @ \cup {CASCADE}]
  /\ Enter(pic[chip].base + 7, IF chip = MASTER THEN 7 ELSE 15)
  /\ EndsHalt
  /\ UNCHANGED <<tables, todo, clock, history>>

IsFault(frame) == frame.handler = "general_fault"
                  \/ \E v \in DOMAIN FaultHandlers : frame.handler = FaultHandlers[v]

Faulted == \E k \in 1 .. Len(stack) : IsFault(stack[k])

(* Only the exception 2 comes from outside, and so also in a handler.      *)
Exception(v) ==
  /\ ~Faulted
  /\ stack = << >> \/ v = 2
  /\ Enter(v, -1)
  /\ raised' = raised \cup {v}
  /\ EndsHalt
  /\ UNCHANGED <<pic, tables, todo, clock, firmware, reported>>

-----------------------------------------------------------------------------
(* Handlers                                                                *)

Top == stack[Len(stack)]

(* pitirq() counts the tick before it ends its interrupt.                  *)
HandlerWrite ==
  /\ stack # << >> /\ Top.todo # << >>
  /\ pic' = outb(pic, Head(Top.todo))
  /\ stack' = [stack EXCEPT ![Len(stack)].todo = Tail(@)]
  /\ timerticks' = IF Top.handler = "pitirq" /\ timerticks < MaxTicks
                     THEN timerticks + 1 ELSE timerticks
  /\ UNCHANGED <<tables, iflag, pc, todo, until, slept, history>>

HandlerReturn ==
  /\ stack # << >> /\ Top.todo = << >> /\ ~IsFault(Top)
  /\ stack' = SubSeq(stack, 1, Len(stack) - 1)
  /\ iflag' = Top.iflag
  /\ UNCHANGED <<pic, tables, pc, todo, clock, history>>

(* The handler of an exception prints what happened and halts for good.    *)
Report ==
  /\ stack # << >> /\ IsFault(Top) /\ Top.handler \notin reported
  /\ reported' = reported \cup {Top.handler}
  /\ UNCHANGED <<pic, tables, iflag, stack, pc, todo, clock, firmware, raised>>

handlers == HandlerWrite \/ HandlerReturn \/ Report

-----------------------------------------------------------------------------
(* The thread after init()                                                 *)

EndOfSleepOneShort(n) == (timerticks + n + WORD - 1) % WORD

EndOfSleep(n) == (timerticks + n) % WORD

(* Bound: only sleeps that end while ticks are counted                     *)
sleep(n) ==
  /\ Thread("run")
  /\ EndOfSleep(n) <= MaxTicks
  /\ until' = EndOfSleep(n)
  /\ slept' = [want |-> n, began |-> timerticks]
  /\ pc' = "test"
  /\ UNCHANGED <<pic, tables, iflag, stack, todo, timerticks, history>>

(* An interrupt may come between the test and the hlt.                     *)
SleepTest ==
  /\ Thread("test")
  /\ pc' = IF timerticks < until THEN "hlt" ELSE "run"
  /\ UNCHANGED <<pic, tables, iflag, stack, todo, clock, history>>

SleepHalt ==
  /\ Thread("hlt")
  /\ pc' = "halted"
  /\ UNCHANGED <<pic, tables, iflag, stack, todo, clock, history>>

(* STAR holds the selectors of the kernel and the base of the user's; no   *)
(* one calls init_syscall() yet.                                           *)
init_syscall ==
  /\ Thread("run")
  /\ star = << >>
  /\ star' = <<8, 24>>
  /\ UNCHANGED <<pic, gdt, cs, ss, idt, lidt, iflag, stack, pc, todo, clock, history>>

thread == init \/ SleepTest \/ SleepHalt

Next ==
  \/ thread
  \/ \E n \in SleepArgs : sleep(n)
  \/ init_syscall
  \/ handlers
  \/ Acknowledge
  \/ \E irq \in Devices : Raise(irq)
  \/ \E chip \in {MASTER, SLAVE} : Spurious(chip)
  \/ \E v \in Exceptions : Exception(v)

Spec == Init /\ [][Next]_vars

(* The timer never stops.  Handlers are far shorter than the time between  *)
(* interrupts: the thread gets to run again and again, and so does the     *)
(* controller get to deliver.                                              *)
Fairness ==
  /\ WF_vars(Raise(0))
  /\ WF_vars(handlers)
  /\ SF_vars(Acknowledge)
  /\ SF_vars(thread)

FairSpec == Spec /\ Fairness

-----------------------------------------------------------------------------
(* Properties                                                              *)

Up == pc \in {"run", "test", "hlt", "halted"}

(* Every variable has its type.                                            *)
TypeOK ==
  /\ \A chip \in {MASTER, SLAVE} :
       pic[chip] \in [irr : SUBSET (0 .. 7), isr : SUBSET (0 .. 7), imr : SUBSET (0 .. 7),
                      base : Nat, wired : {2, 4}, icw : {0, 2, 3, 4}]
  /\ gdt \in Seq([access : 0 .. 255, long : BOOLEAN])
  /\ DOMAIN idt = 0 .. 47
  /\ lidt \in BOOLEAN /\ iflag \in BOOLEAN
  /\ Up \/ pc \in {"gdt", "idt", "remap", "keyboard", "timer", "sti"}
  /\ timerticks \in 0 .. MaxTicks /\ until \in 0 .. MaxTicks

(* What the kernel reports on its way down is what happened: an interrupt  *)
(* of a device is never taken for an exception, although the firmware      *)
(* leaves the controllers on the vectors of exceptions.                    *)
ReportsAreTrue == reported \subseteq {FaultOf(v) : v \in raised}

(* Every line is served by the handler that was meant for it, whatever the *)
(* order in which the tables, the controllers and the masks were set up.   *)
EachLineHasItsHandler ==
  \A k \in 1 .. Len(stack) :
    LET f == stack[k] IN
    f.irq # -1 =>
      f.handler = CASE f.irq = 0 -> "pitirq" [] f.irq = 1 -> "irq1_stub"
                    [] f.irq \in 2 .. 7 -> "nop_master" [] f.irq \in 8 .. 15 -> "nop_slave"

IrqFrames == {k \in 1 .. Len(stack) : stack[k].irq # -1}

(* When no handler of a device runs nothing is in service: no line, and    *)
(* none below it, stays blocked, also after a spurious interrupt of either *)
(* controller.  Handlers of devices do not interrupt each other, so the    *)
(* kernel's only stack holds two frames at most, one of an exception.      *)
EveryInterruptIsEnded ==
  /\ Up /\ IrqFrames = {} => pic[MASTER].isr = {} /\ pic[SLAVE].isr = {}
  /\ Cardinality(IrqFrames) <= 1 /\ Len(stack) <= 2

(* Remapping resets the controllers, yet afterwards exactly the lines the  *)
(* firmware had masked are masked, but for the timer and the keyboard.     *)
MasksAreKept ==
  Up => \A chip \in {MASTER, SLAVE} :
          pic[chip].imr = LinesOf(chip, firmware \ {0, 1})

Descriptor(selector) == gdt[(selector \div 8) + 1]

(* The selectors spread over the code fit the order of the descriptors:    *)
(* those that the boot loader and flushregs() load, that of every gate,    *)
(* and those the processor derives from STAR for syscall and sysret.       *)
SelectorsFitTheTable ==
  /\ Descriptor(cs) = [access |-> CODE, long |-> TRUE]
  /\ pc # "gdt" => Descriptor(ss).access = DATA
  /\ lidt => \A v \in 0 .. 47 : Descriptor(idt[v].selector) = [access |-> CODE, long |-> TRUE]
  /\ star # << >> =>
       /\ Descriptor(star[1]) = [access |-> CODE, long |-> TRUE]
       /\ Descriptor(star[1] + 8).access = DATA
       /\ Descriptor(star[2] + 8).access = USER_DATA
       /\ Descriptor(star[2] + 16) = [access |-> USER_CODE, long |-> TRUE]

(* The descriptor tables, the controllers and the code agree with each     *)
(* other: every interrupt gets to its own handler, on valid descriptors,   *)
(* and no line but the two that have a driver was unmasked.                *)
InterruptsAreWired ==
  TypeOK /\ ReportsAreTrue /\ EachLineHasItsHandler /\ MasksAreKept /\ SelectorsFitTheTable

(* sleep() returns no earlier than asked, unless the end of the sleep does *)
(* not fit in 64 bits.                                                     *)
SleepsLongEnough ==
  [][pc = "test" /\ pc' = "run" =>
       timerticks - slept.began >= slept.want \/ slept.began + slept.want >= WORD]_vars

(* sleep() returns, although a tick may come between its test and its hlt, *)
(* unless an exception has stopped the kernel.                             *)
SleepEnds == pc = "test" ~> (pc = "run" \/ Faulted)

=============================================================================
