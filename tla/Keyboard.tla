------------------------------ MODULE Keyboard ------------------------------
(***************************************************************************)
(* The keyboard driver (kernel/x86_64/drivers/keyboard.c), the timer       *)
(* interrupt that wakes it, and the shell's loop that reads lines with it  *)
(* (kernel_main() of kernel/x86_64/entry.c).                               *)
(*                                                                         *)
(* Two actors share the ring buffer: interrupt handlers, which run with    *)
(* interrupts off and so are one step each, and the kernel's only thread,  *)
(* which an interrupt may stop between any two of its steps.               *)
(***************************************************************************)
EXTENDS Integers, Sequences, SequencesExt, FiniteSetsExt

CONSTANTS
  KBD_BUFFER_SIZE,
  MAX_LEN,              \* sizeof(input_buf) of kernel_main()
  Scancodes,            \* the scancodes the keyboard may send
  scancode_map,         \* scancode -> character, 0 for none
  scancode_map_shift,
  MaxKeys               \* bound: scancodes sent in a behaviour

NEWLINE == 10
BACKSPACE == 8
SHIFT_KEYS == {42, 54}
CAPS_KEY == 58
RELEASE == 128          \* the bit of a scancode that says "released"

Char == 1 .. 127

ASSUME BufferSizeAssumption == KBD_BUFFER_SIZE \in Nat \ {0}
ASSUME MaxLenAssumption == MAX_LEN \in Nat \ {0}
ASSUME MaxKeysAssumption == MaxKeys \in Nat
ASSUME MapAssumption ==
  /\ Scancodes \subseteq 0 .. 255
  /\ scancode_map \in [DOMAIN scancode_map -> Char \cup {0}]
  /\ scancode_map_shift \in [DOMAIN scancode_map -> Char \cup {0}]

(* Where keyboard_gets() begins: its loop is not entered when the buffer   *)
(* has room for the terminating zero only.                                 *)
GetsBegins == IF MAX_LEN > 1 THEN "check" ELSE "execute"

VARIABLES
  port,                 \* scancodes sent and not read from the data port
  sent,                 \* number of scancodes sent so far
  in_service,           \* interrupts accepted by the PIC without their EOI
  shift_pressed, caps_lock,
  kbd_buffer, kbd_head, kbd_tail,
  pc,                   \* where the thread is
  c,                    \* the character keyboard_getchar() has read
  buf,                  \* buf[0 .. i-1] of keyboard_gets()
  typed,                \* history: characters read since the line began
  taken, dropped        \* history: characters read, and refused by kbd_push()

ring == <<kbd_buffer, kbd_head, kbd_tail>>
modifiers == <<shift_pressed, caps_lock>>
line == <<buf, typed>>

vars == <<port, sent, in_service, modifiers, ring, pc, c, line, taken, dropped>>

Init ==
  /\ port = << >>
  /\ sent = 0
  /\ in_service = {}
  /\ shift_pressed = FALSE
  /\ caps_lock = FALSE
  /\ kbd_buffer = [k \in 0 .. (KBD_BUFFER_SIZE - 1) |-> 0]
  /\ kbd_head = 0
  /\ kbd_tail = 0
  /\ pc = GetsBegins
  /\ c = 0
  /\ buf = << >>
  /\ typed = << >>
  /\ taken = << >>
  /\ dropped = 0

-----------------------------------------------------------------------------
(* The keyboard and the interrupt controller (external)                    *)

SendScancode(sc) ==
  /\ sent < MaxKeys
  /\ port' = Append(port, sc)
  /\ sent' = sent + 1
  /\ UNCHANGED <<in_service, modifiers, ring, pc, c, line, taken, dropped>>

(* The PIC presents an interrupt unless one of the same or of a higher     *)
(* priority (a lower number) is in service.                                *)
Accepts(irq) == \A other \in in_service : irq < other

(* A non-specific end of interrupt: the interrupt of the highest priority  *)
(* leaves service.                                                         *)
piceoi(serving) == serving \ {Min(serving)}

(* An interrupt ends the thread's hlt.                                     *)
Wake == pc' = IF pc = "halted" THEN "check" ELSE pc

-----------------------------------------------------------------------------
(* Interrupt handlers                                                      *)

keyboard_has_char == kbd_head # kbd_tail

NextSlot(slot) == (slot + 1) % KBD_BUFFER_SIZE

kbd_push_stops_early(ch) ==
  IF keyboard_has_char
    THEN dropped' = dropped + 1 /\ UNCHANGED ring
    ELSE /\ kbd_buffer' = [kbd_buffer EXCEPT ![kbd_head] = ch]
         /\ kbd_head' = NextSlot(kbd_head)
         /\ UNCHANGED <<kbd_tail, dropped>>

kbd_push(ch) ==
  \/ /\ NextSlot(kbd_head) # kbd_tail
     /\ kbd_buffer' = [kbd_buffer EXCEPT ![kbd_head] = ch]
     /\ kbd_head' = NextSlot(kbd_head)
     /\ UNCHANGED <<kbd_tail, dropped>>
  \/ /\ NextSlot(kbd_head) = kbd_tail
     /\ dropped' = dropped + 1
     /\ UNCHANGED ring

(* The character a pressed key stands for, 0 when it stands for none       *)
Translate(sc) ==
  IF sc \notin DOMAIN scancode_map THEN 0
  ELSE IF shift_pressed # caps_lock THEN scancode_map_shift[sc]
  ELSE scancode_map[sc]

KeyReleased(sc) ==
  /\ sc >= RELEASE
  /\ shift_pressed' = IF sc - RELEASE \in SHIFT_KEYS THEN FALSE ELSE shift_pressed
  /\ UNCHANGED <<caps_lock, ring, dropped>>

ModifierPressed(sc) ==
  /\ sc \in SHIFT_KEYS \cup {CAPS_KEY}
  /\ shift_pressed' = IF sc = CAPS_KEY THEN shift_pressed ELSE TRUE
  /\ caps_lock' = IF sc = CAPS_KEY THEN ~caps_lock ELSE caps_lock
  /\ UNCHANGED <<ring, dropped>>

KeyPressed(sc) ==
  /\ sc < RELEASE
  /\ sc \notin SHIFT_KEYS \cup {CAPS_KEY}
  /\ IF Translate(sc) # 0 THEN kbd_push(Translate(sc)) ELSE UNCHANGED <<ring, dropped>>
  /\ UNCHANGED modifiers

keyboard_handler ==
  /\ port # << >>
  /\ Accepts(1)
  /\ \/ KeyReleased(Head(port))
     \/ ModifierPressed(Head(port))
     \/ KeyPressed(Head(port))
  /\ port' = Tail(port)
  /\ in_service' = piceoi(in_service \cup {1})
  /\ Wake
  /\ UNCHANGED <<sent, c, line, taken>>

(* The timer interrupt, 1000 times a second                                *)
pitirq_masked ==
  /\ FALSE
  /\ UNCHANGED vars

pitirq ==
  /\ Accepts(0)
  /\ in_service' = piceoi(in_service \cup {0})
  /\ Wake
  /\ UNCHANGED <<port, sent, modifiers, ring, c, line, taken, dropped>>

-----------------------------------------------------------------------------
(* The thread: kernel_main() calls keyboard_gets(), which calls            *)
(* keyboard_getchar() for every character                                  *)

(* The test of the waiting loop.  An interrupt may come between it and the *)
(* hlt that follows.                                                       *)
TestForChar ==
  /\ pc = "check"
  /\ pc' = IF keyboard_has_char THEN "read" ELSE "hlt"
  /\ UNCHANGED <<port, sent, in_service, modifiers, ring, c, line, taken, dropped>>

Halt ==
  /\ pc = "hlt"
  /\ pc' = "halted"
  /\ UNCHANGED <<port, sent, in_service, modifiers, ring, c, line, taken, dropped>>

ReadChar ==
  /\ pc = "read"
  /\ c' = kbd_buffer[kbd_tail]
  /\ pc' = "advance"
  /\ UNCHANGED <<port, sent, in_service, modifiers, ring, line, taken, dropped>>

(* What keyboard_gets() makes of a character; it returns after a newline   *)
(* or when the buffer has no room but for the terminating zero.            *)
EditLineKeepsControls(ch) ==
  /\ buf' = IF ch = BACKSPACE /\ buf # << >> THEN Front(buf)
            ELSE IF ch # NEWLINE THEN Append(buf, ch)
            ELSE buf
  /\ pc' = IF ch = NEWLINE \/ Len(buf') >= MAX_LEN - 1 THEN "execute" ELSE "check"

EditLine(ch) ==
  /\ buf' = IF ch = BACKSPACE /\ buf # << >> THEN Front(buf)
            ELSE IF ch \in 32 .. 126 THEN Append(buf, ch)
            ELSE buf
  /\ pc' = IF ch = NEWLINE \/ Len(buf') >= MAX_LEN - 1 THEN "execute" ELSE "check"

AdvanceTail ==
  /\ pc = "advance"
  /\ kbd_tail' = NextSlot(kbd_tail)
  /\ taken' = Append(taken, c)
  /\ typed' = Append(typed, c)
  /\ EditLine(c)
  /\ UNCHANGED <<port, sent, in_service, modifiers, kbd_buffer, kbd_head, c, dropped>>

(* execute_command() returns, and kernel_main() reads the next line.       *)
NextCommand ==
  /\ pc = "execute"
  /\ buf' = << >>
  /\ typed' = << >>
  /\ pc' = GetsBegins
  /\ UNCHANGED <<port, sent, in_service, modifiers, ring, c, taken, dropped>>

thread == TestForChar \/ Halt \/ ReadChar \/ AdvanceTail \/ NextCommand

-----------------------------------------------------------------------------
Next ==
  \/ \E sc \in Scancodes : SendScancode(sc)
  \/ keyboard_handler
  \/ pitirq
  \/ thread

Spec == Init /\ [][Next]_vars

(* The thread runs whenever no handler does, the timer never stops, and an *)
(* interrupt that stays pending is delivered.                              *)
Fairness == WF_vars(thread) /\ WF_vars(keyboard_handler) /\ WF_vars(pitirq)

FairSpec == Spec /\ Fairness

-----------------------------------------------------------------------------
(* Properties                                                              *)

(* The characters waiting in the ring, oldest first                        *)
Waiting ==
  LET n == IF kbd_head >= kbd_tail THEN kbd_head - kbd_tail
           ELSE kbd_head + KBD_BUFFER_SIZE - kbd_tail
      Slot(k) == IF kbd_tail + k - 1 < KBD_BUFFER_SIZE THEN kbd_tail + k - 1
                 ELSE kbd_tail + k - 1 - KBD_BUFFER_SIZE
  IN  [k \in 1 .. n |-> kbd_buffer[Slot(k)]]

(* Every variable has its type: the indexes stay inside the ring, and the  *)
(* line and its terminating zero inside the shell's buffer.                *)
TypeOK ==
  /\ port \in Seq(Scancodes)
  /\ sent \in 0 .. MaxKeys
  /\ in_service \subseteq {0, 1}
  /\ shift_pressed \in BOOLEAN
  /\ caps_lock \in BOOLEAN
  /\ kbd_buffer \in [0 .. (KBD_BUFFER_SIZE - 1) -> Char \cup {0}]
  /\ kbd_head \in 0 .. (KBD_BUFFER_SIZE - 1)
  /\ kbd_tail \in 0 .. (KBD_BUFFER_SIZE - 1)
  /\ pc \in {"check", "hlt", "halted", "read", "advance", "execute"}
  /\ c \in Char \cup {0}
  /\ buf \in Seq(Char)
  /\ Len(buf) <= MAX_LEN - 1
  /\ typed \in Seq(Char)
  /\ taken \in Seq(Char)
  /\ dropped \in Nat

(* The ring is a first-in first-out queue that uses all its slots but one: *)
(* whatever the interleaving, no accepted character is lost, duplicated or *)
(* reordered, and kbd_push() drops one only when the ring is full.         *)
Abstract == INSTANCE KeyQueue WITH
  Capacity <- KBD_BUFFER_SIZE - 1,
  queue <- Waiting

ImplementsKeyQueue == Abstract!Spec

(* How many of the characters typed from one place to another are          *)
(* printable, and how many erase one                                       *)
Printable(ch) == ch \in 32 .. 126

Printables(from, to) == Cardinality({k \in from .. to : Printable(typed[k])})

Backspaces(from, to) == Cardinality({k \in from .. to : typed[k] = BACKSPACE})

(* typed[j] is in the line unless a backspace after it, counting the other *)
(* printable characters in between, reaches it.                            *)
Survives(j) ==
  /\ Printable(typed[j])
  /\ \A k \in (j + 1) .. Len(typed) : Backspaces(j + 1, k) <= Printables(j + 1, k)

Kept == {j \in 1 .. Len(typed) : Survives(j)}

KeptUpTo(j) == {i \in Kept : i <= j}

(* At every moment the line buffer holds exactly the characters typed for  *)
(* this line that no backspace has erased, in the order they were typed,   *)
(* and keyboard_gets() returns on a newline or on a full buffer only.  All *)
(* variables keep their types.                                             *)
LineIsWhatWasTyped ==
  /\ TypeOK
  /\ Len(buf) = Cardinality(Kept)
  /\ \A j \in Kept : buf[Cardinality(KeptUpTo(j))] = typed[j]
  /\ pc = "execute" => \/ Len(buf) = MAX_LEN - 1
                       \/ typed # << >> /\ Last(typed) = NEWLINE

(* Every character the driver accepted is read in the end, although the    *)
(* handler may run between the test for a character and the hlt, and every *)
(* scancode is taken from the port: each handler ends its interrupt.       *)
EveryCharIsRead ==
  \A n \in 0 .. MaxKeys :
    (Len(taken) + Len(Waiting) >= n) ~> (Len(taken) >= n /\ port = << >>)

=============================================================================
