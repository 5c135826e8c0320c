-------------------------------- MODULE Irq ---------------------------------
(***************************************************************************)
(* Hardware interrupts: the set up of the two interrupt controllers and of *)
(* the gates (kernel/idt.c, kernel/irq.c), the dispatch of an interrupt to *)
(* its handler and its acknowledgement, and the keyboard driver, the only  *)
(* one that uses them, in the order kmain calls them.                      *)
(*                                                                         *)
(* The controllers, the processor's interrupt flag and the keyboard are    *)
(* hardware: a controller takes the writes it is given as initialisation   *)
(* words or as a mask, depending on what it expects, latches rising edges, *)
(* and interrupts for its first unmasked line that is before every line in *)
(* service.  The slave is behind line 2 of the master.  The keyboard's     *)
(* line is high while a byte waits at port 0x60.                           *)
(***************************************************************************)
EXTENDS Integers, Sequences, FiniteSetsExt

CONSTANTS
    Raised,     \* lines (0 .. 15) of devices other than the keyboard
    MaxKeys     \* bound: bytes the keyboard sends

VARIABLES
    pic,        \* the controllers: what the next data write is, base, imr, irr, isr
    interrupt_flag,
    gates,      \* vectors of idt_table that are present, with the number pushed there
    irq_handlers,
    at,         \* where kmain is: "pic", "sti", "gates", "register", "unmask", "running"
    step,       \* writes or gates done there
    cpu,        \* "main", the part of an interrupt that comes next, "reset" or "wild"
    irq_number, \* the interrupt being dispatched
    queue,      \* bytes waiting at the keyboard
    sent,       \* bytes it has sent
    stuck       \* the line was high when its edge was forgotten (bookkeeping)

vars == <<pic, interrupt_flag, gates, irq_handlers, at, step, cpu, irq_number, queue, sent, stuck>>

ASSUME LinesAssumption == Raised \subseteq (0 .. 15) \ {1, 2} /\ MaxKeys \in Nat

NULL == "null"
KEYBOARD == 1
CASCADE == 2
Lines == 0 .. 7
Master == 1
Slave == 2

-----------------------------------------------------------------------------
(* The controllers. *)

Weight == <<1, 2, 4, 8, 16, 32, 64, 128>>
Bits(value) == {l \in Lines : (value \div Weight[l + 1]) % 2 = 1}

mutant_no_mask ==
    << <<Master, "ctrl", 17>>, <<Slave, "ctrl", 17>>,
       <<Master, "data", 32>>, <<Slave, "data", 40>>,
       <<Master, "data", 4>>,  <<Slave, "data", 2>>,
       <<Master, "data", 0>>,  <<Slave, "data", 0>>,
       <<Master, "data", 1>>,  <<Slave, "data", 1>> >>

\* initialize_pic.  The words of the third pair are the third the controllers
\* expect, so what is meant as ICW3 arrives as ICW4, and what is meant as
\* ICW4 as a mask.
PicWrites ==
    << <<Master, "ctrl", 17>>, <<Slave, "ctrl", 17>>,
       <<Master, "data", 32>>, <<Slave, "data", 40>>,
       <<Master, "data", 4>>,  <<Slave, "data", 2>>,
       <<Master, "data", 0>>,  <<Slave, "data", 0>>,
       <<Master, "data", 1>>,  <<Slave, "data", 1>>,
       <<Master, "data", 255>>, <<Slave, "data", 255>> >>

\* Initialisation forgets edges, masks and what is in service.
ICW1(c) == [c EXCEPT !.expect = "ICW2", !.imr = {}, !.irr = {}, !.isr = {}]

DataWrite(c, value) ==
    CASE c.expect = "ICW2" -> [c EXCEPT !.base = value, !.expect = "ICW3"]
      [] c.expect = "ICW3" -> [c EXCEPT !.expect = "ICW4"]
      [] c.expect = "ICW4" -> [c EXCEPT !.expect = "mask"]
      [] c.expect = "mask" -> [c EXCEPT !.imr = Bits(value)]

\* An acknowledgement (0x20 at the command port) ends the first line in service.
EOI(c) == IF c.isr = {} THEN c ELSE [c EXCEPT !.isr = @ \ {Min(@)}]

\* The lines for which a controller interrupts.
Asking(c, irr) ==
    {l \in irr \ c.imr : /\ \A m \in c.isr : l < m
                         /\ \A m \in irr \ c.imr : l <= m}

MasterIrr ==
    pic[Master].irr \cup (IF Asking(pic[Slave], pic[Slave].irr) # {} THEN {CASCADE} ELSE {})

Latch(line) ==
    IF line < 8 THEN [pic EXCEPT ![Master].irr = @ \cup {line}]
    ELSE [pic EXCEPT ![Slave].irr = @ \cup {line - 8}]

\* A device raises its line.
Raise(line) ==
    /\ pic' = Latch(line)
    /\ UNCHANGED <<interrupt_flag, gates, irq_handlers, at, step, cpu, irq_number, queue, sent, stuck>>

\* A key is pressed or released: the line rises if no byte was waiting.
Key ==
    /\ sent < MaxKeys
    /\ sent' = sent + 1 /\ queue' = queue + 1
    /\ pic' = IF queue = 0 THEN Latch(KEYBOARD) ELSE pic
    /\ UNCHANGED <<interrupt_flag, gates, irq_handlers, at, step, cpu, irq_number, stuck>>

\* The processor takes an interrupt.  A vector without a gate is a fault, for
\* which there is no gate either: the machine resets.
Deliver ==
    /\ interrupt_flag /\ cpu = "main"
    /\ \E l \in Asking(pic[Master], MasterIrr) :
         LET s == Min(Asking(pic[Slave], pic[Slave].irr))
             vector == IF l = CASCADE THEN pic[Slave].base + s ELSE pic[Master].base + l
         IN  /\ pic' = [c \in {Master, Slave} |->
                  IF c = Master
                  THEN [pic[c] EXCEPT !.irr = @ \ {l}, !.isr = @ \cup {l}]
                  ELSE IF l = CASCADE
                  THEN [pic[c] EXCEPT !.irr = @ \ {s}, !.isr = @ \cup {s}]
                  ELSE pic[c]]
             /\ IF vector \in DOMAIN gates
                THEN cpu' = "dispatch" /\ irq_number' = gates[vector]
                ELSE cpu' = "reset" /\ UNCHANGED irq_number
    /\ interrupt_flag' = FALSE
    /\ UNCHANGED <<gates, irq_handlers, at, step, queue, sent, stuck>>

-----------------------------------------------------------------------------
(* kmain: idt_init, irq_init, keyboard_init. *)

initialize_pic ==
    /\ at = "pic" /\ cpu = "main"
    /\ LET w == PicWrites[step + 1] IN
         /\ pic' = [pic EXCEPT ![w[1]] = IF w[2] = "ctrl" THEN ICW1(@) ELSE DataWrite(@, w[3])]
         /\ stuck' = (stuck \/ (w[1] = Master /\ w[2] = "ctrl" /\ queue > 0))
    /\ IF step + 1 = Len(PicWrites) THEN at' = "sti" /\ step' = 0
       ELSE step' = step + 1 /\ UNCHANGED at
    /\ UNCHANGED <<interrupt_flag, gates, irq_handlers, cpu, irq_number, queue, sent>>

\* Interrupts are enabled before there are gates or handlers.
sti ==
    /\ at = "sti" /\ cpu = "main"
    /\ interrupt_flag' = TRUE
    /\ at' = "gates"
    /\ UNCHANGED <<pic, gates, irq_handlers, step, cpu, irq_number, queue, sent, stuck>>

\* The slave's gates are where the BIOS has them, not where its vectors are.
Vector(irq) == IF irq < 8 THEN 32 + irq ELSE 112 + (irq - 8)

load_idt_entry(vector, irq) ==
    gates' = [v \in DOMAIN gates \cup {vector} |-> IF v = vector THEN irq ELSE gates[v]]

irq_init ==
    /\ at = "gates" /\ cpu = "main"
    /\ load_idt_entry(Vector(step), step)
    /\ IF step = 15 THEN at' = "register" /\ step' = 0
       ELSE step' = step + 1 /\ UNCHANGED at
    /\ UNCHANGED <<pic, interrupt_flag, irq_handlers, cpu, irq_number, queue, sent, stuck>>

register_irq(handler, index) == irq_handlers' = [irq_handlers EXCEPT ![index] = handler]

unregister_irq(index) == irq_handlers' = [irq_handlers EXCEPT ![index] = NULL]

\* Two steps: the handler is registered, then line 1 and no other is unmasked.
keyboard_init ==
    /\ at \in {"register", "unmask"} /\ cpu = "main"
    /\ IF at = "register"
       THEN /\ register_irq("keyboard_irq", KEYBOARD)
            /\ at' = "unmask" /\ UNCHANGED pic
       ELSE /\ pic' = [pic EXCEPT ![Master] = DataWrite(@, 253)]
            /\ at' = "running" /\ UNCHANGED irq_handlers
    /\ UNCHANGED <<interrupt_flag, gates, step, cpu, irq_number, queue, sent, stuck>>

\* Other drivers take and give back lines of their own; nothing in the
\* interface unmasks them.
Driver ==
    /\ at = "running" /\ cpu = "main"
    /\ \E l \in Raised : register_irq("driver", l) \/ unregister_irq(l)
    /\ UNCHANGED <<pic, interrupt_flag, gates, at, step, cpu, irq_number, queue, sent, stuck>>

-----------------------------------------------------------------------------
(* The interrupt entry: default_irq_handler, with interrupts off. *)

\* keyboard_irq: a byte is read if one waits; the line falls, and rises again
\* if there is another.  The handler returns to what comes next, unless the
\* byte was the backspace key's: vga_putc then calls through a pointer past
\* special_characters_handlers, and nothing is known of what runs.
keyboard_irq_read(next) ==
    /\ queue' = IF queue > 0 THEN queue - 1 ELSE queue
    /\ pic' = IF queue > 1 THEN Latch(KEYBOARD) ELSE pic
    /\ cpu' = next \/ (queue > 0 /\ cpu' = "wild")

mutant_no_ack ==
    /\ cpu = "dispatch"
    /\ IF irq_handlers[irq_number] = "keyboard_irq" THEN keyboard_irq_read("main")
       ELSE cpu' = "main" /\ UNCHANGED <<pic, queue>>
    /\ interrupt_flag' = TRUE
    /\ UNCHANGED <<gates, irq_handlers, at, step, irq_number, sent, stuck>>

default_irq_handler ==
    /\ cpu = "dispatch"
    /\ IF irq_handlers[irq_number] = "keyboard_irq" THEN keyboard_irq_read("ack")
       ELSE cpu' = "ack" /\ UNCHANGED <<pic, queue>>
    /\ UNCHANGED <<interrupt_flag, gates, irq_handlers, at, step, irq_number, sent, stuck>>

mutant_ack_slave(irq) == [pic EXCEPT ![IF irq >= 1 THEN Slave ELSE Master] = EOI(@)]

\* Interrupts of the slave are acknowledged there and not at the master.
irq_ack(irq) == [pic EXCEPT ![IF irq >= 8 THEN Slave ELSE Master] = EOI(@)]

\* The acknowledgement and the return to the interrupted code.
acknowledge ==
    /\ cpu = "ack"
    /\ pic' = irq_ack(irq_number)
    /\ cpu' = "main" /\ interrupt_flag' = TRUE
    /\ UNCHANGED <<gates, irq_handlers, at, step, irq_number, queue, sent, stuck>>

-----------------------------------------------------------------------------
\* As the BIOS and GRUB leave it.
Bios(base) == [expect |-> "mask", base |-> base, imr |-> {}, irr |-> {}, isr |-> {}]

Init ==
    /\ pic = <<Bios(8), Bios(112)>>
    /\ interrupt_flag = FALSE
    /\ gates = <<>>
    /\ irq_handlers = [i \in 0 .. 15 |-> NULL]
    /\ at = "pic" /\ step = 0
    /\ cpu = "main" /\ irq_number = 0
    /\ queue = 0 /\ sent = 0 /\ stuck = FALSE

Boot == initialize_pic \/ sti \/ irq_init \/ keyboard_init
Handle == default_irq_handler \/ acknowledge

Next == Boot \/ Driver \/ Deliver \/ Handle \/ Key \/ \E l \in Raised : Raise(l)

Spec == Init /\ [][Next]_vars /\ WF_vars(Boot) /\ WF_vars(Deliver) /\ WF_vars(Handle)

-----------------------------------------------------------------------------
\* Whenever a key strikes or a device raises its line, while the controllers
\* are set up, between sti and the gates, or later: an interrupt that is
\* taken has a gate and a handler.
TakenIsPrepared ==
    /\ cpu # "reset"
    /\ cpu = "dispatch" => irq_handlers[irq_number] # NULL

\* When the interrupted code runs on, both controllers have been told: no
\* line stays in service and keeps those behind it from interrupting.
ServiceEnds == cpu = "main" /\ interrupt_flag => pic[Master].isr = {} /\ pic[Slave].isr = {}

\* Every byte the keyboard sends is read, unless one already waited when the
\* controllers forgot the edge: then no edge comes any more; or a backspace
\* was read: its handler need not return.
KeysRead == (queue > 0 /\ at = "running" /\ ~stuck) ~> (queue = 0 \/ cpu = "wild")
=============================================================================
