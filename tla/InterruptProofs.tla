-------------------------- MODULE InterruptProofs ---------------------------
(***************************************************************************)
(* Interrupts: none is taken before its gate and its handler exist, and    *)
(* every one whose handler returns is acknowledged (Irq); a key may move   *)
(* the cursor between any two accesses of the main thread, which still     *)
(* stays in the buffer (Console).                                          *)
(***************************************************************************)
EXTENDS Console, Irq, TLAPS

-----------------------------------------------------------------------------
(* Gates, handlers and controllers. *)

Controllers == {Master, Slave}

Controller == [expect : {"ICW2", "ICW3", "ICW4", "mask"}, base : Nat,
               imr : SUBSET Lines, irr : SUBSET Lines, isr : SUBSET Lines]

PicType == pic \in [Controllers -> Controller]

IType ==
    /\ PicType
    /\ interrupt_flag \in BOOLEAN
    /\ irq_handlers \in [0 .. 15 -> {NULL, "keyboard_irq", "driver"}]
    /\ at \in {"pic", "sti", "gates", "register", "unmask", "running"}
    /\ step \in 0 .. 15
    /\ cpu \in {"main", "dispatch", "ack", "wild"}

\* What initialize_pic has made of a controller when n of the six words for
\* it have been written.
SetUp(c, n, base) ==
    /\ n = 1 => c.expect = "ICW2"
    /\ n = 2 => c.expect = "ICW3"
    /\ n = 3 => c.expect = "ICW4"
    /\ n > 3 => c.expect = "mask"
    /\ n > 1 => c.base = base
    /\ n = 6 => c.imr = Lines

\* The words for the two controllers alternate, the master's come first.
\* Before interrupts are enabled every line is masked; later the keyboard's
\* is the only one that is not.
PicInv ==
    /\ at = "pic" => /\ step <= 11
                     /\ SetUp(pic[Master], (step + 1) \div 2, 32)
                     /\ SetUp(pic[Slave], step \div 2, 40)
    /\ at = "sti" => step = 0
    /\ at # "pic" =>
          /\ \A c \in Controllers : pic[c].expect = "mask"
          /\ pic[Master].base = 32 /\ pic[Slave].imr = Lines
          /\ pic[Master].imr = IF at = "running" THEN Lines \ {KEYBOARD} ELSE Lines

\* The keyboard has its gate and its handler before its line is unmasked.
Prepared ==
    /\ (at = "gates" /\ step > KEYBOARD) \/ at \in {"register", "unmask", "running"} =>
          32 + KEYBOARD \in DOMAIN gates /\ gates[32 + KEYBOARD] = KEYBOARD
    /\ at \in {"unmask", "running"} => irq_handlers[KEYBOARD] = "keyboard_irq"

\* Only the keyboard's line is ever in service, and only while its interrupt
\* is handled, with interrupts off.
Service ==
    /\ at \in {"pic", "sti"} => ~interrupt_flag /\ cpu = "main"
    /\ pic[Slave].isr = {}
    /\ cpu = "main" => pic[Master].isr = {}
    /\ cpu # "main" => /\ pic[Master].isr = {KEYBOARD}
                       /\ irq_number = KEYBOARD /\ at = "running" /\ ~interrupt_flag

IInv == IType /\ PicInv /\ Prepared /\ Service

-----------------------------------------------------------------------------
(* The controllers. *)

\* The masks the code writes: all lines, and all but the keyboard's.
LEMMA Masks ==
    /\ Bits(255) = Lines
    /\ Bits(253) = Lines \ {KEYBOARD}
    /\ \A value : Bits(value) \subseteq Lines
<1>1. \A l \in Lines : (255 \div Weight[l + 1]) % 2 = 1
  BY DEF Lines, Weight
<1>2. \A l \in Lines : (253 \div Weight[l + 1]) % 2 = 1 <=> l # KEYBOARD
  BY DEF Lines, Weight, KEYBOARD
<1> QED
  BY <1>1, <1>2 DEF Bits

\* A data write leaves what is pending and in service alone.
LEMMA DataWriteFrame ==
    ASSUME NEW value \in Nat, NEW c \in Controller
    PROVE  LET d == DataWrite(c, value) IN
           /\ d \in Controller
           /\ d.isr = c.isr /\ d.irr = c.irr
           /\ c.expect = "ICW2" => d.expect = "ICW3" /\ d.base = value
           /\ c.expect = "ICW3" => d.expect = "ICW4" /\ d.base = c.base
           /\ c.expect = "ICW4" => d.expect = "mask" /\ d.base = c.base
           /\ c.expect = "mask" => /\ d.expect = "mask" /\ d.base = c.base
                                   /\ d.imr = Bits(value)
<1>1. CASE c.expect = "ICW2"
  BY <1>1 DEF DataWrite, Controller
<1>2. CASE c.expect = "ICW3"
  BY <1>2 DEF DataWrite, Controller
<1>3. CASE c.expect = "ICW4"
  BY <1>3 DEF DataWrite, Controller
<1>4. CASE c.expect = "mask"
  BY <1>4, Masks DEF DataWrite, Controller
<1> QED
  BY <1>1, <1>2, <1>3, <1>4 DEF Controller

\* A line that rises is latched, and nothing else changes.
LEMMA LatchFrame ==
    ASSUME PicType, NEW line \in 0 .. 15
    PROVE  /\ Latch(line) \in [Controllers -> Controller]
           /\ \A c \in Controllers :
                /\ Latch(line)[c].expect = pic[c].expect /\ Latch(line)[c].base = pic[c].base
                /\ Latch(line)[c].imr = pic[c].imr /\ Latch(line)[c].isr = pic[c].isr
BY DEF PicType, Controller, Latch, Controllers, Master, Slave, Lines

-----------------------------------------------------------------------------
(* Initial states and one step per action. *)

LEMMA IrqInit == Init => IInv
<1> SUFFICES ASSUME Init PROVE IInv
  OBVIOUS
<1>1. PicType /\ pic[Master].isr = {} /\ pic[Slave].isr = {}
  BY DEF Init, Bios, PicType, Controller, Controllers, Master, Slave
<1>2. IType
  <2>1. interrupt_flag \in BOOLEAN
    BY Zenon DEF Init
  <2> QED
    BY <1>1, <2>1 DEF Init, IType, NULL
<1>3. PicInv /\ Prepared /\ Service
  BY <1>1 DEF Init, PicInv, SetUp, Prepared, Service
<1> QED
  BY <1>2, <1>3 DEF IInv

\* A line rises, of a device or of the keyboard: the controllers change by a
\* latched edge at most.
LEMMA EdgeStep ==
    ASSUME IInv, NEW line \in 0 .. 15, pic' = Latch(line) \/ pic' = pic,
           UNCHANGED <<interrupt_flag, gates, irq_handlers, at, step, cpu, irq_number>>
    PROVE  IInv'
<1>1. /\ PicType'
      /\ \A c \in Controllers :
           /\ pic'[c].expect = pic[c].expect /\ pic'[c].base = pic[c].base
           /\ pic'[c].imr = pic[c].imr /\ pic'[c].isr = pic[c].isr
  BY LatchFrame DEF IInv, IType, PicType
<1>2. Master \in Controllers /\ Slave \in Controllers
  BY DEF Controllers
<1>3. IType' /\ Prepared'
  BY <1>1 DEF IInv, IType, Prepared
<1>4. PicInv' /\ Service'
  BY <1>1, <1>2 DEF IInv, PicInv, SetUp, Service
<1> QED
  BY <1>3, <1>4 DEF IInv

LEMMA initialize_picStep ==
    ASSUME IInv, initialize_pic
    PROVE  IInv'
<1> DEFINE w == PicWrites[step + 1]
<1>1. /\ at = "pic" /\ cpu = "main" /\ step \in 0 .. 11 /\ ~interrupt_flag
      /\ pic \in [Controllers -> Controller]
      /\ SetUp(pic[Master], (step + 1) \div 2, 32)
      /\ SetUp(pic[Slave], step \div 2, 40)
      /\ pic[Master].isr = {} /\ pic[Slave].isr = {}
  BY DEF IInv, IType, PicType, PicInv, Service, initialize_pic
<1>2. /\ pic' = [pic EXCEPT ![w[1]] =
                   IF w[2] = "ctrl" THEN ICW1(@) ELSE DataWrite(@, w[3])]
      /\ IF step + 1 = 12 THEN at' = "sti" /\ step' = 0 ELSE step' = step + 1 /\ at' = at
      /\ UNCHANGED <<interrupt_flag, gates, irq_handlers, cpu, irq_number>>
  BY DEF initialize_pic, PicWrites
<1>3. /\ w[1] = IF step % 2 = 0 THEN Master ELSE Slave
      /\ w[2] = IF step < 2 THEN "ctrl" ELSE "data"
      /\ w[3] \in Nat
      /\ step \in {2, 3} => w[3] = IF step = 2 THEN 32 ELSE 40
      /\ step >= 10 => w[3] = 255
  <2>1. \/ step = 0 \/ step = 1 \/ step = 2 \/ step = 3 \/ step = 4 \/ step = 5
        \/ step = 6 \/ step = 7 \/ step = 8 \/ step = 9 \/ step = 10 \/ step = 11
    BY <1>1
  <2>2. w[1] = IF step % 2 = 0 THEN Master ELSE Slave
    BY <2>1 DEF PicWrites
  <2>3. w[2] = IF step < 2 THEN "ctrl" ELSE "data"
    BY <2>1 DEF PicWrites
  <2>4. /\ w[3] \in Nat
        /\ step \in {2, 3} => w[3] = IF step = 2 THEN 32 ELSE 40
        /\ step >= 10 => w[3] = 255
    BY <2>1 DEF PicWrites
  <2> QED
    BY <2>2, <2>3, <2>4
<1> HIDE DEF w
<1>4. w[1] \in Controllers /\ Master # Slave
  BY <1>3 DEF Controllers, Master, Slave
<1> DEFINE c == pic[w[1]]
           d == pic'[w[1]]
<1>5. /\ c \in Controller
      /\ d = IF w[2] = "ctrl" THEN ICW1(c) ELSE DataWrite(c, w[3])
      /\ \A e \in Controllers \ {w[1]} : pic'[e] = pic[e]
      /\ pic' \in [Controllers -> Controller]
  <2>1. c \in Controller
    BY <1>1, <1>4
  <2>2. ICW1(c) \in Controller /\ DataWrite(c, w[3]) \in Controller
    BY <2>1, <1>3, DataWriteFrame DEF ICW1, Controller
  <2>3. d = IF w[2] = "ctrl" THEN ICW1(c) ELSE DataWrite(c, w[3])
    BY <1>1, <1>2, <1>4
  <2> QED
    BY <1>1, <1>2, <1>4, <2>1, <2>2, <2>3
<1>6. d.isr = {}
  BY <1>1, <1>3, <1>4, <1>5, DataWriteFrame DEF ICW1, Controller, Controllers
<1> HIDE DEF c, d
<1>7. /\ step < 2 => d.expect = "ICW2"
      /\ step >= 2 => d = DataWrite(c, w[3])
  BY <1>1, <1>3, <1>5 DEF ICW1, Controller
<1>8. /\ SetUp(pic'[Master], (step + 2) \div 2, 32)
      /\ SetUp(pic'[Slave], (step + 1) \div 2, 40)
  <2>1. CASE step % 2 = 0
    <3>1. w[1] = Master /\ (step + 1) \div 2 = step \div 2 /\ (step + 2) \div 2 = step \div 2 + 1
      BY <1>1, <1>3, <2>1
    <3>2. SetUp(d, (step + 2) \div 2, 32)
      BY <1>1, <1>3, <1>5, <1>7, <2>1, <3>1, DataWriteFrame, Masks DEF SetUp, c
    <3>3. SetUp(pic'[Slave], (step + 1) \div 2, 40)
      BY <1>1, <1>4, <1>5, <3>1 DEF SetUp, Controllers
    <3> QED
      BY <3>1, <3>2, <3>3 DEF d
  <2>2. CASE step % 2 = 1
    <3>1. w[1] = Slave /\ (step + 2) \div 2 = (step + 1) \div 2 /\ (step + 1) \div 2 = step \div 2 + 1
      BY <1>1, <1>3, <2>2
    <3>2. SetUp(d, (step + 1) \div 2, 40)
      BY <1>1, <1>3, <1>5, <1>7, <2>2, <3>1, DataWriteFrame, Masks DEF SetUp, c
    <3>3. SetUp(pic'[Master], (step + 2) \div 2, 32)
      BY <1>1, <1>4, <1>5, <3>1 DEF SetUp, Controllers
    <3> QED
      BY <3>1, <3>2, <3>3 DEF d
  <2> QED
    BY <1>1, <2>1, <2>2
<1>9. pic'[Master].isr = {} /\ pic'[Slave].isr = {}
  BY <1>1, <1>4, <1>5, <1>6 DEF Controllers, d
<1>10. IType'
  BY <1>1, <1>2, <1>5 DEF IInv, IType, PicType
<1>11. PicInv'
  <2>1. CASE step < 11
    <3>1. at' = "pic" /\ step' = step + 1
      BY <1>1, <1>2, <2>1
    <3> QED
      BY <1>1, <1>8, <2>1, <3>1 DEF PicInv
  <2>2. CASE step = 11
    <3>1. at' = "sti" /\ step' = 0
      BY <1>1, <1>2, <2>2
    <3> QED
      BY <1>8, <2>2, <3>1 DEF PicInv, SetUp, Controllers
  <2> QED
    BY <1>1, <2>1, <2>2
<1>12. Prepared' /\ Service'
  BY <1>1, <1>2, <1>9 DEF Prepared, Service
<1> QED
  BY <1>10, <1>11, <1>12 DEF IInv

LEMMA stiStep ==
    ASSUME IInv, sti
    PROVE  IInv'
<1>1. IType' /\ PicInv'
  <2>1. interrupt_flag' \in BOOLEAN
    BY Zenon DEF sti
  <2> QED
    BY <2>1 DEF sti, IInv, IType, PicType, PicInv
<1>2. step' = 0 /\ ~(step' > KEYBOARD)
  BY DEF sti, IInv, PicInv, KEYBOARD
<1> QED
  BY <1>1, <1>2 DEF sti, IInv, Prepared, Service

\* The keyboard's gate is made in the second step, and no other replaces it.
LEMMA irq_initStep ==
    ASSUME IInv, irq_init
    PROVE  IInv'
<1>1. /\ at = "gates" /\ cpu = "main" /\ step \in 0 .. 15
      /\ gates' = [v \in DOMAIN gates \cup {Vector(step)} |->
                     IF v = Vector(step) THEN step ELSE gates[v]]
      /\ IF step = 15 THEN at' = "register" /\ step' = 0 ELSE step' = step + 1 /\ at' = at
      /\ UNCHANGED <<pic, interrupt_flag, irq_handlers, cpu, irq_number>>
  BY DEF irq_init, load_idt_entry, IInv, IType
<1>2. Vector(step) = 33 <=> step = 1
  BY <1>1 DEF Vector
<1>3. step >= 1 => 33 \in DOMAIN gates' /\ gates'[33] = 1
  BY <1>1, <1>2 DEF IInv, Prepared, KEYBOARD
<1>4. IType' /\ PicInv'
  BY <1>1 DEF IInv, IType, PicType, PicInv
<1>5. Prepared' /\ Service'
  BY <1>1, <1>3 DEF IInv, Prepared, Service, KEYBOARD
<1> QED
  BY <1>4, <1>5 DEF IInv

LEMMA keyboard_initStep ==
    ASSUME IInv, keyboard_init
    PROVE  IInv'
<1>1. CASE at = "register"
  BY <1>1 DEF keyboard_init, register_irq, IInv, IType, PicType, PicInv, Prepared, Service, KEYBOARD
<1>2. CASE at = "unmask"
  <2>1. /\ pic' = [pic EXCEPT ![Master] = DataWrite(@, 253)]
        /\ at' = "running" /\ cpu = "main"
        /\ UNCHANGED <<interrupt_flag, gates, irq_handlers, step, cpu, irq_number>>
    BY <1>2 DEF keyboard_init
  <2>2. pic \in [Controllers -> Controller] /\ Master \in Controllers /\ Slave \in Controllers
        /\ Master # Slave
    BY DEF IInv, IType, PicType, Controllers, Master, Slave
  <2>3. /\ DataWrite(pic[Master], 253) \in Controller
        /\ DataWrite(pic[Master], 253).expect = "mask"
        /\ DataWrite(pic[Master], 253).base = 32
        /\ DataWrite(pic[Master], 253).imr = Lines \ {KEYBOARD}
        /\ DataWrite(pic[Master], 253).isr = {}
    BY <1>2, <2>1, <2>2, DataWriteFrame, Masks DEF IInv, PicInv, Service
  <2>4. pic'[Master] = DataWrite(pic[Master], 253) /\ pic'[Slave] = pic[Slave]
    BY <2>1, <2>2
  <2>5. IType'
    BY <2>1, <2>2, <2>3 DEF IInv, IType, PicType
  <2>6. PicInv'
    BY <1>2, <2>1, <2>2, <2>3, <2>4 DEF IInv, PicInv, Controllers
  <2>7. Prepared' /\ Service'
    BY <1>2, <2>1, <2>3, <2>4 DEF IInv, Prepared, Service
  <2> QED
    BY <2>5, <2>6, <2>7 DEF IInv
<1> QED
  BY <1>1, <1>2 DEF keyboard_init

\* Other drivers leave the keyboard's handler alone: its line is not theirs.
LEMMA DriverStep ==
    ASSUME IInv, Driver
    PROVE  IInv'
<1>1. PICK l \in Raised : register_irq("driver", l) \/ unregister_irq(l)
  BY DEF Driver
<1>2. l \in 0 .. 15 /\ l # KEYBOARD
  BY LinesAssumption DEF KEYBOARD
<1>3. /\ irq_handlers' \in [0 .. 15 -> {NULL, "keyboard_irq", "driver"}]
      /\ irq_handlers'[KEYBOARD] = irq_handlers[KEYBOARD]
  BY <1>1, <1>2 DEF register_irq, unregister_irq, IInv, IType, KEYBOARD
<1> QED
  BY <1>3 DEF Driver, IInv, IType, PicType, PicInv, Prepared, Service

\* The slave is masked, so the only line an interrupt is taken for is the
\* keyboard's, and only after the last step of its set up.
LEMMA DeliverStep ==
    ASSUME IInv, Deliver
    PROVE  IInv'
<1>1. Asking(pic[Slave], pic[Slave].irr) = {} /\ MasterIrr = pic[Master].irr
  <2>1. pic[Slave].imr = Lines /\ pic[Slave].irr \subseteq Lines
    BY DEF IInv, IType, PicType, PicInv, Service, Deliver, Controller, Controllers
  <2> QED
    BY <2>1 DEF Asking, MasterIrr
<1>2. PICK l \in Asking(pic[Master], MasterIrr) :
         LET s == Min(Asking(pic[Slave], pic[Slave].irr))
             vector == IF l = CASCADE THEN pic[Slave].base + s ELSE pic[Master].base + l
         IN  /\ pic' = [c \in {Master, Slave} |->
                  IF c = Master
                  THEN [pic[c] EXCEPT !.irr = @ \ {l}, !.isr = @ \cup {l}]
                  ELSE IF l = CASCADE
                  THEN [pic[c] EXCEPT !.irr = @ \ {s}, !.isr = @ \cup {s}]
                  ELSE pic[c]]
             /\ IF vector \in DOMAIN gates
                THEN cpu' = "dispatch" /\ irq_number' = gates[vector]
                ELSE cpu' = "reset" /\ UNCHANGED irq_number
  BY DEF Deliver
<1>3. /\ interrupt_flag /\ cpu = "main" /\ interrupt_flag' = FALSE
      /\ UNCHANGED <<gates, irq_handlers, at, step>>
  BY DEF Deliver
<1>4. /\ pic \in [Controllers -> Controller] /\ Master \in Controllers /\ Slave \in Controllers
      /\ pic[Master] \in Controller
      /\ Master # Slave /\ Controllers = {Master, Slave} /\ at \notin {"pic", "sti"}
      /\ pic[Master].isr = {} /\ pic[Master].irr \subseteq Lines
  BY <1>3 DEF IInv, IType, PicType, Service, Controllers, Controller, Master, Slave
<1>5. at = "running" /\ l = KEYBOARD /\ l # CASCADE /\ l \in Lines
  <2>1. l \in Lines \ pic[Master].imr
    BY <1>1, <1>2, <1>4 DEF Asking
  <2> QED
    BY <1>4, <2>1 DEF IInv, PicInv, KEYBOARD, CASCADE
<1>6. 32 + KEYBOARD \in DOMAIN gates /\ gates[32 + KEYBOARD] = KEYBOARD /\ pic[Master].base = 32
  BY <1>5 DEF IInv, Prepared, PicInv
<1>7. cpu' = "dispatch" /\ irq_number' = KEYBOARD
  BY <1>2, <1>5, <1>6
<1>8. pic'[Master] = [pic[Master] EXCEPT !.irr = @ \ {l}, !.isr = @ \cup {l}]
      /\ pic'[Slave] = pic[Slave] /\ pic' = [c \in Controllers |-> pic'[c]]
  BY <1>2, <1>4, <1>5
<1>9. /\ pic'[Master] \in Controller /\ pic'[Master].isr = {KEYBOARD}
      /\ pic'[Master].expect = pic[Master].expect /\ pic'[Master].base = pic[Master].base
      /\ pic'[Master].imr = pic[Master].imr
  <2>1. /\ pic[Master].irr \ {l} \in SUBSET Lines /\ {l} \in SUBSET Lines
        /\ pic[Master].isr \cup {l} = {l}
    BY <1>4, <1>5
  <2>2. pic'[Master] = [pic[Master] EXCEPT !.irr = pic[Master].irr \ {l}, !.isr = {l}]
    BY <1>8, <2>1
  <2> QED
    BY <1>4, <1>5, <2>1, <2>2 DEF Controller
<1>10. PicType'
  BY <1>4, <1>8, <1>9 DEF PicType
<1>11. IType'
  <2>1. interrupt_flag' \in BOOLEAN
    BY <1>3, Zenon
  <2> QED
    BY <1>3, <1>7, <1>10, <2>1 DEF IInv, IType
<1>12. PicInv' /\ Prepared' /\ Service'
  BY <1>3, <1>4, <1>5, <1>7, <1>8, <1>9 DEF IInv, PicInv, Prepared, Service
<1> QED
  BY <1>11, <1>12 DEF IInv

\* Reading the byte latches the edge of the next one at most.
LEMMA default_irq_handlerStep ==
    ASSUME IInv, default_irq_handler
    PROVE  IInv'
<1>1. cpu = "dispatch" /\ cpu' \in {"ack", "wild"}
      /\ UNCHANGED <<interrupt_flag, gates, irq_handlers, at, step, irq_number>>
      /\ (pic' = Latch(KEYBOARD) \/ pic' = pic)
  BY DEF default_irq_handler, keyboard_irq_read
<1>2. /\ PicType'
      /\ \A c \in Controllers :
           /\ pic'[c].expect = pic[c].expect /\ pic'[c].base = pic[c].base
           /\ pic'[c].imr = pic[c].imr /\ pic'[c].isr = pic[c].isr
  <2>1. KEYBOARD \in 0 .. 15
    BY DEF KEYBOARD
  <2> QED
    BY <1>1, <2>1, LatchFrame DEF IInv, IType, PicType
<1>3. IType' /\ Prepared'
  BY <1>1, <1>2 DEF IInv, IType, Prepared
<1>4. PicInv' /\ Service'
  BY <1>1, <1>2 DEF IInv, PicInv, Service, Controllers
<1> QED
  BY <1>3, <1>4 DEF IInv

LEMMA acknowledgeStep ==
    ASSUME IInv, acknowledge
    PROVE  IInv'
<1>1. /\ cpu = "ack" /\ cpu' = "main" /\ interrupt_flag' = TRUE
      /\ irq_number = 1 /\ at = "running"
      /\ pic' = [pic EXCEPT ![Master] = EOI(@)]
      /\ UNCHANGED <<gates, irq_handlers, at, step, irq_number>>
  BY DEF acknowledge, irq_ack, IInv, Service, KEYBOARD
<1>2. /\ pic \in [Controllers -> Controller] /\ Master \in Controllers /\ Slave \in Controllers
      /\ pic[Master] \in Controller /\ Master # Slave
      /\ pic[Master].isr = {KEYBOARD}
  BY <1>1 DEF IInv, IType, PicType, Service, Controllers, Master, Slave
<1>3. Min({KEYBOARD}) = KEYBOARD
  BY DEF Min, KEYBOARD
<1>4. EOI(pic[Master]) = [pic[Master] EXCEPT !.isr = {}]
  BY <1>2, <1>3 DEF EOI
<1>5. pic'[Master] = [pic[Master] EXCEPT !.isr = {}] /\ pic'[Slave] = pic[Slave]
  BY <1>1, <1>2, <1>4
<1>6. /\ pic'[Master] \in Controller /\ pic'[Master].isr = {}
      /\ pic'[Master].expect = pic[Master].expect /\ pic'[Master].base = pic[Master].base
      /\ pic'[Master].imr = pic[Master].imr
  BY <1>2, <1>5 DEF Controller
<1>7. IType'
  <2>1. interrupt_flag' \in BOOLEAN
    BY <1>1, Zenon
  <2>2. PicType'
    BY <1>1, <1>2, <1>5, <1>6 DEF PicType
  <2> QED
    BY <1>1, <2>1, <2>2 DEF IInv, IType
<1>8. PicInv' /\ Prepared' /\ Service'
  BY <1>1, <1>2, <1>5, <1>6 DEF IInv, PicInv, Prepared, Service, Controllers
<1> QED
  BY <1>7, <1>8 DEF IInv

LEMMA IrqNext == IInv /\ [Next]_vars => IInv'
<1> SUFFICES ASSUME IInv, [Next]_vars PROVE IInv'
  OBVIOUS
<1>1. CASE Boot
  BY <1>1, initialize_picStep, stiStep, irq_initStep, keyboard_initStep DEF Boot
<1>2. CASE Driver
  BY <1>2, DriverStep
<1>3. CASE Deliver
  BY <1>3, DeliverStep
<1>4. CASE Handle
  BY <1>4, default_irq_handlerStep, acknowledgeStep DEF Handle
<1>5. CASE Key
  <2>1. KEYBOARD \in 0 .. 15 /\ (pic' = Latch(KEYBOARD) \/ pic' = pic)
        /\ UNCHANGED <<interrupt_flag, gates, irq_handlers, at, step, cpu, irq_number>>
    BY <1>5 DEF Key, KEYBOARD
  <2> QED
    BY <2>1, EdgeStep
<1>6. ASSUME NEW l \in Raised, Raise(l)
      PROVE  IInv'
  <2>1. l \in 0 .. 15 /\ pic' = Latch(l)
        /\ UNCHANGED <<interrupt_flag, gates, irq_handlers, at, step, cpu, irq_number>>
    BY <1>6, LinesAssumption DEF Raise
  <2> QED
    BY <2>1, EdgeStep
<1>7. CASE UNCHANGED vars
  <2>1. 0 \in 0 .. 15 /\ pic' = pic
        /\ UNCHANGED <<interrupt_flag, gates, irq_handlers, at, step, cpu, irq_number>>
    BY <1>7 DEF vars
  <2> QED
    BY <2>1, EdgeStep
<1> QED
  BY <1>1, <1>2, <1>3, <1>4, <1>5, <1>6, <1>7 DEF Next

LEMMA IrqAlways == Spec => []IInv
BY IrqInit, IrqNext, PTL DEF Spec

-----------------------------------------------------------------------------
\* Whatever lines devices raise and whenever keys strike, in the set up or
\* after it, default_irq_handler is entered only for a vector with a gate, and
\* finds a handler for the number pushed there.
THEOREM TakenSafe == Spec => []TakenIsPrepared
<1>1. IInv => TakenIsPrepared
  BY DEF IInv, IType, Prepared, Service, TakenIsPrepared, NULL, KEYBOARD
<1> QED
  BY <1>1, IrqAlways, PTL

\* irq_ack ends what was begun: no controller keeps a line in service while
\* the interrupted code runs with interrupts enabled.
THEOREM ServiceSafe == Spec => []ServiceEnds
<1>1. IInv => ServiceEnds
  BY DEF IInv, Service, ServiceEnds
<1> QED
  BY <1>1, IrqAlways, PTL

-----------------------------------------------------------------------------
(* The cursor. *)

PageTop == {"test_y", "flush_x", "flush_load", "flush_y", "home_x"}
RowEnd == {"test_x", "line_load", "store_y", "home_x"}

\* Where x and y are still to be tested they may be past their limits, by a
\* tab and by one row; everywhere else they are not.
CursorBound ==
    /\ x <= SCREEN_COLS + TAB /\ y <= SCREEN_ROWS + 1
    /\ pc \notin RowEnd => x <= SCREEN_COLS
    /\ pc \notin PageTop => y <= SCREEN_ROWS
    /\ pc = "flush_load" => x <= TAB * burst

\* What the registers hold while it matters, and the cell written last.
RegisterBound ==
    /\ pc \in {"cell_x", "write", "flush_y"} => ry <= SCREEN_ROWS
    /\ pc = "write" => rx <= SCREEN_COLS
    /\ pc = "store_x" => rx <= SCREEN_COLS + TAB
    /\ pc = "store_y" => ry <= SCREEN_ROWS + 1
    /\ cell.x <= SCREEN_COLS + TAB /\ cell.y <= SCREEN_ROWS + 1

CInv == CTypeOK /\ CursorBound /\ RegisterBound

-----------------------------------------------------------------------------
\* A key leaves the cursor within the columns, moves it by at most a tab,
\* and leaves the row alone or within the rows.
LEMMA EchoBound ==
    ASSUME NEW px \in Nat, NEW py \in Nat, NEW key \in Chars
    PROVE  LET after == vga_putc(key, At(px, py)) IN
           /\ after.x \in Nat /\ after.y \in Nat
           /\ after.x <= SCREEN_COLS
           /\ after.x <= px + TAB
           /\ after.y = py \/ after.y <= SCREEN_ROWS
<1>1. \A c \in [x : Nat, y : Nat] :
         /\ newline_handler(c) \in [x : Nat, y : Nat]
         /\ newline_handler(c).x = 0
         /\ newline_handler(c).y <= SCREEN_ROWS
  BY ScreenAssumption DEF newline_handler, At
<1>2. \A c \in [x : Nat, y : Nat] :
         /\ limited(c) \in [x : Nat, y : Nat]
         /\ limited(c).x <= SCREEN_COLS
         /\ limited(c).x <= c.x
         /\ limited(c).y = c.y \/ limited(c).y <= SCREEN_ROWS
  BY <1>1, ScreenAssumption DEF limited
<1>3. /\ At(px, py) \in [x : Nat, y : Nat]
      /\ At(px + 1, py) \in [x : Nat, y : Nat]
      /\ At(px + TAB, py) \in [x : Nat, y : Nat]
      /\ At(px, py).x = px /\ At(px, py).y = py
      /\ At(px + 1, py).x = px + 1 /\ At(px + 1, py).y = py
      /\ At(px + TAB, py).x = px + TAB /\ At(px + TAB, py).y = py
  BY DEF At, TAB
<1>4. CASE key = "newline"
  BY <1>1, <1>3, <1>4, ScreenAssumption DEF vga_putc, TAB
<1>5. CASE key = "tab"
  <2>1. vga_putc(key, At(px, py)) = limited(At(px + TAB, py))
    BY <1>3, <1>5 DEF vga_putc, tab_handler
  <2> QED BY <1>2, <1>3, <2>1 DEF TAB
<1>6. CASE key \notin {"newline", "tab"}
  <2>1. vga_putc(key, At(px, py)) = limited(At(px + 1, py))
    BY <1>3, <1>6 DEF vga_putc, default_handler
  <2>2. limited(At(px + 1, py)).x <= px + 1
    BY <1>2, <1>3
  <2> QED BY <1>2, <1>3, <2>1, <2>2 DEF TAB
<1> QED BY <1>4, <1>5, <1>6

-----------------------------------------------------------------------------
LEMMA CursorInit == CInit => CInv
<1> SUFFICES ASSUME CInit PROVE CInv
  OBVIOUS
<1>1. cell \in [x : Nat, y : Nat] /\ cell.x = 0 /\ cell.y = 0
  BY DEF CInit, At
<1>2. CTypeOK
  <2>1. wild \in BOOLEAN
    BY Zenon DEF CInit
  <2> QED BY <1>1, <2>1, ScreenAssumption DEF CInit, CTypeOK
<1>3. CursorBound
  BY ScreenAssumption DEF CInit, CursorBound, TAB
<1>4. RegisterBound
  BY <1>1, ScreenAssumption DEF CInit, RegisterBound, TAB
<1> QED BY <1>2, <1>3, <1>4 DEF CInv

\* An interrupt, wherever it strikes, preserves the invariant.
LEMMA IrqStep ==
    ASSUME CInv, NEW key \in Keys, keyboard_irq(key)
    PROVE  CInv'
<1>1. key \in Chars
  BY ScreenAssumption
<1>2. CASE key = "backspace"
  BY <1>2, ScreenAssumption
  DEF CInv, CTypeOK, CursorBound, RegisterBound, keyboard_irq, TAB, RowEnd, PageTop
<1>3. CASE key # "backspace"
  <2> DEFINE after == vga_putc(key, At(x, y))
  <2>1. /\ after.x \in Nat /\ after.y \in Nat
        /\ after.x <= SCREEN_COLS /\ after.x <= x + TAB
        /\ after.y = y \/ after.y <= SCREEN_ROWS
    BY <1>1, EchoBound DEF CInv, CTypeOK
  <2>2. x' = after.x /\ y' = after.y /\ UNCHANGED <<pc, rx, ry, wild>>
    BY <1>3 DEF keyboard_irq
  <2>3. cell' \in [x : Nat, y : Nat]
        /\ cell'.x <= SCREEN_COLS + TAB /\ cell'.y <= SCREEN_ROWS + 1
    BY <1>3 DEF keyboard_irq, At, CInv, CTypeOK, CursorBound, RegisterBound
  <2>4. burst' \in 0 .. MaxBurst /\ (pc # "idle" => burst' = burst + 1)
    BY ScreenAssumption DEF keyboard_irq, CInv, CTypeOK
  <2> HIDE DEF after
  <2>5. CTypeOK'
    BY <2>1, <2>2, <2>3, <2>4 DEF CInv, CTypeOK
  <2>6. CursorBound'
    BY <2>1, <2>2, <2>4, ScreenAssumption
    DEF CInv, CTypeOK, CursorBound, TAB, RowEnd, PageTop
  <2>7. RegisterBound'
    BY <2>2, <2>3 DEF CInv, RegisterBound
  <2> QED BY <2>5, <2>6, <2>7 DEF CInv
<1> QED BY <1>2, <1>3

\* The main thread's accesses preserve it.
LEMMA MainStep ==
    ASSUME CInv, Main \/ \E char \in Output : print(char)
    PROVE  CInv'
<1> USE ScreenAssumption
    DEF CInv, CTypeOK, CursorBound, RegisterBound, Access, TAB, RowEnd, PageTop
<1>1. ASSUME NEW char \in Output, print(char) PROVE CInv'
  BY <1>1 DEF print
<1>2. CASE cell_y BY <1>2 DEF cell_y
<1>3. CASE cell_x BY <1>3 DEF cell_x
<1>4. CASE write BY <1>4 DEF write, At
<1>5. CASE inc_load BY <1>5 DEF inc_load
<1>6. CASE tab_load BY <1>6 DEF tab_load
<1>7. CASE store_x BY <1>7 DEF store_x
<1>8. CASE test_x BY <1>8 DEF test_x
<1>9. CASE line_load BY <1>9 DEF line_load
<1>10. CASE store_y BY <1>10 DEF store_y
<1>11. CASE home_x BY <1>11 DEF home_x
<1>12. CASE test_y BY <1>12 DEF test_y
<1>13. CASE flush_x BY <1>13 DEF flush_x
<1>14. CASE flush_load BY <1>14 DEF flush_load
<1>15. CASE flush_y BY <1>15 DEF flush_y
<1> HIDE DEF CInv
<1> QED
  BY <1>1, <1>2, <1>3, <1>4, <1>5, <1>6, <1>7, <1>8, <1>9, <1>10, <1>11,
     <1>12, <1>13, <1>14, <1>15 DEF Main

LEMMA CursorAlways == CSpec => []CInv
<1>1. CInv /\ [CNext]_cvars => CInv'
  <2> SUFFICES ASSUME CInv, [CNext]_cvars PROVE CInv'
    OBVIOUS
  <2>1. CASE UNCHANGED cvars
    BY <2>1 DEF cvars, CInv, CTypeOK, CursorBound, RegisterBound
  <2>2. CASE CNext
    BY <2>2, IrqStep, MainStep DEF CNext
  <2> QED BY <2>1, <2>2
<1> QED BY <1>1, CursorInit, PTL DEF CSpec

-----------------------------------------------------------------------------
\* Between two prints the cursor is within the limits x_reached_limit and
\* y_reached_limit test for, although every load, test and store of vga_state
\* can be interrupted by a key that moves the same cursor.
THEOREM CursorSafe == CSpec => []CursorWithinLimits
<1>1. CInv => CursorWithinLimits
  BY DEF CInv, CursorBound, CursorWithinLimits, RowEnd, PageTop
<1> QED BY <1>1, CursorAlways, PTL

\* Every character default_handler writes lands in the two pages vga_init
\* maps, even from coordinates loaded before a key moved the cursor.
THEOREM BufferSafe == CSpec => []WritesInBuffer
<1>1. \A a, b, c \in Nat : a <= b => a * c <= b * c
  OBVIOUS
<1>2. CInv => WritesInBuffer
  <2> SUFFICES ASSUME CInv PROVE WritesInBuffer
    OBVIOUS
  <2> DEFINE top == (SCREEN_ROWS + 1) * SCREEN_COLS
             row == cell.y * SCREEN_COLS
  <2>1. /\ cell.x \in Nat /\ cell.y \in Nat
        /\ cell.x <= SCREEN_COLS + TAB /\ cell.y <= SCREEN_ROWS + 1
    BY DEF CInv, CTypeOK, RegisterBound
  <2>2. row <= top
    BY <1>1, <2>1, ScreenAssumption
  <2>3. top \in Nat /\ row \in Nat
    BY <2>1, ScreenAssumption
  <2>4. top + SCREEN_COLS + TAB < MAPPED
    BY RoomAssumption
  <2> HIDE DEF top, row
  <2>5. row + cell.x < MAPPED
    BY <2>1, <2>2, <2>3, <2>4, ScreenAssumption DEF TAB
  <2> QED BY <2>5 DEF row, WritesInBuffer
<1> QED BY <1>2, CursorAlways, PTL
=============================================================================
