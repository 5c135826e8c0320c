------------------------------ MODULE Console -------------------------------
(***************************************************************************)
(* The text console (kernel/drivers/vga/vga.c) shared by the kernel's main *)
(* thread, which prints while interrupts are enabled, and the keyboard     *)
(* interrupt (kernel/drivers/keyboard/keyboard_driver.c), which echoes the *)
(* key from inside its handler.  Nothing guards vga_state.                 *)
(*                                                                         *)
(* The main thread advances by one access to vga_state.x or vga_state.y at *)
(* a time, in the order of the kernel image the repository ships; loaded   *)
(* values sit in registers.  The handler runs with interrupts off, so one  *)
(* key is one step.  A cell is a character of the text buffer, two bytes.  *)
(***************************************************************************)
EXTENDS Naturals

CONSTANTS
    SCREEN_COLS, SCREEN_ROWS,
    MAPPED,         \* cells of the two pages vga_init maps
    Keys,           \* what a key may echo
    Output,         \* what the main thread may print
    MaxBurst        \* bound: interrupts taken between two of its accesses

TAB == 4

\* What may be printed or echoed.  The table of special characters also has
\* '\r', which no string of the kernel contains and no key maps to.
Chars == {"char", "newline", "tab", "backspace"}

ASSUME ScreenAssumption ==
    /\ SCREEN_COLS \in Nat /\ SCREEN_ROWS \in Nat /\ MAPPED \in Nat
    /\ MaxBurst \in Nat /\ TAB * MaxBurst <= SCREEN_ROWS
    /\ TAB <= SCREEN_COLS
    /\ Keys \subseteq Chars /\ Output \subseteq {"char", "newline", "tab"}

\* The buffer has room for a row and a tab beyond the off-by-one limits.
ASSUME RoomAssumption ==
    (SCREEN_ROWS + 1) * SCREEN_COLS + SCREEN_COLS + TAB < MAPPED

VARIABLES
    x, y,           \* vga_state.x, vga_state.y
    pc,             \* the access the main thread makes next
    rx, ry,         \* registers: values it has loaded
    burst,          \* interrupts since its last access
    cell,           \* the cell written last: [x, y]
    wild            \* a handler was called through a pointer past the table

cvars == <<x, y, pc, rx, ry, burst, cell, wild>>

-----------------------------------------------------------------------------
(* The handler's calls, from the cursor they find to the one they leave.   *)

At(px, py) == [x |-> px, y |-> py]

mutant_newline(c) == At(0, c.y + 1)

\* newline_handler, with the flush that brings the cursor back to the top.
newline_handler(c) ==
    IF c.y + 1 > SCREEN_ROWS THEN At(0, 0) ELSE At(0, c.y + 1)

\* The cursor after an x_reached_limit test.
limited(c) == IF c.x > SCREEN_COLS THEN newline_handler(c) ELSE c

default_handler(c) == limited(At(c.x + 1, c.y))
tab_handler(c) == limited(At(c.x + TAB, c.y))

vga_putc(char, c) ==
    CASE char = "newline" -> newline_handler(c)
      [] char = "tab" -> tab_handler(c)
      [] OTHER -> default_handler(c)

\* IRQ1: the key is echoed.  special_characters has an entry for '\b' and
\* special_characters_handlers has none: the call goes past its end.
keyboard_irq(key) ==
    /\ ~wild
    /\ IF pc = "idle" THEN UNCHANGED burst
       ELSE burst < MaxBurst /\ burst' = burst + 1
    /\ IF key = "backspace"
       THEN wild' = TRUE /\ UNCHANGED <<x, y, cell>>
       ELSE /\ LET after == vga_putc(key, At(x, y))
               IN  x' = after.x /\ y' = after.y
            /\ cell' = IF key = "char" THEN At(x, y) ELSE cell
            /\ UNCHANGED wild
    /\ UNCHANGED <<pc, rx, ry>>

-----------------------------------------------------------------------------
(* The main thread's accesses.                                             *)

Access(from) == ~wild /\ pc = from /\ burst' = 0 /\ UNCHANGED wild

\* vga_putc is called.
print(char) ==
    /\ Access("idle")
    /\ pc' = CASE char = "char" -> "cell_y" [] char = "tab" -> "tab_load"
               [] char = "newline" -> "line_load"
    /\ UNCHANGED <<x, y, rx, ry, cell>>

\* default_handler: the address is computed from y, then x.
cell_y == Access("cell_y") /\ ry' = y /\ pc' = "cell_x" /\ UNCHANGED <<x, y, rx, cell>>
cell_x == Access("cell_x") /\ rx' = x /\ pc' = "write" /\ UNCHANGED <<x, y, ry, cell>>
write ==
    /\ Access("write") /\ cell' = At(rx, ry) /\ pc' = "inc_load"
    /\ UNCHANGED <<x, y, rx, ry>>
inc_load == Access("inc_load") /\ rx' = x + 1 /\ pc' = "store_x" /\ UNCHANGED <<x, y, ry, cell>>

tab_load == Access("tab_load") /\ rx' = x + TAB /\ pc' = "store_x" /\ UNCHANGED <<x, y, ry, cell>>

store_x == Access("store_x") /\ x' = rx /\ pc' = "test_x" /\ UNCHANGED <<y, rx, ry, cell>>

mutant_no_test_x ==
    /\ Access("test_x")
    /\ pc' = "idle"
    /\ UNCHANGED <<x, y, rx, ry, cell>>

\* x_reached_limit reads x again.
test_x ==
    /\ Access("test_x")
    /\ pc' = IF x > SCREEN_COLS THEN "line_load" ELSE "idle"
    /\ UNCHANGED <<x, y, rx, ry, cell>>

\* newline_handler
line_load == Access("line_load") /\ ry' = y + 1 /\ pc' = "store_y" /\ UNCHANGED <<x, y, rx, cell>>
store_y == Access("store_y") /\ y' = ry /\ pc' = "home_x" /\ UNCHANGED <<x, rx, ry, cell>>
home_x == Access("home_x") /\ x' = 0 /\ pc' = "test_y" /\ UNCHANGED <<y, rx, ry, cell>>

test_y ==
    /\ Access("test_y")
    /\ pc' = IF y > SCREEN_ROWS THEN "flush_x" ELSE "idle"
    /\ UNCHANGED <<x, y, rx, ry, cell>>

\* vga_flush blanks the screen, then y = x = 0 stores x and copies what it
\* reads back from x into y.
flush_x == Access("flush_x") /\ x' = 0 /\ pc' = "flush_load" /\ UNCHANGED <<y, rx, ry, cell>>
flush_load == Access("flush_load") /\ ry' = x /\ pc' = "flush_y" /\ UNCHANGED <<x, y, rx, cell>>

flush_y == Access("flush_y") /\ y' = ry /\ pc' = "idle" /\ UNCHANGED <<x, rx, ry, cell>>

-----------------------------------------------------------------------------
CInit ==
    /\ x = 0 /\ y = 0 /\ rx = 0 /\ ry = 0
    /\ pc = "idle" /\ burst = 0 /\ cell = At(0, 0) /\ wild = FALSE

Main ==
    \/ cell_y \/ cell_x \/ write \/ inc_load \/ tab_load \/ store_x \/ test_x
    \/ line_load \/ store_y \/ home_x \/ test_y \/ flush_x \/ flush_load \/ flush_y

CNext ==
    \/ \E char \in Output : print(char)
    \/ Main
    \/ \E key \in Keys : keyboard_irq(key)

CSpec == CInit /\ [][CNext]_cvars

-----------------------------------------------------------------------------
CTypeOK ==
    /\ x \in Nat /\ y \in Nat /\ rx \in Nat /\ ry \in Nat
    /\ burst \in 0 .. MaxBurst /\ wild \in BOOLEAN
    /\ cell \in [x : Nat, y : Nat]
    /\ pc \in {"idle", "cell_y", "cell_x", "write", "inc_load", "tab_load",
               "store_x", "test_x", "line_load", "store_y", "home_x", "test_y",
               "flush_x", "flush_load", "flush_y"}

\* Between two prints the cursor is within the limits the code tests for,
\* whatever keys interrupted the last print: no lost update of x or y lets
\* it escape, although x and y are tested and stored without protection.
CursorWithinLimits ==
    pc = "idle" => x <= SCREEN_COLS /\ y <= SCREEN_ROWS

\* Every character, printed or echoed, from registers that may be stale, is
\* written to the two pages vga_init maps.
WritesInBuffer == cell.y * SCREEN_COLS + cell.x < MAPPED
=============================================================================
