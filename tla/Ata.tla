-------------------------------- MODULE Ata ---------------------------------
(***************************************************************************)
(* The ATA driver (kernel/drivers/ata/ata.c): ata_init looks for up to     *)
(* four drives on two channels, ata_read and ata_write move sectors word   *)
(* by word through the data port (PIO, LBA28).                             *)
(*                                                                         *)
(* The drives are the environment and run beside the driver.  The two      *)
(* drives of a channel share its registers; the one last selected answers. *)
(* A drive that works on a command (busy) or waits for words of a sector   *)
(* (drq) ignores what is written to its registers, a selection included.   *)
(* A channel nobody answers reads as 0, or as ones if the bus floats.      *)
(* ata_sleep reads a port four times and promises nothing about the drive. *)
(* MaxRequests bounds the transfers.                                       *)
(***************************************************************************)
EXTENDS Integers

CONSTANTS
    WORDS,          \* words of a sector (DEFAULT_SECTOR_SIZE / 2)
    COUNT_VALUES,   \* values of the uint8_t sector count; the register's 0 asks for as many
    LBA_LIMIT,      \* sectors LBA28 can address
    CAPACITY,       \* sectors of a drive
    Machines,       \* what may be attached: [kind : drives -> Kinds, floating : channels]
    Requests,       \* the transfers asked for: [write, sector, num]
    MaxRequests     \* bound on them

Drives == 0 .. 3                \* MAX_ATA_DRIVES
Channel(d) == d \div 2
Kinds == {"none", "ATA", "ATAPI"}
NULL == -1
NoDevice == <<>>
Zero == <<"zero">>
Junk == <<"junk">>

ASSUME GeometryAssumption ==
    /\ {WORDS, COUNT_VALUES, CAPACITY} \subseteq Nat \ {0} /\ WORDS >= 2
    /\ LBA_LIMIT \in Nat /\ CAPACITY <= LBA_LIMIT
    /\ \A m \in Machines :
          /\ m.kind \in [Drives -> Kinds]
          /\ \A d \in Drives : Channel(d) \in m.floating => m.kind[d] = "none"
    /\ Requests \subseteq [write : BOOLEAN, sector : Nat, num : Nat]

VARIABLES
    machine,    \* what is attached
    sel,        \* per channel: the drive that was selected last
    drive,      \* per drive: busy, drq, err; the command, its sector, sectors left, word
    disk,       \* per drive: the words of its sectors
    at,         \* where the driver is
    cur,        \* the device it works for
    devices,    \* what ata_init registered: words 0 and 1 of the identification, or NULL
    root_device,
    req,        \* the transfer under way
    k,          \* words accessed in the current loop
    buffer,     \* what was read
    asked,      \* how many transfers were asked for
    spoiled,    \* channels on which driver and drive lost step (bookkeeping)
    undriven,   \* the driver used a word nobody provided (bookkeeping)
    writes      \* per drive: the writes that callers asked for (bookkeeping)

drivevars == <<machine, sel, drive, disk>>
history == <<asked, spoiled, undriven, writes>>
vars == <<drivevars, at, cur, devices, root_device, req, k, buffer, history>>

-----------------------------------------------------------------------------
(* The drives and what the ports show of them. *)

Idle == [busy |-> FALSE, drq |-> FALSE, err |-> FALSE, cmd |-> "none", lba |-> 0, left |-> 0, pos |-> 0]

Active(d) == sel[Channel(d)]
Floating(d) == Channel(d) \in machine.floating
Locked(d) == drive[Active(d)].busy \/ drive[Active(d)].drq

StatusIsZero(d) == ~Floating(d) /\ machine.kind[Active(d)] = "none"
BusySeen(d) == Floating(d) \/ drive[Active(d)].busy
ReadySeen(d) == Floating(d) \/ machine.kind[Active(d)] = "ATA"
DataReadySeen(d) == Floating(d) \/ drive[Active(d)].drq

Working(command, lba, count) ==
    [Idle EXCEPT !.busy = TRUE, !.cmd = command, !.lba = lba, !.left = count]

\* The drive now selected takes a command, unless it is locked or absent.
Command(selected, d, command, lba, count) ==
    LET a == selected[Channel(d)] IN
    IF machine.kind[a] = "none" \/ drive[a].busy \/ drive[a].drq THEN drive
    ELSE [drive EXCEPT ![a] = Working(command, lba, count)]

\* A drive finishes what it was busy with: the next sector is ready to be
\* moved, or an error is reported.  Packet drives abort IDENTIFY.
serve(d) ==
    /\ drive[d].busy
    /\ \E fails \in BOOLEAN :
          /\ drive[d].cmd = "IDENTIFY" => fails = (machine.kind[d] # "ATA")
          /\ drive[d].lba >= CAPACITY => fails
          /\ drive' = [drive EXCEPT ![d].busy = FALSE, ![d].drq = ~fails, ![d].err = fails]
    /\ UNCHANGED <<machine, sel, disk, at, cur, devices, root_device, req, k, buffer, history>>

\* The selected drive hands over or accepts a word in that direction.
Driven(d, commands) ==
    ~Floating(d) /\ drive[Active(d)].drq /\ drive[Active(d)].cmd \in commands

Advance(s) ==
    IF s.pos + 1 < WORDS THEN [s EXCEPT !.pos = @ + 1]
    ELSE IF s.left = 1 THEN Idle
    ELSE [s EXCEPT !.pos = 0, !.left = @ - 1, !.lba = @ + 1, !.busy = TRUE, !.drq = FALSE]

\* The words the data port may show; noise where no drive provides one.
read_word_port(d, noise) ==
    LET s == drive[Active(d)] IN
    IF Driven(d, {"READ"}) THEN {disk[Active(d)][<<s.lba, s.pos>>]}
    ELSE IF Driven(d, {"IDENTIFY"}) THEN {<<"identify", Active(d), s.pos>>}
    ELSE IF Floating(d) THEN {Junk} ELSE noise

\* What an access to the data port does to the drive.
Access(d, commands) ==
    IF Driven(d, commands)
    THEN /\ drive' = [drive EXCEPT ![Active(d)] = Advance(@)]
         /\ UNCHANGED <<spoiled, undriven>>
    ELSE /\ undriven' = TRUE
         /\ spoiled' = IF drive[Active(d)].busy THEN spoiled \cup {Channel(d)} ELSE spoiled
         /\ UNCHANGED drive

write_word_port(d, word) ==
    LET s == drive[Active(d)] IN
    disk' = IF Driven(d, {"WRITE"}) THEN [disk EXCEPT ![Active(d)][<<s.lba, s.pos>>] = word]
            ELSE disk

-----------------------------------------------------------------------------
(* ata_init, one drive after the other. *)

mutant_select_device ==
    /\ at = "select"
    /\ sel' = IF Locked(cur) THEN sel ELSE [sel EXCEPT ![Channel(cur)] = 2 * Channel(cur)]
    /\ at' = "identify"
    /\ UNCHANGED <<machine, drive, disk, cur, devices, root_device, req, k, buffer, history>>

ata_select_device ==
    /\ at = "select"
    /\ sel' = IF Locked(cur) THEN sel ELSE [sel EXCEPT ![Channel(cur)] = cur]
    /\ at' = "identify"
    /\ UNCHANGED <<machine, drive, disk, cur, devices, root_device, req, k, buffer, history>>

ata_identify ==
    /\ at = "identify"
    /\ drive' = Command(sel, cur, "IDENTIFY", 0, 1)
    /\ at' = "probe"
    /\ UNCHANGED <<machine, sel, disk, cur, devices, root_device, req, k, buffer, history>>

Blank == [n \in 0 .. (COUNT_VALUES * WORDS - 1) |-> Zero]

\* ata_init goes on to the next drive.
NextDrive ==
    /\ at' = IF cur = 3 THEN "idle" ELSE "select"
    /\ cur' = IF cur = 3 THEN cur ELSE cur + 1
    /\ buffer' = Blank /\ k' = 0 /\ undriven' = FALSE

\* A zero status means no drive.  (The signature read from the LBA ports is
\* compared with 14/15 where packet drives show 14/EB, so that every drive
\* is taken for an ATA drive.)
ata_identify_status ==
    /\ at = "probe"
    /\ IF StatusIsZero(cur) THEN NextDrive
       ELSE at' = "response" /\ UNCHANGED <<cur, k, buffer, undriven>>
    /\ UNCHANGED <<drivevars, devices, root_device, req, asked, spoiled, writes>>

\* The response is read without waiting for it.
read_identify_buffer ==
    /\ at = "response" /\ k < WORDS
    /\ \E word \in read_word_port(cur, IF k = 0 THEN {Zero, Junk} ELSE {Junk}) :
          buffer' = [buffer EXCEPT ![k] = word]
    /\ Access(cur, {"IDENTIFY", "READ"})
    /\ k' = k + 1
    /\ UNCHANGED <<machine, sel, disk, at, cur, devices, root_device, req, asked, writes>>

\* A response that begins with zero is not a drive's.
extract_identify_buffer ==
    /\ at = "response" /\ k = WORDS
    /\ IF buffer[0] = Zero THEN UNCHANGED <<devices, root_device>>
       ELSE /\ devices' = [devices EXCEPT ![cur] = <<buffer[0], buffer[1]>>]
            /\ root_device' = IF root_device = NULL THEN cur ELSE root_device
    /\ NextDrive
    /\ UNCHANGED <<drivevars, req, asked, spoiled, writes>>

-----------------------------------------------------------------------------
(* ata_read and ata_write. *)

\* A caller asks for a transfer with a device that was found (whose exists
\* is true, so that the panic of ata_pio28_read and _write is not reached).
Request ==
    /\ at = "idle" /\ asked < MaxRequests
    /\ \E d \in Drives, r \in Requests :
          /\ devices[d] # NoDevice
          /\ cur' = d /\ req' = r
          /\ writes' = IF r.write THEN [writes EXCEPT ![d] = @ \cup {r}] ELSE writes
    /\ at' = "block" /\ asked' = asked + 1
    /\ UNCHANGED <<drivevars, devices, root_device, k, buffer, spoiled, undriven>>

mutant_block_if_busy ==
    /\ at = "block" /\ BusySeen(cur)
    /\ at' = "command"
    /\ UNCHANGED <<drivevars, cur, devices, root_device, req, k, buffer, history>>

\* Waits for whichever drive of the channel is selected.
ata_block_if_busy ==
    /\ at = "block" /\ ~BusySeen(cur)
    /\ at' = "command"
    /\ UNCHANGED <<drivevars, cur, devices, root_device, req, k, buffer, history>>

\* The uint8_t parameter of ata_pio28_read and ata_pio28_write.
sector_count == req.num % COUNT_VALUES

\* What the drive makes of the count register.
Counted(count) == IF count = 0 THEN COUNT_VALUES ELSE count

Commanded(sector, count) ==
    /\ sel' = IF Locked(cur) THEN sel ELSE [sel EXCEPT ![Channel(cur)] = cur]
    /\ drive' = Command(sel', cur, IF req.write THEN "WRITE" ELSE "READ",
                        sector % LBA_LIMIT, Counted(count))

mutant_next_sector ==
    /\ at = "command"
    /\ Commanded(req.sector + 1, sector_count)
    /\ spoiled' = IF sector_count = 0 THEN spoiled \cup {Channel(cur)} ELSE spoiled
    /\ at' = "ready"
    /\ UNCHANGED <<machine, disk, cur, devices, root_device, req, k, buffer, asked, undriven, writes>>

mutant_count_plus_one ==
    /\ at = "command"
    /\ Commanded(req.sector, sector_count + 1)
    /\ spoiled' = IF sector_count = 0 THEN spoiled \cup {Channel(cur)} ELSE spoiled
    /\ at' = "ready"
    /\ UNCHANGED <<machine, disk, cur, devices, root_device, req, k, buffer, asked, undriven, writes>>

\* ata_pio28_pre_stages and the command.  No sectors, or a count that the
\* register cannot hold, are a 0 to the drive: it is then ready to move
\* COUNT_VALUES sectors and the loop below moves none.
ata_pio28_pre_stages ==
    /\ at = "command"
    /\ Commanded(req.sector, sector_count)
    /\ spoiled' = IF sector_count = 0 THEN spoiled \cup {Channel(cur)} ELSE spoiled
    /\ at' = "ready"
    /\ UNCHANGED <<machine, disk, cur, devices, root_device, req, k, buffer, asked, undriven, writes>>

wait_for_ready ==
    /\ at = "ready" /\ ReadySeen(cur)
    /\ at' = "data"
    /\ UNCHANGED <<drivevars, cur, devices, root_device, req, k, buffer, history>>

mutant_no_wait_for_data ==
    /\ at = "data"
    /\ at' = "move"
    /\ UNCHANGED <<drivevars, cur, devices, root_device, req, k, buffer, history>>

\* Neither of the two waits looks at DEVICE_ERROR or gives up.
wait_for_data_ready ==
    /\ at = "data" /\ DataReadySeen(cur)
    /\ at' = "move"
    /\ UNCHANGED <<drivevars, cur, devices, root_device, req, k, buffer, history>>

Moving == at = "move" /\ k < sector_count * WORDS

\* One word of the loop over the sectors: no status is read in between.
ata_pio28_read ==
    /\ Moving /\ ~req.write
    /\ \E word \in read_word_port(cur, {Junk}) : buffer' = [buffer EXCEPT ![k] = word]
    /\ Access(cur, {"IDENTIFY", "READ"})
    /\ k' = k + 1
    /\ UNCHANGED <<machine, sel, disk, at, cur, devices, root_device, req, asked, writes>>

\* The caller's words are told apart by request and place.
Data(n) == <<"data", asked, n>>

ata_pio28_write ==
    /\ Moving /\ req.write
    /\ write_word_port(cur, Data(k))
    /\ Access(cur, {"WRITE"})
    /\ k' = k + 1
    /\ UNCHANGED <<machine, sel, at, cur, devices, root_device, req, buffer, asked, writes>>

Return ==
    /\ at = "move" /\ ~Moving
    /\ at' = "idle" /\ k' = 0 /\ buffer' = Blank /\ undriven' = FALSE
    /\ UNCHANGED <<drivevars, cur, devices, root_device, req, asked, spoiled, writes>>
-----------------------------------------------------------------------------
Original(d, l, w) == <<"disk", d, l, w>>

Init ==
    /\ machine \in Machines
    /\ sel = [c \in 0 .. 1 |-> 2 * c]
    /\ drive = [d \in Drives |-> Idle]
    /\ disk = [d \in Drives |-> [x \in (0 .. CAPACITY - 1) \X (0 .. WORDS - 1) |->
                                    Original(d, x[1], x[2])]]
    /\ at = "select" /\ cur = 0
    /\ devices = [d \in Drives |-> NoDevice]
    /\ root_device = NULL
    /\ req = [write |-> FALSE, sector |-> 0, num |-> 0]
    /\ k = 0
    /\ buffer = Blank
    /\ asked = 0 /\ spoiled = {} /\ undriven = FALSE
    /\ writes = [d \in Drives |-> {}]

ata_init ==
    \/ ata_select_device \/ ata_identify \/ ata_identify_status
    \/ read_identify_buffer \/ extract_identify_buffer

Transfer ==
    \/ ata_block_if_busy \/ ata_pio28_pre_stages \/ wait_for_ready \/ wait_for_data_ready
    \/ ata_pio28_read \/ ata_pio28_write \/ Return

Next == ata_init \/ Request \/ Transfer \/ \E d \in Drives : serve(d)

Spec == /\ Init /\ [][Next]_vars
        /\ WF_vars(ata_init) /\ WF_vars(Transfer)
        /\ \A d \in Drives : WF_vars(serve(d))

-----------------------------------------------------------------------------
Passed(d) == at \notin {"select", "identify", "probe", "response"} \/ d < cur

\* ata_init finds the ATA drives: unless the driver outran a drive of the
\* channel (spoiled), an attached ATA drive is registered once its turn is
\* over, with its own identification, and a device whose response was not
\* noise is attached.  Drives of a channel are not taken for one another.
DrivesFound ==
    \A d \in Drives : Passed(d) /\ Channel(d) \notin spoiled =>
        /\ machine.kind[d] = "ATA" => devices[d] # NoDevice
        /\ devices[d] # NoDevice /\ devices[d][1] # Junk =>
              /\ machine.kind[d] = "ATA"
              /\ devices[d] = <<<<"identify", d, 0>>, <<"identify", d, 1>>>>

\* The drive and the driver are in step on the channel, every word of this
\* call was provided, and the sector number fits LBA28.
InStep == Channel(cur) \notin spoiled /\ ~undriven /\ req.sector < LBA_LIMIT

\* While they are in step, ata_read has delivered the sectors asked for, in
\* order, whatever transfers with whichever drive came before.
ReadExact ==
    at = "move" /\ ~req.write /\ InStep =>
        \A n \in 0 .. k - 1 :
            buffer[n] = disk[cur][<<req.sector + n \div WORDS, n % WORDS>>]

\* The sectors a caller named, and those the registers name of a request.
Named(r) == r.sector .. (r.sector + r.num - 1)
Told(r) ==
    LET lba == r.sector % LBA_LIMIT IN lba .. (lba + Counted(r.num % COUNT_VALUES) - 1)

\* A request that the registers hold, but for its count.
Fits(r) == r.num > 0 /\ r.sector < LBA_LIMIT

Reached(d) == UNION {IF Fits(r) THEN Named(r) ELSE Told(r) : r \in writes[d]}

\* Sectors that no caller named keep their words, even when the count wraps
\* or driver and drive are out of step and words go to where an earlier call
\* left off.  Two requests break this, and reach sectors nobody named: of a
\* sector number beyond LBA28 only the low bits arrive, and a write of no
\* sectors opens COUNT_VALUES of them to the words of the next write.
OthersUntouched ==
    \A d \in Drives : \A l \in 0 .. CAPACITY - 1, w \in 0 .. WORDS - 1 :
        l \notin Reached(d) => disk[d][<<l, w>>] = Original(d, l, w)

\* The driver uses a word nobody provided only behind the first sector of a
\* call, or when it was out of step already: the two waits are enough for
\* one sector.
FirstSectorProvided ==
    at = "move" /\ undriven /\ machine.kind[cur] = "ATA" =>
        k > WORDS \/ Channel(cur) \in spoiled

Transferring == at \in {"block", "command", "ready", "data", "move"}

\* ata_init ends, and a transfer with an attached drive ends unless that
\* drive reports an error, for which the driver waits forever.
CallsEnd ==
    /\ <>(at = "idle")
    /\ Transferring /\ machine.kind[cur] = "ATA" ~> at = "idle" \/ drive[cur].err
=============================================================================
