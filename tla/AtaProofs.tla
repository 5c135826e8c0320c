------------------------------ MODULE AtaProofs -----------------------------
(***************************************************************************)
(* The ATA driver writes only where it was asked to and reads what it was  *)
(* asked for, for every geometry, every combination of drives, and every   *)
(* sequence of transfers.                                                  *)
(***************************************************************************)
EXTENDS Ata, TLAPS

DriveState == [busy : BOOLEAN, drq : BOOLEAN, err : BOOLEAN,
               cmd : {"none", "IDENTIFY", "READ", "WRITE"}, lba : Nat, left : Nat, pos : Nat]

Sectors == (0 .. CAPACITY - 1) \X (0 .. WORDS - 1)
Places == 0 .. (COUNT_VALUES * WORDS - 1)

AType ==
    /\ machine \in Machines
    /\ sel \in [0 .. 1 -> Drives] /\ \A c \in 0 .. 1 : Channel(sel[c]) = c
    /\ drive \in [Drives -> DriveState]
    /\ at \in {"select", "identify", "probe", "response", "idle",
               "block", "command", "ready", "data", "move"}
    /\ cur \in Drives /\ k \in Nat
    /\ req \in [write : BOOLEAN, sector : Nat, num : Nat]
    /\ writes \in [Drives -> SUBSET Requests]
    /\ buffer = [n \in Places |-> buffer[n]]
    /\ disk = [d \in Drives |-> [x \in Sectors |-> disk[d][x]]]
    /\ devices = [d \in Drives |-> devices[d]]

Quiet(s) == ~s.busy /\ ~s.drq

\* A drive that works has a sector and a word to go on with, and what it may
\* still write was asked for.
Sound(d, s) ==
    /\ machine.kind[d] = "none" => Quiet(s)
    /\ ~(s.busy /\ s.drq)
    /\ ~Quiet(s) => s.left > 0 /\ s.pos < WORDS
    /\ s.drq => s.lba < CAPACITY
    /\ s.cmd = "WRITE" /\ ~Quiet(s) =>
          \A i \in 0 .. s.left - 1 : s.lba + i \in Reached(d)

DriveInv == \A d \in Drives : Sound(d, drive[d])

RequestInv ==
    at \in {"block", "command"} /\ req.write => req \in writes[cur]

DiskInv == AType /\ DriveInv /\ RequestInv /\ OthersUntouched

-----------------------------------------------------------------------------
(* The operators. *)

LEMMA WorkingFields ==
    ASSUME NEW command \in {"IDENTIFY", "READ", "WRITE"}, NEW lba \in Nat, NEW count \in Nat,
           NEW w, w = Working(command, lba, count)
    PROVE  /\ w \in DriveState
           /\ w.busy = TRUE /\ w.drq = FALSE /\ w.err = FALSE
           /\ w.cmd = command /\ w.lba = lba /\ w.left = count /\ w.pos = 0
BY DEF Working, Idle, DriveState

LEMMA IdleFields ==
    /\ Idle \in DriveState
    /\ Idle.busy = FALSE /\ Idle.drq = FALSE /\ Idle.err = FALSE /\ Idle.cmd = "none"
    /\ Idle.lba = 0 /\ Idle.left = 0 /\ Idle.pos = 0
BY DEF Idle, DriveState

\* One word further, one sector further, or done.
LEMMA AdvanceFields ==
    ASSUME NEW s \in DriveState, s.drq, s.pos < WORDS, s.left > 0, NEW t, t = Advance(s)
    PROVE  /\ t \in DriveState
           /\ s.pos + 1 < WORDS =>
                 /\ t.busy = s.busy /\ t.drq = s.drq /\ t.err = s.err /\ t.cmd = s.cmd
                 /\ t.lba = s.lba /\ t.left = s.left /\ t.pos = s.pos + 1
           /\ s.pos + 1 = WORDS /\ s.left = 1 => t = Idle
           /\ s.pos + 1 = WORDS /\ s.left > 1 =>
                 /\ t.busy = TRUE /\ t.drq = FALSE /\ t.err = s.err /\ t.cmd = s.cmd
                 /\ t.lba = s.lba + 1 /\ t.left = s.left - 1 /\ t.pos = 0
<1>1. s.pos \in Nat /\ s.left \in Nat /\ s.lba \in Nat /\ WORDS \in Nat
  BY GeometryAssumption DEF DriveState
<1>2. ASSUME s.pos + 1 < WORDS
      PROVE  /\ t \in DriveState
             /\ t.busy = s.busy /\ t.drq = s.drq /\ t.err = s.err /\ t.cmd = s.cmd
             /\ t.lba = s.lba /\ t.left = s.left /\ t.pos = s.pos + 1
  <2>1. t = [s EXCEPT !.pos = s.pos + 1]
    BY <1>1, <1>2 DEF Advance
  <2>2. t \in DriveState
    BY <2>1 DEF DriveState
  <2>3. t.busy = s.busy /\ t.drq = s.drq
    BY <2>1 DEF DriveState
  <2>4. t.err = s.err /\ t.cmd = s.cmd
    BY <2>1 DEF DriveState
  <2>5. t.lba = s.lba /\ t.left = s.left /\ t.pos = s.pos + 1
    BY <2>1 DEF DriveState
  <2> QED
    BY <2>2, <2>3, <2>4, <2>5
<1>3. ASSUME s.pos + 1 = WORDS, s.left = 1
      PROVE  t \in DriveState /\ t = Idle
  <2>1. t = Idle
    BY <1>1, <1>3 DEF Advance
  <2> QED
    BY <2>1, IdleFields
<1>4. ASSUME s.pos + 1 = WORDS, s.left > 1
      PROVE  /\ t \in DriveState
             /\ t.busy = TRUE /\ t.drq = FALSE /\ t.err = s.err /\ t.cmd = s.cmd
             /\ t.lba = s.lba + 1 /\ t.left = s.left - 1 /\ t.pos = 0
  <2>1. t = [s EXCEPT !.pos = 0, !.left = s.left - 1, !.lba = s.lba + 1, !.busy = TRUE, !.drq = FALSE]
    BY <1>1, <1>4 DEF Advance
  <2>2. s.left - 1 \in Nat /\ s.lba + 1 \in Nat
    BY <1>1, <1>4
  <2>3. t \in DriveState
    <3>1. t = [busy |-> TRUE, drq |-> FALSE, err |-> s.err, cmd |-> s.cmd,
               lba |-> s.lba + 1, left |-> s.left - 1, pos |-> 0]
      BY <2>1 DEF DriveState
    <3>2. s.err \in BOOLEAN /\ s.cmd \in {"none", "IDENTIFY", "READ", "WRITE"}
      BY DEF DriveState
    <3> QED
      BY <2>2, <3>1, <3>2 DEF DriveState
  <2>4. t.busy = TRUE /\ t.drq = FALSE
    BY <2>1 DEF DriveState
  <2>5. t.err = s.err /\ t.cmd = s.cmd
    BY <2>1 DEF DriveState
  <2>6. t.lba = s.lba + 1 /\ t.left = s.left - 1 /\ t.pos = 0
    BY <2>1 DEF DriveState
  <2> QED
    BY <2>3, <2>4, <2>5, <2>6
<1>5. s.pos + 1 < WORDS \/ (s.pos + 1 = WORDS /\ s.left = 1) \/ (s.pos + 1 = WORDS /\ s.left > 1)
  BY <1>1
<1>6. t \in DriveState
  BY <1>2, <1>3, <1>4, <1>5
<1> QED
  BY <1>2, <1>3, <1>4, <1>6

LEMMA Constants ==
    /\ WORDS \in Nat /\ WORDS >= 2 /\ COUNT_VALUES \in Nat \ {0}
    /\ CAPACITY \in Nat \ {0} /\ LBA_LIMIT \in Nat \ {0} /\ CAPACITY <= LBA_LIMIT
BY GeometryAssumption

\* The count the drive is told, which exceeds what the caller asked for only
\* when that is no sector at all.
LEMMA CountBound ==
    ASSUME NEW n \in Nat
    PROVE  /\ n % COUNT_VALUES \in 0 .. COUNT_VALUES - 1
           /\ Counted(n % COUNT_VALUES) \in Nat /\ Counted(n % COUNT_VALUES) > 0
           /\ n > 0 => Counted(n % COUNT_VALUES) <= n
<1>1. n % COUNT_VALUES \in 0 .. COUNT_VALUES - 1
  BY Constants
<1>2. n > 0 /\ n % COUNT_VALUES = 0 => COUNT_VALUES <= n
  BY Constants
<1>3. n % COUNT_VALUES <= n
  BY Constants
<1> QED
  BY <1>1, <1>2, <1>3, Constants DEF Counted

\* The sectors the drive is told of are reached.
LEMMA ToldReached ==
    ASSUME AType, NEW d \in Drives, NEW r \in writes[d], NEW i \in Nat,
           i < Counted(r.num % COUNT_VALUES)
    PROVE  (r.sector % LBA_LIMIT) + i \in Reached(d)
<1>1. r.sector \in Nat /\ r.num \in Nat
  <2>1. r \in Requests
    BY DEF AType
  <2> QED
    BY <2>1, GeometryAssumption
<1>2. PICK n, s, c : n = r.num /\ s = r.sector /\ c = Counted(n % COUNT_VALUES)
  OBVIOUS
<1>3. n \in Nat /\ s \in Nat /\ i < c /\ c \in Nat /\ (n > 0 => c <= n)
  BY <1>1, <1>2, CountBound
<1>4. PICK l : l = s % LBA_LIMIT
  OBVIOUS
<1>5. l \in Nat /\ (s < LBA_LIMIT => l = s)
  BY <1>3, <1>4, Constants
<1>6. l + i \in IF Fits(r) THEN Named(r) ELSE Told(r)
  <2>1. CASE Fits(r)
    <3>1. n > 0 /\ s < LBA_LIMIT
      BY <1>2, <2>1 DEF Fits
    <3>2. l + i \in s .. (s + n - 1)
      BY <1>3, <1>5, <3>1
    <3> QED
      BY <1>2, <2>1, <3>2 DEF Named
  <2>2. CASE ~Fits(r)
    <3>1. l + i \in l .. (l + c - 1)
      BY <1>3, <1>5
    <3>2. Told(r) = l .. (l + c - 1)
      BY <1>2, <1>4 DEF Told
    <3> QED
      BY <2>2, <3>1, <3>2
  <2> QED
    BY <2>1, <2>2
<1> QED
  BY <1>2, <1>4, <1>6 DEF Reached

LEMMA AdvanceSound ==
    ASSUME NEW d \in Drives, NEW s \in DriveState, s.drq, Sound(d, s), NEW t, t = Advance(s)
    PROVE  t \in DriveState /\ Sound(d, t)
<1>1. s.pos < WORDS /\ s.left > 0 /\ machine.kind[d] # "none" /\ s.lba < CAPACITY /\ ~Quiet(s)
  BY DEF Sound, Quiet
<1>2. /\ t \in DriveState
      /\ s.pos + 1 < WORDS =>
            /\ t.busy = s.busy /\ t.drq = s.drq /\ t.err = s.err /\ t.cmd = s.cmd
            /\ t.lba = s.lba /\ t.left = s.left /\ t.pos = s.pos + 1
      /\ s.pos + 1 = WORDS /\ s.left = 1 => t = Idle
      /\ s.pos + 1 = WORDS /\ s.left > 1 =>
            /\ t.busy = TRUE /\ t.drq = FALSE /\ t.err = s.err /\ t.cmd = s.cmd
            /\ t.lba = s.lba + 1 /\ t.left = s.left - 1 /\ t.pos = 0
  BY <1>1, AdvanceFields
<1>3. s.pos \in Nat /\ s.left \in Nat /\ s.lba \in Nat
  BY DEF DriveState
<1>4. CASE s.pos + 1 < WORDS
  BY <1>1, <1>2, <1>3, <1>4 DEF Sound, Quiet
<1>5. CASE s.pos + 1 = WORDS /\ s.left = 1
  BY <1>2, <1>5, IdleFields DEF Sound, Quiet
<1>6. CASE s.pos + 1 = WORDS /\ s.left > 1
  <2>1. /\ t.busy = TRUE /\ t.drq = FALSE /\ t.cmd = s.cmd
        /\ t.lba = s.lba + 1 /\ t.left = s.left - 1 /\ t.pos = 0
    BY <1>2, <1>6
  <2>2. ASSUME t.cmd = "WRITE", NEW i \in 0 .. t.left - 1
        PROVE  t.lba + i \in Reached(d)
    <3>1. i + 1 \in 0 .. s.left - 1 /\ t.lba + i = s.lba + (i + 1)
      BY <1>3, <2>1, <2>2
    <3> QED
      BY <1>1, <2>1, <2>2, <3>1 DEF Sound
  <2> QED
    BY <1>1, <1>2, <1>3, <1>6, <2>1, <2>2, Constants DEF Sound, Quiet
<1> QED
  BY <1>1, <1>2, <1>3, <1>4, <1>5, <1>6, Constants

LEMMA ActiveDrive ==
    ASSUME AType, NEW d \in Drives
    PROVE  /\ Channel(d) \in 0 .. 1 /\ Active(d) \in Drives /\ Channel(Active(d)) = Channel(d)
           /\ drive[Active(d)] \in DriveState
<1>1. Channel(d) \in 0 .. 1
  BY DEF Drives, Channel
<1> QED
  BY <1>1 DEF AType, Active

\* A command reaches the selected drive, if it is there and not locked.
LEMMA Commands ==
    ASSUME AType, NEW selected \in [0 .. 1 -> Drives], NEW d \in Drives,
           NEW command \in {"IDENTIFY", "READ", "WRITE"}, NEW lba \in Nat, NEW count \in Nat,
           drive' = Command(selected, d, command, lba, count),
           NEW a, a = selected[Channel(d)]
    PROVE  /\ a \in Drives /\ drive' \in [Drives -> DriveState]
           /\ \A e \in Drives \ {a} : drive'[e] = drive[e]
           /\ \/ drive' = drive /\ (machine.kind[a] = "none" \/ ~Quiet(drive[a]))
              \/ /\ drive'[a] = Working(command, lba, count)
                 /\ machine.kind[a] # "none" /\ Quiet(drive[a])
<1>1. a \in Drives
  BY DEF Drives, Channel
<1>2. drive \in [Drives -> DriveState]
  BY DEF AType
<1>3. CASE machine.kind[a] = "none" \/ ~Quiet(drive[a])
  <2>1. drive' = drive
    BY <1>3 DEF Command, Quiet
  <2> QED
    BY <1>1, <1>2, <1>3, <2>1
<1>4. CASE ~(machine.kind[a] = "none" \/ ~Quiet(drive[a]))
  <2> DEFINE w == Working(command, lba, count)
  <2>1. drive' = [drive EXCEPT ![a] = w]
    BY <1>4 DEF Command, Quiet
  <2>2. w \in DriveState
    BY WorkingFields
  <2> HIDE DEF w
  <2>3. drive' \in [Drives -> DriveState] /\ drive'[a] = w /\ \A e \in Drives \ {a} : drive'[e] = drive[e]
    BY <1>1, <1>2, <2>1, <2>2
  <2> QED
    BY <1>1, <1>4, <2>3 DEF w
<1> QED
  BY <1>3, <1>4

\* An access to the data port moves the selected drive on, if it has a word
\* to move in that direction.
LEMMA Accesses ==
    ASSUME AType, DriveInv, NEW d \in Drives, NEW commands, Access(d, commands),
           NEW a, a = Active(d)
    PROVE  /\ a \in Drives /\ drive' \in [Drives -> DriveState]
           /\ \A e \in Drives \ {a} : drive'[e] = drive[e]
           /\ \/ /\ Driven(d, commands) /\ drive'[a] = Advance(drive[a])
                 /\ Sound(a, drive'[a]) /\ UNCHANGED <<spoiled, undriven>>
              \/ /\ ~Driven(d, commands) /\ drive' = drive /\ undriven' = TRUE
                 /\ spoiled' = IF drive[a].busy THEN spoiled \cup {Channel(d)} ELSE spoiled
<1>1. a \in Drives /\ drive[a] \in DriveState /\ drive \in [Drives -> DriveState]
  BY ActiveDrive DEF AType
<1>2. CASE Driven(d, commands)
  <2>1. drive' = [drive EXCEPT ![a] = Advance(drive[a])] /\ UNCHANGED <<spoiled, undriven>>
    BY <1>2 DEF Access
  <2>2. drive[a].drq
    BY <1>2 DEF Driven
  <2>3. Sound(a, drive[a])
    BY <1>1 DEF DriveInv
  <2>4. Advance(drive[a]) \in DriveState /\ Sound(a, Advance(drive[a]))
    BY <1>1, <2>2, <2>3, AdvanceSound
  <2>5. drive'[a] = Advance(drive[a])
    BY <1>1, <2>1
  <2>6. drive' \in [Drives -> DriveState] /\ \A e \in Drives \ {a} : drive'[e] = drive[e]
    BY <1>1, <2>1, <2>4
  <2> QED
    BY <1>1, <1>2, <2>1, <2>4, <2>5, <2>6
<1>3. CASE ~Driven(d, commands)
  BY <1>1, <1>3 DEF Access
<1> QED
  BY <1>2, <1>3

\* A drive that has served is ready to move a word, or has failed.
LEMMA Serves ==
    ASSUME AType, DriveInv, NEW d \in Drives, serve(d)
    PROVE  /\ drive' \in [Drives -> DriveState]
           /\ \A e \in Drives \ {d} : drive'[e] = drive[e]
           /\ drive[d].busy /\ ~drive'[d].busy
           /\ drive'[d].cmd = drive[d].cmd /\ drive'[d].lba = drive[d].lba
           /\ drive'[d].left = drive[d].left /\ drive'[d].pos = drive[d].pos
           /\ drive'[d].drq => drive[d].lba < CAPACITY
           /\ drive[d].cmd = "IDENTIFY" /\ drive[d].lba < CAPACITY =>
                 (drive'[d].drq <=> machine.kind[d] = "ATA")
<1>1. PICK fails \in BOOLEAN :
         /\ drive[d].cmd = "IDENTIFY" => fails = (machine.kind[d] # "ATA")
         /\ drive[d].lba >= CAPACITY => fails
         /\ drive' = [drive EXCEPT ![d].busy = FALSE, ![d].drq = ~fails, ![d].err = fails]
  BY DEF serve
<1>2. drive[d].busy /\ drive \in [Drives -> DriveState] /\ drive[d] \in DriveState
      /\ drive[d].lba \in Nat
  BY DEF serve, AType, DriveState
<1> DEFINE t == [drive[d] EXCEPT !.busy = FALSE, !.drq = ~fails, !.err = fails]
<1>3. drive' = [drive EXCEPT ![d] = t]
  BY <1>1, <1>2
<1>4. t \in DriveState
  BY <1>2 DEF DriveState
<1>5. t.busy = FALSE /\ t.drq = ~fails
  BY <1>2 DEF DriveState
<1>6. t.cmd = drive[d].cmd /\ t.lba = drive[d].lba /\ t.left = drive[d].left /\ t.pos = drive[d].pos
  BY <1>2 DEF DriveState
<1> HIDE DEF t
<1>7. drive'[d] = t /\ drive' \in [Drives -> DriveState] /\ \A e \in Drives \ {d} : drive'[e] = drive[e]
  BY <1>2, <1>3, <1>4
<1>8. t.drq => drive[d].lba < CAPACITY
  <2> SUFFICES ASSUME t.drq PROVE drive[d].lba < CAPACITY
    OBVIOUS
  <2>1. ~fails
    BY <1>5, Zenon
  <2>2. ~(drive[d].lba >= CAPACITY)
    BY <1>1, <2>1, Zenon
  <2> QED
    BY <1>2, <2>2, Constants
<1>9. ASSUME drive[d].cmd = "IDENTIFY"
      PROVE  t.drq <=> machine.kind[d] = "ATA"
  BY <1>1, <1>5, <1>9
<1> QED
  BY <1>2, <1>5, <1>6, <1>7, <1>8, <1>9

-----------------------------------------------------------------------------
(* Sectors nobody asked to write keep their words. *)

LEMMA DiskInit == Init => DiskInv
<1> SUFFICES ASSUME Init PROVE DiskInv
  OBVIOUS
<1>1. sel \in [0 .. 1 -> Drives] /\ \A c \in 0 .. 1 : Channel(sel[c]) = c
  BY DEF Init, Drives, Channel
<1>2. drive \in [Drives -> DriveState] /\ \A d \in Drives : drive[d] = Idle
  BY IdleFields DEF Init
<1>3. req \in [write : BOOLEAN, sector : Nat, num : Nat]
  BY DEF Init
<1>4. disk = [d \in Drives |-> [x \in Sectors |-> disk[d][x]]]
  BY DEF Init, Sectors
<1>5. AType
  BY <1>1, <1>2, <1>3, <1>4 DEF Init, AType, Blank, Places, Drives
<1>6. DriveInv
  BY <1>2, IdleFields DEF DriveInv, Sound, Quiet
<1>7. OthersUntouched
  BY Constants DEF Init, OthersUntouched
<1>8. RequestInv
  BY DEF Init, RequestInv
<1> QED
  BY <1>5, <1>6, <1>7, <1>8 DEF DiskInv

LEMMA DiskSame ==
    ASSUME DiskInv, AType', UNCHANGED <<machine, drive, disk, writes>>, RequestInv'
    PROVE  DiskInv'
<1>1. DriveInv'
  BY DEF DiskInv, DriveInv, Sound, Reached
<1>2. OthersUntouched'
  BY DEF DiskInv, OthersUntouched, Reached
<1> QED
  BY <1>1, <1>2 DEF DiskInv

LEMMA DiskRequest ==
    ASSUME DiskInv, Request
    PROVE  DiskInv'
<1>1. PICK d \in Drives, r \in Requests :
         /\ devices[d] # NoDevice
         /\ cur' = d /\ req' = r
         /\ writes' = IF r.write THEN [writes EXCEPT ![d] = @ \cup {r}] ELSE writes
  BY DEF Request
<1>2. r \in [write : BOOLEAN, sector : Nat, num : Nat]
  BY GeometryAssumption
<1>3. writes \in [Drives -> SUBSET Requests]
  BY DEF DiskInv, AType
<1>4. /\ writes' \in [Drives -> SUBSET Requests]
      /\ \A e \in Drives : writes[e] \subseteq writes'[e]
      /\ r.write => r \in writes'[d]
  BY <1>1, <1>3
<1>5. AType'
  BY <1>1, <1>2, <1>4 DEF DiskInv, AType, Request, drivevars
<1>6. \A e \in Drives : Reached(e) \subseteq Reached(e)'
  BY <1>4 DEF Reached
<1>7. DriveInv'
  BY <1>6 DEF DiskInv, DriveInv, Sound, Request, drivevars
<1>8. OthersUntouched'
  BY <1>6 DEF DiskInv, OthersUntouched, Request, drivevars
<1>9. RequestInv'
  BY <1>1, <1>4 DEF RequestInv
<1> QED
  BY <1>5, <1>7, <1>8, <1>9 DEF DiskInv

\* The drive that changed is sound.
LEMMA DiskDrive ==
    ASSUME DiskInv, AType', UNCHANGED <<machine, disk, writes>>, RequestInv',
           NEW a \in Drives, \A e \in Drives \ {a} : drive'[e] = drive[e], Sound(a, drive'[a])
    PROVE  DiskInv'
<1>1. DriveInv'
  BY DEF DiskInv, DriveInv, Sound, Reached
<1>2. OthersUntouched'
  BY DEF DiskInv, OthersUntouched, Reached
<1> QED
  BY <1>1, <1>2 DEF DiskInv

LEMMA BlankType == Blank = [n \in Places |-> Blank[n]]
BY DEF Blank, Places

LEMMA SelectType ==
    ASSUME AType, sel' = IF Locked(cur) THEN sel ELSE [sel EXCEPT ![Channel(cur)] = cur]
    PROVE  /\ sel' \in [0 .. 1 -> Drives] /\ \A c \in 0 .. 1 : Channel(sel'[c]) = c
           /\ ~Locked(cur) => sel'[Channel(cur)] = cur
           /\ \A c \in 0 .. 1 : c # Channel(cur) \/ Locked(cur) => sel'[c] = sel[c]
<1>1. cur \in Drives /\ Channel(cur) \in 0 .. 1
  BY ActiveDrive DEF AType
<1>2. sel \in [0 .. 1 -> Drives] /\ \A c \in 0 .. 1 : Channel(sel[c]) = c
  BY DEF AType
<1> QED
  BY <1>1, <1>2

\* ata_init, the waits and the return: no drive and no disk changes.
LEMMA DiskStay ==
    ASSUME DiskInv,
           \/ ata_select_device \/ ata_identify_status \/ extract_identify_buffer
           \/ ata_block_if_busy \/ wait_for_ready \/ wait_for_data_ready \/ Return
    PROVE  DiskInv'
<1>1. AType
  BY DEF DiskInv
<1>2. CASE ata_select_device
  <2>1. sel' \in [0 .. 1 -> Drives] /\ \A c \in 0 .. 1 : Channel(sel'[c]) = c
    BY <1>1, <1>2, SelectType DEF ata_select_device
  <2>2. AType'
    BY <1>1, <1>2, <2>1 DEF AType, ata_select_device, history
  <2>3. RequestInv'
    BY <1>2 DEF RequestInv, ata_select_device
  <2> QED
    BY <1>2, <2>2, <2>3, DiskSame DEF ata_select_device, history
<1>3. ASSUME NextDrive, UNCHANGED <<drivevars, req, writes>>, devices' = [d \in Drives |-> devices'[d]]
      PROVE  DiskInv'
  <2>1. cur' \in Drives /\ at' \in {"idle", "select"}
    BY <1>1, <1>3 DEF NextDrive, AType, Drives
  <2>2. buffer' = [n \in Places |-> buffer'[n]] /\ k' \in Nat
    BY <1>3, BlankType DEF NextDrive
  <2>3. AType'
    BY <1>1, <1>3, <2>1, <2>2 DEF AType, drivevars
  <2>4. RequestInv'
    BY <2>1 DEF RequestInv
  <2> QED
    BY <1>3, <2>3, <2>4, DiskSame DEF drivevars
<1>4. CASE ata_identify_status
  <2>1. CASE NextDrive
    BY <1>1, <1>3, <1>4, <2>1 DEF ata_identify_status, AType
  <2>2. CASE ~NextDrive
    <3>1. at' = "response" /\ UNCHANGED <<drivevars, devices, req, writes, cur, k, buffer>>
      BY <1>4, <2>2 DEF ata_identify_status
    <3>2. AType'
      BY <1>1, <3>1 DEF AType, drivevars
    <3>3. RequestInv'
      BY <3>1 DEF RequestInv
    <3> QED
      BY <3>1, <3>2, <3>3, DiskSame DEF drivevars
  <2> QED
    BY <2>1, <2>2
<1>5. CASE extract_identify_buffer
  <2>1. devices' = [d \in Drives |-> devices'[d]]
    BY <1>1, <1>5 DEF extract_identify_buffer, AType
  <2> QED
    BY <1>3, <1>5, <2>1 DEF extract_identify_buffer
<1>6. CASE ata_block_if_busy \/ wait_for_ready \/ wait_for_data_ready
  <2>1. /\ UNCHANGED <<drivevars, cur, devices, req, k, buffer, writes>>
        /\ (at = "block" /\ at' = "command") \/ at' \in {"data", "move"}
    BY <1>6 DEF ata_block_if_busy, wait_for_ready, wait_for_data_ready, history
  <2>2. AType'
    BY <1>1, <2>1 DEF AType, drivevars
  <2>3. RequestInv'
    BY <2>1 DEF DiskInv, RequestInv
  <2> QED
    BY <2>1, <2>2, <2>3, DiskSame DEF drivevars
<1>7. CASE Return
  <2>1. buffer' = [n \in Places |-> buffer'[n]]
    BY <1>7, BlankType DEF Return
  <2>2. AType'
    BY <1>1, <1>7, <2>1 DEF AType, Return, drivevars
  <2>3. RequestInv'
    BY <1>7 DEF RequestInv, Return
  <2> QED
    BY <1>7, <2>2, <2>3, DiskSame DEF Return, drivevars
<1> QED
  BY <1>2, <1>4, <1>5, <1>6, <1>7

LEMMA DiskIdentify ==
    ASSUME DiskInv, ata_identify
    PROVE  DiskInv'
<1> DEFINE a == sel[Channel(cur)]
<1>1. AType /\ cur \in Drives /\ sel \in [0 .. 1 -> Drives]
  BY DEF DiskInv, AType
<1>2. /\ a \in Drives /\ drive' \in [Drives -> DriveState]
      /\ \A e \in Drives \ {a} : drive'[e] = drive[e]
      /\ \/ drive' = drive
         \/ drive'[a] = Working("IDENTIFY", 0, 1) /\ machine.kind[a] # "none"
  BY <1>1, Commands DEF ata_identify
<1>3. AType'
  BY <1>1, <1>2 DEF AType, ata_identify, history
<1>4. Sound(a, drive'[a])
  <2>1. CASE drive' = drive
    BY <1>2, <2>1 DEF DiskInv, DriveInv
  <2>2. CASE drive'[a] = Working("IDENTIFY", 0, 1) /\ machine.kind[a] # "none"
    <3>1. /\ drive'[a].busy = TRUE /\ drive'[a].drq = FALSE /\ drive'[a].cmd = "IDENTIFY"
          /\ drive'[a].left = 1 /\ drive'[a].pos = 0
      BY <2>2 DEF Working, Idle
    <3> QED
      BY <2>2, <3>1, Constants DEF Sound, Quiet
  <2> QED
    BY <1>2, <2>1, <2>2
<1>5. RequestInv'
  BY DEF RequestInv, ata_identify
<1> QED
  BY <1>2, <1>3, <1>4, <1>5, DiskDrive DEF ata_identify, history

\* The sectors a command names are those of the write that was asked for.
LEMMA DiskCommand ==
    ASSUME DiskInv, ata_pio28_pre_stages
    PROVE  DiskInv'
<1> DEFINE a == sel'[Channel(cur)]
           lba == req.sector % LBA_LIMIT
           count == Counted(sector_count)
           command == IF req.write THEN "WRITE" ELSE "READ"
<1>1. AType /\ cur \in Drives /\ at = "command" /\ req.num \in Nat /\ req.sector \in Nat
      /\ RequestInv
  BY DEF DiskInv, AType, ata_pio28_pre_stages
<1>2. /\ sel' = IF Locked(cur) THEN sel ELSE [sel EXCEPT ![Channel(cur)] = cur]
      /\ drive' = Command(sel', cur, command, lba, count)
      /\ at' = "ready"
      /\ UNCHANGED <<machine, disk, cur, devices, req, k, buffer, writes>>
  BY DEF ata_pio28_pre_stages, Commanded
<1>3. /\ sel' \in [0 .. 1 -> Drives] /\ \A c \in 0 .. 1 : Channel(sel'[c]) = c
      /\ ~Locked(cur) => a = cur
      /\ Locked(cur) => sel' = sel
  BY <1>1, <1>2, SelectType
<1>4. /\ count \in Nat /\ count > 0 /\ lba \in Nat
      /\ command \in {"IDENTIFY", "READ", "WRITE"}
  BY <1>1, CountBound, Constants DEF sector_count
<1> HIDE DEF lba, count, command
<1>5. /\ a \in Drives /\ drive' \in [Drives -> DriveState]
      /\ \A e \in Drives \ {a} : drive'[e] = drive[e]
      /\ \/ drive' = drive
         \/ /\ drive'[a] = Working(command, lba, count)
            /\ machine.kind[a] # "none" /\ Quiet(drive[a])
  <2>1. sel' \in [0 .. 1 -> Drives]
    BY <1>3
  <2>2. drive' = Command(sel', cur, command, lba, count)
    BY <1>2
  <2> QED
    BY <1>1, <1>4, <2>1, <2>2, Commands
<1>6. AType'
  BY <1>1, <1>2, <1>3, <1>5 DEF AType
<1>7. Sound(a, drive'[a])
  <2>1. CASE drive' = drive
    BY <1>5, <2>1 DEF DiskInv, DriveInv
  <2>2. CASE drive'[a] = Working(command, lba, count) /\ machine.kind[a] # "none" /\ Quiet(drive[a])
    <3>1. a = cur
      <4>1. ~Locked(cur)
        BY <1>3, <2>2 DEF Locked, Active, Quiet
      <4> QED
        BY <1>3, <4>1
    <3>2. ASSUME command = "WRITE", NEW i \in 0 .. count - 1
          PROVE  lba + i \in Reached(a)
      <4>1. req.write
        BY <3>2 DEF command
      <4>2. req \in writes[cur]
        BY <1>1, <4>1 DEF RequestInv
      <4>3. i \in Nat /\ i < Counted(req.num % COUNT_VALUES)
        BY <1>4, <3>2 DEF count, sector_count
      <4> QED
        BY <1>1, <3>1, <4>2, <4>3, ToldReached DEF lba
    <3>3. /\ drive'[a].busy = TRUE /\ drive'[a].drq = FALSE /\ drive'[a].cmd = command
          /\ drive'[a].lba = lba /\ drive'[a].left = count /\ drive'[a].pos = 0
      BY <2>2 DEF Working, Idle
    <3> QED
      BY <1>4, <2>2, <3>2, <3>3, Constants DEF Sound, Quiet
  <2> QED
    BY <1>5, <2>1, <2>2
<1>8. RequestInv'
  BY <1>2 DEF RequestInv
<1> QED
  BY <1>2, <1>5, <1>6, <1>7, <1>8, DiskDrive

LEMMA DiskServe ==
    ASSUME DiskInv, NEW d \in Drives, serve(d)
    PROVE  DiskInv'
<1>1. AType /\ DriveInv /\ drive[d] \in DriveState
  BY DEF DiskInv, AType
<1>2. /\ drive' \in [Drives -> DriveState]
      /\ \A e \in Drives \ {d} : drive'[e] = drive[e]
      /\ drive[d].busy /\ ~drive'[d].busy
      /\ drive'[d].cmd = drive[d].cmd /\ drive'[d].lba = drive[d].lba
      /\ drive'[d].left = drive[d].left /\ drive'[d].pos = drive[d].pos
      /\ drive'[d].drq => drive[d].lba < CAPACITY
  BY <1>1, Serves
<1>3. AType'
  BY <1>1, <1>2 DEF AType, serve, history
<1>4. RequestInv'
  BY DEF DiskInv, RequestInv, serve, history
<1>5. Sound(d, drive'[d])
  BY <1>1, <1>2 DEF DriveInv, Sound, Quiet
<1> QED
  BY <1>2, <1>3, <1>4, <1>5, DiskDrive DEF serve, history

LEMMA DiskRead ==
    ASSUME DiskInv, read_identify_buffer \/ ata_pio28_read
    PROVE  DiskInv'
<1> DEFINE a == Active(cur)
<1>1. AType /\ DriveInv /\ cur \in Drives
  BY DEF DiskInv, AType
<1>2. /\ Access(cur, {"IDENTIFY", "READ"}) /\ k' = k + 1
      /\ \E word : buffer' = [buffer EXCEPT ![k] = word]
      /\ at \in {"response", "move"}
      /\ UNCHANGED <<machine, sel, disk, at, cur, devices, req, writes>>
  BY DEF read_identify_buffer, ata_pio28_read, Moving
<1>3. /\ a \in Drives /\ drive' \in [Drives -> DriveState]
      /\ \A e \in Drives \ {a} : drive'[e] = drive[e]
      /\ Sound(a, drive'[a]) \/ drive' = drive
  BY <1>1, <1>2, Accesses
<1>4. buffer' = [n \in Places |-> buffer'[n]]
  BY <1>1, <1>2 DEF AType
<1>5. AType'
  BY <1>1, <1>2, <1>3, <1>4 DEF AType
<1>6. Sound(a, drive'[a])
  BY <1>1, <1>3 DEF DriveInv
<1>7. RequestInv'
  BY <1>2 DEF RequestInv
<1> QED
  BY <1>2, <1>3, <1>5, <1>6, <1>7, DiskDrive

\* A word goes to a sector the drive was told to write.
LEMMA DiskWrite ==
    ASSUME DiskInv, ata_pio28_write
    PROVE  DiskInv'
<1> DEFINE a == Active(cur)
           s == drive[a]
<1>1. AType /\ DriveInv /\ cur \in Drives
  BY DEF DiskInv, AType
<1>2. /\ Access(cur, {"WRITE"}) /\ k' = k + 1 /\ at = "move"
      /\ write_word_port(cur, Data(k))
      /\ UNCHANGED <<machine, sel, at, cur, devices, req, buffer, writes>>
  BY DEF ata_pio28_write, Moving
<1>3. /\ a \in Drives /\ drive' \in [Drives -> DriveState]
      /\ \A e \in Drives \ {a} : drive'[e] = drive[e]
      /\ Sound(a, drive'[a]) \/ drive' = drive
  BY <1>1, <1>2, Accesses
<1>4. Sound(a, drive'[a]) /\ Sound(a, s) /\ s \in DriveState
  BY <1>1, <1>3 DEF DriveInv, AType
<1>5. \/ disk' = disk
      \/ /\ disk' = [disk EXCEPT ![a][<<s.lba, s.pos>>] = Data(k)]
         /\ s.drq /\ s.cmd = "WRITE"
  BY <1>2 DEF write_word_port, Driven
<1>6. /\ disk' = [d \in Drives |-> [x \in Sectors |-> disk'[d][x]]]
      /\ \A d \in Drives : \A x \in Sectors :
           disk'[d][x] = disk[d][x] \/ (d = a /\ x = <<s.lba, s.pos>> /\ s.drq /\ s.cmd = "WRITE")
  <2>1. disk = [d \in Drives |-> [x \in Sectors |-> disk[d][x]]]
    BY <1>1 DEF AType
  <2>2. CASE disk' = disk
    BY <2>1, <2>2
  <2>3. CASE disk' = [disk EXCEPT ![a][<<s.lba, s.pos>>] = Data(k)] /\ s.drq /\ s.cmd = "WRITE"
    <3> DEFINE y == <<s.lba, s.pos>>
               word == Data(k)
    <3>1. disk' = [disk EXCEPT ![a] = [disk[a] EXCEPT ![y] = word]]
      BY <2>3
    <3> HIDE DEF y, word
    <3>2. disk[a] = [x \in Sectors |-> disk[a][x]]
      BY <1>3, <2>1
    <3>3. [disk[a] EXCEPT ![y] = word] = [x \in Sectors |-> IF x = y THEN word ELSE disk[a][x]]
      BY <3>2
    <3>4. disk' = [d \in Drives |-> IF d = a THEN [disk[a] EXCEPT ![y] = word] ELSE disk[d]]
      BY <2>1, <3>1
    <3>5. \A d \in Drives : disk'[d] = [x \in Sectors |-> IF d = a /\ x = y THEN word ELSE disk[d][x]]
      BY <2>1, <3>3, <3>4
    <3>6. disk' = [d \in Drives |-> [x \in Sectors |-> disk'[d][x]]]
      BY <3>4, <3>5
    <3> QED
      BY <2>3, <3>5, <3>6 DEF y
  <2> QED
    BY <1>5, <2>2, <2>3
<1>7. s.drq /\ s.cmd = "WRITE" => s.lba \in Reached(a)
  <2> SUFFICES ASSUME s.drq, s.cmd = "WRITE" PROVE s.lba \in Reached(a)
    OBVIOUS
  <2>1. ~Quiet(s)
    BY Zenon DEF Quiet
  <2>2. s.left > 0 /\ s.lba < CAPACITY /\ s.left \in Nat /\ s.lba \in Nat
    BY <1>4, <2>1 DEF Sound, DriveState
  <2>3. 0 \in 0 .. s.left - 1 /\ s.lba + 0 = s.lba
    BY <2>2
  <2> HIDE DEF s
  <2> QED
    BY <1>4, <2>1, <2>3 DEF Sound
<1> HIDE DEF s
<1>8. OthersUntouched'
  <2> SUFFICES ASSUME NEW d \in Drives, NEW l \in 0 .. CAPACITY - 1, NEW w \in 0 .. WORDS - 1,
                      l \notin Reached(d)
               PROVE  disk'[d][<<l, w>>] = Original(d, l, w)
    BY <1>2 DEF OthersUntouched, Reached
  <2>1. disk[d][<<l, w>>] = Original(d, l, w)
    BY DEF DiskInv, OthersUntouched
  <2>2. <<l, w>> \in Sectors
    BY DEF Sectors
  <2>3. disk'[d][<<l, w>>] = disk[d][<<l, w>>]
    <3>1. CASE d = a /\ <<l, w>> = <<s.lba, s.pos>> /\ s.drq /\ s.cmd = "WRITE"
      BY <1>7, <3>1
    <3> QED
      BY <1>6, <2>2, <3>1
  <2> QED
    BY <2>1, <2>3
<1>9. AType'
  BY <1>1, <1>2, <1>3, <1>6 DEF AType
<1>10. DriveInv'
  BY <1>1, <1>2, <1>3, <1>4 DEF DriveInv, Sound, Reached
<1>11. RequestInv'
  BY <1>2 DEF RequestInv
<1> QED
  BY <1>8, <1>9, <1>10, <1>11 DEF DiskInv

LEMMA DiskNext == DiskInv /\ [Next]_vars => DiskInv'
<1> SUFFICES ASSUME DiskInv, [Next]_vars PROVE DiskInv'
  OBVIOUS
<1>1. CASE ata_init
  BY <1>1, DiskStay, DiskIdentify, DiskRead DEF ata_init
<1>2. CASE Request
  BY <1>2, DiskRequest
<1>3. CASE Transfer
  BY <1>3, DiskStay, DiskCommand, DiskRead, DiskWrite DEF Transfer
<1>4. ASSUME NEW d \in Drives, serve(d) PROVE DiskInv'
  BY <1>4, DiskServe
<1>5. CASE UNCHANGED vars
  <2>1. AType' /\ RequestInv'
    BY <1>5 DEF vars, drivevars, history, DiskInv, AType, RequestInv
  <2> QED
    BY <1>5, <2>1, DiskSame DEF vars, drivevars, history
<1> QED
  BY <1>1, <1>2, <1>3, <1>4, <1>5 DEF Next

LEMMA DiskAlways == Spec => []DiskInv
BY DiskInit, DiskNext, PTL DEF Spec

\* ata_pio28_write reaches no sector that no caller named, whatever drives
\* there are, also after the count register wrapped or the driver outran a
\* drive: but for a write of no sectors, and for a sector number that does
\* not fit LBA28, which reach what the registers name instead.
THEOREM WritesAsked == Spec => []OthersUntouched
<1>1. DiskInv => OthersUntouched
  BY DEF DiskInv
<1> QED
  BY <1>1, DiskAlways, PTL

-----------------------------------------------------------------------------
(* Driver and drive in step. *)

\* On a channel that is not spoiled only the drive the driver works with is
\* ever at work, and only between the command and the last word.
Calm ==
    \A d \in Drives :
        /\ Channel(d) \notin spoiled
        /\ d # cur \/ at \in {"select", "identify", "idle", "block", "command"}
        => Quiet(drive[d])

Selected ==
    at \notin {"select", "idle", "block", "command"} /\ Channel(cur) \notin spoiled =>
        sel[Channel(cur)] = cur

Rest == at \notin {"response", "move"} => k = 0 /\ undriven = FALSE

Identity(d, n) == <<"identify", d, n>>

\* The response to IDENTIFY: an ATA drive has the words that are still to be
\* read, and no other drive provides any.
Identifying ==
    at \in {"probe", "response"} /\ Channel(cur) \notin spoiled =>
        LET s == drive[cur] IN
        /\ ~Quiet(s) => s.cmd = "IDENTIFY" /\ s.lba = 0 /\ s.left = 1 /\ s.pos = k
        /\ k <= WORDS
        /\ machine.kind[cur] = "ATA" =>
              /\ k < WORDS => ~Quiet(s)
              /\ \A n \in 0 .. k - 1 : buffer[n] = Identity(cur, n)
        /\ machine.kind[cur] # "ATA" =>
              /\ ~s.drq
              /\ k > 0 => buffer[0] \in {Zero, Junk}

Known(d) ==
    IF machine.kind[d] = "ATA" THEN devices[d] = <<Identity(d, 0), Identity(d, 1)>>
    ELSE devices[d] = NoDevice \/ devices[d][1] = Junk

Registered ==
    \A d \in Drives :
        /\ ~Passed(d) => devices[d] = NoDevice
        /\ Passed(d) /\ Channel(d) \notin spoiled => Known(d)

\* A transfer: the drive is at the word that is read or written next.
Progressing ==
    at \in {"ready", "data", "move"} /\ Channel(cur) \notin spoiled =>
        LET s == drive[cur] IN
        /\ sector_count > 0
        /\ ~Quiet(s) => /\ s.cmd = IF req.write THEN "WRITE" ELSE "READ"
                        /\ s.left = sector_count - (k \div WORDS)
                        /\ s.lba = (req.sector % LBA_LIMIT) + (k \div WORDS)
                        /\ s.pos = k % WORDS
        /\ machine.kind[cur] = "ATA" /\ at = "move" /\ k < WORDS => s.drq
        /\ machine.kind[cur] = "ATA" /\ k <= WORDS => ~undriven
        /\ ~undriven /\ ~req.write /\ req.sector < LBA_LIMIT =>
              \A n \in 0 .. k - 1 :
                  buffer[n] = disk[cur][<<req.sector + (n \div WORDS), n % WORDS>>]

StepInv == Calm /\ Selected /\ Rest /\ Identifying /\ Registered /\ Progressing

LEMMA NextWord ==
    ASSUME NEW n \in Nat
    PROVE  /\ n \div WORDS \in Nat /\ n % WORDS \in 0 .. WORDS - 1
           /\ (n % WORDS) + 1 < WORDS =>
                 (n + 1) \div WORDS = n \div WORDS /\ (n + 1) % WORDS = (n % WORDS) + 1
           /\ (n % WORDS) + 1 = WORDS =>
                 (n + 1) \div WORDS = (n \div WORDS) + 1 /\ (n + 1) % WORDS = 0
           /\ n < WORDS => n \div WORDS = 0 /\ n % WORDS = n
           /\ n + 1 < WORDS => (n % WORDS) + 1 < WORDS
BY Constants

LEMMA WordsDone ==
    ASSUME NEW n \in Nat, NEW c \in Nat
    PROVE  n >= c * WORDS <=> n \div WORDS >= c
<1> DEFINE q == n \div WORDS
           r == n % WORDS
<1>1. n = WORDS * q + r /\ q \in Nat /\ r \in 0 .. WORDS - 1
  BY Constants
<1> HIDE DEF q, r
<1>2. ASSUME q >= c PROVE n >= c * WORDS
  <2>1. PICK e \in Nat : q = c + e
    <3>1. q - c \in Nat /\ q = c + (q - c)
      BY <1>1, <1>2
    <3> QED
      BY <3>1
  <2>2. WORDS * q = c * WORDS + WORDS * e /\ WORDS * e >= 0
    BY <2>1, Constants
  <2> QED
    BY <1>1, <2>2, Constants
<1>3. ASSUME ~(q >= c) PROVE n < c * WORDS
  <2>1. PICK e \in Nat : c = q + 1 + e
    <3>1. c - q - 1 \in Nat /\ c = q + 1 + (c - q - 1)
      BY <1>1, <1>3
    <3> QED
      BY <3>1
  <2>2. c * WORDS = WORDS * q + WORDS + WORDS * e /\ WORDS * e >= 0
    BY <1>1, <2>1, Constants
  <2> QED
    BY <1>1, <2>2, Constants
<1> QED
  BY <1>1, <1>2, <1>3, Constants DEF q

InInit == {"select", "identify", "probe", "response"}

LEMMA RegisteredSame ==
    ASSUME Registered, UNCHANGED <<machine, devices>>, spoiled \subseteq spoiled',
           (at \in InInit /\ at' \in InInit /\ cur' = cur) \/ (at \notin InInit /\ at' \notin InInit)
    PROVE  Registered'
<1>1. \A d \in Drives : Passed(d)' <=> Passed(d)
  BY DEF Passed, InInit
<1> QED
  BY <1>1 DEF Registered, Known

LEMMA StepInit == Init => StepInv
<1> SUFFICES ASSUME Init PROVE StepInv
  OBVIOUS
<1>1. \A d \in Drives : Quiet(drive[d])
  BY IdleFields DEF Init, Quiet
<1>2. Calm /\ Selected /\ Rest /\ Identifying /\ Progressing
  BY <1>1 DEF Init, Calm, Selected, Rest, Identifying, Progressing
<1>3. Registered
  BY DEF Init, Registered, Passed, Drives
<1> QED
  BY <1>2, <1>3 DEF StepInv

LEMMA StepSelect ==
    ASSUME DiskInv, StepInv, ata_select_device
    PROVE  StepInv'
<1>1. /\ at = "select" /\ at' = "identify" /\ cur \in Drives
      /\ UNCHANGED <<machine, drive, cur, devices, k, spoiled, undriven>>
  BY DEF ata_select_device, history, DiskInv, AType
<1>2. Calm'
  BY <1>1 DEF StepInv, Calm
<1>3. ASSUME Channel(cur) \notin spoiled
      PROVE  sel'[Channel(cur)] = cur
  <2>1. Active(cur) \in Drives /\ Channel(Active(cur)) = Channel(cur) /\ Channel(cur) \in 0 .. 1
    BY <1>1, ActiveDrive DEF DiskInv
  <2>2. Quiet(drive[Active(cur)])
    BY <1>1, <1>3, <2>1 DEF StepInv, Calm
  <2>3. ~Locked(cur)
    BY <2>2 DEF Locked, Quiet
  <2> QED
    BY <2>1, <2>3 DEF ata_select_device, DiskInv, AType
<1>4. Selected' /\ Rest' /\ Identifying' /\ Progressing'
  BY <1>1, <1>3 DEF StepInv, Selected, Rest, Identifying, Progressing
<1>5. Registered'
  BY <1>1, RegisteredSame DEF StepInv, InInit
<1> QED
  BY <1>2, <1>4, <1>5 DEF StepInv

\* On a channel in step the command goes to the drive that was selected.
LEMMA StepIdentify ==
    ASSUME DiskInv, StepInv, ata_identify
    PROVE  StepInv'
<1> DEFINE a == sel[Channel(cur)]
<1>1. /\ at = "identify" /\ at' = "probe" /\ cur \in Drives
      /\ UNCHANGED <<machine, sel, cur, devices, k, buffer, spoiled, undriven>>
  BY DEF ata_identify, history, DiskInv, AType
<1>2. AType /\ sel \in [0 .. 1 -> Drives] /\ Channel(cur) \in 0 .. 1 /\ Channel(a) = Channel(cur)
  BY <1>1, ActiveDrive DEF DiskInv, AType, Active
<1>3. /\ a \in Drives
      /\ \A e \in Drives \ {a} : drive'[e] = drive[e]
      /\ \/ drive' = drive /\ (machine.kind[a] = "none" \/ ~Quiet(drive[a]))
         \/ /\ drive'[a] = Working("IDENTIFY", 0, 1)
            /\ machine.kind[a] # "none" /\ Quiet(drive[a])
  BY <1>1, <1>2, Commands DEF ata_identify
<1>4. Channel(cur) \notin spoiled => a = cur /\ Quiet(drive[cur])
  BY <1>1 DEF StepInv, Selected, Calm
<1>5. Calm'
  BY <1>1, <1>2, <1>3, <1>4 DEF StepInv, Calm
<1>6. Identifying'
  <2> SUFFICES ASSUME Channel(cur) \notin spoiled PROVE Identifying'
    BY <1>1 DEF Identifying
  <2>1. k = 0
    BY <1>1 DEF StepInv, Rest
  <2>2. CASE drive' = drive /\ machine.kind[cur] = "none"
    BY <1>1, <1>4, <2>1, <2>2, Constants DEF Identifying, Quiet
  <2>3. CASE drive'[cur] = Working("IDENTIFY", 0, 1)
    <3>1. /\ drive'[cur].busy = TRUE /\ drive'[cur].drq = FALSE /\ drive'[cur].cmd = "IDENTIFY"
          /\ drive'[cur].lba = 0 /\ drive'[cur].left = 1 /\ drive'[cur].pos = 0
      BY <2>3 DEF Working, Idle
    <3> QED
      BY <1>1, <2>1, <3>1, Constants DEF Identifying, Quiet
  <2> QED
    BY <1>3, <1>4, <2>2, <2>3
<1>7. Selected' /\ Rest' /\ Progressing'
  BY <1>1 DEF StepInv, Selected, Rest, Progressing
<1>8. Registered'
  BY <1>1, RegisteredSame DEF StepInv, InInit
<1> QED
  BY <1>5, <1>6, <1>7, <1>8 DEF StepInv

\* The turn of the next drive comes with every drive in step at rest.
LEMMA StepNextDrive ==
    ASSUME DiskInv, StepInv, NextDrive, at \in {"probe", "response"},
           UNCHANGED <<drivevars, spoiled>>,
           Channel(cur) \notin spoiled => Quiet(drive[cur]),
           \A d \in Drives \ {cur} : devices'[d] = devices[d],
           \A d \in {cur} : Channel(d) \notin spoiled => Known(d)'
    PROVE  StepInv'
<1>1. /\ cur \in Drives /\ k' = 0 /\ undriven' = FALSE
      /\ at' = (IF cur = 3 THEN "idle" ELSE "select") /\ cur' = (IF cur = 3 THEN cur ELSE cur + 1)
  BY DEF NextDrive, DiskInv, AType
<1>2. Calm'
  BY <1>1 DEF StepInv, Calm, drivevars
<1>3. Selected' /\ Rest' /\ Identifying' /\ Progressing'
  BY <1>1 DEF Selected, Rest, Identifying, Progressing
<1>4. Registered'
  BY <1>1 DEF StepInv, Registered, Passed, Drives, Known, drivevars
<1> QED
  BY <1>2, <1>3, <1>4 DEF StepInv

\* On a channel in step the drive the driver works with answers.
LEMMA Answers ==
    ASSUME DiskInv, StepInv, Channel(cur) \notin spoiled,
           at \notin {"select", "idle", "block", "command"}
    PROVE  /\ cur \in Drives /\ Active(cur) = cur /\ drive[cur] \in DriveState
           /\ machine.kind[cur] # "none" => ~Floating(cur)
           /\ machine.kind[cur] = "none" => Quiet(drive[cur])
<1>1. cur \in Drives /\ machine \in Machines /\ drive[cur] \in DriveState
  BY DEF DiskInv, AType
<1>2. Active(cur) = cur
  BY DEF StepInv, Selected, Active
<1>3. machine.kind[cur] # "none" => ~Floating(cur)
  BY <1>1, GeometryAssumption DEF Floating
<1>4. machine.kind[cur] = "none" => Quiet(drive[cur])
  BY <1>1 DEF DiskInv, DriveInv, Sound
<1> QED
  BY <1>1, <1>2, <1>3, <1>4

LEMMA StepStatus ==
    ASSUME DiskInv, StepInv, ata_identify_status
    PROVE  StepInv'
<1>1. at = "probe" /\ cur \in Drives /\ UNCHANGED <<drivevars, devices, spoiled>>
  BY DEF ata_identify_status, DiskInv, AType
<1>2. CASE StatusIsZero(cur)
  <2>1. NextDrive
    BY <1>2 DEF ata_identify_status
  <2>2. Channel(cur) \notin spoiled => machine.kind[cur] = "none" /\ Quiet(drive[cur])
    BY <1>1, <1>2, Answers DEF StatusIsZero
  <2>3. devices[cur] = NoDevice
    BY <1>1 DEF StepInv, Registered, Passed, Drives
  <2>4. \A d \in {cur} : Channel(d) \notin spoiled => Known(d)'
    BY <1>1, <2>2, <2>3 DEF Known, drivevars
  <2> QED
    BY <1>1, <2>1, <2>2, <2>4, StepNextDrive
<1>3. CASE ~StatusIsZero(cur)
  <2>1. at' = "response" /\ UNCHANGED <<cur, k, buffer, undriven>>
    BY <1>3 DEF ata_identify_status
  <2>2. k = 0
    BY <1>1 DEF StepInv, Rest
  <2>3. Calm' /\ Selected' /\ Rest' /\ Progressing'
    BY <1>1, <2>1 DEF StepInv, Calm, Selected, Rest, Progressing, drivevars
  <2>4. Identifying'
    BY <1>1, <2>1 DEF StepInv, Identifying, drivevars
  <2>5. Registered'
    BY <1>1, <2>1, RegisteredSame DEF StepInv, InInit, drivevars
  <2> QED
    BY <2>3, <2>4, <2>5 DEF StepInv
<1> QED
  BY <1>2, <1>3

\* What an access changes stays within the channel of the driver's device.
LEMMA CalmAccess ==
    ASSUME DiskInv, StepInv, NEW commands, Access(cur, commands), at \in {"response", "move"},
           UNCHANGED <<at, cur>>
    PROVE  Calm' /\ spoiled \subseteq spoiled'
<1>1. /\ cur \in Drives /\ Active(cur) \in Drives /\ Channel(Active(cur)) = Channel(cur)
      /\ AType /\ DriveInv
  BY ActiveDrive DEF DiskInv, AType
<1>2. /\ \A e \in Drives \ {Active(cur)} : drive'[e] = drive[e]
      /\ spoiled \subseteq spoiled'
  BY <1>1, Accesses
<1>3. Channel(cur) \notin spoiled => Active(cur) = cur
  BY DEF StepInv, Selected, Active
<1> QED
  BY <1>1, <1>2, <1>3 DEF StepInv, Calm

\* A word of the response: the drive's own, or noise from a drive that has none.
LEMMA StepResponse ==
    ASSUME DiskInv, StepInv, read_identify_buffer
    PROVE  StepInv'
<1> DEFINE s == drive[cur]
           t == drive'[cur]
           noise == IF k = 0 THEN {Zero, Junk} ELSE {Junk}
<1>1. /\ at = "response" /\ k < WORDS /\ k' = k + 1 /\ k \in Nat /\ cur \in Drives
      /\ Access(cur, {"IDENTIFY", "READ"})
      /\ UNCHANGED <<machine, sel, at, cur, devices>>
      /\ AType /\ DriveInv
  BY DEF read_identify_buffer, DiskInv, AType
<1>2. PICK word \in read_word_port(cur, noise) : buffer' = [buffer EXCEPT ![k] = word]
  BY DEF read_identify_buffer
<1>3. Calm' /\ spoiled \subseteq spoiled'
  BY <1>1, CalmAccess
<1>4. Selected' /\ Rest' /\ Progressing'
  BY <1>1, <1>3 DEF StepInv, Selected, Rest, Progressing
<1>5. Registered'
  BY <1>1, <1>3, RegisteredSame DEF StepInv, InInit
<1>6. k \in Places /\ buffer'[k] = word /\ \A n \in 0 .. k - 1 : buffer'[n] = buffer[n]
  <2>1. k \in Places /\ \A n \in 0 .. k - 1 : n \in Places /\ n # k
    <3>1. WORDS <= COUNT_VALUES * WORDS
      BY Constants
    <3> QED
      BY <1>1, <3>1, Constants DEF Places
  <2>2. buffer = [n \in Places |-> buffer[n]]
    BY <1>1 DEF AType
  <2> QED
    BY <1>2, <2>1, <2>2
<1>7. Identifying'
  <2> SUFFICES ASSUME Channel(cur) \notin spoiled' PROVE Identifying'
    BY <1>1 DEF Identifying
  <2>1. Channel(cur) \notin spoiled
    BY <1>3
  <2>2. /\ Active(cur) = cur /\ s \in DriveState
        /\ machine.kind[cur] # "none" => ~Floating(cur)
        /\ machine.kind[cur] = "none" => Quiet(s)
    BY <1>1, <2>1, Answers
  <2>3. /\ \/ /\ Driven(cur, {"IDENTIFY", "READ"}) /\ t = Advance(s)
           \/ /\ ~Driven(cur, {"IDENTIFY", "READ"}) /\ drive' = drive
              /\ spoiled' = IF s.busy THEN spoiled \cup {Channel(cur)} ELSE spoiled
    BY <1>1, <2>2, Accesses
  <2>4. Sound(cur, s)
    BY <1>1 DEF DriveInv
  <2>5. CASE Driven(cur, {"IDENTIFY", "READ"}) /\ t = Advance(s)
    <3>1. s.drq /\ ~Quiet(s) /\ ~Floating(cur)
      BY <2>2, <2>5 DEF Driven, Quiet
    <3>2. s.cmd = "IDENTIFY" /\ s.lba = 0 /\ s.left = 1 /\ s.pos = k /\ machine.kind[cur] = "ATA"
      BY <1>1, <2>1, <3>1 DEF StepInv, Identifying
    <3>3. word = Identity(cur, k)
      BY <2>2, <3>1, <3>2 DEF read_word_port, Driven, Identity
    <3>4. \A n \in 0 .. k : buffer'[n] = Identity(cur, n)
      <4>1. \A n \in 0 .. k - 1 : buffer[n] = Identity(cur, n)
        BY <1>1, <2>1, <3>2 DEF StepInv, Identifying
      <4> QED
        BY <1>1, <1>6, <3>3, <4>1
    <3>5. s.pos < WORDS /\ s.left > 0
      BY <2>4, <3>1 DEF Sound
    <3>6. /\ s.pos + 1 < WORDS =>
                /\ t.busy = s.busy /\ t.drq = s.drq /\ t.cmd = s.cmd
                /\ t.lba = s.lba /\ t.left = s.left /\ t.pos = s.pos + 1
          /\ s.pos + 1 = WORDS /\ s.left = 1 => t = Idle
      <4> HIDE DEF s, t
      <4> QED
        BY <2>2, <2>5, <3>1, <3>5, AdvanceFields
    <3>7. CASE k + 1 < WORDS
      <4>1. /\ t.busy = s.busy /\ t.drq = s.drq /\ t.cmd = s.cmd
            /\ t.lba = s.lba /\ t.left = s.left /\ t.pos = s.pos + 1
        BY <3>2, <3>6, <3>7
      <4>2. ~Quiet(t) /\ t.cmd = "IDENTIFY" /\ t.lba = 0 /\ t.left = 1 /\ t.pos = k + 1
        BY <3>1, <3>2, <4>1 DEF Quiet
      <4>3. k' <= WORDS /\ t.pos = k' /\ \A n \in 0 .. k' - 1 : buffer'[n] = Identity(cur, n)
        BY <1>1, <3>4, <3>7, <4>2, Constants
      <4> HIDE DEF t
      <4>4. drive'[cur'] = t /\ UNCHANGED <<cur, machine>>
        BY <1>1 DEF t
      <4> QED
        BY <3>2, <4>2, <4>3, <4>4 DEF Identifying
    <3>8. CASE k + 1 = WORDS
      <4>1. t = Idle
        BY <3>2, <3>6, <3>8
      <4>2. Quiet(t)
        BY <4>1, IdleFields DEF Quiet
      <4> QED
        BY <1>1, <3>2, <3>4, <3>8, <4>2 DEF Identifying
    <3> QED
      BY <1>1, <3>7, <3>8, Constants
  <2>6. CASE ~Driven(cur, {"IDENTIFY", "READ"}) /\ drive' = drive
    <3>1. ~s.busy
      BY <2>3, <2>6
    <3>2. ~s.drq
      <4> SUFFICES ASSUME s.drq PROVE FALSE
        OBVIOUS
      <4>1. ~Quiet(s)
        BY DEF Quiet
      <4>2. s.cmd = "IDENTIFY" /\ ~Floating(cur)
        BY <1>1, <2>1, <2>2, <4>1 DEF StepInv, Identifying
      <4> QED
        BY <2>2, <2>6, <4>2 DEF Driven
    <3>3. Quiet(s) /\ machine.kind[cur] # "ATA"
      BY <1>1, <2>1, <3>1, <3>2 DEF StepInv, Identifying, Quiet
    <3>4. k = 0 => word \in {Zero, Junk}
      BY <2>2, <3>2 DEF read_word_port, Driven
    <3>5. buffer'[0] \in {Zero, Junk}
      <4>1. CASE k = 0
        BY <1>6, <3>4, <4>1
      <4>2. CASE k > 0
        BY <1>1, <1>6, <2>1, <3>3, <4>2 DEF StepInv, Identifying
      <4> QED
        BY <1>1, <4>1, <4>2
    <3> QED
      BY <1>1, <2>6, <3>2, <3>3, <3>5, Constants DEF Identifying
  <2> QED
    BY <2>3, <2>5, <2>6
<1> QED
  BY <1>3, <1>4, <1>5, <1>7 DEF StepInv

LEMMA StepExtract ==
    ASSUME DiskInv, StepInv, extract_identify_buffer
    PROVE  StepInv'
<1>1. /\ at = "response" /\ k = WORDS /\ NextDrive /\ cur \in Drives
      /\ UNCHANGED <<drivevars, spoiled>>
      /\ devices = [d \in Drives |-> devices[d]]
      /\ IF buffer[0] = Zero THEN devices' = devices
         ELSE devices' = [devices EXCEPT ![cur] = <<buffer[0], buffer[1]>>]
  BY DEF extract_identify_buffer, DiskInv, AType
<1>2. \A d \in Drives \ {cur} : devices'[d] = devices[d]
  BY <1>1
<1>3. devices[cur] = NoDevice
  BY <1>1 DEF StepInv, Registered, Passed, Drives
<1>4. ASSUME Channel(cur) \notin spoiled
      PROVE  Quiet(drive[cur])
  <2> SUFFICES ASSUME ~Quiet(drive[cur]) PROVE FALSE
    OBVIOUS
  <2>1. drive[cur].pos = k
    BY <1>1, <1>4 DEF StepInv, Identifying
  <2>2. drive[cur].pos < WORDS
    BY <1>1 DEF DiskInv, DriveInv, Sound
  <2> QED
    BY <1>1, <2>1, <2>2, Constants
<1>5. \A d \in {cur} : Channel(d) \notin spoiled => Known(d)'
  <2> SUFFICES ASSUME NEW d, d = cur, Channel(d) \notin spoiled PROVE Known(d)'
    OBVIOUS
  <2>1. machine' = machine
    BY <1>1 DEF drivevars
  <2>2. CASE machine.kind[cur] = "ATA"
    <3>1. buffer[0] = Identity(cur, 0) /\ buffer[1] = Identity(cur, 1)
      <4>1. 0 \in 0 .. k - 1 /\ 1 \in 0 .. k - 1
        BY <1>1, Constants
      <4> QED
        BY <1>1, <2>2, <4>1 DEF StepInv, Identifying
    <3>2. buffer[0] # Zero
      BY <3>1 DEF Identity, Zero
    <3>3. devices'[cur] = <<Identity(cur, 0), Identity(cur, 1)>>
      BY <1>1, <3>1, <3>2
    <3> QED
      BY <2>1, <2>2, <3>3 DEF Known
  <2>3. CASE machine.kind[cur] # "ATA"
    <3>1. buffer[0] \in {Zero, Junk}
      BY <1>1, <2>3, Constants DEF StepInv, Identifying
    <3>2. CASE buffer[0] = Zero
      BY <1>1, <1>3, <2>1, <2>3, <3>2 DEF Known
    <3>3. CASE buffer[0] # Zero
      <4>1. devices'[cur] = <<Junk, buffer[1]>>
        BY <1>1, <3>1, <3>3
      <4>2. devices'[cur][1] = Junk
        BY <4>1
      <4> QED
        BY <2>1, <2>3, <4>2 DEF Known
    <3> QED
      BY <3>2, <3>3
  <2> QED
    BY <2>2, <2>3
<1> QED
  BY <1>1, <1>2, <1>4, <1>5, StepNextDrive

LEMMA StepRequest ==
    ASSUME DiskInv, StepInv, Request
    PROVE  StepInv'
<1>1. at = "idle" /\ at' = "block" /\ UNCHANGED <<drivevars, devices, k, spoiled, undriven>>
  BY DEF Request
<1>2. Calm' /\ Selected' /\ Rest' /\ Identifying' /\ Progressing'
  BY <1>1 DEF StepInv, Calm, Selected, Rest, Identifying, Progressing, drivevars
<1>3. Registered'
  BY <1>1, RegisteredSame DEF StepInv, InInit, drivevars
<1> QED
  BY <1>2, <1>3 DEF StepInv

LEMMA StepWaits ==
    ASSUME DiskInv, StepInv, ata_block_if_busy \/ wait_for_ready \/ wait_for_data_ready
    PROVE  StepInv'
<1>1. /\ UNCHANGED <<drivevars, cur, devices, req, k, buffer, spoiled, undriven>>
      /\ \/ at = "block" /\ at' = "command"
         \/ at = "ready" /\ at' = "data"
         \/ at = "data" /\ at' = "move" /\ DataReadySeen(cur)
  BY DEF ata_block_if_busy, wait_for_ready, wait_for_data_ready, history
<1>2. Calm' /\ Selected' /\ Rest' /\ Identifying'
  BY <1>1 DEF StepInv, Calm, Selected, Rest, Identifying, drivevars
<1>3. Progressing'
  <2>1. CASE at = "block" /\ at' = "command"
    BY <2>1 DEF Progressing
  <2>2. CASE at = "ready" /\ at' = "data"
    BY <1>1, <2>2 DEF StepInv, Progressing, sector_count, drivevars
  <2>3. CASE at = "data" /\ at' = "move" /\ DataReadySeen(cur)
    <3>1. Channel(cur) \notin spoiled /\ machine.kind[cur] = "ATA" => drive[cur].drq
      BY <2>3, Answers DEF DataReadySeen
    <3> QED
      BY <1>1, <2>3, <3>1 DEF StepInv, Progressing, sector_count, drivevars
  <2> QED
    BY <1>1, <2>1, <2>2, <2>3
<1>4. Registered'
  BY <1>1, RegisteredSame DEF StepInv, InInit, drivevars
<1> QED
  BY <1>2, <1>3, <1>4 DEF StepInv

\* The command goes to the drive that was asked for, and with the count the
\* loop will use.
LEMMA StepCommand ==
    ASSUME DiskInv, StepInv, ata_pio28_pre_stages
    PROVE  StepInv'
<1> DEFINE a == sel'[Channel(cur)]
           lba == req.sector % LBA_LIMIT
           count == Counted(sector_count)
           command == IF req.write THEN "WRITE" ELSE "READ"
<1>1. AType /\ cur \in Drives /\ at = "command" /\ req.num \in Nat /\ req.sector \in Nat
  BY DEF DiskInv, AType, ata_pio28_pre_stages
<1>2. /\ sel' = IF Locked(cur) THEN sel ELSE [sel EXCEPT ![Channel(cur)] = cur]
      /\ drive' = Command(sel', cur, command, lba, count)
      /\ at' = "ready"
      /\ spoiled' = IF sector_count = 0 THEN spoiled \cup {Channel(cur)} ELSE spoiled
      /\ UNCHANGED <<machine, disk, cur, devices, req, k, buffer, undriven>>
  BY DEF ata_pio28_pre_stages, Commanded
<1>3. /\ sel' \in [0 .. 1 -> Drives] /\ \A c \in 0 .. 1 : Channel(sel'[c]) = c
      /\ ~Locked(cur) => a = cur
  BY <1>1, <1>2, SelectType
<1>4. /\ count \in Nat /\ lba \in 0 .. LBA_LIMIT - 1 /\ lba \in Nat
      /\ sector_count \in 0 .. COUNT_VALUES - 1
      /\ sector_count > 0 => count = sector_count
      /\ command \in {"IDENTIFY", "READ", "WRITE"}
  BY <1>1, CountBound, Constants DEF Counted, sector_count
<1> HIDE DEF lba, count, command
<1>5. /\ a \in Drives
      /\ \A e \in Drives \ {a} : drive'[e] = drive[e]
      /\ \/ drive' = drive /\ (machine.kind[a] = "none" \/ ~Quiet(drive[a]))
         \/ /\ drive'[a] = Working(command, lba, count)
            /\ machine.kind[a] # "none" /\ Quiet(drive[a])
  <2>1. sel' \in [0 .. 1 -> Drives]
    BY <1>3
  <2>2. drive' = Command(sel', cur, command, lba, count)
    BY <1>2
  <2> QED
    BY <1>1, <1>4, <2>1, <2>2, Commands
<1>6. Channel(cur) \in 0 .. 1 /\ Channel(a) = Channel(cur)
  BY <1>1, <1>3, ActiveDrive
<1>7. Channel(cur) \notin spoiled => a = cur /\ Quiet(drive[cur])
  <2> SUFFICES ASSUME Channel(cur) \notin spoiled PROVE a = cur /\ Quiet(drive[cur])
    OBVIOUS
  <2>1. Active(cur) \in Drives /\ Channel(Active(cur)) = Channel(cur)
    BY <1>1, ActiveDrive
  <2>2. Quiet(drive[Active(cur)]) /\ Quiet(drive[cur])
    BY <1>1, <2>1 DEF StepInv, Calm
  <2>3. ~Locked(cur)
    BY <2>2 DEF Locked, Quiet
  <2> QED
    BY <1>3, <2>2, <2>3
<1>8. spoiled \subseteq spoiled'
  BY <1>2
<1>9. Calm'
  BY <1>1, <1>2, <1>5, <1>6, <1>7, <1>8 DEF StepInv, Calm
<1>10. k = 0 /\ undriven = FALSE
  BY <1>1 DEF StepInv, Rest
<1>11. Selected' /\ Rest' /\ Identifying'
  BY <1>2, <1>7, <1>8, <1>10 DEF Selected, Rest, Identifying
<1>12. Progressing'
  <2> SUFFICES ASSUME Channel(cur) \notin spoiled' PROVE Progressing'
    BY <1>2 DEF Progressing
  <2>1. sector_count > 0 /\ Channel(cur) \notin spoiled /\ sector_count' = sector_count
    BY <1>2, <1>4, <1>8, Constants DEF sector_count
  <2>2. k' \div WORDS = 0 /\ k' % WORDS = 0 /\ ~undriven' /\ k' = 0 /\ at' # "move"
    BY <1>2, <1>10, NextWord, Constants
  <2>3. ~Quiet(drive'[cur]) =>
          /\ drive'[cur].cmd = command /\ drive'[cur].left = sector_count
          /\ drive'[cur].lba = lba /\ drive'[cur].pos = 0
    <3>1. CASE drive' = drive
      BY <1>7, <2>1, <3>1
    <3>2. CASE drive'[cur] = Working(command, lba, count)
      BY <1>4, <2>1, <3>2 DEF Working, Idle
    <3> QED
      BY <1>5, <1>7, <2>1, <3>1, <3>2
  <2>4. lba + 0 = lba /\ sector_count - 0 = sector_count /\ command' = command /\ lba' = lba
    BY <1>2, <1>4 DEF command, lba
  <2>5. \A n \in 0 .. k' - 1 : FALSE
    BY <2>2
  <2> QED
    BY <1>2, <2>1, <2>2, <2>3, <2>4, <2>5 DEF Progressing, command, lba
<1>13. Registered'
  BY <1>1, <1>2, <1>8, RegisteredSame DEF StepInv, InInit
<1> QED
  BY <1>9, <1>11, <1>12, <1>13 DEF StepInv

LEMMA StepReturn ==
    ASSUME DiskInv, StepInv, Return
    PROVE  StepInv'
<1>1. /\ at = "move" /\ at' = "idle" /\ k' = 0 /\ undriven' = FALSE
      /\ cur \in Drives /\ k \in Nat /\ ~(k < sector_count * WORDS)
      /\ UNCHANGED <<drivevars, cur, devices, spoiled>>
  BY DEF Return, Moving, DiskInv, AType
<1>2. ASSUME Channel(cur) \notin spoiled
      PROVE  Quiet(drive[cur])
  <2> SUFFICES ASSUME ~Quiet(drive[cur]) PROVE FALSE
    OBVIOUS
  <2>1. drive[cur].left = sector_count - (k \div WORDS)
    BY <1>1, <1>2 DEF StepInv, Progressing
  <2>2. drive[cur].left > 0
    BY <1>1 DEF DiskInv, DriveInv, Sound
  <2>3. sector_count \in Nat /\ sector_count * WORDS \in Nat
    <3>1. req.num \in Nat
      BY DEF DiskInv, AType
    <3>2. sector_count \in Nat
      BY <3>1, Constants DEF sector_count
    <3> QED
      BY <3>2, Constants
  <2>4. k \div WORDS >= sector_count /\ k \div WORDS \in Nat
    BY <1>1, <2>3, WordsDone, NextWord, Constants
  <2> QED
    BY <2>1, <2>2, <2>3, <2>4
<1>3. Calm'
  BY <1>1, <1>2 DEF StepInv, Calm, drivevars
<1>4. Selected' /\ Rest' /\ Identifying' /\ Progressing'
  BY <1>1 DEF Selected, Rest, Identifying, Progressing
<1>5. Registered'
  BY <1>1, RegisteredSame DEF StepInv, InInit, drivevars
<1> QED
  BY <1>3, <1>4, <1>5 DEF StepInv

\* Only a drive in the middle of its command can be served on a channel in
\* step, and it goes on where it was.
LEMMA StepServe ==
    ASSUME DiskInv, StepInv, NEW d \in Drives, serve(d)
    PROVE  StepInv'
<1>1. AType /\ DriveInv /\ cur \in Drives
      /\ UNCHANGED <<machine, sel, disk, at, cur, devices, req, k, buffer, spoiled, undriven>>
  BY DEF DiskInv, AType, serve, history
<1>2. /\ \A e \in Drives \ {d} : drive'[e] = drive[e]
      /\ drive[d].busy /\ ~drive'[d].busy
      /\ drive'[d].cmd = drive[d].cmd /\ drive'[d].lba = drive[d].lba
      /\ drive'[d].left = drive[d].left /\ drive'[d].pos = drive[d].pos
      /\ drive[d].cmd = "IDENTIFY" /\ drive[d].lba < CAPACITY =>
            (drive'[d].drq <=> machine.kind[d] = "ATA")
  BY <1>1, Serves
<1>3. ~Quiet(drive[d]) /\ ~drive[d].drq
  BY <1>1, <1>2 DEF Quiet, DriveInv, Sound
<1>4. Calm'
  BY <1>1, <1>2, <1>3 DEF StepInv, Calm
<1>5. Selected' /\ Rest'
  BY <1>1 DEF StepInv, Selected, Rest
<1>6. Registered'
  BY <1>1, RegisteredSame DEF StepInv, InInit
<1>7. CASE d # cur
  <2>1. drive'[cur] = drive[cur]
    BY <1>1, <1>2, <1>7
  <2>2. Identifying' /\ Progressing'
    BY <1>1, <2>1 DEF StepInv, Identifying, Progressing, sector_count
  <2> QED
    BY <1>4, <1>5, <1>6, <2>2 DEF StepInv
<1>8. CASE d = cur
  <2>1. Identifying'
    <3> SUFFICES ASSUME at \in {"probe", "response"}, Channel(cur) \notin spoiled
                 PROVE  Identifying'
      BY <1>1 DEF Identifying
    <3>1. /\ drive[cur].cmd = "IDENTIFY" /\ drive[cur].lba = 0 /\ drive[cur].left = 1
          /\ drive[cur].pos = k
      BY <1>3, <1>8 DEF StepInv, Identifying
    <3>2. drive'[cur].drq <=> machine.kind[cur] = "ATA"
      BY <1>2, <1>8, <3>1, Constants
    <3>3. machine.kind[cur] = "ATA" => ~Quiet(drive'[cur])
      BY <3>2 DEF Quiet
    <3> QED
      BY <1>1, <1>2, <1>8, <3>1, <3>2, <3>3 DEF StepInv, Identifying
  <2>2. Progressing'
    <3> SUFFICES ASSUME at \in {"ready", "data", "move"}, Channel(cur) \notin spoiled
                 PROVE  Progressing'
      BY <1>1 DEF Progressing
    <3>1. ~(machine.kind[cur] = "ATA" /\ at = "move" /\ k < WORDS)
      BY <1>3, <1>8 DEF StepInv, Progressing
    <3> QED
      BY <1>1, <1>2, <1>3, <1>8, <3>1 DEF StepInv, Progressing, sector_count
  <2> QED
    BY <1>4, <1>5, <1>6, <2>1, <2>2 DEF StepInv
<1> QED
  BY <1>7, <1>8

Direction == IF req.write THEN "WRITE" ELSE "READ"

\* One word of a transfer in step: the drive hands over or takes the word
\* the loop is at, unless it has failed; the driver may outrun it only
\* behind the first sector, and the channel is then spoiled.
LEMMA Moves ==
    ASSUME DiskInv, StepInv, NEW commands, Access(cur, commands), Direction \in commands,
           Moving, k' = k + 1, Channel(cur) \notin spoiled', UNCHANGED machine
    PROVE  LET s == drive[cur]
               t == drive'[cur] IN
           /\ Active(cur) = cur /\ sector_count > 0 /\ Channel(cur) \notin spoiled
           /\ ~Quiet(t) => /\ t.cmd = Direction /\ t.pos = k' % WORDS
                           /\ t.left = sector_count - (k' \div WORDS)
                           /\ t.lba = (req.sector % LBA_LIMIT) + (k' \div WORDS)
           /\ machine.kind[cur] = "ATA" /\ k' < WORDS => t.drq
           /\ machine.kind[cur] = "ATA" /\ k' <= WORDS => ~undriven'
           /\ ~undriven' =>
                 /\ ~undriven /\ Driven(cur, {Direction})
                 /\ s.lba = (req.sector % LBA_LIMIT) + (k \div WORDS) /\ s.pos = k % WORDS
<1> DEFINE s == drive[cur]
           t == drive'[cur]
<1>1. AType /\ DriveInv /\ cur \in Drives /\ at = "move" /\ k \in Nat /\ req.sector \in Nat /\ req.num \in Nat
  BY DEF DiskInv, AType, Moving
<1>2. Channel(cur) \notin spoiled
  BY <1>1, Accesses
<1>3. /\ Active(cur) = cur /\ s \in DriveState
      /\ machine.kind[cur] # "none" => ~Floating(cur)
      /\ machine.kind[cur] = "none" => Quiet(s)
  BY <1>1, <1>2, Answers
<1>4. /\ sector_count > 0
      /\ ~Quiet(s) => /\ s.cmd = Direction /\ s.pos = k % WORDS
                      /\ s.left = sector_count - (k \div WORDS)
                      /\ s.lba = (req.sector % LBA_LIMIT) + (k \div WORDS)
      /\ machine.kind[cur] = "ATA" /\ k < WORDS => s.drq
      /\ machine.kind[cur] = "ATA" /\ k <= WORDS => ~undriven
  BY <1>1, <1>2 DEF StepInv, Progressing, Direction
<1>5. Sound(cur, s)
  BY <1>1 DEF DriveInv
<1>6. \/ Driven(cur, commands) /\ t = Advance(s) /\ UNCHANGED <<spoiled, undriven>>
      \/ /\ ~Driven(cur, commands) /\ drive' = drive /\ undriven' = TRUE
         /\ spoiled' = IF s.busy THEN spoiled \cup {Channel(cur)} ELSE spoiled
  BY <1>1, <1>3, Accesses
<1>7. CASE Driven(cur, commands) /\ t = Advance(s) /\ UNCHANGED <<spoiled, undriven>>
  <2>1. s.drq /\ ~Quiet(s) /\ ~Floating(cur)
    BY <1>3, <1>7 DEF Driven, Quiet
  <2>2. s.pos < WORDS /\ s.left > 0 /\ s.pos \in Nat /\ s.left \in Nat /\ s.lba \in Nat
    BY <1>3, <1>5, <2>1 DEF Sound, DriveState
  <2>3. /\ s.pos + 1 < WORDS =>
              /\ t.busy = s.busy /\ t.drq = s.drq /\ t.cmd = s.cmd
              /\ t.lba = s.lba /\ t.left = s.left /\ t.pos = s.pos + 1
        /\ s.pos + 1 = WORDS /\ s.left = 1 => t = Idle
        /\ s.pos + 1 = WORDS /\ s.left > 1 =>
              /\ t.busy = TRUE /\ t.drq = FALSE /\ t.cmd = s.cmd
              /\ t.lba = s.lba + 1 /\ t.left = s.left - 1 /\ t.pos = 0
    <3>1. s \in DriveState /\ s.drq /\ s.pos < WORDS /\ s.left > 0 /\ t = Advance(s)
      BY <1>3, <1>7, <2>1, <2>2
    <3> HIDE DEF s, t
    <3> QED
      BY <3>1, AdvanceFields
  <2>4. /\ s.cmd = Direction /\ s.pos = k % WORDS
        /\ s.left = sector_count - (k \div WORDS)
        /\ s.lba = (req.sector % LBA_LIMIT) + (k \div WORDS)
    BY <1>4, <2>1
  <2>5. Driven(cur, {Direction})
    BY <1>3, <2>1, <2>4 DEF Driven
  <2>6. /\ k \div WORDS \in Nat /\ req.sector % LBA_LIMIT \in Nat /\ sector_count \in Nat
        /\ (k % WORDS) + 1 < WORDS =>
              k' \div WORDS = k \div WORDS /\ k' % WORDS = (k % WORDS) + 1
        /\ (k % WORDS) + 1 = WORDS =>
              k' \div WORDS = (k \div WORDS) + 1 /\ k' % WORDS = 0
        /\ k' < WORDS => (k % WORDS) + 1 < WORDS
    <3>1. req.sector % LBA_LIMIT \in Nat /\ sector_count \in Nat
      BY <1>1, Constants DEF sector_count
    <3> QED
      BY <1>1, <3>1, NextWord, Zenon
  <2>7. ~Quiet(t) => /\ t.cmd = Direction /\ t.pos = k' % WORDS
                     /\ t.left = sector_count - (k' \div WORDS)
                     /\ t.lba = (req.sector % LBA_LIMIT) + (k' \div WORDS)
    <3>1. CASE s.pos + 1 < WORDS
      BY <2>3, <2>4, <2>6, <3>1
    <3>2. CASE s.pos + 1 = WORDS /\ s.left = 1
      BY <2>3, <3>2, IdleFields DEF Quiet
    <3>3. CASE s.pos + 1 = WORDS /\ s.left > 1
      BY <2>2, <2>3, <2>4, <2>6, <3>3
    <3> QED
      BY <2>2, <3>1, <3>2, <3>3, Constants
  <2>8. k' < WORDS => t.drq
    BY <2>1, <2>3, <2>4, <2>6
  <2>9. machine.kind[cur] = "ATA" /\ k' <= WORDS => ~undriven'
    BY <1>1, <1>4, <1>7, Constants
  <2> QED
    BY <1>2, <1>3, <1>4, <1>7, <2>4, <2>5, <2>7, <2>8, <2>9
<1>8. CASE /\ ~Driven(cur, commands) /\ drive' = drive /\ undriven' = TRUE
           /\ spoiled' = IF s.busy THEN spoiled \cup {Channel(cur)} ELSE spoiled
  <2>1. ~s.busy
    BY <1>8
  <2>2. ~s.drq
    <3> SUFFICES ASSUME s.drq PROVE FALSE
      OBVIOUS
    <3>1. ~Quiet(s)
      BY DEF Quiet
    <3>2. s.cmd = Direction /\ ~Floating(cur)
      BY <1>3, <1>4, <3>1
    <3> QED
      BY <1>3, <1>8, <3>2 DEF Driven
  <2>3. Quiet(t) /\ t = s
    BY <1>8, <2>1, <2>2 DEF Quiet
  <2>4. machine.kind[cur] = "ATA" => k >= WORDS
    BY <1>1, <1>4, <2>2, Constants
  <2>5. ~(machine.kind[cur] = "ATA" /\ k' <= WORDS)
    BY <1>1, <2>4, Constants
  <2>6. ~(machine.kind[cur] = "ATA" /\ k' < WORDS)
    BY <1>1, <2>4, Constants
  <2> QED
    BY <1>2, <1>3, <1>4, <1>8, <2>3, <2>5, <2>6
<1> QED
  BY <1>6, <1>7, <1>8

LEMMA StepMove ==
    ASSUME DiskInv, StepInv, ata_pio28_read \/ ata_pio28_write
    PROVE  StepInv'
<1> DEFINE commands == IF req.write THEN {"WRITE"} ELSE {"IDENTIFY", "READ"}
<1>1. /\ Moving /\ Access(cur, commands) /\ k' = k + 1
      /\ at = "move" /\ UNCHANGED <<machine, sel, at, cur, devices, req>>
      /\ cur \in Drives /\ k \in Nat /\ req.sector \in Nat /\ req.num \in Nat
  BY DEF ata_pio28_read, ata_pio28_write, Moving, DiskInv, AType
<1>2. Direction \in commands
  BY DEF Direction
<1> HIDE DEF commands
<1>3. Calm' /\ spoiled \subseteq spoiled'
  BY <1>1, CalmAccess
<1>4. Selected' /\ Rest' /\ Identifying'
  BY <1>1, <1>3 DEF StepInv, Selected, Rest, Identifying
<1>5. Registered'
  BY <1>1, <1>3, RegisteredSame DEF StepInv, InInit
<1>6. Progressing'
  <2> SUFFICES ASSUME Channel(cur) \notin spoiled' PROVE Progressing'
    BY <1>1 DEF Progressing
  <2> DEFINE s == drive[cur]
             t == drive'[cur]
  <2>1. /\ Active(cur) = cur /\ sector_count > 0 /\ Channel(cur) \notin spoiled
        /\ ~Quiet(t) => /\ t.cmd = Direction /\ t.pos = k' % WORDS
                        /\ t.left = sector_count - (k' \div WORDS)
                        /\ t.lba = (req.sector % LBA_LIMIT) + (k' \div WORDS)
        /\ machine.kind[cur] = "ATA" /\ k' < WORDS => t.drq
        /\ machine.kind[cur] = "ATA" /\ k' <= WORDS => ~undriven'
        /\ ~undriven' =>
              /\ ~undriven /\ Driven(cur, {Direction})
              /\ s.lba = (req.sector % LBA_LIMIT) + (k \div WORDS) /\ s.pos = k % WORDS
    BY <1>1, <1>2, Moves
  <2>2. ASSUME ~undriven', ~req.write, req.sector < LBA_LIMIT
        PROVE  \A n \in 0 .. k' - 1 :
                  buffer'[n] = disk'[cur][<<req.sector + (n \div WORDS), n % WORDS>>]
    <3>1. PICK word \in read_word_port(cur, {Junk}) : buffer' = [buffer EXCEPT ![k] = word]
      BY <2>2 DEF ata_pio28_read, ata_pio28_write
    <3>2. disk' = disk
      BY <2>2 DEF ata_pio28_read, ata_pio28_write
    <3>3. word = disk[cur][<<s.lba, s.pos>>]
      BY <2>1, <2>2, <3>1 DEF read_word_port, Direction
    <3>4. s.lba = req.sector + (k \div WORDS) /\ s.pos = k % WORDS
      <4>1. req.sector % LBA_LIMIT = req.sector
        BY <1>1, <2>2, Constants
      <4> QED
        BY <2>1, <2>2, <4>1
    <3>5. k \in Places /\ \A n \in 0 .. k - 1 : n \in Places /\ n # k
      <4>1. sector_count \in 0 .. COUNT_VALUES - 1
        BY <1>1, Constants DEF sector_count
      <4>2. sector_count * WORDS <= COUNT_VALUES * WORDS
        BY <4>1, Constants
      <4>3. k < sector_count * WORDS /\ sector_count * WORDS \in Nat /\ COUNT_VALUES * WORDS \in Nat
        BY <1>1, <4>1, Constants DEF Moving
      <4> QED
        BY <1>1, <4>2, <4>3 DEF Places
    <3>6. buffer'[k] = word /\ \A n \in 0 .. k - 1 : buffer'[n] = buffer[n]
      BY <3>1, <3>5 DEF DiskInv, AType
    <3>7. \A n \in 0 .. k - 1 : buffer[n] = disk[cur][<<req.sector + (n \div WORDS), n % WORDS>>]
      BY <1>1, <2>1, <2>2 DEF StepInv, Progressing
    <3>8. \A n \in 0 .. k' - 1 : n \in 0 .. k - 1 \/ n = k
      BY <1>1
    <3> HIDE DEF s
    <3> QED
      BY <3>2, <3>3, <3>4, <3>6, <3>7, <3>8
  <2>3. sector_count' = sector_count
    BY <1>1 DEF sector_count
  <2> HIDE DEF s
  <2> QED
    BY <1>1, <2>1, <2>2, <2>3 DEF Progressing, Direction
<1> QED
  BY <1>3, <1>4, <1>5, <1>6 DEF StepInv

LEMMA StepNext == DiskInv /\ StepInv /\ [Next]_vars => StepInv'
<1> SUFFICES ASSUME DiskInv, StepInv, [Next]_vars PROVE StepInv'
  OBVIOUS
<1>1. CASE ata_init
  BY <1>1, StepSelect, StepIdentify, StepStatus, StepResponse, StepExtract DEF ata_init
<1>2. CASE Request
  BY <1>2, StepRequest
<1>3. CASE Transfer
  BY <1>3, StepWaits, StepCommand, StepMove, StepReturn DEF Transfer
<1>4. ASSUME NEW d \in Drives, serve(d) PROVE StepInv'
  BY <1>4, StepServe
<1>5. CASE UNCHANGED vars
  <2>1. Calm' /\ Selected' /\ Rest' /\ Identifying' /\ Progressing'
    BY <1>5 DEF vars, drivevars, history, StepInv, Calm, Selected, Rest, Identifying,
                Progressing, sector_count
  <2>2. Registered'
    BY <1>5 DEF vars, drivevars, history, StepInv, Registered, Passed, Known
  <2> QED
    BY <2>1, <2>2 DEF StepInv
<1> QED
  BY <1>1, <1>2, <1>3, <1>4, <1>5 DEF Next

LEMMA StepAlways == Spec => [](DiskInv /\ StepInv)
BY DiskInit, DiskNext, StepInit, StepNext, PTL DEF Spec

\* ata_init registers every ATA drive it does not outrun, with its own
\* identification, and takes no drive for another.
THEOREM Found == Spec => []DrivesFound
<1>1. StepInv => DrivesFound
  <2> SUFFICES ASSUME StepInv, NEW d \in Drives, Passed(d), Channel(d) \notin spoiled
               PROVE  /\ machine.kind[d] = "ATA" => devices[d] # NoDevice
                      /\ devices[d] # NoDevice /\ devices[d][1] # Junk =>
                            /\ machine.kind[d] = "ATA"
                            /\ devices[d] = <<<<"identify", d, 0>>, <<"identify", d, 1>>>>
    BY DEF DrivesFound
  <2>1. Known(d)
    BY DEF StepInv, Registered
  <2>2. <<Identity(d, 0), Identity(d, 1)>> # NoDevice
    BY DEF NoDevice
  <2> QED
    BY <2>1, <2>2 DEF Known, Identity
<1> QED
  BY <1>1, StepAlways, PTL

\* While driver and drive are in step, ata_pio28_read delivers the sectors
\* asked for, whatever came before.
THEOREM ReadsAsked == Spec => []ReadExact
<1>1. StepInv => ReadExact
  BY DEF StepInv, ReadExact, Progressing, InStep
<1> QED
  BY <1>1, StepAlways, PTL

\* The two waits of a transfer are enough for its first sector.
THEOREM FirstSector == Spec => []FirstSectorProvided
<1>1. AType /\ StepInv => FirstSectorProvided
  BY Constants DEF AType, StepInv, FirstSectorProvided, Progressing
<1>2. DiskInv => AType
  BY DEF DiskInv
<1> QED
  BY <1>1, <1>2, StepAlways, PTL
=============================================================================
