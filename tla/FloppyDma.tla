------------------------------- MODULE FloppyDma -------------------------------
(***************************************************************************)
(* The CompuPro Disk 1A: a uPD765 behind four ports, with a DMA address    *)
(* counter, pHOLD and an interrupt wire, a drive select register that may  *)
(* override the chip's unit lines, and motors that stop by themselves.     *)
(*                                                                         *)
(* Every access and every deadline ends in refresh(): poll the chip,       *)
(* announce both wires, arm one deadline.  A granted bus cycle moves one   *)
(* byte.  MOUNT and UNMOUNT refresh nothing; the next access, deadline or  *)
(* pump notices.  Accesses are not ordered against grants: the debugger    *)
(* drains a burst between two instructions, but IN and OUT at the prompt   *)
(* come in the middle of one.                                              *)
(***************************************************************************)
EXTENDS Upd765

CONSTANTS
  ByteValues,  \* values of a byte of the DMA address, 256
  MotorT,      \* T-states the motors run on
  Sectors,     \* sectors of a track
  Rigs,        \* the machines looked at
  MaxMoves     \* what is done to the machine meanwhile

\* A rig: commands, what its guest gives, at most gives of them besides Sense Interrupt; wp, the protected drives; heads, the sides of its
\* diskettes; moves, what else may happen; nd, after a Specify without DMA; at0, the cylinder heads start on.
ASSUME FloppyDmaAssumption ==
  {ByteValues, MotorT, Sectors, MaxMoves} \subseteq Nat \ {0}

\* A command as the chip has it with its last byte: the unit and the head, and what else it takes.
Commands ==
  [op : {"sense_int", "unknown"}]
    \cup [op : {"sense_drive", "recalibrate"}, us : Drives, hd : Heads]
    \cup [op : {"specify"}, us : Drives, hd : Heads, nd : BOOLEAN]
    \cup [op : {"seek"}, us : Drives, hd : Heads, c : Nat]
    \cup [op : DataOps, us : Drives, hd : Heads, mt : BOOLEAN, c : Nat, h : Nat, r : Nat, eot : Nat, good : BOOLEAN]
ASSUME RigsAssumption ==
  \A r \in Rigs :
    /\ r.commands \subseteq Commands
    /\ r.heads \in {1, 2} /\ r.at0 \in 0..(Cyls - 1) /\ r.nd \in BOOLEAN

VARIABLES
  rig,    \* the machine, of Rigs
  chip,   \* the uPD765
  drive,  \* drive[u]: what is in it, and its head
  cable,  \* the drive select register: alternate select, two-sided forced
  dma,    \* the address counter
  mem,    \* mem[a]: the guest's memory, each byte by its origin
  hold,   \* the card pulls pHOLD
  int,    \* the card's interrupt wire
  wake,   \* T-states until its deadline, 0 for none
  motor,  \* on; off, T-states until they stop; wake, their deadline
  job,    \* history: the transfer in progress, and what it began from
  calibrated,  \* history: the units whose cylinder count is the drive's
  left    \* what is left of the bounds

wires == <<hold, int, wake>>
past == <<job, calibrated>>
vars == <<rig, chip, drive, cable, dma, mem, wires, motor, past, left>>

Addresses == 0..(ByteValues * ByteValues - 1)
Address(d) == d % (ByteValues * ByteValues)
NoJob == [cmd |-> NoCommand]
Straight == [alternate |-> NoUnit, twoSided |-> FALSE]
Machine == [chip |-> chip, drive |-> drive, cable |-> cable]

\* The diskette u as it comes, and the guest's memory.
Original(u) ==
  [p \in (0..(Cyls - 1)) \X Heads |->
     [n \in 1..Sectors |-> [i \in 1..SecLen |-> <<u, p[1], p[2], n, i>>]]]
Blank == [a \in Addresses |-> <<a>>]
Diskette(u, heads, wp) ==
  [in |-> TRUE, wp |-> wp, heads |-> heads, head |-> 0, side |-> 0, data |-> Original(u)]
-----------------------------------------------------------------------------
(***************************************************************************)
(* What every handler ends in.                                             *)
(***************************************************************************)
Least(S) == IF S = {} THEN 0 ELSE CHOOSE w \in S : \A v \in S : w <= v

\* refresh, on the machine as the handler leaves it.
Refresh(s) ==
  \E t \in {Polled(s)} :
    /\ chip' = t.chip /\ drive' = t.drive /\ cable' = t.cable
    /\ hold' = Drq(t.chip) /\ int' = IntPin(t.chip)
    /\ wake' = Least(Edges(t.chip))

\* touched: the motors run on from here.
Touched(on) ==
  motor' = [on |-> on, off |-> MotorT,
            wake |-> IF on /\ motor.wake = 0 THEN MotorT ELSE motor.wake]

\* History: a unit whose recalibration ended well, on a straight cable, is to be trusted until
\* its diskette is changed, it is sent off the disk or a recalibration fails or is cut short.
Recalibrating(c, u) == c.seek[u].active /\ c.seek[u].recal
SentOff(c, u) == c.seek[u].active /\ c.seek[u].target >= Cyls
Calibrations(gone) ==
  calibrated' = IF cable # Straight \/ cable' # Straight THEN {}
    ELSE {u \in Drives \ gone :
            \/ Recalibrating(chip, u) /\ chip'.seek[u].recal /\ chip'.pending[u] = {"SE"}
            \/ /\ u \in calibrated /\ ~SentOff(chip', u)
               /\ Recalibrating(chip, u) => Recalibrating(chip', u)}

\* History: the transfer begun goes on, undisturbed or not, by n bytes more.
JobGoesOn(n, disturbed) ==
  job' = IF job = NoJob \/ chip'.phase = "command" THEN NoJob
         ELSE [job EXCEPT !.moved = @ + n,
                 !.clean = @ /\ ~disturbed /\ cable' = cable
                             /\ drive'[job.unit].head = drive[job.unit].head]

\* A port access that leaves s.
PortCycle(s) == Refresh(s) /\ Touched(motor.on) /\ Calibrations({}) /\ UNCHANGED rig
-----------------------------------------------------------------------------
(***************************************************************************)
(* The guest at the ports.                                                 *)
(***************************************************************************)
\* The status registers, read: nothing moves but what the chip's poll moves.
ReadStatus ==
  /\ PortCycle(Polled(Machine)) /\ JobGoesOn(0, FALSE)
  /\ UNCHANGED <<dma, mem, left>>

\* History: the k-th sector a command asks for, its side and its number, from R up to EOT and
\* then over the other side when multi-track; behind EOT already, whatever there is; and how many.
FirstSide(c) == c.eot - c.r + 1
Asked(c, k) ==
  IF c.r <= c.eot /\ k > FirstSide(c) THEN <<1, k - FirstSide(c)>> ELSE <<c.hd, c.r + k - 1>>
Complete(c, k) ==
  c.r <= c.eot /\ k = FirstSide(c) + (IF c.mt /\ c.hd = 0 THEN c.eot ELSE 0)
NewJob(c) ==
  IF c.op \notin {"read", "write"} \/ chip'.phase \notin {"wait", "exec"} THEN NoJob
  ELSE [cmd |-> c, unit |-> Unit([cable |-> cable], c.us), start |-> dma, moved |-> 0, clean |-> TRUE,
        drive |-> drive', mem |-> mem]

FirstByte(c) ==
  /\ left.commands > 0 \/ c.op = "sense_int"
  /\ \E s \in {Polled(Machine)} :
       /\ s.chip.phase = "command" /\ s.chip.got = NoCommand
       /\ PortCycle(StartCommand(s, c))
  /\ left' = IF c.op = "sense_int" THEN left ELSE [left EXCEPT !.commands = @ - 1]
  /\ job' = NoJob /\ UNCHANGED <<dma, mem>>

LastByte ==
  /\ chip.phase = "command" /\ chip.got # NoCommand
  /\ PortCycle(Execute(Polled(Machine)))
  /\ job' = NewJob(chip.got) /\ UNCHANGED <<dma, mem, left>>

ReadResult ==
  /\ chip.phase = "result"
  /\ PortCycle(ResultRead(Polled(Machine))) /\ JobGoesOn(0, FALSE)
  /\ UNCHANGED <<dma, mem, left>>

\* Without DMA the guest moves the bytes: it puts them where the transfer began, in order.
HandRead ==
  /\ chip.nd /\ Moving(chip) /\ chip.toMem
  /\ \E s \in {Polled(Machine)} :
       /\ PortCycle(ByteOut(s))
       /\ mem' = IF job # NoJob /\ ByteAvailable(s)
                 THEN [mem EXCEPT ![Address(job.start + job.moved)] = ByteRead(s)] ELSE mem
       /\ JobGoesOn(IF ByteAvailable(s) THEN 1 ELSE 0, FALSE)
  /\ UNCHANGED <<dma, left>>
HandWrite ==
  /\ chip.nd /\ Moving(chip) /\ ~chip.toMem
  /\ \E s \in {Polled(Machine)}, at \in {IF job = NoJob THEN dma ELSE job.start + job.moved} :
       /\ PortCycle(ByteIn(s, mem[Address(at)]))
       /\ JobGoesOn(IF ByteAvailable(s) THEN 1 ELSE 0, FALSE)
  /\ UNCHANGED <<dma, mem, left>>

\* OUT BASE+2: the address, most significant byte first.
WriteDma(b) ==
  /\ "dma" \in rig.moves /\ left.moves > 0
  /\ dma' = (dma * ByteValues + b) % (ByteValues * ByteValues * ByteValues)
  /\ PortCycle(Polled(Machine)) /\ JobGoesOn(0, TRUE)
  /\ left' = [left EXCEPT !.moves = @ - 1] /\ UNCHANGED mem

\* OUT BASE+0: the drive select register.
WriteSelect(k) ==
  /\ "select" \in rig.moves /\ left.moves > 0
  /\ PortCycle([Polled(Machine) EXCEPT !.cable = k]) /\ JobGoesOn(0, k # cable)
  /\ left' = [left EXCEPT !.moves = @ - 1] /\ UNCHANGED <<dma, mem>>

\* OUT BASE+3: the motors.
WriteMotor(on) ==
  /\ "motor" \in rig.moves
  /\ Refresh(Polled(Machine)) /\ Touched(on) /\ Calibrations({}) /\ JobGoesOn(0, FALSE)
  /\ UNCHANGED <<rig, dma, mem, left>>
-----------------------------------------------------------------------------
(***************************************************************************)
(* DMA: one granted cycle, BusMaster::step.                                *)
(***************************************************************************)
TransferIn ==
  /\ hold /\ Drq(chip) /\ chip.toMem
  /\ \E s \in {Polled(Machine)} :
       /\ Drq(s.chip) /\ Refresh(ByteOut(s))
       /\ IF ByteAvailable(s)
          THEN /\ mem' = [mem EXCEPT ![Address(dma)] = ByteRead(s)]
               /\ dma' = (dma + 1) % (ByteValues * ByteValues * ByteValues)
               /\ JobGoesOn(1, FALSE)
          ELSE UNCHANGED <<mem, dma>> /\ JobGoesOn(0, FALSE)
  /\ Calibrations({}) /\ UNCHANGED <<rig, motor, left>>

TransferOut ==
  /\ hold /\ Drq(chip) /\ ~chip.toMem
  /\ \E s \in {Polled(Machine)} :
       /\ Drq(s.chip) /\ Refresh(ByteIn(s, mem[Address(dma)]))
       /\ JobGoesOn(IF ByteAvailable(s) THEN 1 ELSE 0, FALSE)
  /\ dma' = (dma + 1) % (ByteValues * ByteValues * ByteValues)
  /\ Calibrations({}) /\ UNCHANGED <<rig, mem, motor, left>>

Transfer1 == TransferIn \/ TransferOut
-----------------------------------------------------------------------------
(***************************************************************************)
(* Time, the operator and the world.                                       *)
(***************************************************************************)
Less(t) == IF t > 0 THEN t - 1 ELSE 0
Aged(c) ==
  [c EXCEPT !.due = IF c.phase = "wait" THEN Less(@) ELSE 0,
            !.unload = IF @ = Forever THEN @ ELSE Less(@),
            !.seek = [u \in Drives |-> [c.seek[u] EXCEPT !.due = Less(@)]]]

\* motorCheck, when its deadline comes.
MotorAged ==
  LET off == Less(motor.off) IN
    IF motor.wake # 1 THEN [motor EXCEPT !.off = off, !.wake = Less(@)]
    ELSE IF off = 0 THEN [on |-> FALSE, off |-> 0, wake |-> 0]
    ELSE [motor EXCEPT !.off = off, !.wake = IF motor.on THEN off ELSE 0]

Tick ==
  /\ \E s \in {[Machine EXCEPT !.chip = Aged(@)]} :
       IF wake = 1 THEN Refresh(s)
       ELSE chip' = s.chip /\ wake' = Less(wake) /\ UNCHANGED <<drive, cable, hold, int>>
  /\ motor' = MotorAged
  /\ Calibrations({}) /\ JobGoesOn(0, FALSE) /\ UNCHANGED <<rig, dma, mem, left>>

\* The machine's pump between slices.
Pump ==
  /\ Refresh(Machine) /\ Calibrations({}) /\ JobGoesOn(0, FALSE)
  /\ UNCHANGED <<rig, dma, mem, motor, left>>

Mount(u) ==
  /\ "swap" \in rig.moves /\ left.moves > 0
  /\ drive' = [drive EXCEPT ![u] = [Diskette(u, rig.heads, u \in rig.wp) EXCEPT !.side = drive[u].side]]
  /\ left' = [left EXCEPT !.moves = @ - 1]
  /\ UNCHANGED <<rig, chip, cable, dma, mem, wires, motor>>
  /\ Calibrations({u}) /\ JobGoesOn(0, TRUE)

Unmount(u) ==
  /\ "swap" \in rig.moves /\ left.moves > 0 /\ drive[u].in
  /\ drive' = [drive EXCEPT ![u].in = FALSE, ![u].wp = FALSE]
  /\ left' = [left EXCEPT !.moves = @ - 1]
  /\ UNCHANGED <<rig, chip, cable, dma, mem, wires, motor>>
  /\ Calibrations({u}) /\ JobGoesOn(0, TRUE)

\* RESET and POWER: the card's registers, then the chip.
ResetWith(s) ==
  /\ "reset" \in rig.moves /\ left.moves > 0
  /\ left' = [left EXCEPT !.moves = @ - 1]
  /\ Refresh(s) /\ motor' = [on |-> FALSE, off |-> motor.off, wake |-> 0]
  /\ job' = NoJob /\ UNCHANGED <<rig, dma, mem>>
Reset == ResetWith(ResetChip([Machine EXCEPT !.cable = Straight])) /\ Calibrations({})
PowerOn == ResetWith(PowerChip([Machine EXCEPT !.cable = Straight])) /\ Calibrations(Drives)
-----------------------------------------------------------------------------
\* A machine that has been powered on, its guest past Specify where the rig says so.
Init ==
  /\ rig \in Rigs
  /\ drive = [u \in Drives |-> [Diskette(u, rig.heads, u \in rig.wp) EXCEPT !.head = rig.at0]]
  /\ cable = Straight /\ dma = 0 /\ mem = Blank
  /\ chip = [PowerChip([chip |-> BlankChip, drive |-> drive, cable |-> cable]).chip
               EXCEPT !.specified = TRUE, !.nd = rig.nd, !.pcn = [u \in Drives |-> rig.at0]]
  /\ hold = FALSE /\ int = TRUE /\ wake = 0
  /\ motor = [on |-> FALSE, off |-> 0, wake |-> 0]
  /\ job = NoJob /\ calibrated = {}
  /\ left = [commands |-> rig.gives, moves |-> MaxMoves]

Guest ==
  \/ ReadStatus \/ LastByte \/ ReadResult \/ HandRead \/ HandWrite
  \/ \E c \in rig.commands : FirstByte(c)
  \/ \E b \in 0..1 : WriteDma(b)
  \/ \E k \in [alternate : Drives \cup {NoUnit}, twoSided : BOOLEAN] : WriteSelect(k)
  \/ \E on \in BOOLEAN : WriteMotor(on)

World == Tick \/ Pump \/ Reset \/ PowerOn \/ \E u \in Drives : Mount(u) \/ Unmount(u)

Next == Guest \/ Transfer1 \/ World
Spec == Init /\ [][Next]_vars
-----------------------------------------------------------------------------
(***************************************************************************)
(* What is to hold.                                                        *)
(***************************************************************************)
TypeOK ==
  /\ rig \in Rigs /\ cable \in [alternate : Drives \cup {NoUnit}, twoSided : BOOLEAN]
  /\ dma \in 0..(ByteValues * ByteValues * ByteValues - 1) /\ DOMAIN mem = Addresses
  /\ chip.phase \in {"command", "wait", "exec", "result"}
  /\ chip.idx \in 0..chip.want /\ Len(chip.buf) <= SecLen /\ chip.left \in 0..2
  /\ hold \in BOOLEAN /\ int \in BOOLEAN /\ wake \in Nat
  /\ motor \in [on : BOOLEAN, off : 0..MotorT, wake : 0..MotorT]
  /\ calibrated \subseteq Drives

\* Nobody polls this card: at every T-state pHOLD and the interrupt wire are what the chip
\* asks for, no step of a drive and no settled head is later than the one deadline armed,
\* a command past its last byte has a byte to move or that deadline, so that it comes to its
\* result, and motors that run have a deadline that stops them.
WiresAreTheChips ==
  /\ hold = Drq(chip) /\ int = IntPin(chip)
  /\ \A u \in Drives : chip.seek[u].active => wake \in 1..chip.seek[u].due
  /\ chip.phase = "wait" => wake \in 1..chip.due
  /\ chip.phase = "exec" => Moving(chip)
  /\ motor.on => motor.wake \in 1..motor.off

\* What a transfer has moved, where it should be, and everything else.
Moved == job.moved \div SecLen
MovedAddresses == {Address(job.start + i) : i \in 0..(job.moved - 1)}
Agrees ==
  \A k \in 1..Moved, i \in 1..SecLen :
    mem[Address(job.start + (k - 1) * SecLen + i - 1)]
      = drive[job.unit].data[<<job.cmd.c, Asked(job.cmd, k)[1]>>][Asked(job.cmd, k)[2]][i]
OthersAsBefore ==
  IF job.cmd.op = "read"
  THEN /\ \A u \in Drives : drive[u].data = job.drive[u].data
       /\ \A a \in Addresses \ MovedAddresses : mem[a] = job.mem[a]
  ELSE /\ mem = job.mem
       /\ \A u \in Drives : \A p \in DOMAIN drive[u].data : \A n \in DOMAIN drive[u].data[p] :
            \/ drive[u].data[p][n] = job.drive[u].data[p][n]
            \/ u = job.unit /\ p[1] = job.cmd.c /\ \E k \in 1..Moved : Asked(job.cmd, k) = <<p[2], n>>
FitsMemory == job.cmd.op = "write" \/ job.moved <= ByteValues * ByteValues
Counted(n) == (job.start + n) % (ByteValues * ByteValues * ByteValues)
LostOne == job.cmd.op = "write" /\ job.moved > 0 /\ "EN" \notin chip.res.st1

\* When a read or write that nobody disturbed comes to its result, it has moved whole
\* sectors, the ones asked for in the order asked, over both sides when multi-track;
\* the disk and the memory at consecutive addresses agree byte for byte (a read's only while
\* it fits in the memory), and nothing else has changed; End of Cylinder is raised when all
\* of them went through and only then.
\* (A write that finds no next sector has taken a byte for it from memory.)
TransferIsWhole ==
  job # NoJob /\ chip.phase = "result" /\ job.clean =>
    /\ job.moved % SecLen = 0 /\ \A k \in 0..(Moved - 1) : ~Complete(job.cmd, k)
    /\ "EN" \in chip.res.st1 <=> Complete(job.cmd, Moved)
    /\ (FitsMemory => Agrees) /\ OthersAsBefore
    /\ ~chip.nd => dma = Counted(job.moved + IF LostOne THEN 1 ELSE 0)

\* A drive the guest believes busy is moving or has a status for it, and commands are
\* refused for a seek's end only while there is one to fetch or a seek that will bring one.
SeekIsAnswered ==
  \A u \in Drives : chip.busy[u] \/ chip.seekEnd[u]
                      => chip.seek[u].active \/ (chip.pending[u] # NoStatus /\ int)

\* Overlapped seeks step each its own drive: the cylinder a Sense Interrupt reports is where
\* the head is, once the unit has been recalibrated.
HeadIsWhereItSays ==
  \A u \in calibrated :
    chip.pcn[u] = drive[u].head \/ (chip.seek[u].active /\ chip.seek[u].recal)

\* Every seek is answered, and the head is where its answer says.
SeeksAreHonest == SeekIsAnswered /\ HeadIsWhereItSays

=============================================================================
