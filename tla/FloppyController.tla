--------------------------- MODULE FloppyController ---------------------------
(***************************************************************************)
(* A Western Digital FD177x on an SD Systems VersaFloppy, with the drives  *)
(* on its cable.                                                           *)
(*                                                                         *)
(* The chip has no drive select: it has a step pin, a ready pin and a data *)
(* path to whichever drive the card's latch points it at.  A command goes  *)
(* through phases, each ended by a deadline; in a transfer one byte at a   *)
(* time is offered to, or asked from, the guest by DRQ.                    *)
(*                                                                         *)
(* timing = "real" is the byte-timed chip: each deadline is an event in    *)
(* the machine's clock, and the data port holds READY when the wait bit is *)
(* on.  timing = "full" is the wait-synced chip: every access runs the     *)
(* command as far as it goes without the guest.  A card keeps its timing.  *)
(*                                                                         *)
(* One turn of the while loop in Wd17xx::advance is a step.  `todo' is     *)
(* what the register access, or the deadline, in progress has still to do: *)
(* nobody else runs before it is empty.  Only the order of deadlines and   *)
(* accesses is modelled, not the T-states between them.                    *)
(*                                                                         *)
(* Not here: density, sides, the index hole, deleted and damaged records,  *)
(* and the head-load output, of which the guest sees one status bit.       *)
(***************************************************************************)
EXTENDS Integers, Sequences, FiniteSets

CONSTANTS
  Drives,       \* the drives on the cable
  NoDrive,      \* the latch selects none of them
  Tracks,       \* cylinders of a diskette
  Sectors,      \* sectors of a track as a diskette is mounted
  Size,         \* bytes in a sector
  TrackBytes,   \* bytes in a revolution, for Write Track
  RestoreSteps, \* the step pulses after which Restore gives up, 255
  Commands,     \* the commands the guest gives, of Command
  Values,       \* what it loads into the data register to seek
  MaxCommands,  \* a bound: commands
  MaxMoves      \* a bound: latch and register writes, diskettes in and out, resets

Ops == {"restore", "seek", "step", "stepIn", "stepOut", "readSector", "writeSector", "readAddress",
        "readTrack", "writeTrack", "forceInterrupt"}
Command == [op : Ops, flags : SUBSET {"u", "v", "m", "e", "ready", "notReady", "now"}]

ASSUME FloppyAssumption ==
  /\ NoDrive \notin Drives
  /\ Tracks \in 1..256 /\ Sectors \in 1..255 /\ Size \in Nat \ {0} /\ TrackBytes \in Nat \ {0}
  /\ RestoreSteps \in 1..255
  /\ Commands \subseteq Command /\ Values \subseteq 0..255
  /\ MaxCommands \in Nat /\ MaxMoves \in Nat

VARIABLES
  timing,   \* VersaFloppyBoard::timingReal_, Wd17xx::waitSynced_
  chip,     \* the chip's registers
  sel,      \* the drive the control latch selects
  waitOn,   \* the latch's wait-enable bit
  heads,    \* DiskImageDrive::head_
  media,    \* the diskette of each drive
  todo,     \* what the access in progress has still to do
  arg,      \* the byte it writes
  crashed,  \* the process is gone
  left,     \* what the guest and the operator may still do
  seen      \* history, for the properties

vars == <<timing, chip, sel, waitOn, heads, media, todo, arg, crashed, left, seen>>

\* The bytes of a sector are told apart by where they come from: 0 is a zero
\* the chip wrote, 1, 2... the bytes the guest loaded, in the order it loaded
\* them, then those the diskette came with and those a format wrote.
Shipped == [k \in 1..Size |-> Size + k]
Filled  == [k \in 1..Size |-> 2 * Size + k]

Formatted(n, content) == [count |-> n, data |-> [s \in 1..Sectors |-> content]]
Blank == [t \in 0..(Tracks - 1) |-> Formatted(Sectors, Shipped)]

\* Wd17xx::powerOn
PoweredOn(ready) ==
  [cmd |-> [op |-> "restore", flags |-> {}], ctx |-> "typeI", phase |-> "idle",
   steps |-> 0, inward |-> TRUE, trk |-> 0, sec |-> 0, data |-> 0,
   status |-> {}, intrq |-> FALSE, drq |-> FALSE, lost |-> FALSE,
   buf |-> <<>>, idx |-> 0, size |-> 0, end |-> "plain", id |-> 0,
   conds |-> {}, wasReady |-> ready, ra |-> 0]

\* seen.given   bytes the command in flight has offered the guest
\* seen.took    the last of them it took
\* seen.gap     it has taken one out of turn
\* seen.padded  the chip has put a zero in the guest's place
\* seen.loads   bytes it has loaded into the record being written
NothingSeen == [given |-> 0, took |-> 0, gap |-> FALSE, padded |-> FALSE,
                loads |-> 0]

Init ==
  /\ timing \in {"full", "real"}
  /\ sel \in Drives \cup {NoDrive} /\ waitOn \in BOOLEAN
  /\ heads \in [Drives -> 0..(Tracks - 1)]
  /\ media = [d \in Drives |-> [loaded |-> TRUE, protected |-> FALSE, fmt |-> Blank]]
  /\ chip = [PoweredOn(sel # NoDrive) EXCEPT !.sec = 1]   \* the guest has set it
  /\ todo = <<>> /\ arg = 0 /\ crashed = FALSE
  /\ left = [commands |-> MaxCommands, moves |-> MaxMoves]
  /\ seen = NothingSeen
-----------------------------------------------------------------------------
(***************************************************************************)
(* The pins of the selected drive, and the chip's search of its track.     *)
(***************************************************************************)
Ready     == sel # NoDrive /\ media[sel].loaded
TrackZero == sel # NoDrive /\ heads[sel] = 0
Locked    == sel # NoDrive /\ media[sel].protected

SectorCount ==
  IF Ready /\ heads[sel] < Tracks THEN media[sel].fmt[heads[sel]].count ELSE 0

Finds(c) == c.sec \in 1..SectorCount /\ c.trk = heads[sel]

Finished(c) == [c EXCEPT !.phase = "idle", !.intrq = TRUE]
Failed(c, bit) == Finished([c EXCEPT !.status = @ \cup {bit}])

Verified(c) ==
  IF SectorCount > 0 /\ c.trk = heads[sel] THEN Finished(c) ELSE Failed(c, "seekError")

AsksFor(c, n) == [c EXCEPT !.size = n, !.buf = <<>>, !.phase = "writeWait", !.drq = TRUE]

BeganTypeII(c) ==
  IF ~Finds(c) THEN Failed(c, "notFound")
  ELSE IF c.ctx = "read"
  THEN [c EXCEPT !.id = c.sec, !.size = Size, !.idx = 0, !.phase = "read",
                 !.buf = media[sel].fmt[heads[sel]].data[c.sec],
                 !.end = IF "m" \in c.cmd.flags THEN "next" ELSE "plain"]
  ELSE [AsksFor(c, Size) EXCEPT !.id = c.sec, !.end = "sector"]

ReadAnAddress(c) ==
  IF SectorCount = 0 THEN Failed(c, "notFound")
  ELSE LET at == c.ra % SectorCount IN
       [c EXCEPT !.buf = <<heads[sel], at + 1>>, !.sec = at + 1, !.idx = 0,
                 !.ra = (at + 1) % SectorCount, !.end = "plain", !.phase = "read"]

AfterHeadSettle(c) ==
  CASE c.ctx = "typeI" -> Verified(c)
    [] c.ctx \in {"read", "write"} -> BeganTypeII(c)
    [] c.ctx = "readAddress" -> ReadAnAddress(c)
    [] c.ctx = "readTrack" -> Finished(c)   \* no drive of these has a track image to read
    [] c.ctx = "writeTrack" ->
         IF ~Ready THEN Failed(c, "writeFault")
         ELSE [AsksFor(c, TrackBytes) EXCEPT !.end = "track"]

HeadLoadThen(c, wanted) ==
  IF wanted THEN [c EXCEPT !.phase = "headSettle"] ELSE AfterHeadSettle(c)
-----------------------------------------------------------------------------
(***************************************************************************)
(* The command register.                                                   *)
(***************************************************************************)
Pulses(c) ==
  CASE c.cmd.op = "restore" -> IF timing = "real" /\ TrackZero THEN 0 ELSE RestoreSteps
    [] c.cmd.op = "seek" -> IF c.data > c.trk THEN c.data - c.trk ELSE c.trk - c.data
    [] OTHER -> 1

StartTypeI(c) ==
  LET n == Pulses(c)
      aimed == [c EXCEPT !.steps = n,
                  !.trk = IF c.cmd.op = "restore" /\ n = 0 THEN 0 ELSE @,
                  !.inward = CASE c.cmd.op = "restore" -> IF n = 0 THEN @ ELSE FALSE
                               [] c.cmd.op = "seek" -> c.data > c.trk
                               [] c.cmd.op = "stepIn" -> TRUE
                               [] c.cmd.op = "stepOut" -> FALSE
                               [] OTHER -> @]
  IN IF n > 0 THEN [aimed EXCEPT !.phase = "settle"]
     ELSE IF "v" \in c.cmd.flags THEN HeadLoadThen(aimed, TRUE) ELSE Finished(aimed)

StartTypeII(c) ==
  IF ~Ready THEN Finished(c)
  ELSE IF c.ctx = "write" /\ Locked THEN Failed(c, "protected")
  ELSE HeadLoadThen(c, "e" \in c.cmd.flags)

StartTypeIII(c) ==
  IF ~Ready THEN Finished(c)
  ELSE IF c.ctx = "writeTrack" /\ Locked THEN Failed(c, "protected")
  ELSE HeadLoadThen(c, c.ctx = "readAddress" => "e" \in c.cmd.flags)

ForceInterrupt(c, cmd) ==
  LET ended == [c EXCEPT !.cmd = cmd, !.phase = "idle",
                         !.conds = cmd.flags \cap {"ready", "notReady"},
                         !.intrq = @ \/ "now" \in cmd.flags]
  IN IF c.phase # "idle" THEN ended
     ELSE [ended EXCEPT !.status = {}, !.lost = FALSE, !.ctx = "typeI"]

ContextOf(op) ==
  CASE op \in {"restore", "seek", "step", "stepIn", "stepOut"} -> "typeI"
    [] op = "readSector" -> "read"
    [] op = "writeSector" -> "write"
    [] OTHER -> op

StartCommand(c, cmd) ==
  IF cmd.op = "forceInterrupt" THEN ForceInterrupt(c, cmd)
  ELSE LET fresh == [c EXCEPT !.cmd = cmd, !.conds = {}, !.status = {}, !.lost = FALSE,
                              !.drq = FALSE, !.buf = <<>>, !.idx = 0, !.size = 0, !.id = 0,
                              !.ctx = ContextOf(cmd.op)]
       IN CASE fresh.ctx = "typeI" -> StartTypeI(fresh)
            [] fresh.ctx \in {"read", "write"} -> StartTypeII(fresh)
            [] OTHER -> StartTypeIII(fresh)
-----------------------------------------------------------------------------
(***************************************************************************)
(* The loop.                                                               *)
(***************************************************************************)
Now == Head(todo)
Advancing == todo # <<>> /\ ~crashed

Writing == chip.phase \in {"writeWait", "write"}

\* A wait-synced transfer stops at a byte the guest has not taken or given yet.
AtGuest == (chip.phase \in {"read", "drain"} \/ Writing) /\ chip.drq

\* Does the loop turn once more?  A deadline that has come always does; a
\* wait-synced chip goes on as far as it can, but starts stepping only on an
\* access; a byte-timed one only while the data port holds READY.
Ripe ==
  /\ chip.phase # "idle"
  /\ \/ Now = "due"
     \/ timing = "full" /\ ~AtGuest /\ (chip.phase = "settle" => Now \in {"touch", "hold"})
     \/ timing = "real" /\ Now = "hold" /\ waitOn /\ ~chip.drq

\* One turn in phase p.  A wait-synced chip that a deadline woke runs on.
Turn(p) ==
  /\ Advancing /\ chip.phase = p /\ Ripe
  /\ todo' = IF Now # "due" THEN todo
             ELSE <<IF timing = "full" THEN "touch" ELSE "poll">> \o Tail(todo)
  /\ UNCHANGED <<timing, sel, waitOn, arg, left>>

\* DiskImageDrive::step on the selected drive
Moved(inward) ==
  IF sel = NoDrive THEN heads
  ELSE [heads EXCEPT ![sel] =
          IF ~inward THEN IF @ > 0 THEN @ - 1 ELSE 0
          ELSE IF Ready /\ @ >= Tracks - 1 THEN @ ELSE @ + 1]

\* The steps are over when none are left.
Settled(c) ==
  IF c.steps > 0 THEN c
  ELSE IF "v" \in c.cmd.flags THEN [c EXCEPT !.phase = "headSettle"] ELSE Finished(c)

RestoreStepMutant ==
  LET there == sel # NoDrive /\ (TrackZero \/ Moved(FALSE)[sel] = 0) IN
  /\ Turn("settle") /\ chip.cmd.op = "restore"
  /\ heads' = IF TrackZero THEN heads ELSE Moved(FALSE)
  /\ chip' = IF there THEN Settled([chip EXCEPT !.trk = 0, !.steps = 0]) ELSE chip
  /\ UNCHANGED <<media, crashed, seen>>
RestoreStep ==
  LET there == sel # NoDrive /\ (TrackZero \/ Moved(FALSE)[sel] = 0) IN
  /\ Turn("settle") /\ chip.cmd.op = "restore"
  /\ heads' = IF TrackZero THEN heads ELSE Moved(FALSE)
  /\ chip' = IF there THEN Settled([chip EXCEPT !.trk = 0, !.steps = 0])
             ELSE IF chip.steps = 1 THEN Failed([chip EXCEPT !.steps = 0], "seekError")
             ELSE [chip EXCEPT !.steps = @ - 1]
  /\ UNCHANGED <<media, crashed, seen>>

\* A step of Seek, Step In...  The track register follows if the command says so.
Step ==
  LET updates == chip.cmd.op = "seek" \/ "u" \in chip.cmd.flags
      counted == IF ~updates THEN chip.trk
                 ELSE IF chip.inward THEN (chip.trk + 1) % 256
                 ELSE IF chip.trk > 0 THEN chip.trk - 1 ELSE 0
  IN
  /\ Turn("settle") /\ chip.cmd.op # "restore"
  /\ heads' = Moved(chip.inward)
  /\ chip' = Settled([chip EXCEPT !.trk = counted, !.steps = @ - 1])
  /\ UNCHANGED <<media, crashed, seen>>

HeadSettled ==
  /\ Turn("headSettle")
  /\ chip' = AfterHeadSettle(chip)
  /\ UNCHANGED <<heads, media, crashed, seen>>

\* After the last byte of a record a multiple-record read looks for the next.
NextRecord(c) ==
  LET on == [c EXCEPT !.sec = (@ + 1) % 256] IN
  IF Finds(on) THEN [on EXCEPT !.id = on.sec, !.idx = 0,
                               !.buf = media[sel].fmt[heads[sel]].data[on.sec]]
  ELSE [on EXCEPT !.status = @ \cup {"notFound"}, !.phase = "drain"]

OverrunMutant(c) == c
Overrun(c) == IF c.drq THEN [c EXCEPT !.lost = TRUE] ELSE c

\* The next byte of a read comes under the head; the one before is lost if the
\* guest has not taken it.
ReadByte ==
  LET next == [Overrun(chip) EXCEPT !.data = chip.buf[chip.idx + 1], !.drq = TRUE,
                                    !.idx = @ + 1]
  IN
  /\ Turn("read")
  /\ chip' = IF next.idx < Len(next.buf) THEN next
             ELSE IF next.end = "next" /\ "m" \in next.cmd.flags THEN NextRecord(next)
             ELSE [next EXCEPT !.phase = "drain"]
  /\ seen' = [seen EXCEPT !.given = @ + 1]
  /\ UNCHANGED <<heads, media, crashed>>

ReadDrain ==
  /\ Turn("drain")
  /\ chip' = Finished(chip)
  /\ UNCHANGED <<heads, media, crashed, seen>>

\* DiskImageDrive::writeData: the diskette takes it if it still has the sector.
Takes(s) == Ready /\ ~Locked /\ s \in 1..SectorCount

\* Wd17xx::commitSector.  It asks the drive without asking whether there is one.
CommitSector(c) ==
  IF sel = NoDrive THEN crashed' = TRUE /\ UNCHANGED <<chip, media, seen>>
  ELSE LET on == [c EXCEPT !.sec = (@ + 1) % 256] IN
    /\ media' = IF Takes(c.id)
                THEN [media EXCEPT ![sel].fmt[heads[sel]].data[c.id] = c.buf]
                ELSE media
    /\ chip' = IF ~Takes(c.id) THEN Failed(c, "writeFault")
               ELSE IF "m" \notin c.cmd.flags THEN Finished(c)
               ELSE IF Finds(on) THEN [AsksFor(on, Size) EXCEPT !.id = on.sec]
               ELSE Failed(on, "notFound")
    /\ seen' = [seen EXCEPT !.loads = 0, !.padded = @ \/ \E k \in DOMAIN c.buf : c.buf[k] = 0]
    /\ UNCHANGED crashed

\* Wd17xx::commitTrack and DiskImageDrive::writeTrackImage: what was sent lays
\* out n sectors and has the data of the first k.  The layout is kept even where
\* the data is refused.
CommitTrack(c) ==
  IF sel = NoDrive THEN crashed' = TRUE /\ UNCHANGED <<chip, media, seen>>
  ELSE \E n \in 0..Sectors : \E k \in IF Locked THEN {0} ELSE 0..n :
    LET laid == Ready /\ heads[sel] < Tracks /\ n > 0 IN
    /\ media' = IF laid
                THEN [media EXCEPT ![sel].fmt[heads[sel]] =
                        [count |-> n,
                         data |-> [s \in 1..Sectors |-> IF s <= k THEN Filled ELSE @.data[s]]]]
                ELSE media
    /\ chip' = IF laid /\ k = n THEN Finished(c) ELSE Failed(c, "writeFault")
    /\ seen' = [seen EXCEPT !.padded = @ \/ \E j \in DOMAIN c.buf : c.buf[j] = 0]
    /\ UNCHANGED crashed

Commit(c) == IF c.end = "track" THEN CommitTrack(c) ELSE CommitSector(c)

AskOrCommit(c) ==
  IF Len(c.buf) >= c.size THEN Commit(c)
  ELSE chip' = [c EXCEPT !.drq = TRUE] /\ UNCHANGED <<media, crashed, seen>>

\* The first request of a write: a guest that missed it has written nothing.
WriteFirstMutant ==
  /\ Turn("writeWait")
  /\ AskOrCommit(IF chip.drq THEN [chip EXCEPT !.lost = TRUE, !.phase = "write",
                                               !.buf = Append(@, 0)]
                 ELSE [chip EXCEPT !.phase = "write"])
  /\ UNCHANGED heads
WriteFirst ==
  /\ Turn("writeWait")
  /\ IF chip.drq
     THEN chip' = Finished([chip EXCEPT !.lost = TRUE]) /\ UNCHANGED <<media, crashed, seen>>
     ELSE AskOrCommit([chip EXCEPT !.phase = "write"])
  /\ UNCHANGED heads

\* A later one: a zero goes in its place.  The index pulse ends a wait-synced
\* Write Track with zeros to the end of the revolution.
WriteNext ==
  LET missed == [chip EXCEPT !.lost = TRUE, !.drq = FALSE]
      short  == chip.size - Len(chip.buf)
  IN
  /\ Turn("write")
  /\ IF ~chip.drq THEN AskOrCommit(chip)
     ELSE IF timing = "full"
     THEN CommitTrack([missed EXCEPT !.buf = @ \o [k \in 1..short |-> 0]])
     ELSE AskOrCommit([missed EXCEPT !.buf = Append(@, 0)])
  /\ UNCHANGED heads

Iterate ==
  RestoreStep \/ Step \/ HeadSettled \/ ReadByte \/ ReadDrain \/ WriteFirst \/ WriteNext

\* The loop ends.  An armed Force Interrupt fires on the edge of READY since
\* the last time anybody looked.
Looked ==
  LET edge == \/ "ready" \in chip.conds /\ Ready /\ ~chip.wasReady
              \/ "notReady" \in chip.conds /\ ~Ready /\ chip.wasReady
  IN [chip EXCEPT !.intrq = @ \/ edge, !.wasReady = Ready]
-----------------------------------------------------------------------------
(***************************************************************************)
(* The guest's accesses.  The port is read, or written, between the turns  *)
(* the chip makes before it and after it.                                  *)
(***************************************************************************)
Atrest == todo = <<>> /\ ~crashed

Access(steps) ==
  /\ Atrest
  /\ todo' = steps
  /\ UNCHANGED <<timing, chip, sel, waitOn, heads, media, crashed, seen>>

ReadStatus == Access(<<"touch", "status", "poll">>) /\ UNCHANGED <<arg, left>>

\* A read of the latch, or of the track or sector register.
ReadRegister == Access(<<"touch">>) /\ UNCHANGED <<arg, left>>

ReadData == Access(<<"hold", "take", "poll">>) /\ UNCHANGED <<arg, left>>

WriteData(v) == Access(<<"hold", "load", "touch">>) /\ arg' = v /\ UNCHANGED left

WriteCommand ==
  /\ left.commands > 0
  /\ Access(<<"touch", "command", "poll">>)
  /\ left' = [left EXCEPT !.commands = @ - 1]
  /\ UNCHANGED arg

\* Wd17xx::readStatus clears INTRQ.
Status(c) == chip' = [c EXCEPT !.intrq = FALSE] /\ UNCHANGED seen

\* Wd17xx::readData: a read serves the request of a read only.
Take(c) ==
  /\ chip' = IF Writing THEN c ELSE [c EXCEPT !.drq = FALSE]
  /\ seen' = IF ~c.drq \/ c.ctx \notin {"read", "readAddress"} THEN seen
             ELSE [seen EXCEPT !.gap = @ \/ seen.given # seen.took + 1, !.took = seen.given]

\* Wd17xx::writeData: a byte the guest loads unasked is taken too.
Loaded(c, v) ==
  IF ~Writing THEN [c EXCEPT !.data = v]
  ELSE [c EXCEPT !.data = v, !.drq = FALSE,
                 !.buf = IF Len(@) < c.size THEN Append(@, seen.loads + 1) ELSE @]

Load(c) ==
  /\ chip' = Loaded(c, arg)
  /\ seen' = IF Writing /\ Len(c.buf) < c.size THEN [seen EXCEPT !.loads = @ + 1] ELSE seen

\* Wd17xx::writeCommand.
GiveCommand(c) ==
  \E cmd \in Commands :
    /\ chip' = StartCommand([c EXCEPT !.intrq = FALSE], cmd)
    /\ seen' = IF cmd.op = "forceInterrupt" THEN seen ELSE NothingSeen

\* The loop is over: the port is served, or the access is at its end.
Proceed ==
  /\ Advancing /\ ~Ripe
  /\ \/ Len(todo) = 1 /\ chip' = Looked /\ UNCHANGED seen
     \/ /\ Len(todo) > 1
        /\ CASE todo[2] = "status"  -> Status(Looked)
             [] todo[2] = "take"    -> Take(Looked)
             [] todo[2] = "load"    -> Load(Looked)
             [] todo[2] = "command" -> GiveCommand(Looked)
  /\ todo' = SubSeq(todo, 3, Len(todo))
  /\ arg' = 0
  /\ UNCHANGED <<timing, sel, waitOn, heads, media, crashed, left>>
-----------------------------------------------------------------------------
\* The write of any other port, then the turns it sets off.
Move ==
  /\ Atrest /\ left.moves > 0
  /\ left' = [left EXCEPT !.moves = @ - 1]
  /\ UNCHANGED <<timing, arg, crashed>>

Select ==
  /\ Move
  /\ sel' \in Drives \cup {NoDrive} /\ waitOn' \in BOOLEAN
  /\ todo' = <<"touch">>
  /\ UNCHANGED <<chip, heads, media, seen>>

WriteRegister ==
  /\ Move
  /\ \/ \E t \in Values : chip' = [chip EXCEPT !.trk = t]
     \/ \E s \in 1..Sectors : chip' = [chip EXCEPT !.sec = s]
  /\ todo' = <<"touch">>
  /\ UNCHANGED <<sel, waitOn, heads, media, seen>>

\* Wd17xx::masterReset: Restore, with no verify.
MasterReset ==
  LET reset == [chip EXCEPT !.phase = "idle", !.intrq = FALSE, !.ra = 0] IN
  /\ Move
  /\ chip' = StartCommand(reset, [op |-> "restore", flags |-> {}])
  /\ seen' = NothingSeen
  /\ todo' = <<"touch">>
  /\ UNCHANGED <<sel, waitOn, heads, media>>

\* POWER: the latch and the heads stay as they are.
PowerOn ==
  /\ Move
  /\ chip' = PoweredOn(Ready)
  /\ seen' = NothingSeen
  /\ todo' = <<"poll">>
  /\ UNCHANGED <<sel, waitOn, heads, media>>

\* MOUNT homes the head and finds the size of a whole diskette.
Mount(d) ==
  /\ Move
  /\ \E p \in BOOLEAN :
       media' = [media EXCEPT ![d].loaded = TRUE, ![d].protected = p,
                   ![d].fmt = [t \in DOMAIN @ |-> [@[t] EXCEPT !.count = Sectors]]]
  /\ heads' = [heads EXCEPT ![d] = 0]
  /\ UNCHANGED <<chip, sel, waitOn, todo, seen>>

Unmount(d) ==
  /\ Move
  /\ media[d].loaded
  /\ media' = [media EXCEPT ![d].loaded = FALSE, ![d].protected = FALSE]
  /\ UNCHANGED <<chip, sel, waitOn, heads, todo, seen>>

\* The run loop pumps the boards between slices.
Pump ==
  /\ Atrest
  /\ todo' = <<"poll">>
  /\ UNCHANGED <<timing, chip, sel, waitOn, heads, media, arg, crashed, left, seen>>

\* Wd17xx::nextEdge: the deadline the card has in the clock.
Edge ==
  /\ chip.phase # "idle"
  /\ timing = "full" => chip.phase = "settle" \/ (Writing /\ chip.drq /\ chip.end = "track")

Deadline ==
  /\ Atrest /\ Edge
  /\ todo' = <<"due">>
  /\ UNCHANGED <<timing, chip, sel, waitOn, heads, media, arg, crashed, left, seen>>
-----------------------------------------------------------------------------
Guest == ReadStatus \/ ReadRegister \/ ReadData \/ WriteCommand \/ \E v \in Values : WriteData(v)
Operator == Select \/ WriteRegister \/ MasterReset \/ PowerOn \/ \E d \in Drives : Mount(d) \/ Unmount(d)
Work == Iterate \/ Proceed

Next == Guest \/ Operator \/ Pump \/ Deadline \/ Work

\* An access runs to its end, and the clock reaches every deadline in it however
\* often the guest looks.
Fairness == WF_vars(Work) /\ SF_vars(Deadline)

Spec == Init /\ [][Next]_vars /\ Fairness
-----------------------------------------------------------------------------
Phases == {"idle", "settle", "headSettle", "read", "drain", "writeWait", "write"}

\* Types; the buffer holds no more than the sector or the track it is for.
TypeOK ==
  /\ timing \in {"full", "real"} /\ waitOn \in BOOLEAN /\ crashed \in BOOLEAN
  /\ sel \in Drives \cup {NoDrive}
  /\ heads \in [Drives -> Nat]
  /\ chip.phase \in Phases /\ chip.trk \in 0..255 /\ chip.sec \in 0..255
  /\ chip.phase = "settle" => chip.steps \in 1..255
  /\ Writing => Len(chip.buf) <= chip.size
  /\ chip.phase = "read" => chip.idx < Len(chip.buf)

\* A sector is written whole or not at all: the guest's bytes in the order it
\* loaded them, at least the first of them, with zeros where it missed one.
SectorsAreWhole ==
  \A d \in Drives : \A t \in DOMAIN media[d].fmt : \A s \in 1..Sectors :
    LET b == media[d].fmt[t].data[s] IN
    \/ b \in {Shipped, Filled}
    \/ /\ Len(b) = Size /\ b[1] = 1
       /\ \A i, j \in 1..Size : i < j /\ b[j] # 0 => b[i] < b[j]

\* The guest is told: a byte of a read it did not get, or a zero in place of one
\* it did not send, shows as Lost Data until the next command; and a wait-synced
\* chip loses nothing but the end of a Write Track.
LossIsTold ==
  /\ chip.ctx # "typeI" /\ (seen.gap \/ seen.padded) => chip.lost
  /\ timing = "full" /\ chip.lost => chip.ctx = "writeTrack"

\* A byte-timed command ends, whatever the guest does or leaves undone.
CommandsEnd ==
  timing = "real" /\ chip.phase # "idle" ~> chip.phase = "idle" \/ crashed

\* wd17xx.h says of the drive the latch points the chip at that "a null drive is
\* not an error and not a crash".
NullDriveIsNoCrash == ~crashed

\* A transfer is whole, or the guest is told what it lost.
TransferIsWholeOrTold == SectorsAreWhole /\ LossIsTold

=============================================================================
