-------------------------------- MODULE Upd765 --------------------------------
(***************************************************************************)
(* The uPD765 floppy controller and the drives on its cable, as operators  *)
(* on a machine s: s.chip, the registers; s.drive, what is in each drive   *)
(* and where its head is; s.cable, which drive a unit number reaches.      *)
(*                                                                         *)
(* A seek runs beside everything else and reports through Sense Interrupt  *)
(* Status; a data command waits for the head to load, moves whole sectors  *)
(* through a buffer and ends with seven result bytes.  Each access and     *)
(* each deadline begins with Polled: the drives step, a head that has      *)
(* settled begins its command, and a drive that came or went is noticed.   *)
(*                                                                         *)
(* Moments are T-states from now.  A byte is known by its origin.  Not     *)
(* here: density, the skip bit, deleted and damaged records (no image has  *)
(* any), terminal count (no card drives it), scans that compare by order.  *)
(***************************************************************************)
EXTENDS Integers, Sequences, FiniteSets

CONSTANTS
  Units,      \* how many of the chip's four units have a drive
  Cyls,       \* cylinders of a diskette
  SecLen,     \* bytes of a sector
  MaxPulses,  \* pulses of a Recalibrate, 77 in the chip
  Srt, Hlt, Hut  \* T-states of a step, and until a head is settled and is lifted

ASSUME Upd765Assumption ==
  /\ Units \in 1..4
  /\ {Cyls, SecLen, MaxPulses, Srt, Hlt, Hut} \subseteq Nat \ {0}

Drives == 0..(Units - 1)
Heads == {0, 1}
NoCommand == [op |-> "none"]
NoUnit == -1
NoStatus == {"none"}
Forever == Hut + 1
Fill == <<>>

IdleSeek == [active |-> FALSE, recal |-> FALSE, target |-> 0, hd |-> 0, pulses |-> 0, due |-> 0]
NoResult == [ic |-> {}, st1 |-> {}, st2 |-> {}]
DataOps == {"read", "write", "read_deleted", "read_track", "read_id", "format", "scan"}
Writing == {"write", "format"}
-----------------------------------------------------------------------------
(***************************************************************************)
(* Drives.  A track is a function from sector numbers to their bytes.      *)
(***************************************************************************)
Unit(s, us) == IF s.cable.alternate = NoUnit THEN us ELSE s.cable.alternate
Drive(s, us) == s.drive[Unit(s, us)]
DriveReady(s, us) == Drive(s, us).in
DriveTwoSided(s, us) ==
  s.cable.twoSided \/ (Drive(s, us).in /\ Drive(s, us).heads = 2)

Track(d) == IF d.in /\ d.side < d.heads THEN d.data[<<d.head, d.side>>] ELSE <<>>
NextSector(d, cursor) ==
  LET numbers == DOMAIN Track(d)
      first == CHOOSE n \in numbers : \A m \in numbers : n <= m IN
    first + (cursor % Cardinality(numbers))

Stepped(d, inward) ==
  [d EXCEPT !.head = IF inward THEN IF @ < Cyls - 1 THEN @ + 1 ELSE @
                     ELSE IF @ > 0 THEN @ - 1 ELSE 0]
SelectHead(s) == [s EXCEPT !.drive[Unit(s, s.chip.us)].side = s.chip.hd]
-----------------------------------------------------------------------------
(***************************************************************************)
(* What the pins say.                                                      *)
(***************************************************************************)
Moving(c) == c.phase = "exec" /\ c.xfer # "none" /\ (c.needNext \/ c.idx < c.want)
Drq(c) == ~c.nd /\ Moving(c)
IntPin(c) ==
  c.resultInt \/ (c.nd /\ Moving(c)) \/ \E u \in Drives : c.pending[u] # NoStatus

EdgesMutant(c) == IF c.phase = "wait" THEN {c.due} ELSE {}
Edges(c) ==
  {c.seek[u].due : u \in {v \in Drives : c.seek[v].active}} \cup
  (IF c.phase = "wait" THEN {c.due} ELSE {})
-----------------------------------------------------------------------------
(***************************************************************************)
(* RESET and POWER.                                                        *)
(***************************************************************************)
ResetChip(s) ==
  LET ready == [u \in Drives |-> DriveReady(s, u)] IN
    [s EXCEPT !.chip = [@ EXCEPT
       !.phase = "command", !.got = NoCommand, !.xfer = "none", !.toMem = FALSE,
       !.buf = <<>>, !.idx = 0, !.want = 0, !.needNext = FALSE, !.cmStop = FALSE,
       !.left = 0, !.resultInt = FALSE, !.loaded = NoUnit, !.unload = 0,
       !.seek = [u \in Drives |-> IdleSeek],
       !.pending = [u \in Drives |-> IF u = 0 /\ ready[0] THEN {"AI"} ELSE NoStatus],
       !.seekEnd = [u \in Drives |-> FALSE], !.busy = [u \in Drives |-> FALSE],
       !.lastReady = ready]]

PowerChip(s) ==
  ResetChip([s EXCEPT !.chip = [@ EXCEPT !.nd = FALSE, !.specified = FALSE, !.cursor = 0,
                                         !.pcn = [u \in Drives |-> 0]]])

\* Every field, for the first power-on.
BlankChip ==
  [phase |-> "command", got |-> NoCommand, us |-> 0, hd |-> 0, c |-> 0, h |-> 0, r |-> 0,
   due |-> 0, xfer |-> "none", toMem |-> FALSE, buf |-> <<>>, idx |-> 0, want |-> 0,
   needNext |-> FALSE, cmStop |-> FALSE, st1 |-> {}, st2 |-> {}, tracked |-> 0, cursor |-> 0,
   cur |-> 0, met |-> TRUE, res |-> NoResult, left |-> 0, resultInt |-> FALSE, nd |-> FALSE,
   specified |-> FALSE, pcn |-> [u \in Drives |-> 0], seek |-> [u \in Drives |-> IdleSeek],
   pending |-> [u \in Drives |-> NoStatus], seekEnd |-> [u \in Drives |-> FALSE],
   busy |-> [u \in Drives |-> FALSE], lastReady |-> [u \in Drives |-> FALSE],
   loaded |-> NoUnit, unload |-> 0]
-----------------------------------------------------------------------------
(***************************************************************************)
(* Results.  left: how many more reads, the first and all the others, they *)
(* take.                                                                   *)
(***************************************************************************)
Result(s, n, irq) ==
  [s EXCEPT !.chip.phase = "result", !.chip.left = n, !.chip.resultInt = irq]

\* One byte, 80H: the chip does not know, or does not take, the command.
Invalid(s) == Result([s EXCEPT !.chip.res = [NoResult EXCEPT !.ic = {"IC"}]], 1, FALSE)

EndData(s, ic) ==
  LET c == s.chip IN
    Result([s EXCEPT !.chip = [@ EXCEPT
              !.xfer = "none", !.needNext = FALSE, !.idx = 0, !.want = 0, !.buf = <<>>,
              !.res = [ic |-> ic, st1 |-> c.st1, st2 |-> c.st2],
              !.unload = IF c.loaded = c.us THEN Hut ELSE @]], 2, TRUE)

Flagged1(s, flags) == [s EXCEPT !.chip.st1 = @ \cup flags]
Flagged2(s, flags) == [s EXCEPT !.chip.st2 = @ \cup flags]

\* resultIdAfter: the sector the guest would ask for next.
IdAfter(s, atEot) ==
  LET c == s.chip IN
    [s EXCEPT !.chip = [@ EXCEPT
       !.r = IF atEot THEN 1 ELSE @ + 1,
       !.h = IF atEot /\ c.got.mt THEN 1 - @ ELSE @,
       !.c = IF atEot /\ (~c.got.mt \/ c.hd = 1) THEN @ + 1 ELSE @]]
-----------------------------------------------------------------------------
(***************************************************************************)
(* Sectors, from the first byte of one to the first byte of the next.      *)
(***************************************************************************)
Found(s) ==
  LET d == Drive(s, s.chip.us) IN
    s.chip.r \in DOMAIN Track(d) /\ s.chip.h = s.chip.hd /\ d.head = s.chip.c

\* findSector's reasons.
NotFound(s) ==
  LET d == Drive(s, s.chip.us)
      here == DOMAIN Track(d)
      elsewhere == s.chip.r \in here /\ s.chip.h = s.chip.hd IN
    IF here = {} THEN Flagged1(s, {"MA"})
    ELSE Flagged2(Flagged1(s, {"ND"}), IF elsewhere THEN {"WC"} ELSE {})

Opened(s, number) ==
  [s EXCEPT !.chip = [@ EXCEPT !.cur = number, !.idx = 0, !.want = SecLen, !.met = TRUE,
                               !.buf = IF s.chip.xfer = "write" THEN <<>>
                                       ELSE Track(Drive(s, s.chip.us))[number]]]

\* A record that is not of the kind asked for is read, and is the last: no image has deleted ones.
OpenSector(s) ==
  IF ~Found(s) THEN EndData(NotFound(s), {"AT"})
  ELSE IF s.chip.got.op = "read_deleted"
  THEN Opened([Flagged2(s, {"CM"}) EXCEPT !.chip.cmStop = TRUE], s.chip.r)
  ELSE Opened(s, s.chip.r)

OpenTrackSector(s) ==
  LET d == Drive(s, s.chip.us) IN
    IF DOMAIN Track(d) = {} THEN EndData(Flagged1(s, {"MA"}), {"AT"})
    ELSE LET n == NextSector(d, s.chip.cursor)
             asked == d.head = s.chip.c /\ s.chip.h = s.chip.hd /\ n = s.chip.r
             opened == Opened(IF asked THEN s ELSE Flagged1(s, {"ND"}), n) IN
           [opened EXCEPT !.chip.cursor = (@ + 1) % Cardinality(DOMAIN Track(d))]

EndOfTrack(s) == EndData(Flagged1(IdAfter(s, TRUE), {"EN"}), {"AT"})

\* advance: the sector after this one, on the other side when the command is multi-track.
OtherSide(s) ==
  LET t == SelectHead([s EXCEPT !.chip.hd = 1, !.chip.h = 1 - @, !.chip.r = 1]) IN
    IF DriveTwoSided(t, t.chip.us) THEN OpenSector(t) ELSE EndData(t, {"AT", "NR"})
Advance(s) ==
  IF s.chip.r # s.chip.got.eot THEN OpenSector([s EXCEPT !.chip.r = @ + 1])
  ELSE IF s.chip.got.mt /\ s.chip.hd = 0 THEN OtherSide(s)
  ELSE EndOfTrack(s)

NextByte(s) ==
  LET t == [s EXCEPT !.chip.needNext = FALSE] IN
    CASE ~s.chip.needNext -> s
      [] s.chip.needNext /\ s.chip.got.op = "read_track" ->
           OpenTrackSector([t EXCEPT !.chip.r = @ + 1])
      [] OTHER -> Advance(t)

AtEndMutant(c) == c.r = c.got.eot
AtEnd(c) == c.r = c.got.eot /\ ~(c.got.mt /\ c.hd = 0)

\* formatTrack: every sector of the new layout filled.  cmd.good, the guest's ids make a layout.
Formatted(s) ==
  LET c == s.chip
      d == Drive(s, c.us)
      made == d.in /\ d.side < d.heads /\ c.got.eot > 0 /\ c.got.good IN
    IF ~made THEN EndData(s, {"AT", "EC"})
    ELSE EndData([s EXCEPT !.drive[Unit(s, c.us)].data[<<d.head, d.side>>] =
                    [n \in 1..c.got.eot |-> [i \in 1..SecLen |-> Fill]]], {})

GoOn(s) == [s EXCEPT !.chip.needNext = TRUE]

\* What follows a sector that has gone through.
MovedOn(s) ==
  IF s.chip.cmStop THEN EndData(IdAfter(s, s.chip.r = s.chip.got.eot), {})
  ELSE IF AtEnd(s.chip) THEN EndOfTrack(s)
  ELSE GoOn(s)

Written(s) ==
  LET d == Drive(s, s.chip.us) IN
    IF d.wp \/ s.chip.cur \notin DOMAIN Track(d) THEN EndData(s, {"AT", "EC"})
    ELSE MovedOn([s EXCEPT !.drive[Unit(s, s.chip.us)].data[<<d.head, d.side>>][s.chip.cur] =
                             s.chip.buf])

Scanned(s) ==
  CASE s.chip.met -> EndData(Flagged2(s, {"SH"}), {})
    [] ~s.chip.met /\ AtEnd(s.chip) -> EndData(Flagged2(s, {"SN"}), {})
    [] OTHER -> GoOn(s)

TrackRead(s) ==
  LET t == [s EXCEPT !.chip.tracked = @ + 1] IN
    IF t.chip.tracked >= t.chip.got.eot
    THEN EndData([t EXCEPT !.chip.r = @ + 1], IF t.chip.st1 = {} THEN {} ELSE {"AT"})
    ELSE GoOn(t)

SectorDone(s) ==
  CASE s.chip.xfer = "format" -> Formatted(s)
    [] s.chip.xfer = "write" -> Written(s)
    [] s.chip.xfer = "scan" -> Scanned(s)
    [] s.chip.got.op = "read_track" -> TrackRead(s)
    [] OTHER -> MovedOn(s)

ByteMoved(s) == IF s.chip.idx >= s.chip.want THEN SectorDone(s) ELSE s

\* byteOut: the byte, and the machine after it.  byteIn: the machine after byte b.
ByteAvailable(s) == NextByte(s).chip.phase = "exec"
ByteOut(s) ==
  LET t == NextByte(s) IN
    IF ByteAvailable(s) THEN ByteMoved([t EXCEPT !.chip.idx = @ + 1]) ELSE t
ByteRead(s) == NextByte(s).chip.buf[NextByte(s).chip.idx + 1]

ByteIn(s, b) ==
  LET t == NextByte(s)
      next == [t EXCEPT !.chip.idx = @ + 1] IN
    IF t.chip.phase # "exec" THEN t
    ELSE IF t.chip.xfer = "scan"
    THEN ByteMoved([next EXCEPT !.chip.met = @ /\ t.chip.buf[t.chip.idx + 1] = b])
    ELSE ByteMoved([next EXCEPT !.chip.buf = Append(@, b)])
-----------------------------------------------------------------------------
(***************************************************************************)
(* A data command, when the head is down.                                  *)
(***************************************************************************)
IdRead(s) ==
  LET d == Drive(s, s.chip.us) IN
    IF DOMAIN Track(d) = {} THEN EndData(Flagged1(s, {"MA", "ND"}), {"AT"})
    ELSE EndData([s EXCEPT !.chip = [@ EXCEPT !.c = d.head, !.h = s.chip.hd,
                    !.r = NextSector(d, s.chip.cursor),
                    !.cursor = (@ + 1) % Cardinality(DOMAIN Track(d))]], {})

Transfer(op) == CASE op \in {"read", "read_deleted", "read_track"} -> "read"
                  [] op \in {"write", "format", "scan"} -> op

BeginData(s0) ==
  LET s == [s0 EXCEPT !.chip.phase = "exec", !.chip.unload = Forever]
      op == s.chip.got.op
      t == [s EXCEPT !.chip.xfer = Transfer(op), !.chip.toMem = (Transfer(op) = "read")] IN
    CASE op = "read_id" -> IdRead(s)
      [] op = "format" -> ByteMoved([t EXCEPT !.chip.idx = 0, !.chip.want = s.chip.got.eot])
      [] op = "read_track" -> OpenTrackSector([t EXCEPT !.chip.tracked = 0, !.chip.cursor = 0])
      [] OTHER -> OpenSector(t)
-----------------------------------------------------------------------------
(***************************************************************************)
(* poll: the drives step, a settled head begins, readiness is looked at.   *)
(***************************************************************************)
QueueSeekEnd(s, u, status) ==
  [s EXCEPT !.chip.seek[u].active = FALSE, !.chip.pending[u] = status, !.chip.seekEnd[u] = TRUE]

PulseMutant(s, u, inward) ==
  [s EXCEPT !.drive[Unit(s, s.chip.us)] = Stepped(@, inward), !.chip.seek[u].due = Srt]
Pulse(s, u, inward) ==
  [s EXCEPT !.drive[Unit(s, u)] = Stepped(@, inward), !.chip.seek[u].due = Srt]

StepDrive(s, u) ==
  LET k == s.chip.seek[u] IN
    CASE ~k.active \/ k.due > 0 -> s
      [] k.active /\ k.due = 0 /\ ~DriveReady(s, u) -> QueueSeekEnd(s, u, {"AT", "SE", "NR"})
      [] k.active /\ k.due = 0 /\ DriveReady(s, u) /\ k.recal ->
           IF Drive(s, u).head = 0 THEN QueueSeekEnd([s EXCEPT !.chip.pcn[u] = 0], u, {"SE"})
           ELSE IF k.pulses >= MaxPulses
           THEN QueueSeekEnd([s EXCEPT !.chip.pcn[u] = 0], u, {"AT", "SE", "EC"})
           ELSE Pulse([s EXCEPT !.chip.seek[u].pulses = @ + 1], u, FALSE)
      [] OTHER ->
           IF s.chip.pcn[u] = k.target THEN QueueSeekEnd(s, u, {"SE"})
           ELSE LET inward == s.chip.pcn[u] < k.target IN
             Pulse([s EXCEPT !.chip.pcn[u] = IF inward THEN @ + 1 ELSE @ - 1], u, inward)

\* The four units, lowest first.
StepUnit(s, u) == IF u \in Drives THEN StepDrive(s, u) ELSE s
StepDrives(s) == StepUnit(StepUnit(StepUnit(StepUnit(s, 0), 1), 2), 3)

PollReady(s) ==
  LET c == s.chip
      ready == [u \in Drives |-> DriveReady(s, u)]
      changed == {u \in Drives : ready[u] # c.lastReady[u]} IN
    IF ~c.specified \/ c.phase \in {"wait", "exec"} THEN s
    ELSE [s EXCEPT !.chip = [@ EXCEPT
            !.lastReady = ready,
            !.pending = [u \in Drives |-> IF u \notin changed THEN c.pending[u]
                                          ELSE IF ready[u] THEN {"AI"} ELSE {"AI", "NR"}],
            !.seekEnd = [u \in Drives |-> c.seekEnd[u] /\ u \notin changed]]]

Polled(s) ==
  LET t == StepDrives(s) IN
    PollReady(IF t.chip.phase = "wait" /\ t.chip.due = 0 THEN BeginData(t) ELSE t)
-----------------------------------------------------------------------------
(***************************************************************************)
(* Commands: the first byte, the last one, and the result.                 *)
(***************************************************************************)
ToCommand(s) == [s EXCEPT !.chip.phase = "command", !.chip.got = NoCommand]

Reported(s, u) == [s EXCEPT !.chip.res = [NoResult EXCEPT !.ic = s.chip.pending[u]]]
AnsweredMutant(s, u) == [s EXCEPT !.chip.pending[u] = NoStatus, !.chip.seekEnd[u] = FALSE]
Answered(s, u) ==
  [s EXCEPT !.chip.pending[u] = NoStatus, !.chip.seekEnd[u] = FALSE, !.chip.busy[u] = FALSE]
SenseInt(s) ==
  LET waiting == {u \in Drives : s.chip.pending[u] # NoStatus}
      u == CHOOSE v \in waiting : \A w \in waiting : v <= w IN
    IF waiting = {} THEN Invalid(s) ELSE Result(Answered(Reported(s, u), u), 2, FALSE)

StartSeek(s) ==
  LET c == s.chip.got IN
    StepDrives(ToCommand(SelectHead([s EXCEPT
      !.chip.seek[c.us] = [IdleSeek EXCEPT !.active = TRUE, !.recal = (c.op = "recalibrate"),
                             !.target = IF c.op = "seek" THEN c.c ELSE 0, !.hd = s.chip.hd],
      !.chip.busy[c.us] = TRUE, !.chip.pending[c.us] = NoStatus])))

StartData(s0) ==
  LET c == s0.chip.got
      s == [s0 EXCEPT !.chip = [@ EXCEPT !.c = c.c, !.h = c.h, !.r = c.r, !.st1 = {}, !.st2 = {},
                                         !.needNext = FALSE, !.cmStop = FALSE, !.xfer = "none"]]
      t == SelectHead(s) IN
    CASE \E u \in Drives : s.chip.busy[u] -> Invalid(s)
      [] OTHER ->
           IF ~DriveReady(t, c.us) \/ (c.hd = 1 /\ ~DriveTwoSided(t, c.us))
           THEN EndData(t, {"AT", "NR"})
           ELSE IF c.op \in Writing /\ Drive(t, c.us).wp
           THEN EndData([t EXCEPT !.chip.st1 = {"NW"}], {"AT"})
           ELSE IF t.chip.loaded = c.us /\ t.chip.unload > 0 THEN BeginData(t)
           ELSE Polled([t EXCEPT !.chip.loaded = c.us, !.chip.phase = "wait", !.chip.due = Hlt])

Execute(s0) ==
  LET c == s0.chip.got
      s == IF c.op = "sense_int" THEN s0
           ELSE [s0 EXCEPT !.chip.us = c.us,
                           !.chip.hd = IF c.op = "recalibrate" THEN 0 ELSE c.hd] IN
    CASE c.op = "specify" ->
           ToCommand([s EXCEPT !.chip.nd = c.nd, !.chip.specified = TRUE])
      [] c.op = "sense_drive" -> Result(SelectHead(s), 1, FALSE)
      [] c.op = "sense_int" -> SenseInt(s)
      [] c.op \in {"seek", "recalibrate"} -> StartSeek(s)
      [] c.op \in DataOps -> StartData(s)

\* The first byte is refused while a seek's end is waiting for Sense Interrupt Status.
StartCommand(s, c) ==
  LET t == [s EXCEPT !.chip.got = c] IN
    IF c.op = "unknown" \/ (c.op # "sense_int" /\ \E u \in Drives : s.chip.seekEnd[u])
    THEN Invalid(t)
    ELSE IF c.op = "sense_int" THEN Execute(t) ELSE t

ResultRead(s) ==
  LET t == [s EXCEPT !.chip.resultInt = FALSE, !.chip.left = @ - 1] IN
    IF t.chip.left = 0 THEN ToCommand(t) ELSE t
=============================================================================
