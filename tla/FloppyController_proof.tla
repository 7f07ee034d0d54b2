----------------------- MODULE FloppyController_proof -----------------------
(***************************************************************************)
(* Proofs about disk controllers: FloppyController first, for any drives,  *)
(* diskettes, sector size, commands and guest, then the hard-sector cards. *)
(*                                                                         *)
(* The inductive invariant follows a transfer through its phases.  While   *)
(* the chip writes, its buffer is what the guest loaded since it was       *)
(* asked, in order, with zeros where it was late (Asks); while it reads,   *)
(* the byte on offer is the next after the last one taken, or the chip     *)
(* has said Lost Data (Offers); and a wait-synced chip that a deadline     *)
(* woke over an untaken byte is in a Write Track (Woken).                  *)
(***************************************************************************)
EXTENDS FloppyController, SlotCards, SequenceTheorems, WellFoundedInduction, TLAPS

Pins == {"cmd", "ctx", "phase", "steps", "inward", "trk", "sec", "data", "status", "intrq", "drq",
         "lost", "buf", "idx", "size", "end", "id", "conds", "wasReady", "ra"}
Contexts == {"typeI", "read", "write", "readAddress", "readTrack", "writeTrack"}

Chip(c) ==
  /\ DOMAIN c = Pins /\ c.phase \in Phases /\ c.ctx \in Contexts
  /\ c.drq \in BOOLEAN /\ c.lost \in BOOLEAN

HasZero(b) == \E k \in DOMAIN b : b[k] = 0

\* What the guest loaded, up to its n-th byte, with zeros after the first.
Record(b, n) ==
  /\ b \in Seq(Nat)
  /\ b # <<>> => b[1] = 1
  /\ \A j \in 1..Len(b) : b[j] <= n /\ \A i \in 1..Len(b) : i < j /\ b[j] # 0 => b[i] < b[j]

Asks(c, s) ==
  c.phase \in {"writeWait", "write"} =>
    /\ c.ctx \in {"write", "writeTrack"} /\ c.end \in {"sector", "track"}
    /\ c.end = "track" => c.ctx = "writeTrack"
    /\ c.end = "sector" => c.size = Size
    /\ c.size \in Nat \ {0} /\ Len(c.buf) <= c.size
    /\ Record(c.buf, s.loads)
    /\ c.drq => Len(c.buf) < c.size
    /\ c.phase = "write" \/ ~c.drq => c.buf # <<>>
    /\ c.buf = <<>> => s.loads = 0
    /\ HasZero(c.buf) => c.lost

Owed(c, s) ==
  c.ctx \in {"read", "readAddress"} =>
    /\ c.drq => s.given = s.took + 1 \/ c.lost
    /\ ~c.drq => s.given = s.took

Offers(c, s) == Owed(c, s) /\ (c.phase \in {"read", "drain"} => c.ctx \in {"read", "readAddress"})

Told(t, c, s) ==
  /\ c.ctx # "typeI" /\ (s.gap \/ s.padded) => c.lost
  /\ t = "full" /\ c.lost => c.ctx = "writeTrack"

Unloaded(c, s) == c.phase \in {"settle", "headSettle"} => s.loads = 0

Sound(t, c, s) == Chip(c) /\ Asks(c, s) /\ Offers(c, s) /\ Told(t, c, s) /\ Unloaded(c, s)

Fields == {"given", "took", "gap", "padded", "loads"}
History(s) ==
  /\ DOMAIN s = Fields
  /\ s.given \in Nat /\ s.took \in Nat /\ s.loads \in Nat /\ s.gap \in BOOLEAN /\ s.padded \in BOOLEAN

\* The accesses, and the turns of the loop that no port is served in.
Accesses == {<<"touch", "status", "poll">>, <<"hold", "take", "poll">>, <<"hold", "load", "touch">>,
             <<"touch", "command", "poll">>}
Todos == {<<>>, <<"touch">>, <<"poll">>, <<"due">>} \cup Accesses

\* A deadline over a byte on offer is one of a Write Track.
Woken ==
  todo = <<"due">> /\ timing = "full" => chip.phase \in {"settle"} \/ (Writing /\ chip.end = "track")

\* What a sector can hold.
Contents ==
  {Shipped, Filled} \cup
  {b \in Seq(Nat) : /\ Len(b) = Size /\ b[1] = 1
                    /\ \A i, j \in 1..Size : i < j /\ b[j] # 0 => b[i] < b[j]}
Datas     == [1..Sectors -> Contents]
Layouts   == [count : 0..Sectors, data : Datas]
Formats   == [0..(Tracks - 1) -> Layouts]
Diskettes == [loaded : BOOLEAN, protected : BOOLEAN, fmt : Formats]

Kept ==
  /\ timing \in {"full", "real"} /\ sel \in Drives \cup {NoDrive}
  /\ heads \in [Drives -> Nat] /\ media \in [Drives -> Diskettes]
  /\ todo \in Todos
  /\ History(seen)

IInv == Kept /\ Woken /\ Sound(timing, chip, seen)
-----------------------------------------------------------------------------
(***************************************************************************)
(* Records.                                                                *)
(***************************************************************************)
LEMMA RecordStarts == ASSUME NEW n PROVE Record(<<>>, n) /\ ~HasZero(<<>>)
BY DEF Record, HasZero

\* A record grows by the byte the guest loads.
LEMMA RecordLoads ==
  ASSUME NEW b, NEW n \in Nat, Record(b, n), b = <<>> => n = 0
  PROVE  /\ Record(Append(b, n + 1), n + 1) /\ Append(b, n + 1) # <<>>
         /\ Len(Append(b, n + 1)) = Len(b) + 1
         /\ HasZero(Append(b, n + 1)) => HasZero(b)
<1> DEFINE e == Append(b, n + 1)
<1>1. b \in Seq(Nat) /\ Len(b) \in Nat
  BY DEF Record
<1>2. /\ e \in Seq(Nat) /\ Len(e) = Len(b) + 1 /\ e # <<>>
      /\ \A i \in 1..Len(b) : e[i] = b[i]
      /\ e[Len(b) + 1] = n + 1
  BY <1>1
<1>3. \A i \in 1..Len(b) : b[i] \in Nat
  BY <1>1
<1>4. e[1] = 1
  <2>1. CASE b = <<>>
    BY <1>2, <2>1
  <2>2. CASE b # <<>>
    <3>1. 1 \in 1..Len(b)
      BY <1>1, <2>2
    <3> QED
      BY <1>2, <2>2, <3>1 DEF Record
  <2> QED
    BY <2>1, <2>2
<1> HIDE DEF e
<1>5. ASSUME NEW j \in 1..Len(e)
      PROVE  e[j] <= n + 1 /\ \A i \in 1..Len(e) : i < j /\ e[j] # 0 => e[i] < e[j]
  <2>1. CASE j \in 1..Len(b)
    <3>1. e[j] = b[j] /\ b[j] <= n
      BY <1>2, <2>1 DEF Record
    <3>2. ASSUME NEW i \in 1..Len(e), i < j, e[j] # 0
          PROVE  e[i] < e[j]
      <4>1. i \in 1..Len(b)
        BY <1>1, <2>1, <3>2
      <4> QED
        BY <1>2, <2>1, <3>1, <3>2, <4>1 DEF Record
    <3> QED
      BY <1>3, <2>1, <3>1, <3>2
  <2>2. CASE j = Len(b) + 1
    <3>1. ASSUME NEW i \in 1..Len(e), i < j
          PROVE  e[i] < n + 1
      <4>1. i \in 1..Len(b)
        BY <1>1, <2>2, <3>1
      <4>2. e[i] = b[i] /\ b[i] <= n
        BY <1>2, <4>1 DEF Record
      <4> QED
        BY <1>3, <4>1, <4>2
    <3> QED
      BY <1>2, <2>2, <3>1
  <2> QED
    BY <1>1, <1>2, <2>1, <2>2
<1>6. HasZero(e) => HasZero(b)
  <2> SUFFICES ASSUME NEW k \in DOMAIN e, e[k] = 0
               PROVE  HasZero(b)
    BY DEF HasZero
  <2>1. k \in 1..Len(b)
    BY <1>1, <1>2
  <2> QED
    BY <1>1, <1>2, <2>1 DEF HasZero
<1>7. Record(e, n + 1)
  BY <1>2, <1>4, <1>5 DEF Record
<1> QED
  BY <1>2, <1>6, <1>7 DEF e

\* And by a zero for one it missed.
LEMMA RecordPads ==
  ASSUME NEW b, NEW n \in Nat, Record(b, n), b # <<>>
  PROVE  /\ Record(Append(b, 0), n) /\ Append(b, 0) # <<>>
         /\ Len(Append(b, 0)) = Len(b) + 1
<1> DEFINE e == Append(b, 0)
<1>1. b \in Seq(Nat) /\ Len(b) \in Nat /\ 1 \in 1..Len(b)
  BY DEF Record
<1>2. /\ e \in Seq(Nat) /\ Len(e) = Len(b) + 1 /\ e # <<>>
      /\ \A i \in 1..Len(b) : e[i] = b[i]
      /\ e[Len(b) + 1] = 0
  BY <1>1
<1>3. e[1] = 1
  BY <1>1, <1>2 DEF Record
<1> HIDE DEF e
<1>4. ASSUME NEW j \in 1..Len(e)
      PROVE  e[j] <= n /\ \A i \in 1..Len(e) : i < j /\ e[j] # 0 => e[i] < e[j]
  <2>1. CASE j \in 1..Len(b)
    <3>1. e[j] = b[j] /\ b[j] <= n
      BY <1>2, <2>1 DEF Record
    <3>2. ASSUME NEW i \in 1..Len(e), i < j, e[j] # 0
          PROVE  e[i] < e[j]
      <4>1. i \in 1..Len(b)
        BY <1>1, <2>1, <3>2
      <4> QED
        BY <1>2, <2>1, <3>1, <3>2, <4>1 DEF Record
    <3> QED
      BY <3>1, <3>2
  <2>2. CASE j = Len(b) + 1
    BY <1>2, <2>2
  <2> QED
    BY <1>1, <1>2, <2>1, <2>2
<1> QED
  BY <1>2, <1>3, <1>4 DEF Record, e
-----------------------------------------------------------------------------
(***************************************************************************)
(* The chip's operations.                                                  *)
(***************************************************************************)
\* d is c in another phase of the same command, with nothing asked or offered.
Resting(c, d) ==
  /\ DOMAIN d = Pins /\ d.ctx = c.ctx /\ d.drq = c.drq /\ d.lost = c.lost
  /\ d.phase \in {"idle", "headSettle", "settle"}

\* A command that ends, with an error or without, is in no transfer.
LEMMA EndFacts ==
  ASSUME NEW c, DOMAIN c = Pins
  PROVE  /\ Resting(c, Finished(c)) /\ Finished(c).phase = "idle"
         /\ \A bit : Resting(c, Failed(c, bit)) /\ Failed(c, bit).phase = "idle"
BY DEF Finished, Failed, Resting, Pins

\* A chip that leaves a transfer for rest or a settling head is sound.
LEMMA RestingFacts ==
  ASSUME NEW t, NEW c, NEW d, NEW s, Chip(c), Owed(c, s), Told(t, c, s), Resting(c, d),
         d.phase # "idle" => s.loads = 0
  PROVE  Sound(t, d, s)
<1>1. Chip(d)
  BY DEF Chip, Resting, Phases
<1>2. Asks(d, s)
  BY DEF Asks, Resting
<1>3. Offers(d, s)
  BY DEF Offers, Owed, Resting
<1>4. Told(t, d, s)
  BY DEF Told, Resting
<1>5. Unloaded(d, s)
  BY DEF Unloaded, Resting
<1> QED
  BY <1>1, <1>2, <1>3, <1>4, <1>5 DEF Sound

\* d is c asking for the first byte of a record.
LEMMA AskingFacts ==
  ASSUME NEW t, NEW c, NEW d, NEW s,
         Chip(c), Told(t, c, s), s.loads = 0, c.ctx \in {"write", "writeTrack"},
         DOMAIN d = Pins, d.ctx = c.ctx, d.lost = c.lost, d.drq = TRUE,
         d.phase = "writeWait", d.size \in Nat \ {0}, d.buf = <<>>,
         (d.end = "sector" /\ d.size = Size) \/ (d.end = "track" /\ c.ctx = "writeTrack")
  PROVE  Sound(t, d, s)
<1>1. Chip(d)
  BY DEF Chip, Phases
<1>2. Asks(d, s)
  <2>1. Len(d.buf) = 0 /\ Record(d.buf, s.loads) /\ ~HasZero(d.buf)
    BY RecordStarts
  <2> QED
    BY <2>1 DEF Asks
<1>3. Offers(d, s)
  BY DEF Offers, Owed
<1>4. Told(t, d, s)
  BY DEF Told
<1>5. Unloaded(d, s)
  BY DEF Unloaded
<1> QED
  BY <1>1, <1>2, <1>3, <1>4, <1>5 DEF Sound

\* It offers the bytes of a sector, or of an address.
LEMMA ReadingFacts ==
  ASSUME NEW t, NEW c, NEW d, NEW s, Chip(c), Owed(c, s), Told(t, c, s),
         DOMAIN d = Pins, d.ctx = c.ctx, d.drq = c.drq, d.lost = c.lost,
         d.phase \in {"read", "drain"}, c.ctx \in {"read", "readAddress"}
  PROVE  Sound(t, d, s)
<1>1. Chip(d) /\ Asks(d, s) /\ Unloaded(d, s)
  BY DEF Chip, Phases, Asks, Unloaded
<1>2. Offers(d, s)
  BY DEF Offers, Owed
<1>3. Told(t, d, s)
  BY DEF Told
<1> QED
  BY <1>1, <1>2, <1>3 DEF Sound

\* The head settled: the transfer that begins is sound, with nothing loaded.
LEMMA AfterFacts ==
  ASSUME NEW t, NEW c, NEW s, Chip(c), Owed(c, s), Told(t, c, s), s.loads = 0
  PROVE  Sound(t, AfterHeadSettle(c), s)
<1> DEFINE d == AfterHeadSettle(c)
<1>1. Sound(t, Finished(c), s) /\ \A bit : Sound(t, Failed(c, bit), s)
  BY EndFacts, RestingFacts DEF Chip
<1>2. CASE c.ctx = "typeI"
  <2>1. d = Finished(c) \/ d = Failed(c, "seekError")
    BY <1>2 DEF AfterHeadSettle, Verified
  <2> QED
    BY <1>1, <2>1
<1>3. CASE c.ctx = "read"
  <2>1. CASE d = Failed(c, "notFound")
    BY <1>1, <2>1
  <2>2. CASE d # Failed(c, "notFound")
    <3>1. PICK b, e : d = [c EXCEPT !.id = c.sec, !.size = Size, !.idx = 0, !.phase = "read",
                                   !.buf = b, !.end = e]
      BY <1>3, <2>2 DEF AfterHeadSettle, BeganTypeII
    <3> HIDE DEF d
    <3>2. DOMAIN d = Pins /\ d.ctx = c.ctx /\ d.drq = c.drq /\ d.lost = c.lost /\ d.phase = "read"
      BY <3>1 DEF Chip, Pins
    <3>3. Sound(t, d, s)
      BY <1>3, <3>2, ReadingFacts
    <3> QED
      BY <3>3 DEF d
  <2> QED
    BY <2>1, <2>2
<1>4. CASE c.ctx = "write"
  <2>1. CASE d = Failed(c, "notFound")
    BY <1>1, <2>1
  <2>2. CASE d # Failed(c, "notFound")
    <3>1. d = [AsksFor(c, Size) EXCEPT !.id = c.sec, !.end = "sector"]
      BY <1>4, <2>2 DEF AfterHeadSettle, BeganTypeII
    <3> HIDE DEF d
    <3>2. /\ DOMAIN d = Pins /\ d.ctx = c.ctx /\ d.lost = c.lost /\ d.drq = TRUE
          /\ d.phase = "writeWait" /\ d.size = Size /\ d.buf = <<>> /\ d.end = "sector"
      BY <3>1 DEF AsksFor, Chip, Pins
    <3>3. d.size \in Nat \ {0} /\ c.ctx \in {"write", "writeTrack"}
      BY <1>4, <3>2, FloppyAssumption
    <3>4. Sound(t, d, s)
      BY <3>2, <3>3, AskingFacts
    <3> QED
      BY <3>4 DEF d
  <2> QED
    BY <2>1, <2>2
<1>5. CASE c.ctx = "readAddress"
  <2>1. CASE d = Failed(c, "notFound")
    BY <1>1, <2>1
  <2>2. CASE d # Failed(c, "notFound")
    <3>1. PICK b, x, r : d = [c EXCEPT !.buf = b, !.sec = x, !.idx = 0, !.ra = r, !.end = "plain",
                                      !.phase = "read"]
      BY <1>5, <2>2 DEF AfterHeadSettle, ReadAnAddress
    <3> HIDE DEF d
    <3>2. DOMAIN d = Pins /\ d.ctx = c.ctx /\ d.drq = c.drq /\ d.lost = c.lost /\ d.phase = "read"
      BY <3>1 DEF Chip, Pins
    <3>3. Sound(t, d, s)
      BY <1>5, <3>2, ReadingFacts
    <3> QED
      BY <3>3 DEF d
  <2> QED
    BY <2>1, <2>2
<1>6. CASE c.ctx = "readTrack"
  <2>1. d = Finished(c)
    BY <1>6 DEF AfterHeadSettle
  <2> QED
    BY <1>1, <2>1
<1>7. CASE c.ctx = "writeTrack"
  <2>1. CASE d = Failed(c, "writeFault")
    BY <1>1, <2>1
  <2>2. CASE d # Failed(c, "writeFault")
    <3>1. d = [AsksFor(c, TrackBytes) EXCEPT !.end = "track"]
      BY <1>7, <2>2 DEF AfterHeadSettle
    <3> HIDE DEF d
    <3>2. /\ DOMAIN d = Pins /\ d.ctx = c.ctx /\ d.lost = c.lost /\ d.drq = TRUE
          /\ d.phase = "writeWait" /\ d.size = TrackBytes /\ d.buf = <<>> /\ d.end = "track"
      BY <3>1 DEF AsksFor, Chip, Pins
    <3>3. Sound(t, d, s)
      BY <1>7, <3>2, AskingFacts, FloppyAssumption
    <3> QED
      BY <3>3 DEF d
  <2> QED
    BY <2>1, <2>2
<1> QED
  BY <1>2, <1>3, <1>4, <1>5, <1>6, <1>7 DEF Chip, Contexts

\* A command begins from nothing.
LEMMA StartFacts ==
  ASSUME NEW t, NEW c, NEW cmd \in Command, DOMAIN c = Pins, c.phase \in Phases,
         cmd.op # "forceInterrupt"
  PROVE  Sound(t, StartCommand(c, cmd), NothingSeen)
<1> DEFINE f == [c EXCEPT !.cmd = cmd, !.conds = {}, !.status = {}, !.lost = FALSE,
                          !.drq = FALSE, !.buf = <<>>, !.idx = 0, !.size = 0, !.id = 0,
                          !.ctx = ContextOf(cmd.op)]
<1>1. /\ DOMAIN f = Pins /\ f.drq = FALSE /\ f.lost = FALSE /\ f.ctx = ContextOf(cmd.op)
      /\ f.phase \in Phases
  BY DEF Pins
<1>2. ContextOf(cmd.op) \in Contexts
  BY DEF Command, Ops, ContextOf, Contexts
<1> HIDE DEF f
<1>3. Chip(f) /\ Owed(f, NothingSeen) /\ Told(t, f, NothingSeen) /\ NothingSeen.loads = 0
  BY <1>1, <1>2 DEF Chip, Owed, Told, NothingSeen
<1>4. Sound(t, Finished(f), NothingSeen) /\ \A bit : Sound(t, Failed(f, bit), NothingSeen)
  BY <1>1, <1>3, EndFacts, RestingFacts
<1>5. Sound(t, AfterHeadSettle(f), NothingSeen)
  BY <1>3, AfterFacts
<1>6. \A w : Sound(t, HeadLoadThen(f, w), NothingSeen)
  <2>1. Resting(f, [f EXCEPT !.phase = "headSettle"])
    BY <1>1 DEF Resting, Pins
  <2>2. Sound(t, [f EXCEPT !.phase = "headSettle"], NothingSeen)
    BY <1>3, <2>1, RestingFacts
  <2> QED
    BY <1>5, <2>2 DEF HeadLoadThen
<1>7. Sound(t, StartTypeII(f), NothingSeen) /\ Sound(t, StartTypeIII(f), NothingSeen)
  BY <1>4, <1>6 DEF StartTypeII, StartTypeIII
<1>8. f.ctx = "typeI" => Sound(t, StartTypeI(f), NothingSeen)
  <2> SUFFICES ASSUME f.ctx = "typeI"
               PROVE  Sound(t, StartTypeI(f), NothingSeen)
    OBVIOUS
  <2> DEFINE n == Pulses(f)
             a == [f EXCEPT !.steps = n,
                     !.trk = IF f.cmd.op = "restore" /\ n = 0 THEN 0 ELSE @,
                     !.inward = CASE f.cmd.op = "restore" -> IF n = 0 THEN @ ELSE FALSE
                                  [] f.cmd.op = "seek" -> f.data > f.trk
                                  [] f.cmd.op = "stepIn" -> TRUE
                                  [] f.cmd.op = "stepOut" -> FALSE
                                  [] OTHER -> @]
  <2>1. StartTypeI(f) = IF n > 0 THEN [a EXCEPT !.phase = "settle"]
                        ELSE IF "v" \in f.cmd.flags THEN [a EXCEPT !.phase = "headSettle"]
                        ELSE Finished(a)
    BY DEF StartTypeI, HeadLoadThen
  <2>2. DOMAIN a = Pins /\ a.ctx = f.ctx /\ a.drq = f.drq /\ a.lost = f.lost
    BY <1>1 DEF Pins
  <2> HIDE DEF n, a
  <2>3. \/ StartTypeI(f) = [a EXCEPT !.phase = "settle"]
        \/ StartTypeI(f) = [a EXCEPT !.phase = "headSettle"]
        \/ StartTypeI(f) = Finished(a)
    BY <2>1
  <2>4. Resting(f, StartTypeI(f))
    BY <2>2, <2>3 DEF Resting, Finished, Pins
  <2> QED
    BY <1>3, <2>4, RestingFacts
<1>9. StartCommand(c, cmd) = CASE f.ctx = "typeI" -> StartTypeI(f)
                               [] f.ctx \in {"read", "write"} -> StartTypeII(f)
                               [] OTHER -> StartTypeIII(f)
  BY DEF StartCommand, f
<1> QED
  BY <1>7, <1>8, <1>9

\* d is c to a transfer.
Same(c, d) ==
  /\ DOMAIN d = Pins /\ d.phase = c.phase /\ d.ctx = c.ctx /\ (d.drq <=> c.drq) /\ (d.lost <=> c.lost)
  /\ d.drq \in BOOLEAN /\ d.lost \in BOOLEAN
  /\ d.buf = c.buf /\ d.size = c.size /\ d.end = c.end

\* A chip the same to a transfer is as sound.
LEMMA SameFacts ==
  ASSUME NEW t, NEW c, NEW d, NEW s, Sound(t, c, s), Same(c, d)
  PROVE  Sound(t, d, s)
<1>1. Chip(d)
  BY DEF Sound, Chip, Same
<1>2. Asks(d, s)
  BY DEF Sound, Asks, Same
<1>3. Offers(d, s) /\ Told(t, d, s) /\ Unloaded(d, s)
  BY DEF Sound, Offers, Owed, Told, Unloaded, Same
<1> QED
  BY <1>1, <1>2, <1>3 DEF Sound

\* A Force Interrupt leaves a sound chip.
LEMMA ForceFacts ==
  ASSUME NEW t, NEW c, NEW cmd, NEW s, Sound(t, c, s)
  PROVE  Sound(t, ForceInterrupt(c, cmd), s)
<1> DEFINE d == ForceInterrupt(c, cmd)
<1>1. Chip(c) /\ Owed(c, s) /\ Told(t, c, s)
  BY DEF Sound, Offers
<1>2. CASE c.phase # "idle"
  <2>1. Resting(c, d) /\ d.phase = "idle"
    BY <1>1, <1>2 DEF ForceInterrupt, Resting, Chip, Pins
  <2> QED
    BY <1>1, <2>1, RestingFacts
<1>3. CASE c.phase = "idle"
  <2>1. /\ DOMAIN d = Pins /\ d.phase = "idle" /\ d.ctx = "typeI" /\ d.drq = c.drq
        /\ d.lost = FALSE
    BY <1>1, <1>3 DEF ForceInterrupt, Chip, Pins
  <2> HIDE DEF d
  <2>2. Chip(d)
    BY <1>1, <2>1 DEF Chip, Phases, Contexts
  <2>3. Asks(d, s) /\ Offers(d, s) /\ Told(t, d, s) /\ Unloaded(d, s)
    BY <2>1 DEF Asks, Offers, Owed, Told, Unloaded
  <2>4. Sound(t, d, s)
    BY <2>2, <2>3 DEF Sound
  <2> QED
    BY <2>4 DEF d
<1> QED
  BY <1>2, <1>3

\* A chip that was powered or reset is sound.
LEMMA PoweredOnFacts ==
  ASSUME NEW t, NEW ready, NEW c, c = PoweredOn(ready) \/ c = [PoweredOn(ready) EXCEPT !.sec = 1]
  PROVE  Sound(t, c, NothingSeen)
<1>1. /\ DOMAIN c = Pins /\ c.phase = "idle" /\ c.ctx = "typeI" /\ c.drq = FALSE
      /\ c.lost = FALSE
  BY DEF PoweredOn, Pins
<1>2. Chip(c)
  BY <1>1 DEF Chip, Phases, Contexts
<1>3. Asks(c, NothingSeen) /\ Offers(c, NothingSeen) /\ Told(t, c, NothingSeen)
      /\ Unloaded(c, NothingSeen)
  BY <1>1 DEF Asks, Offers, Owed, Told, Unloaded
<1> QED
  BY <1>2, <1>3 DEF Sound

\* And there is nothing to remember.
LEMMA NothingFacts == History(NothingSeen)
BY DEF History, NothingSeen, Fields
-----------------------------------------------------------------------------
(***************************************************************************)
(* The diskettes.                                                          *)
(***************************************************************************)
LEMMA SectorStored ==
  ASSUME media \in [Drives -> Diskettes], NEW d \in Drives, NEW t \in 0..(Tracks - 1),
         NEW s \in 1..Sectors, NEW b \in Contents
  PROVE  [media EXCEPT ![d].fmt[t].data[s] = b] \in [Drives -> Diskettes]
<1>1. media[d] \in Diskettes /\ media[d].fmt \in Formats /\ media[d].fmt[t] \in Layouts
      /\ media[d].fmt[t].data \in Datas
  BY DEF Diskettes, Formats, Layouts
<1>2. [media[d].fmt[t].data EXCEPT ![s] = b] \in Datas
  BY <1>1 DEF Datas
<1>3. [media[d].fmt[t] EXCEPT !.data[s] = b] \in Layouts
  BY <1>1, <1>2 DEF Layouts
<1>4. [media[d].fmt EXCEPT ![t].data[s] = b] \in Formats
  BY <1>1, <1>3 DEF Formats
<1>5. [media[d] EXCEPT !.fmt[t].data[s] = b] \in Diskettes
  BY <1>1, <1>4 DEF Diskettes
<1> QED
  BY <1>5

\* A track laid down anew leaves a diskette.
LEMMA TrackLaid ==
  ASSUME media \in [Drives -> Diskettes], NEW d \in Drives, NEW t \in 0..(Tracks - 1),
         NEW l \in Layouts
  PROVE  [media EXCEPT ![d].fmt[t] = l] \in [Drives -> Diskettes]
<1>1. media[d] \in Diskettes /\ media[d].fmt \in Formats
  BY DEF Diskettes
<1>2. [media[d].fmt EXCEPT ![t] = l] \in Formats
  BY <1>1 DEF Formats
<1>3. [media[d] EXCEPT !.fmt[t] = l] \in Diskettes
  BY <1>1, <1>2 DEF Diskettes
<1> QED
  BY <1>3

\* So do a diskette put in and one taken out.
LEMMA DisksChanged ==
  ASSUME media \in [Drives -> Diskettes], NEW d \in Drives, NEW f \in Formats
  PROVE  /\ \A p \in BOOLEAN :
              [media EXCEPT ![d].loaded = TRUE, ![d].protected = p, ![d].fmt = f]
              \in [Drives -> Diskettes]
         /\ [media EXCEPT ![d].loaded = FALSE, ![d].protected = FALSE] \in [Drives -> Diskettes]
<1>1. media[d] \in Diskettes
  OBVIOUS
<1>2. ASSUME NEW p \in BOOLEAN
      PROVE  [media EXCEPT ![d].loaded = TRUE, ![d].protected = p, ![d].fmt = f]
             \in [Drives -> Diskettes]
  <2>1. [media[d] EXCEPT !.loaded = TRUE, !.protected = p, !.fmt = f] \in Diskettes
    BY <1>1 DEF Diskettes
  <2> QED
    BY <2>1
<1>3. [media[d] EXCEPT !.loaded = FALSE, !.protected = FALSE] \in Diskettes
  BY <1>1 DEF Diskettes
<1>4. [media EXCEPT ![d].loaded = FALSE, ![d].protected = FALSE] \in [Drives -> Diskettes]
  BY <1>3
<1> QED
  BY <1>2, <1>4
-----------------------------------------------------------------------------
(***************************************************************************)
(* What a write leaves.                                                    *)
(***************************************************************************)
LEMMA SectorFound ==
  ASSUME Kept, NEW s, s \in 1..SectorCount
  PROVE  /\ sel \in Drives /\ heads[sel] \in 0..(Tracks - 1) /\ s \in 1..Sectors
<1>1. /\ sel # NoDrive /\ heads[sel] < Tracks /\ SectorCount = media[sel].fmt[heads[sel]].count
  BY DEF SectorCount, Ready
<1>2. sel \in Drives /\ heads[sel] \in 0..(Tracks - 1)
  BY <1>1, FloppyAssumption DEF Kept
<1>3. media[sel].fmt[heads[sel]].count \in 0..Sectors
  BY <1>2 DEF Kept, Diskettes, Formats, Layouts
<1> QED
  BY <1>1, <1>2, <1>3, FloppyAssumption

\* A whole record is what a sector may hold.
LEMMA WholeRecord ==
  ASSUME NEW b, NEW n, Record(b, n), b # <<>>, Len(b) = Size
  PROVE  b \in Contents
BY FloppyAssumption DEF Record, Contents

\* A step may leave the chip to the next process, or sound.
Left == media' \in [Drives -> Diskettes] /\ History(seen') /\ Sound(timing, chip', seen')

\* A sector that is written is a whole record, with a zero only under Lost Data.
LEMMA CommitSectorFacts ==
  ASSUME Kept, Sound(timing, chip, seen), NEW STATE c, Sound(timing, c, seen),
         c.phase = "write", c.end # "track", c.drq = FALSE, Len(c.buf) >= c.size, CommitSector(c)
  PROVE  Left
<1>1. /\ c.end = "sector" /\ c.size = Size /\ Len(c.buf) = Size /\ c.buf # <<>>
      /\ Record(c.buf, seen.loads) /\ (HasZero(c.buf) => c.lost)
      /\ c.ctx \in {"write", "writeTrack"}
  BY FloppyAssumption DEF Sound, Asks, Record
<1>2. Chip(c) /\ Told(timing, c, seen)
  BY DEF Sound
<1>3. media \in [Drives -> Diskettes] /\ History(seen)
  BY DEF Kept
<1>4. CASE sel = NoDrive
  BY <1>3, <1>4 DEF CommitSector, Left
<1>5. CASE sel # NoDrive
  <2> DEFINE on == [c EXCEPT !.sec = (@ + 1) % 256]
  <2>1. /\ media' = IF Takes(c.id)
                    THEN [media EXCEPT ![sel].fmt[heads[sel]].data[c.id] = c.buf]
                    ELSE media
        /\ chip' = IF ~Takes(c.id) THEN Failed(c, "writeFault")
                   ELSE IF "m" \notin c.cmd.flags THEN Finished(c)
                   ELSE IF Finds(on) THEN [AsksFor(on, Size) EXCEPT !.id = on.sec]
                   ELSE Failed(on, "notFound")
        /\ seen' = [seen EXCEPT !.loads = 0, !.padded = @ \/ HasZero(c.buf)]
    BY <1>5 DEF CommitSector, HasZero
  <2>2. media' \in [Drives -> Diskettes]
    <3>1. CASE Takes(c.id)
      <4>1. sel \in Drives /\ heads[sel] \in 0..(Tracks - 1) /\ c.id \in 1..Sectors
        BY <3>1, SectorFound DEF Takes
      <4>2. c.buf \in Contents
        BY <1>1, WholeRecord
      <4> QED
        BY <1>3, <2>1, <3>1, <4>1, <4>2, SectorStored
    <3> QED
      BY <1>3, <2>1, <3>1
  <2>3. History(seen') /\ seen'.loads = 0 /\ (seen'.gap <=> seen.gap)
        /\ (seen'.padded <=> seen.padded \/ HasZero(c.buf))
    BY <1>3, <2>1 DEF History, Fields
  <2>4. /\ DOMAIN on = Pins /\ on.ctx = c.ctx /\ on.drq = c.drq /\ on.lost = c.lost
        /\ on.phase = c.phase /\ on.end = c.end
    BY <1>2 DEF Chip, Pins
  <2> HIDE DEF on
  <2>5. Chip(on) /\ Owed(on, seen') /\ Told(timing, on, seen')
    BY <1>1, <1>2, <2>3, <2>4 DEF Chip, Owed, Told
  <2>6. Chip(c) /\ Owed(c, seen') /\ Told(timing, c, seen')
    BY <1>1, <1>2, <2>3 DEF Chip, Owed, Told
  <2>7. /\ Sound(timing, Failed(c, "writeFault"), seen') /\ Sound(timing, Finished(c), seen')
        /\ Sound(timing, Failed(on, "notFound"), seen')
    BY <2>5, <2>6, EndFacts, RestingFacts DEF Chip
  <2>8. Sound(timing, [AsksFor(on, Size) EXCEPT !.id = on.sec], seen')
    <3> DEFINE d == [AsksFor(on, Size) EXCEPT !.id = on.sec]
    <3>1. /\ DOMAIN d = Pins /\ d.ctx = on.ctx /\ d.lost = on.lost /\ d.drq = TRUE
          /\ d.phase = "writeWait" /\ d.size = Size /\ d.buf = <<>> /\ d.end = "sector"
      BY <1>1, <2>4 DEF AsksFor, Pins
    <3> HIDE DEF d
    <3>2. d.size \in Nat \ {0} /\ on.ctx \in {"write", "writeTrack"}
      BY <1>1, <2>4, <3>1, FloppyAssumption
    <3>3. Sound(timing, d, seen')
      BY <2>3, <2>5, <3>1, <3>2, AskingFacts
    <3> QED
      BY <3>3 DEF d
  <2>9. Sound(timing, chip', seen')
    BY <2>1, <2>7, <2>8
  <2> QED
    BY <2>2, <2>3, <2>9 DEF Left
<1> QED
  BY <1>4, <1>5

\* And a track.
LEMMA CommitTrackFacts ==
  ASSUME Kept, Sound(timing, chip, seen), NEW STATE c, Chip(c), Told(timing, c, seen),
         c.ctx = "writeTrack", HasZero(c.buf) => c.lost, CommitTrack(c)
  PROVE  Left
<1>1. media \in [Drives -> Diskettes] /\ History(seen)
  BY DEF Kept
<1>2. CASE sel = NoDrive
  BY <1>1, <1>2 DEF CommitTrack, Left
<1>3. CASE sel # NoDrive
  <2> DEFINE laid(n) == Ready /\ heads[sel] < Tracks /\ n > 0
             data(k) == [s \in 1..Sectors |-> IF s <= k THEN Filled
                                              ELSE media[sel].fmt[heads[sel]].data[s]]
             new(n, k) == [media EXCEPT ![sel].fmt[heads[sel]] = [count |-> n, data |-> data(k)]]
  <2>1. PICK n \in 0..Sectors : \E k :
          /\ media' = IF laid(n) THEN new(n, k) ELSE media
          /\ chip' = IF laid(n) /\ k = n THEN Finished(c) ELSE Failed(c, "writeFault")
          /\ seen' = [seen EXCEPT !.padded = @ \/ HasZero(c.buf)]
    BY <1>3 DEF CommitTrack, HasZero
  <2>0. PICK k :
          /\ media' = IF laid(n) THEN new(n, k) ELSE media
          /\ chip' = IF laid(n) /\ k = n THEN Finished(c) ELSE Failed(c, "writeFault")
          /\ seen' = [seen EXCEPT !.padded = @ \/ HasZero(c.buf)]
    BY <2>1
  <2>2. media' \in [Drives -> Diskettes]
    <3>1. CASE laid(n)
      <4>1. sel \in Drives /\ heads[sel] \in 0..(Tracks - 1)
        BY <1>3, <3>1, FloppyAssumption DEF Kept
      <4>2. new(n, k) \in [Drives -> Diskettes]
        <5>1. media[sel].fmt[heads[sel]].data \in Datas
          BY <1>1, <4>1 DEF Diskettes, Formats, Layouts
        <5>2. data(k) \in Datas
          BY <5>1 DEF Datas, Contents
        <5> HIDE DEF data
        <5>3. [count |-> n, data |-> data(k)] \in Layouts
          BY <5>2 DEF Layouts
        <5> QED
          BY <1>1, <4>1, <5>3, TrackLaid
      <4> QED
        BY <2>0, <3>1, <4>2
    <3> QED
      BY <1>1, <2>0, <3>1
  <2> HIDE DEF laid, data, new
  <2>3. History(seen') /\ (seen'.gap <=> seen.gap) /\ (seen'.padded <=> seen.padded \/ HasZero(c.buf))
    BY <1>1, <2>0 DEF History, Fields
  <2>4. Owed(c, seen') /\ Told(timing, c, seen')
    BY <2>3 DEF Chip, Owed, Told
  <2>5. Sound(timing, Failed(c, "writeFault"), seen') /\ Sound(timing, Finished(c), seen')
    BY <2>4, EndFacts, RestingFacts DEF Chip
  <2> QED
    BY <2>0, <2>2, <2>3, <2>5 DEF Left
<1> QED
  BY <1>2, <1>3

\* The next byte is asked for, or the sector is written.
LEMMA AskOrCommitFacts ==
  ASSUME Kept, Sound(timing, chip, seen), NEW STATE c, Sound(timing, c, seen),
         c.phase = "write", c.drq = FALSE, AskOrCommit(c)
  PROVE  Left
<1>1. Asks(c, seen) /\ Chip(c) /\ Told(timing, c, seen)
  BY DEF Sound
<1>2. CASE Len(c.buf) >= c.size
  <2>1. CASE c.end = "track"
    BY <1>1, <1>2, <2>1, CommitTrackFacts DEF AskOrCommit, Commit, Asks
  <2>2. CASE c.end # "track"
    BY <1>2, <2>2, CommitSectorFacts DEF AskOrCommit, Commit
  <2> QED
    BY <2>1, <2>2
<1>3. CASE ~(Len(c.buf) >= c.size)
  <2>1. chip' = [c EXCEPT !.drq = TRUE] /\ media' = media /\ seen' = seen
    BY <1>3 DEF AskOrCommit
  <2>2. /\ DOMAIN chip' = Pins /\ chip'.phase = c.phase /\ chip'.ctx = c.ctx /\ chip'.lost = c.lost
        /\ chip'.drq = TRUE /\ chip'.buf = c.buf /\ chip'.size = c.size /\ chip'.end = c.end
    BY <1>1, <2>1 DEF Chip, Pins
  <2>3. Len(c.buf) < c.size
    BY <1>1, <1>3 DEF Asks, Record
  <2>4. Chip(chip') /\ Told(timing, chip', seen)
    BY <1>1, <2>2 DEF Chip, Told
  <2>5. Asks(chip', seen)
    BY <1>1, <2>2, <2>3 DEF Asks
  <2>6. Offers(chip', seen) /\ Unloaded(chip', seen)
    BY <1>1, <2>2 DEF Offers, Owed, Unloaded, Asks
  <2> QED
    BY <2>1, <2>4, <2>5, <2>6 DEF Left, Sound, Kept
<1> QED
  BY <1>2, <1>3
-----------------------------------------------------------------------------
(***************************************************************************)
(* The turns of the loop.                                                  *)
(***************************************************************************)
LEMMA TurnFacts ==
  ASSUME IInv, NEW p, Turn(p)
  PROVE  /\ timing' = timing /\ sel' = sel /\ chip.phase = p
         /\ todo' \in Todos /\ todo' # <<"due">>
         /\ timing = "full" /\ chip.drq /\ p \in {"read", "drain", "writeWait", "write"}
              => p \in {"writeWait", "write"} /\ chip.end = "track"
<1>1. /\ timing' = timing /\ sel' = sel /\ chip.phase = p /\ todo # <<>> /\ Ripe
      /\ todo' = IF Now # "due" THEN todo
                 ELSE <<IF timing = "full" THEN "touch" ELSE "poll">> \o Tail(todo)
  BY DEF Turn, Advancing
<1>2. todo \in Todos
  BY DEF IInv, Kept
<1>3. Now = "due" <=> todo = <<"due">>
  BY <1>1, <1>2 DEF Todos, Accesses, Now
<1>4. todo' \in Todos /\ todo' # <<"due">>
  <2>1. CASE todo = <<"due">>
    <3>1. todo' = <<"touch">> \/ todo' = <<"poll">>
      BY <1>1, <1>3, <2>1
    <3> QED
      BY <3>1 DEF Todos
  <2>2. CASE todo # <<"due">>
    BY <1>1, <1>2, <1>3, <2>2
  <2> QED
    BY <2>1, <2>2
<1>5. ASSUME timing = "full", chip.drq, p \in {"read", "drain", "writeWait", "write"}
      PROVE  p \in {"writeWait", "write"} /\ chip.end = "track"
  <2>1. todo = <<"due">>
    BY <1>1, <1>3, <1>5 DEF Ripe, AtGuest, Writing
  <2> QED
    BY <1>1, <1>5, <2>1 DEF IInv, Woken, Writing
<1> QED
  BY <1>1, <1>4, <1>5

\* What a turn, or the service of a port, has to show of the rest.
LEMMA Shown ==
  ASSUME IInv, timing' = timing, sel' = sel \/ sel' \in Drives \cup {NoDrive},
         heads' \in [Drives -> Nat], todo' \in Todos, todo' # <<"due">>, Left
  PROVE  IInv'
<1>1. Kept'
  BY DEF IInv, Kept, Left
<1>2. Woken'
  BY DEF Woken
<1>3. Sound(timing, chip, seen)'
  BY DEF Left
<1> QED
  BY <1>1, <1>2, <1>3 DEF IInv

\* A step leaves every drive a head.
LEMMA HeadsStay == ASSUME Kept, NEW i PROVE Moved(i) \in [Drives -> Nat]
BY DEF Kept, Moved

\* A settled head leaves the chip in no transfer.
LEMMA SettledFacts ==
  ASSUME NEW c, NEW d, Resting(c, d), d.phase = "settle"
  PROVE  Resting(c, Settled(d))
BY DEF Resting, Settled, Finished, Pins

\* A step of a Restore.
LEMMA RestoreStepKeeps == ASSUME IInv, RestoreStep PROVE IInv'
<1> DEFINE a == [chip EXCEPT !.trk = 0, !.steps = 0]
           b == [chip EXCEPT !.steps = 0]
           d == [chip EXCEPT !.steps = @ - 1]
<1>1. /\ Turn("settle") /\ media' = media /\ seen' = seen
      /\ heads' = heads \/ heads' = Moved(FALSE)
      /\ chip' = Settled(a) \/ chip' = Failed(b, "seekError") \/ chip' = d
  BY DEF RestoreStep
<1>2. timing' = timing /\ sel' = sel /\ todo' \in Todos /\ todo' # <<"due">> /\ chip.phase = "settle"
  BY <1>1, TurnFacts
<1>3. Chip(chip) /\ Owed(chip, seen) /\ Told(timing, chip, seen) /\ seen.loads = 0
      /\ media \in [Drives -> Diskettes] /\ History(seen) /\ heads \in [Drives -> Nat] /\ Kept
  BY <1>2 DEF IInv, Sound, Offers, Unloaded, Kept
<1>4. Resting(chip, a) /\ Resting(chip, b) /\ Resting(chip, d) /\ a.phase = "settle"
  BY <1>2, <1>3 DEF Resting, Chip, Pins
<1> HIDE DEF a, b, d
<1>5. Resting(chip, Settled(a))
  BY <1>4, SettledFacts
<1>6. Resting(chip, Failed(b, "seekError"))
  BY <1>4, EndFacts DEF Resting
<1>7. Resting(chip, chip')
  BY <1>1, <1>4, <1>5, <1>6
<1>8. Left
  BY <1>1, <1>3, <1>7, RestingFacts DEF Left
<1>9. heads' \in [Drives -> Nat]
  BY <1>1, <1>3, HeadsStay
<1> QED
  BY <1>2, <1>8, <1>9, Shown

\* A step of a seek or of a Step command.
LEMMA StepKeeps == ASSUME IInv, Step PROVE IInv'
<1>1. PICK x, n : chip' = Settled([chip EXCEPT !.trk = x, !.steps = n])
  BY DEF Step
<1> DEFINE a == [chip EXCEPT !.trk = x, !.steps = n]
<1>2. Turn("settle") /\ media' = media /\ seen' = seen /\ heads' = Moved(chip.inward)
  BY DEF Step
<1>3. timing' = timing /\ sel' = sel /\ todo' \in Todos /\ todo' # <<"due">> /\ chip.phase = "settle"
  BY <1>2, TurnFacts
<1>4. Chip(chip) /\ Owed(chip, seen) /\ Told(timing, chip, seen) /\ seen.loads = 0
      /\ media \in [Drives -> Diskettes] /\ History(seen) /\ Kept
  BY <1>3 DEF IInv, Sound, Offers, Unloaded, Kept
<1>5. Resting(chip, a) /\ a.phase = "settle"
  BY <1>3, <1>4 DEF Resting, Chip, Pins
<1> HIDE DEF a
<1>6. Resting(chip, Settled(a))
  BY <1>5, SettledFacts
<1>7. Resting(chip, chip')
  BY <1>1, <1>6 DEF a
<1>8. Left
  BY <1>2, <1>4, <1>7, RestingFacts DEF Left
<1>9. heads' \in [Drives -> Nat]
  BY <1>2, <1>4, HeadsStay
<1> QED
  BY <1>3, <1>8, <1>9, Shown

\* The head is down.
LEMMA HeadSettledKeeps == ASSUME IInv, HeadSettled PROVE IInv'
<1>1. /\ Turn("headSettle") /\ media' = media /\ seen' = seen /\ heads' = heads
      /\ chip' = AfterHeadSettle(chip)
  BY DEF HeadSettled
<1>2. timing' = timing /\ sel' = sel /\ todo' \in Todos /\ todo' # <<"due">>
      /\ chip.phase = "headSettle"
  BY <1>1, TurnFacts
<1>3. Chip(chip) /\ Owed(chip, seen) /\ Told(timing, chip, seen) /\ seen.loads = 0
      /\ media \in [Drives -> Diskettes] /\ History(seen) /\ heads \in [Drives -> Nat]
  BY <1>2 DEF IInv, Sound, Offers, Unloaded, Kept
<1>4. Sound(timing, AfterHeadSettle(chip), seen)
  BY <1>3, AfterFacts
<1>5. Left
  BY <1>1, <1>3, <1>4 DEF Left
<1> QED
  BY <1>1, <1>2, <1>3, <1>5, Shown

\* A byte is offered.
LEMMA ReadByteKeeps == ASSUME IInv, ReadByte PROVE IInv'
<1>1. Turn("read") /\ media' = media /\ heads' = heads /\ seen' = [seen EXCEPT !.given = @ + 1]
  BY DEF ReadByte
<1>2. timing' = timing /\ sel' = sel /\ todo' \in Todos /\ todo' # <<"due">> /\ chip.phase = "read"
      /\ (timing = "full" => ~chip.drq)
  BY <1>1, TurnFacts
<1>3. Chip(chip) /\ Offers(chip, seen) /\ Told(timing, chip, seen)
      /\ media \in [Drives -> Diskettes] /\ History(seen) /\ heads \in [Drives -> Nat]
      /\ timing \in {"full", "real"}
  BY DEF IInv, Sound, Kept
<1>4. /\ DOMAIN chip' = Pins /\ chip'.ctx = chip.ctx /\ chip'.drq = TRUE
      /\ (chip'.lost <=> chip.lost \/ chip.drq) /\ chip'.lost \in BOOLEAN
      /\ chip'.phase \in {"read", "drain"}
  <2> DEFINE next == [Overrun(chip) EXCEPT !.data = chip.buf[chip.idx + 1], !.drq = TRUE,
                                           !.idx = @ + 1]
  <2>1. chip' = IF next.idx < Len(next.buf) THEN next
                ELSE IF next.end = "next" /\ "m" \in next.cmd.flags THEN NextRecord(next)
                ELSE [next EXCEPT !.phase = "drain"]
    BY DEF ReadByte
  <2>2. /\ DOMAIN next = Pins /\ next.ctx = chip.ctx /\ next.drq = TRUE
        /\ (next.lost <=> chip.lost \/ chip.drq) /\ next.lost \in BOOLEAN /\ next.phase = "read"
    BY <1>2, <1>3 DEF Overrun, Chip, Pins
  <2> HIDE DEF next
  <2>3. /\ DOMAIN NextRecord(next) = Pins /\ NextRecord(next).ctx = next.ctx
        /\ NextRecord(next).drq = next.drq /\ NextRecord(next).lost = next.lost
        /\ NextRecord(next).phase \in {"read", "drain"}
    BY <2>2 DEF NextRecord, Pins
  <2> DEFINE e == [next EXCEPT !.phase = "drain"]
  <2>4. /\ DOMAIN e = Pins /\ e.ctx = next.ctx /\ e.drq = next.drq /\ e.lost = next.lost
        /\ e.phase = "drain"
    BY <2>2 DEF Pins
  <2> HIDE DEF e
  <2>5. chip' = next \/ chip' = NextRecord(next) \/ chip' = e
    BY <2>1 DEF e
  <2> QED
    BY <2>2, <2>3, <2>4, <2>5
<1>5. History(seen') /\ seen'.given = seen.given + 1 /\ seen'.took = seen.took
      /\ (seen'.gap <=> seen.gap) /\ (seen'.padded <=> seen.padded)
  BY <1>1, <1>3 DEF History, Fields
<1>6. Chip(chip') /\ Asks(chip', seen') /\ Unloaded(chip', seen')
  BY <1>3, <1>4 DEF Chip, Phases, Asks, Unloaded
<1>7. Offers(chip', seen')
  BY <1>2, <1>3, <1>4, <1>5 DEF Offers, Owed, History, Chip
<1>8. Told(timing, chip', seen')
  BY <1>2, <1>3, <1>4, <1>5 DEF Told, Chip
<1>9. Left
  BY <1>1, <1>2, <1>3, <1>5, <1>6, <1>7, <1>8 DEF Left, Sound
<1> QED
  BY <1>1, <1>2, <1>3, <1>9, Shown

\* The read is over.
LEMMA ReadDrainKeeps == ASSUME IInv, ReadDrain PROVE IInv'
<1>1. Turn("drain") /\ media' = media /\ heads' = heads /\ seen' = seen /\ chip' = Finished(chip)
  BY DEF ReadDrain
<1>2. timing' = timing /\ sel' = sel /\ todo' \in Todos /\ todo' # <<"due">>
  BY <1>1, TurnFacts
<1>3. Chip(chip) /\ Owed(chip, seen) /\ Told(timing, chip, seen)
      /\ media \in [Drives -> Diskettes] /\ History(seen) /\ heads \in [Drives -> Nat]
  BY DEF IInv, Sound, Offers, Kept
<1>4. Left
  BY <1>1, <1>3, EndFacts, RestingFacts DEF Left, Chip
<1> QED
  BY <1>1, <1>2, <1>3, <1>4, Shown

\* The first byte is due.
LEMMA WriteFirstKeeps == ASSUME IInv, WriteFirst PROVE IInv'
<1>1. /\ Turn("writeWait") /\ heads' = heads
      /\ chip.drq => /\ chip' = Finished([chip EXCEPT !.lost = TRUE])
                     /\ media' = media /\ seen' = seen
      /\ ~chip.drq => AskOrCommit([chip EXCEPT !.phase = "write"])
  BY DEF WriteFirst
<1>2. timing' = timing /\ sel' = sel /\ todo' \in Todos /\ todo' # <<"due">>
      /\ chip.phase = "writeWait" /\ (timing = "full" /\ chip.drq => chip.end = "track")
  BY <1>1, TurnFacts
<1>3. Sound(timing, chip, seen) /\ Kept
      /\ media \in [Drives -> Diskettes] /\ History(seen) /\ heads \in [Drives -> Nat]
  BY DEF IInv, Kept
<1>4. Chip(chip) /\ Asks(chip, seen) /\ Told(timing, chip, seen)
  BY <1>3 DEF Sound
<1>5. CASE chip.drq
  <2> DEFINE c == [chip EXCEPT !.lost = TRUE]
  <2>1. DOMAIN c = Pins /\ c.phase = chip.phase /\ c.ctx = chip.ctx /\ c.drq = chip.drq /\ c.lost = TRUE
    BY <1>4 DEF Chip, Pins
  <2> HIDE DEF c
  <2>2. Chip(c) /\ Owed(c, seen) /\ Told(timing, c, seen)
    BY <1>2, <1>4, <1>5, <2>1 DEF Chip, Owed, Told, Asks
  <2>3. Sound(timing, Finished(c), seen)
    BY <2>2, EndFacts, RestingFacts DEF Chip
  <2> QED
    BY <1>1, <1>2, <1>3, <1>5, <2>3, Shown DEF Left, c
<1>6. CASE ~chip.drq
  <2> DEFINE c == [chip EXCEPT !.phase = "write"]
  <2>1. /\ DOMAIN c = Pins /\ c.phase = "write" /\ c.ctx = chip.ctx /\ c.drq = FALSE
        /\ c.lost = chip.lost /\ c.buf = chip.buf /\ c.size = chip.size /\ c.end = chip.end
    BY <1>4, <1>6 DEF Chip, Pins
  <2> HIDE DEF c
  <2>2. Chip(c) /\ Told(timing, c, seen)
    BY <1>4, <2>1 DEF Chip, Phases, Told
  <2>3. Asks(c, seen)
    BY <1>2, <1>4, <1>6, <2>1 DEF Asks
  <2>4. Offers(c, seen) /\ Unloaded(c, seen)
    BY <1>2, <1>4, <2>1 DEF Offers, Owed, Unloaded, Asks
  <2>5. AskOrCommit(c)
    BY <1>1, <1>6 DEF c
  <2>6. Left
    BY <1>3, <2>1, <2>2, <2>3, <2>4, <2>5, AskOrCommitFacts DEF Sound
  <2> QED
    BY <1>1, <1>2, <1>3, <2>6, Shown
<1> QED
  BY <1>4, <1>5, <1>6 DEF Chip

\* The next byte is due.
LEMMA WriteNextKeeps == ASSUME IInv, WriteNext PROVE IInv'
<1> DEFINE missed == [chip EXCEPT !.lost = TRUE, !.drq = FALSE]
           short  == chip.size - Len(chip.buf)
           e == [missed EXCEPT !.buf = @ \o [k \in 1..short |-> 0]]
           f == [missed EXCEPT !.buf = Append(@, 0)]
<1>1. /\ Turn("write") /\ heads' = heads
      /\ ~chip.drq => AskOrCommit(chip)
      /\ chip.drq /\ timing = "full" => CommitTrack(e)
      /\ chip.drq /\ timing # "full" => AskOrCommit(f)
  BY DEF WriteNext
<1>2. timing' = timing /\ sel' = sel /\ todo' \in Todos /\ todo' # <<"due">>
      /\ chip.phase = "write" /\ (timing = "full" /\ chip.drq => chip.end = "track")
  BY <1>1, TurnFacts
<1>3. Sound(timing, chip, seen) /\ Kept /\ History(seen)
      /\ media \in [Drives -> Diskettes] /\ heads \in [Drives -> Nat]
  BY DEF IInv, Kept
<1>4. Chip(chip) /\ Asks(chip, seen) /\ Told(timing, chip, seen)
  BY <1>3 DEF Sound
<1>5. CASE ~chip.drq
  <2>1. chip.drq = FALSE
    BY <1>4, <1>5 DEF Chip
  <2>2. Left
    BY <1>1, <1>2, <1>3, <1>5, <2>1, AskOrCommitFacts
  <2> QED
    BY <1>1, <1>2, <1>3, <2>2, Shown
<1>6. CASE chip.drq /\ timing = "full"
  <2>1. /\ DOMAIN e = Pins /\ e.phase = "write" /\ e.ctx = chip.ctx /\ e.drq = FALSE
        /\ e.lost = TRUE
    BY <1>2, <1>4 DEF Chip, Pins
  <2> HIDE DEF e
  <2>2. Chip(e) /\ Told(timing, e, seen) /\ e.ctx = "writeTrack"
    BY <1>2, <1>4, <1>6, <2>1 DEF Chip, Phases, Told, Asks
  <2>3. Left
    BY <1>1, <1>3, <1>6, <2>1, <2>2, CommitTrackFacts
  <2> QED
    BY <1>1, <1>2, <1>3, <2>3, Shown
<1>7. CASE chip.drq /\ timing # "full"
  <2>1. /\ DOMAIN f = Pins /\ f.phase = "write" /\ f.ctx = chip.ctx /\ f.drq = FALSE
        /\ f.lost = TRUE /\ f.buf = Append(chip.buf, 0) /\ f.size = chip.size /\ f.end = chip.end
    BY <1>2, <1>4 DEF Chip, Pins
  <2> HIDE DEF f
  <2>2. Chip(f) /\ Told(timing, f, seen)
    BY <1>4, <1>7, <2>1 DEF Chip, Phases, Told
  <2>3. /\ Record(f.buf, seen.loads) /\ f.buf # <<>> /\ Len(f.buf) = Len(chip.buf) + 1
        /\ Len(chip.buf) \in Nat
    <3>1. Record(chip.buf, seen.loads) /\ chip.buf # <<>> /\ seen.loads \in Nat
      BY <1>2, <1>3, <1>4 DEF Asks, History
    <3>2. Len(chip.buf) \in Nat
      BY <3>1 DEF Record
    <3> QED
      BY <2>1, <3>1, <3>2, RecordPads
  <2>4. Asks(f, seen)
    BY <1>2, <1>4, <1>7, <2>1, <2>3 DEF Asks
  <2>5. Offers(f, seen) /\ Unloaded(f, seen)
    BY <1>2, <1>4, <2>1 DEF Offers, Owed, Unloaded, Asks
  <2>6. Left
    BY <1>1, <1>3, <1>7, <2>1, <2>2, <2>4, <2>5, AskOrCommitFacts DEF Sound
  <2> QED
    BY <1>1, <1>2, <1>3, <2>6, Shown
<1> QED
  BY <1>5, <1>6, <1>7
-----------------------------------------------------------------------------
(***************************************************************************)
(* The guest's accesses, and the operator's moves.                         *)
(***************************************************************************)
LEMMA LookedFacts ==
  ASSUME Chip(chip)
  PROVE  Same(chip, Looked)
BY DEF Looked, Same, Chip, Pins

\* The guest takes a byte.
LEMMA TakeFacts ==
  ASSUME History(seen), NEW STATE c, Sound(timing, c, seen), Same(chip, c), Take(c)
  PROVE  History(seen') /\ Sound(timing, chip', seen')
<1>1. Chip(c) /\ Asks(c, seen) /\ Offers(c, seen) /\ Told(timing, c, seen) /\ Unloaded(c, seen)
  BY DEF Sound
<1>2. Writing <=> c.phase \in {"writeWait", "write"}
  BY DEF Writing, Same
<1>3. CASE Writing
  <2>1. chip' = c /\ seen' = seen
    BY <1>1, <1>2, <1>3 DEF Take, Asks
  <2> QED
    BY <2>1
<1>4. CASE ~Writing
  <2>1. /\ DOMAIN chip' = Pins /\ chip'.phase = c.phase /\ chip'.ctx = c.ctx /\ chip'.drq = FALSE
        /\ chip'.lost = c.lost
    BY <1>1, <1>4 DEF Take, Chip, Pins
  <2>2. /\ c.phase \notin {"writeWait", "write"}
        /\ seen' = IF ~c.drq \/ c.ctx \notin {"read", "readAddress"} THEN seen
                   ELSE [seen EXCEPT !.gap = @ \/ seen.given # seen.took + 1,
                                     !.took = seen.given]
    BY <1>2, <1>4 DEF Take
  <2>3. CASE ~c.drq \/ c.ctx \notin {"read", "readAddress"}
    <3>1. seen' = seen
      BY <2>2, <2>3
    <3>2. Chip(chip') /\ Asks(chip', seen') /\ Told(timing, chip', seen') /\ Unloaded(chip', seen')
      BY <1>1, <2>1, <2>2, <3>1 DEF Chip, Asks, Told, Unloaded
    <3>3. Offers(chip', seen')
      BY <1>1, <2>1, <2>3, <3>1 DEF Offers, Owed
    <3> QED
      BY <3>1, <3>2, <3>3 DEF Sound
  <2>4. CASE c.drq /\ c.ctx \in {"read", "readAddress"}
    <3>1. seen' = [seen EXCEPT !.gap = @ \/ seen.given # seen.took + 1, !.took = seen.given]
      BY <2>2, <2>4
    <3>2. /\ History(seen') /\ seen'.took = seen.given /\ seen'.given = seen.given
          /\ (seen'.gap <=> seen.gap \/ seen.given # seen.took + 1)
          /\ (seen'.padded <=> seen.padded) /\ seen'.loads = seen.loads
      BY <3>1 DEF History, Fields
    <3>3. Chip(chip') /\ Asks(chip', seen') /\ Unloaded(chip', seen')
      BY <1>1, <2>1, <2>2, <3>2 DEF Chip, Asks, Unloaded
    <3>4. Offers(chip', seen')
      BY <1>1, <2>1, <3>2 DEF Offers, Owed
    <3>5. Told(timing, chip', seen')
      BY <1>1, <2>1, <2>4, <3>2 DEF Told, Offers, Owed
    <3> QED
      BY <3>2, <3>3, <3>4, <3>5 DEF Sound
  <2> QED
    BY <2>3, <2>4
<1> QED
  BY <1>3, <1>4

\* The guest loads one.
LEMMA LoadFacts ==
  ASSUME History(seen), NEW STATE c, Sound(timing, c, seen), Same(chip, c), Load(c)
  PROVE  History(seen') /\ Sound(timing, chip', seen')
<1>1. Chip(c) /\ Asks(c, seen) /\ Offers(c, seen) /\ Told(timing, c, seen) /\ Unloaded(c, seen)
  BY DEF Sound
<1>2. Writing <=> c.phase \in {"writeWait", "write"}
  BY DEF Writing, Same
<1>3. CASE ~Writing
  <2>1. chip' = [c EXCEPT !.data = arg] /\ seen' = seen
    BY <1>3 DEF Load, Loaded
  <2>2. Same(c, chip')
    BY <1>1, <2>1 DEF Same, Chip, Pins
  <2> QED
    BY <2>1, <2>2, SameFacts
<1>4. CASE Writing /\ Len(c.buf) < c.size
  <2>1. /\ chip' = [c EXCEPT !.data = arg, !.drq = FALSE, !.buf = Append(@, seen.loads + 1)]
        /\ seen' = [seen EXCEPT !.loads = @ + 1]
    BY <1>4 DEF Load, Loaded
  <2>2. /\ DOMAIN chip' = Pins /\ chip'.phase = c.phase /\ chip'.ctx = c.ctx /\ chip'.drq = FALSE
        /\ chip'.lost = c.lost /\ chip'.size = c.size /\ chip'.end = c.end
        /\ chip'.buf = Append(c.buf, seen.loads + 1)
    BY <1>1, <2>1 DEF Chip, Pins
  <2>3. /\ History(seen') /\ seen'.loads = seen.loads + 1 /\ (seen'.gap <=> seen.gap)
        /\ (seen'.padded <=> seen.padded) /\ seen.loads \in Nat
    BY <2>1 DEF History, Fields
  <2>4. /\ Record(chip'.buf, seen'.loads) /\ chip'.buf # <<>> /\ Len(chip'.buf) = Len(c.buf) + 1
        /\ (HasZero(chip'.buf) => HasZero(c.buf)) /\ Len(c.buf) \in Nat
    <3>1. Record(c.buf, seen.loads) /\ (c.buf = <<>> => seen.loads = 0)
      BY <1>1, <1>2, <1>4 DEF Asks
    <3>2. Len(c.buf) \in Nat
      BY <3>1 DEF Record
    <3> QED
      BY <2>2, <2>3, <3>1, <3>2, RecordLoads
  <2>5. Asks(chip', seen')
    BY <1>1, <1>2, <1>4, <2>2, <2>4 DEF Asks
  <2>6. Chip(chip') /\ Told(timing, chip', seen')
    BY <1>1, <2>2, <2>3 DEF Chip, Told
  <2>7. Offers(chip', seen') /\ Unloaded(chip', seen')
    BY <1>1, <1>2, <1>4, <2>2 DEF Offers, Owed, Unloaded, Asks
  <2> QED
    BY <2>3, <2>5, <2>6, <2>7 DEF Sound
<1>5. CASE Writing /\ ~(Len(c.buf) < c.size)
  <2>1. chip' = [c EXCEPT !.data = arg, !.drq = FALSE] /\ seen' = seen
    BY <1>5 DEF Load, Loaded
  <2>2. /\ DOMAIN chip' = Pins /\ chip'.phase = c.phase /\ chip'.ctx = c.ctx /\ chip'.drq = FALSE
        /\ chip'.lost = c.lost /\ chip'.size = c.size /\ chip'.end = c.end /\ chip'.buf = c.buf
    BY <1>1, <2>1 DEF Chip, Pins
  <2>3. c.buf # <<>>
    BY <1>1, <1>2, <1>5 DEF Asks
  <2>4. Asks(chip', seen)
    BY <1>1, <1>2, <1>5, <2>2, <2>3 DEF Asks
  <2>5. Chip(chip') /\ Told(timing, chip', seen)
    BY <1>1, <2>2 DEF Chip, Told
  <2>6. Offers(chip', seen) /\ Unloaded(chip', seen)
    BY <1>1, <1>2, <1>5, <2>2 DEF Offers, Owed, Unloaded, Asks
  <2> QED
    BY <2>1, <2>4, <2>5, <2>6 DEF Sound
<1> QED
  BY <1>3, <1>4, <1>5

\* The guest gives a command.
LEMMA CommandFacts ==
  ASSUME History(seen), NEW STATE c, Sound(timing, c, seen), GiveCommand(c)
  PROVE  History(seen') /\ Sound(timing, chip', seen')
<1> DEFINE d == [c EXCEPT !.intrq = FALSE]
<1>1. PICK cmd \in Commands :
        /\ chip' = StartCommand(d, cmd)
        /\ seen' = IF cmd.op = "forceInterrupt" THEN seen ELSE NothingSeen
  BY DEF GiveCommand
<1>2. Chip(c)
  BY DEF Sound
<1>3. Same(c, d)
  BY <1>2 DEF Same, Chip, Pins
<1> HIDE DEF d
<1>4. Sound(timing, d, seen)
  BY <1>3, SameFacts
<1>5. CASE cmd.op = "forceInterrupt"
  BY <1>1, <1>4, <1>5, ForceFacts DEF StartCommand
<1>6. CASE cmd.op # "forceInterrupt"
  <2>1. cmd \in Command /\ DOMAIN d = Pins /\ d.phase \in Phases
    BY <1>4, FloppyAssumption DEF Sound, Chip
  <2> QED
    BY <1>1, <1>6, <2>1, StartFacts, NothingFacts
<1> QED
  BY <1>5, <1>6

\* An access goes on.
LEMMA ProceedKeeps == ASSUME IInv, Proceed PROVE IInv'
<1>1. /\ todo # <<>> /\ timing' = timing /\ sel' = sel /\ heads' = heads /\ media' = media
      /\ todo' = SubSeq(todo, 3, Len(todo))
      /\ \/ Len(todo) = 1 /\ chip' = Looked /\ seen' = seen
         \/ /\ Len(todo) > 1
            /\ CASE todo[2] = "status"  -> Status(Looked)
                 [] todo[2] = "take"    -> Take(Looked)
                 [] todo[2] = "load"    -> Load(Looked)
                 [] todo[2] = "command" -> GiveCommand(Looked)
  BY DEF Proceed, Advancing
<1>2. todo \in Todos /\ Sound(timing, chip, seen) /\ Chip(chip) /\ History(seen)
      /\ media \in [Drives -> Diskettes] /\ heads \in [Drives -> Nat]
  BY DEF IInv, Kept, Sound
<1>3. /\ todo' \in Todos /\ todo' # <<"due">>
      /\ Len(todo) > 1 => todo[2] \in {"status", "take", "load", "command"}
  <2>1. CASE todo \in Accesses
    <3>1. todo' = <<todo[3]>> /\ todo[3] \in {"poll", "touch"}
          /\ todo[2] \in {"status", "take", "load", "command"}
      <4>1. \A x, y, z : SubSeq(<<x, y, z>>, 3, Len(<<x, y, z>>)) = <<z>>
        <5> SUFFICES ASSUME NEW x, NEW y, NEW z
                     PROVE  SubSeq(<<x, y, z>>, 3, 3) = <<z>>
          OBVIOUS
        <5> DEFINE s == <<x, y, z>>
                   q == SubSeq(s, 3, 3)
        <5>1. \A i \in 3..3 : s[i] \in {z}
          OBVIOUS
        <5>2. q \in Seq({z}) /\ Len(q) = 1
          BY <5>1, SubSeqProperties
        <5> HIDE DEF q
        <5>3. q = <<z>>
          BY <5>2
        <5> QED
          BY <5>3 DEF q
      <4>2. PICK x \in {"touch", "hold"}, y \in {"status", "take", "load", "command"},
                 z \in {"poll", "touch"} : todo = <<x, y, z>>
        BY <2>1 DEF Accesses
      <4> QED
        BY <1>1, <4>1, <4>2
    <3> QED
      BY <3>1 DEF Todos
  <2>2. CASE todo \notin Accesses
    <3>1. Len(todo) = 1 /\ todo' = <<>>
      BY <1>1, <1>2, <2>2 DEF Todos
    <3> QED
      BY <3>1 DEF Todos
  <2> QED
    BY <2>1, <2>2
<1>4. Same(chip, Looked) /\ Sound(timing, Looked, seen)
  BY <1>2, LookedFacts, SameFacts
<1>5. History(seen') /\ Sound(timing, chip', seen')
  <2>1. CASE Len(todo) = 1
    BY <1>1, <1>2, <1>4, <2>1
  <2>2. CASE Status(Looked)
    <3>1. Chip(Looked)
      BY <1>4 DEF Sound
    <3>2. Same(Looked, chip') /\ seen' = seen
      BY <2>2, <3>1 DEF Status, Same, Chip, Pins
    <3> QED
      BY <1>2, <1>4, <3>2, SameFacts
  <2>3. CASE Take(Looked)
    BY <1>2, <1>4, <2>3, TakeFacts
  <2>4. CASE Load(Looked)
    BY <1>2, <1>4, <2>4, LoadFacts
  <2>5. CASE GiveCommand(Looked)
    BY <1>2, <1>4, <2>5, CommandFacts
  <2> QED
    BY <1>1, <1>3, <2>1, <2>2, <2>3, <2>4, <2>5
<1> QED
  BY <1>1, <1>2, <1>3, <1>5, Shown DEF Left

\* The guest begins an access, or the run loop pumps the card.
LEMMA GuestKeeps == ASSUME IInv, Guest \/ Pump PROVE IInv'
<1>1. /\ timing' = timing /\ sel' = sel /\ chip' = chip /\ heads' = heads /\ media' = media
      /\ seen' = seen /\ todo' \in Todos /\ todo' # <<"due">>
  BY DEF Guest, Pump, Access, ReadStatus, ReadRegister, ReadData, WriteData, WriteCommand, Todos,
         Accesses
<1>2. Left
  BY <1>1 DEF IInv, Kept, Left
<1> QED
  BY <1>1, <1>2, Shown DEF IInv, Kept

\* The deadline comes.
LEMMA DeadlineKeeps == ASSUME IInv, Deadline PROVE IInv'
<1>1. /\ timing' = timing /\ sel' = sel /\ chip' = chip /\ heads' = heads /\ media' = media
      /\ seen' = seen /\ todo' = <<"due">>
      /\ timing = "full" => chip.phase = "settle" \/ (Writing /\ chip.drq /\ chip.end = "track")
  BY DEF Deadline, Edge
<1>2. Kept'
  BY <1>1 DEF IInv, Kept, Todos
<1>3. Woken'
  BY <1>1 DEF Woken, Writing
<1>4. Sound(timing, chip, seen)'
  BY <1>1 DEF IInv
<1> QED
  BY <1>2, <1>3, <1>4 DEF IInv

\* A drive is selected, a register written, a diskette changed, the machine reset or powered.
LEMMA OperatorKeeps == ASSUME IInv, Operator PROVE IInv'
<1>1. timing' = timing /\ todo = <<>>
  BY DEF Operator, Select, WriteRegister, MasterReset, PowerOn, Mount, Unmount, Move, Atrest
<1>2. /\ Sound(timing, chip, seen) /\ Chip(chip) /\ History(seen) /\ sel \in Drives \cup {NoDrive}
      /\ media \in [Drives -> Diskettes] /\ heads \in [Drives -> Nat]
  BY DEF IInv, Kept, Sound
<1>3. <<>> \in Todos /\ <<"touch">> \in Todos /\ <<"poll">> \in Todos
  BY DEF Todos
<1>4. CASE Select
  <2>1. /\ sel' \in Drives \cup {NoDrive} /\ todo' = <<"touch">>
        /\ chip' = chip /\ heads' = heads /\ media' = media /\ seen' = seen
    BY <1>4 DEF Select
  <2> QED
    BY <1>1, <1>2, <1>3, <2>1, Shown DEF Left
<1>5. CASE WriteRegister
  <2>1. /\ sel' = sel /\ todo' = <<"touch">> /\ heads' = heads /\ media' = media /\ seen' = seen
        /\ (\E t : chip' = [chip EXCEPT !.trk = t]) \/ (\E s : chip' = [chip EXCEPT !.sec = s])
    BY <1>5 DEF WriteRegister
  <2>2. Same(chip, chip')
    BY <1>2, <2>1 DEF Same, Chip, Pins
  <2>3. Sound(timing, chip', seen)
    BY <1>2, <2>2, SameFacts
  <2> QED
    BY <1>1, <1>2, <1>3, <2>1, <2>3, Shown DEF Left
<1>6. CASE MasterReset
  <2> DEFINE c == [chip EXCEPT !.phase = "idle", !.intrq = FALSE, !.ra = 0]
             cmd == [op |-> "restore", flags |-> {}]
  <2>1. /\ sel' = sel /\ todo' = <<"touch">> /\ heads' = heads /\ media' = media
        /\ seen' = NothingSeen /\ chip' = StartCommand(c, cmd)
    BY <1>6 DEF MasterReset
  <2>2. cmd \in Command /\ cmd.op # "forceInterrupt"
    BY DEF Command, Ops
  <2>3. DOMAIN c = Pins /\ c.phase \in Phases
    BY <1>2 DEF Chip, Pins, Phases
  <2> HIDE DEF c, cmd
  <2>4. Sound(timing, chip', seen')
    BY <2>1, <2>2, <2>3, StartFacts
  <2> QED
    BY <1>1, <1>2, <1>3, <2>1, <2>4, NothingFacts, Shown DEF Left
<1>7. CASE PowerOn
  <2>1. /\ sel' = sel /\ todo' = <<"poll">> /\ heads' = heads /\ media' = media
        /\ seen' = NothingSeen /\ chip' = PoweredOn(Ready)
    BY <1>7 DEF PowerOn
  <2>2. Sound(timing, chip', seen')
    BY <2>1, PoweredOnFacts
  <2> QED
    BY <1>1, <1>2, <1>3, <2>1, <2>2, NothingFacts, Shown DEF Left
<1>8. ASSUME NEW d \in Drives, Mount(d)
      PROVE  IInv'
  <2> DEFINE f == [t \in DOMAIN media[d].fmt |-> [media[d].fmt[t] EXCEPT !.count = Sectors]]
  <2>1. /\ sel' = sel /\ todo' = todo /\ heads' = [heads EXCEPT ![d] = 0] /\ chip' = chip
        /\ seen' = seen
        /\ \E p \in BOOLEAN :
             media' = [media EXCEPT ![d].loaded = TRUE, ![d].protected = p, ![d].fmt = f]
    BY <1>8 DEF Mount
  <2>2. media' \in [Drives -> Diskettes]
    <3>1. Sectors \in 0..Sectors /\ media[d].fmt \in Formats
      BY <1>2, FloppyAssumption DEF Diskettes
    <3>2. \A l \in Layouts : [l EXCEPT !.count = Sectors] \in Layouts
      BY <3>1 DEF Layouts
    <3>3. f \in Formats
      BY <3>1, <3>2 DEF Formats
    <3> HIDE DEF f
    <3>4. PICK p \in BOOLEAN :
            media' = [media EXCEPT ![d].loaded = TRUE, ![d].protected = p, ![d].fmt = f]
      BY <2>1
    <3>5. [media EXCEPT ![d].loaded = TRUE, ![d].protected = p, ![d].fmt = f] \in [Drives -> Diskettes]
      BY <1>2, <3>3, DisksChanged
    <3> QED
      BY <3>4, <3>5
  <2>3. heads' \in [Drives -> Nat]
    BY <1>2, <2>1
  <2>4. Left
    BY <1>2, <2>1, <2>2 DEF Left
  <2> QED
    BY <1>1, <1>3, <2>1, <2>3, <2>4, Shown
<1>9. ASSUME NEW d \in Drives, Unmount(d)
      PROVE  IInv'
  <2>1. /\ sel' = sel /\ todo' = todo /\ heads' = heads /\ chip' = chip /\ seen' = seen
        /\ media' = [media EXCEPT ![d].loaded = FALSE, ![d].protected = FALSE]
    BY <1>9 DEF Unmount
  <2>2. media' \in [Drives -> Diskettes]
    <3>1. media[d].fmt \in Formats
      BY <1>2 DEF Diskettes
    <3> QED
      BY <1>2, <2>1, <3>1, DisksChanged
  <2>3. Left
    BY <1>2, <2>1, <2>2 DEF Left
  <2> QED
    BY <1>1, <1>2, <1>3, <2>1, <2>3, Shown
<1> QED
  BY <1>4, <1>5, <1>6, <1>7, <1>8, <1>9 DEF Operator
-----------------------------------------------------------------------------
\* The inductive invariant holds at first,
LEMMA Initially == ASSUME Init PROVE IInv
<1>1. /\ timing \in {"full", "real"} /\ sel \in Drives \cup {NoDrive}
      /\ heads \in [Drives -> 0..(Tracks - 1)] /\ todo = <<>> /\ seen = NothingSeen
      /\ media = [d \in Drives |-> [loaded |-> TRUE, protected |-> FALSE, fmt |-> Blank]]
      /\ chip = [PoweredOn(sel # NoDrive) EXCEPT !.sec = 1]
  BY DEF Init
<1>2. Sound(timing, chip, seen)
  BY <1>1, PoweredOnFacts
<1>3. media \in [Drives -> Diskettes]
  <2>1. [s \in 1..Sectors |-> Shipped] \in Datas
    BY DEF Datas, Contents
  <2>2. Formatted(Sectors, Shipped) \in Layouts
    BY <2>1, FloppyAssumption DEF Formatted, Layouts
  <2>3. Blank \in Formats
    BY <2>2 DEF Blank, Formats
  <2> QED
    BY <1>1, <2>3 DEF Diskettes
<1>4. heads \in [Drives -> Nat]
  BY <1>1
<1>5. Kept
  BY <1>1, <1>3, <1>4, NothingFacts DEF Kept, Todos
<1>6. Woken
  BY <1>1 DEF Woken
<1> QED
  BY <1>2, <1>5, <1>6 DEF IInv

\* is kept by every step,
LEMMA Inductive == ASSUME IInv, [Next]_vars PROVE IInv'
<1>1. CASE Next
  BY <1>1, GuestKeeps, OperatorKeeps, DeadlineKeeps, ProceedKeeps, RestoreStepKeeps, StepKeeps,
     HeadSettledKeeps, ReadByteKeeps, ReadDrainKeeps, WriteFirstKeeps, WriteNextKeeps
     DEF Next, Work, Iterate
<1>2. CASE UNCHANGED vars
  <2>1. Kept'
    BY <1>2 DEF IInv, Kept, vars
  <2>2. Woken' /\ Sound(timing, chip, seen)'
    BY <1>2 DEF IInv, Woken, Writing, vars
  <2> QED
    BY <2>1, <2>2 DEF IInv
<1> QED
  BY <1>1, <1>2

\* and implies the property.
LEMMA Implied == ASSUME IInv PROVE TransferIsWholeOrTold
<1>1. LossIsTold
  BY DEF IInv, Sound, Told, LossIsTold
<1>2. SectorsAreWhole
  <2> SUFFICES ASSUME NEW d \in Drives, NEW t \in DOMAIN media[d].fmt, NEW s \in 1..Sectors
               PROVE  media[d].fmt[t].data[s] \in Contents
    BY DEF SectorsAreWhole, Contents
  <2>1. media[d].fmt \in Formats
    BY DEF IInv, Kept, Diskettes
  <2> QED
    BY <2>1 DEF Formats, Layouts, Datas
<1> QED
  BY <1>1, <1>2 DEF TransferIsWholeOrTold

\* However the guest's accesses, the deadlines, the latch and the diskettes
\* interleave, a sector is written whole, in the order the guest loaded it, or
\* not at all; and every byte it missed, or the chip made up, shows as Lost Data,
\* which a wait-synced chip shows of the end of a Write Track only.
THEOREM WholeOrTold == Spec => []TransferIsWholeOrTold
<1>1. Init => IInv
  BY Initially
<1>2. IInv /\ [Next]_vars => IInv'
  BY Inductive
<1>3. IInv => TransferIsWholeOrTold
  BY Implied
<1> QED
  BY <1>1, <1>2, <1>3, PTL DEF Spec
-----------------------------------------------------------------------------
(***************************************************************************)
(* The MITS cards of HardSector, for any number of drives, tracks, sectors *)
(* and bytes, any times, every rig and every guest.                        *)
(*                                                                         *)
(* The card keeps two slots of a disk it may lose at any moment: the one   *)
(* it read (SlotRead), which is the one under the head or none, and the one it *)
(* writes (Arms), which is the last write's and goes where that was armed, *)
(* or to no disk.  Every operation that moves a head, chooses a drive or   *)
(* changes a disk flushes the second and forgets the first before it does, *)
(* so what is on the shelf (Whole) is explained by the writes so far.      *)
(***************************************************************************)
TrackNumbers == 0..(HsTracks - 1)
SectorNumbers == 0..(HsSectors - 1)
Disks == HsDisks \cup {NoDisk}
Pristine == [i \in Slots |-> AsItCame]

\* A drive as it may be found.
Bay(b) == DOMAIN b = {"disk", "ro", "track", "loaded"} /\ b.disk \in Disks /\ b.ro \in BOOLEAN /\ b.track \in TrackNumbers

\* The registers the MITS cards' two slots hang on, and the record history makes of a write.
CardParts == {"kind", "motorReal", "sel", "writing", "writePos", "wSector", "wTrack", "wbuf", "buf", "bufSector", "readPos",
              "enabled", "offIn", "speedIn", "settleIn"}
WriteRecords == [disk : Disks, ro : BOOLEAN, place : TrackNumbers \X (SectorNumbers \cup {Nowhere}), given : BOOLEAN]

\* A machine has its parts, in their ranges.
Formed(m) ==
  /\ {"card", "bay", "shelf"} \subseteq DOMAIN m
  /\ CardParts \subseteq DOMAIN m.card
  /\ m.card.sel \in Bays \cup {Nowhere}
  /\ m.card.writing \in BOOLEAN
  /\ DOMAIN m.bay = Bays /\ \A u \in Bays : Bay(m.bay[u])
  /\ DOMAIN m.shelf = HsDisks /\ \A d \in HsDisks : DOMAIN m.shelf[d] = Places

\* The slot kept is one of the disk and the track under the head.
SlotRead(m) ==
  HasDrive(m) /\ m.card.bufSector # Nowhere =>
    /\ Spins(m) /\ m.card.bufSector \in SectorNumbers
    /\ m.card.buf = m.shelf[Sel(m).disk][<<Sel(m).track, m.card.bufSector>>]

\* What is pending is the last write, and goes where that was armed.
Arms(m, w) ==
  LET c == m.card k == Len(w) IN
  c.writing =>
    /\ k # 0 /\ c.writePos \in Nat
    /\ c.wbuf \in [Slots -> {k, Skipped}]
    /\ c.writePos \in Slots => c.wbuf[c.writePos] = k
    /\ w[k].given => c.writePos > 0 /\ \E i \in Slots : c.wbuf[i] = k
    /\ w[k].place = <<c.wTrack, c.wSector>>
    /\ HasDrive(m) => w[k].disk = Sel(m).disk /\ w[k].ro = Sel(m).ro /\ c.wTrack = Sel(m).track
    /\ ~HasDrive(m) => w[k].disk = NoDisk
    /\ w[k].disk # NoDisk => c.wSector \in SectorNumbers

\* The shelf under the writes so far, of which the last may be pending.
WholeSlots(s, w) ==
  \A d \in HsDisks, p \in Places :
    \/ s[d][p] = Pristine
    \/ \E v \in 1..Len(w) : /\ w[v].disk = d /\ w[v].place = p /\ ~w[v].ro
                            /\ \A i \in Slots : s[d][p][i] \in {v, Skipped}
Lands(s, w, k) ==
  \A v \in 1..Len(w) :
    w[v].given /\ w[v].disk # NoDisk /\ ~w[v].ro =>
      \/ \E i \in Slots : s[w[v].disk][w[v].place][i] = v
      \/ k /\ v = Len(w)
      \/ \E x \in 1..Len(w) : x > v /\ w[v].disk = w[x].disk /\ w[v].place = w[x].place

Whole(m, w) == w \in Seq(WriteRecords) /\ WholeSlots(m.shelf, w) /\ Lands(m.shelf, w, m.card.writing)

Good(m, w) == Formed(m) /\ SlotRead(m) /\ Arms(m, w) /\ Whole(m, w)

\* What the constants of the platter are.
LEMMA HsConstants ==
  /\ HsTracks \in Nat \ {0} /\ HsSectors \in Nat \ {0} /\ HsBytes \in Nat \ {0} /\ HsDrives \in Nat \ {0}
  /\ HsSectorTicks \in Nat \ {0} /\ HsReadStart \in Nat /\ HsWriteStart \in Nat
  /\ Nowhere \notin Bays /\ Nowhere \notin SectorNumbers
  /\ \A g \in HsRigs : g.disk \in HsDisks
BY HardSectorAssumption DEF Nowhere, Bays, SectorNumbers

\* Nothing of a machine but registers of the card outside its two slots has changed.
Beside(m, n) ==
  /\ Formed(n) /\ n.bay = m.bay /\ n.shelf = m.shelf
  /\ n.card.kind = m.card.kind

\* The shelf with the pending slot put where it was armed.
Landing(m) == [m.shelf EXCEPT ![Sel(m).disk] = [@ EXCEPT ![<<m.card.wTrack, m.card.wSector>>] = Padded(m.card)]]

\* flushWrite: nothing is pending after it, and either no shelf is touched, the write having nowhere
\* to go, or the slot is put where the write was armed.
LEMMA FlushCases ==
  ASSUME NEW m, NEW w, Good(m, w), NEW f, f = FlushWrite(m)
  PROVE  /\ Formed(f) /\ f.bay = m.bay /\ f.card.sel = m.card.sel /\ ~f.card.writing
         /\ f.card.kind = m.card.kind /\ f.card.buf = m.card.buf
         /\ f.card.bufSector \in {m.card.bufSector, Nowhere}
         /\ \/ f.shelf = m.shelf /\ (m.card.writing /\ w[Len(w)].given => w[Len(w)].disk = NoDisk \/ w[Len(w)].ro)
            \/ /\ m.card.writing /\ Spins(m) /\ m.card.wSector \in SectorNumbers /\ m.card.writePos # 0
               /\ ~Sel(m).ro
               /\ f.shelf = Landing(m)
               /\ f.card.bufSector # m.card.wSector
<1> DEFINE c == m.card
           closed == [m EXCEPT !.card.writing = FALSE, !.card.writePos = 0]
           reread == IF c.bufSector = c.wSector THEN [closed EXCEPT !.card.bufSector = Nowhere] ELSE closed
           put == [reread EXCEPT !.shelf[Sel(m).disk][<<c.wTrack, c.wSector>>] = Padded(c)]
<1>0. Formed(m) /\ Arms(m, w)
  BY DEF Good
<1>1. CASE ~c.writing
  <2>1. f = m
    BY <1>1 DEF FlushWrite
  <2> QED BY <2>1, <1>1, <1>0 DEF Formed
<1>2. /\ Formed(closed) /\ closed.bay = m.bay /\ closed.card.sel = c.sel /\ ~closed.card.writing
      /\ closed.card.kind = c.kind /\ closed.card.buf = c.buf /\ closed.card.bufSector = c.bufSector
      /\ closed.shelf = m.shelf /\ DOMAIN closed = DOMAIN m /\ DOMAIN closed.card = DOMAIN m.card
  BY <1>0 DEF Formed, CardParts
<1>3. CASE c.writing /\ (~Spins(m) \/ c.writePos = 0 \/ c.wSector = Nowhere)
  <2>1. f = closed
    BY <1>3 DEF FlushWrite
  <2>2. w[Len(w)].given => w[Len(w)].disk = NoDisk \/ w[Len(w)].ro
    BY <1>3, <1>0, HsConstants DEF Arms, Spins
  <2> QED BY <2>1, <2>2, <1>2
<1>4. CASE c.writing /\ ~(~Spins(m) \/ c.writePos = 0 \/ c.wSector = Nowhere)
  <2> HIDE DEF closed
  <2>1. /\ Formed(reread) /\ reread.bay = m.bay /\ reread.card.sel = c.sel /\ ~reread.card.writing
        /\ reread.card.kind = c.kind /\ reread.card.buf = c.buf /\ reread.card.bufSector \in {c.bufSector, Nowhere}
        /\ reread.shelf = m.shelf /\ (c.wSector # Nowhere => reread.card.bufSector # c.wSector)
    BY <1>2 DEF Formed, CardParts
  <2> HIDE DEF reread
  <2>2. w[Len(w)].disk = Sel(m).disk /\ w[Len(w)].ro = Sel(m).ro /\ Sel(m).disk # NoDisk /\ c.wSector \in SectorNumbers
    BY <1>4, <1>0 DEF Arms, Spins
  <2>3. CASE Sel(m).ro
    <3>1. f = reread
      BY <1>4, <2>3 DEF FlushWrite, reread, closed
    <3> QED BY <3>1, <2>1, <2>2, <2>3
  <2>4. CASE ~Sel(m).ro
    <3>1. f = put
      BY <1>4, <2>4 DEF FlushWrite, reread, closed
    <3>2. /\ put.card = reread.card /\ put.bay = reread.bay
          /\ put.shelf = [m.shelf EXCEPT ![Sel(m).disk] = [@ EXCEPT ![<<c.wTrack, c.wSector>>] = Padded(c)]]
      BY <2>1 DEF Formed
    <3>3. Formed(put)
      BY <2>1, <3>2 DEF Formed
    <3> QED BY <3>1, <3>2, <3>3, <2>1, <2>2, <2>4, <1>4 DEF Landing
  <2> QED BY <2>3, <2>4
<1> QED BY <1>1, <1>3, <1>4

\* What the head has left is on the disk: nothing is pending, and the slot kept is still right.
LEMMA FlushKeeps ==
  ASSUME NEW m, NEW w, Good(m, w), NEW f, f = FlushWrite(m)
  PROVE  Good(f, w) /\ f.bay = m.bay /\ f.card.sel = m.card.sel /\ ~f.card.writing
         /\ f.card.kind = m.card.kind
<1>1. /\ Formed(f) /\ f.bay = m.bay /\ f.card.sel = m.card.sel /\ ~f.card.writing
      /\ f.card.kind = m.card.kind /\ f.card.buf = m.card.buf
      /\ f.card.bufSector \in {m.card.bufSector, Nowhere}
  BY FlushCases
<1> DEFINE c == m.card
           k == Len(w)
           d == Sel(m).disk
           p == <<c.wTrack, c.wSector>>
<1>2. Formed(m) /\ SlotRead(m) /\ Arms(m, w) /\ Whole(m, w)
  BY DEF Good
<1>3. HasDrive(f) = HasDrive(m) /\ Sel(f) = Sel(m) /\ Spins(f) = Spins(m)
  BY <1>1 DEF HasDrive, Sel, Spins
<1>4. Arms(f, w)
  BY <1>1 DEF Arms
<1>5. CASE f.shelf = m.shelf /\ (c.writing /\ w[k].given => w[k].disk = NoDisk \/ w[k].ro)
  <2>1. SlotRead(f)
    BY <1>1, <1>2, <1>3, <1>5 DEF SlotRead
  <2>2. Lands(m.shelf, w, FALSE)
    BY <1>2, <1>5 DEF Whole, Lands
  <2>3. Whole(f, w)
    BY <1>1, <1>2, <1>5, <2>2 DEF Whole, Lands
  <2> QED BY <1>1, <1>4, <2>1, <2>3 DEF Good
<1>6. CASE /\ c.writing /\ Spins(m) /\ c.wSector \in SectorNumbers /\ c.writePos # 0 /\ ~Sel(m).ro
           /\ f.shelf = Landing(m)
           /\ f.card.bufSector # c.wSector
  <2>1. /\ k # 0 /\ k \in Nat /\ w \in Seq(WriteRecords) /\ w[k].disk = d /\ ~w[k].ro /\ w[k].place = p /\ c.wTrack = Sel(m).track
        /\ d \in HsDisks /\ d # NoDisk /\ p \in Places
    <3>1. m.card.sel \in Bays /\ Bay(Sel(m)) /\ Sel(m).disk # NoDisk
      BY <1>2, <1>6 DEF Spins, HasDrive, Formed, Sel
    <3>2. Sel(m).disk \in HsDisks /\ Sel(m).track \in TrackNumbers
      BY <3>1 DEF Bay, Disks
    <3> QED BY <1>2, <1>6, <3>1, <3>2 DEF Arms, Spins, Whole, Places, TrackNumbers, SectorNumbers
  <2>2. /\ \A e \in HsDisks, q \in Places : ~(e = d /\ q = p) => f.shelf[e][q] = m.shelf[e][q]
        /\ f.shelf[d][p] = Padded(c)
    BY <1>2, <1>6, <2>1 DEF Formed, Landing
  <2>3. \A i \in Slots : Padded(c)[i] \in {k, Skipped}
    <3>1. c.wbuf \in [Slots -> {k, Skipped}] /\ c.writePos \in Nat /\ c.writePos > 0
      BY <1>2, <1>6 DEF Arms
    <3>2. ASSUME NEW i \in Slots, ~(i <= c.writePos)
          PROVE  c.writePos \in Slots
      BY <3>1, <3>2, HsConstants DEF Slots
    <3> QED BY <3>1, <3>2 DEF Padded
  <2>4. w[k].given => \E i \in Slots : Padded(c)[i] = k
    <3> SUFFICES ASSUME w[k].given
                 PROVE  \E i \in Slots : Padded(c)[i] = k
      OBVIOUS
    <3>1. c.writePos \in Nat /\ c.writePos > 0 /\ (c.writePos \in Slots => c.wbuf[c.writePos] = k)
      BY <1>2, <1>6 DEF Arms
    <3>2. CASE c.writePos \in Slots
      BY <3>1, <3>2 DEF Padded
    <3>3. CASE c.writePos \notin Slots
      <4>1. \A i \in Slots : i <= c.writePos
        BY <3>1, <3>3, HsConstants DEF Slots
      <4>2. PICK i \in Slots : c.wbuf[i] = k
        BY <1>2, <1>6 DEF Arms
      <4> QED BY <4>1, <4>2 DEF Padded
    <3> QED BY <3>2, <3>3
  <2>5. WholeSlots(f.shelf, w)
    <3> SUFFICES ASSUME NEW e \in HsDisks, NEW q \in Places
                 PROVE  \/ f.shelf[e][q] = Pristine
                        \/ \E v \in 1..Len(w) : /\ w[v].disk = e /\ w[v].place = q /\ ~w[v].ro
                                                /\ \A i \in Slots : f.shelf[e][q][i] \in {v, Skipped}
      BY DEF WholeSlots
    <3>1. CASE e = d /\ q = p
      BY <3>1, <2>1, <2>2, <2>3
    <3>2. CASE ~(e = d /\ q = p)
      BY <3>2, <2>2, <1>2 DEF Whole, WholeSlots
    <3> QED BY <3>1, <3>2
  <2>6. Lands(f.shelf, w, FALSE)
    <3> SUFFICES ASSUME NEW v \in 1..Len(w), w[v].given, w[v].disk # NoDisk, ~w[v].ro
                 PROVE  \/ \E i \in Slots : f.shelf[w[v].disk][w[v].place][i] = v
                        \/ \E x \in 1..Len(w) : x > v /\ w[v].disk = w[x].disk /\ w[v].place = w[x].place
      BY DEF Lands
    <3>1. CASE v = k
      BY <3>1, <2>1, <2>2, <2>4
    <3>2. CASE v # k /\ w[v].disk = d /\ w[v].place = p
      BY <3>2, <2>1
    <3>3. CASE v # k /\ ~(w[v].disk = d /\ w[v].place = p)
      <4>1. w[v].disk \in HsDisks
        <5>1. w[v] \in WriteRecords
          BY <2>1
        <5> QED BY <5>1 DEF WriteRecords, Disks
      <4>2. CASE w[v].place \in Places
        BY SMTT(30), <4>1, <4>2, <3>3, <2>2, <1>2 DEF Whole, Lands
      <4>3. CASE w[v].place \notin Places
        <5>1. f.shelf[w[v].disk][w[v].place] = m.shelf[w[v].disk][w[v].place]
          BY <4>1, <4>3, <1>2, <1>6, <2>1 DEF Formed, Landing
        <5> QED BY <5>1, <3>3, <1>2 DEF Whole, Lands
      <4> QED BY <4>2, <4>3
    <3> QED BY <3>1, <3>2, <3>3
  <2>7. Whole(f, w)
    BY <1>1, <2>1, <2>5, <2>6 DEF Whole, Lands
  <2>8. SlotRead(f)
    <3> SUFFICES ASSUME HasDrive(f), f.card.bufSector # Nowhere
                 PROVE  /\ Spins(f) /\ f.card.bufSector \in SectorNumbers
                        /\ f.card.buf = f.shelf[Sel(f).disk][<<Sel(f).track, f.card.bufSector>>]
      BY DEF SlotRead
    <3>1. f.card.bufSector = c.bufSector /\ c.bufSector \in SectorNumbers /\ c.bufSector # c.wSector
          /\ c.buf = m.shelf[Sel(m).disk][<<Sel(m).track, c.bufSector>>]
      BY <1>1, <1>2, <1>3, <1>6 DEF SlotRead
    <3>2. <<Sel(m).track, c.bufSector>> \in Places /\ <<Sel(m).track, c.bufSector>> # p
      BY <3>1, <2>1 DEF Places, TrackNumbers, SectorNumbers
    <3> QED BY <3>1, <3>2, <2>1, <2>2, <1>1, <1>3, <1>6
  <2> QED BY <1>1, <1>4, <2>7, <2>8 DEF Good
<1>7. \/ f.shelf = m.shelf /\ (c.writing /\ w[k].given => w[k].disk = NoDisk \/ w[k].ro)
      \/ /\ c.writing /\ Spins(m) /\ c.wSector \in SectorNumbers /\ c.writePos # 0 /\ ~Sel(m).ro
         /\ f.shelf = Landing(m)
         /\ f.card.bufSector # c.wSector
  BY FlushCases
<1> QED BY <1>5, <1>6, <1>7

\* A closed card that keeps no slot is right whatever else has happened to it and its drives.
LEMMA BlankGood ==
  ASSUME NEW m, NEW w, Good(m, w), ~m.card.writing,
         NEW n, Formed(n), n.shelf = m.shelf, ~n.card.writing, n.card.bufSector = Nowhere
  PROVE  Good(n, w)
BY DEF Good, SlotRead, Arms, Whole, Lands

\* What does not touch the two slots keeps them right.
SlotsSame(m, n) ==
  /\ n.bay = m.bay /\ n.shelf = m.shelf
  /\ n.card.kind = m.card.kind
  /\ n.card.sel = m.card.sel /\ n.card.writing = m.card.writing /\ n.card.writePos = m.card.writePos
  /\ n.card.wSector = m.card.wSector /\ n.card.wTrack = m.card.wTrack /\ n.card.wbuf = m.card.wbuf
  /\ n.card.buf = m.card.buf /\ n.card.bufSector = m.card.bufSector

\* A card with the same two slots is as good.
LEMMA SameGood ==
  ASSUME NEW m, NEW w, Good(m, w), NEW n, Formed(n), SlotsSame(m, n)
  PROVE  Good(n, w)
<1>1. HasDrive(n) = HasDrive(m) /\ Sel(n) = Sel(m) /\ Spins(n) = Spins(m)
  BY DEF SlotsSame, HasDrive, Sel, Spins
<1>2. SlotRead(n)
  BY <1>1 DEF SlotsSame, Good, SlotRead
<1>3. Arms(n, w)
  BY <1>1 DEF SlotsSame, Good, Arms
<1> QED BY <1>2, <1>3 DEF SlotsSame, Good, Whole

\* The sector under the head is one of the disk.
LEMMA SectorIn ==
  ASSUME NEW t \in Nat
  PROVE  SectorAt(t) \in SectorNumbers
BY HsConstants DEF SectorAt, SectorNumbers

\* syncSector.
LEMMA SyncKeeps ==
  ASSUME NEW m, NEW w, Good(m, w), NEW t \in Nat, NEW n, n = SyncSector(m, t)
  PROVE  /\ Good(n, w) /\ n.bay = m.bay /\ n.card.sel = m.card.sel /\ n.card.kind = m.card.kind
         /\ Spins(m) /\ HeadLoaded(m) => n.card.bufSector = SectorAt(t)
<1> DEFINE f == FlushWrite(m)
           x == [f EXCEPT !.card.bufSector = SectorAt(t), !.card.readPos = 0,
                          !.card.buf = f.shelf[Sel(f).disk][<<Sel(f).track, SectorAt(t)>>]]
<1>1. Good(f, w) /\ f.bay = m.bay /\ f.card.sel = m.card.sel /\ ~f.card.writing /\ f.card.kind = m.card.kind
  BY FlushKeeps
<1>2. CASE ~Spins(m) \/ ~HeadLoaded(m) \/ SectorAt(t) = m.card.bufSector
  BY <1>2 DEF SyncSector
<1>3. CASE ~(~Spins(m) \/ ~HeadLoaded(m) \/ SectorAt(t) = m.card.bufSector)
  <2>1. n = x
    BY <1>3 DEF SyncSector
  <2> HIDE DEF f
  <2>2. /\ x.bay = f.bay /\ x.shelf = f.shelf /\ x.card.sel = f.card.sel /\ x.card.kind = f.card.kind
        /\ ~x.card.writing /\ x.card.bufSector = SectorAt(t)
        /\ x.card.buf = f.shelf[Sel(f).disk][<<Sel(f).track, SectorAt(t)>>] /\ Formed(x)
    BY <1>1 DEF Good, Formed, CardParts
  <2> HIDE DEF x
  <2>3. Spins(x) /\ Sel(x) = Sel(f)
    BY <1>1, <1>3, <2>2 DEF Spins, HasDrive, Sel
  <2>4. SlotRead(x)
    BY SMTT(30), <2>2, <2>3, SectorIn DEF SlotRead
  <2>5. Good(x, w)
    BY <1>1, <2>2, <2>4 DEF Good, Arms, Whole, Lands
  <2> QED BY <1>1, <2>1, <2>2, <2>5
<1> QED BY <1>2, <1>3

\* invalidatePosition on a card with nothing pending.
LEMMA InvalidateGood ==
  ASSUME NEW m, NEW w, Good(m, w), ~m.card.writing, NEW n, n.shelf = m.shelf, Formed(n), ~n.card.writing
  PROVE  Good(InvalidatePosition(n), w)
<1> DEFINE x == InvalidatePosition(n)
<1>1. Formed(x) /\ x.shelf = n.shelf /\ ~x.card.writing /\ x.card.bufSector = Nowhere
  BY DEF InvalidatePosition, Formed, CardParts
<1> HIDE DEF x
<1>2. Good(x, w)
  BY <1>1, BlankGood
<1> QED BY <1>2 DEF x

\* invalidatePosition leaves the drives, the shelf and the write alone.
LEMMA InvalidateSame ==
  ASSUME NEW n, Formed(n)
  PROVE  /\ InvalidatePosition(n).bay = n.bay /\ InvalidatePosition(n).shelf = n.shelf
         /\ InvalidatePosition(n).card.sel = n.card.sel /\ InvalidatePosition(n).card.kind = n.card.kind
         /\ InvalidatePosition(n).card.writing = n.card.writing
BY DEF InvalidatePosition, Formed, CardParts

\* Selecting a drive touches neither slot.
LEMMA ReselectedIs ==
  ASSUME NEW m, Formed(m), m.card.kind \in MitsKinds, NEW n \in Bays \cup {Nowhere}, NEW s, s = Reselected(m, n)
  PROVE  /\ Formed(s) /\ s.bay = m.bay /\ s.shelf = m.shelf /\ s.card.sel = n /\ s.card.kind = m.card.kind
         /\ s.card.writing = m.card.writing /\ s.card.writePos = m.card.writePos
         /\ s.card.wSector = m.card.wSector /\ s.card.wTrack = m.card.wTrack /\ s.card.wbuf = m.card.wbuf
         /\ s.card.buf = m.card.buf /\ s.card.bufSector = m.card.bufSector
<1> DEFINE c == m.card
           o == OnSelect(c, n)
<1>1. /\ DOMAIN o = DOMAIN c /\ o.kind = c.kind /\ o.sel = c.sel /\ o.writing = c.writing /\ o.writePos = c.writePos
      /\ o.wSector = c.wSector /\ o.wTrack = c.wTrack /\ o.wbuf = c.wbuf /\ o.buf = c.buf /\ o.bufSector = c.bufSector
  <2>1. CASE c.kind = "dcdd"
    BY <2>1 DEF OnSelect
  <2>2. CASE c.kind = "mds" /\ n = Nowhere
    BY <2>2 DEF OnSelect, Formed, CardParts
  <2>3. CASE c.kind = "mds" /\ n # Nowhere
    BY <2>3 DEF OnSelect, Formed, CardParts
  <2> QED BY <2>1, <2>2, <2>3 DEF MitsKinds
<1>2. s = [m EXCEPT !.card = [o EXCEPT !.sel = n]]
  BY DEF Reselected
<1> HIDE DEF o
<1> QED BY <1>1, <1>2 DEF Formed, CardParts

\* selectDrive: the write is flushed to the drive it was armed at, then the new one is chosen.
LEMMA SelectKeeps ==
  ASSUME NEW m, NEW w, Good(m, w), m.card.kind \in MitsKinds, NEW n \in Bays \cup {Nowhere}
  PROVE  Good(SelectDrive(m, n), w) /\ SelectDrive(m, n).card.kind = m.card.kind
<1> DEFINE f == FlushWrite(m)
           s == Reselected(f, n)
<1>1. Good(f, w) /\ f.bay = m.bay /\ f.card.sel = m.card.sel /\ ~f.card.writing /\ f.card.kind = m.card.kind
  BY FlushKeeps
<1> HIDE DEF f
<1>2. Formed(f)
  BY <1>1 DEF Good
<1>3. /\ Formed(s) /\ s.bay = f.bay /\ s.shelf = f.shelf /\ s.card.sel = n /\ s.card.kind = f.card.kind
      /\ s.card.writing = f.card.writing /\ s.card.writePos = f.card.writePos
      /\ s.card.wSector = f.card.wSector /\ s.card.wTrack = f.card.wTrack /\ s.card.wbuf = f.card.wbuf
      /\ s.card.buf = f.card.buf /\ s.card.bufSector = f.card.bufSector
  BY <1>1, <1>2, ReselectedIs
<1> HIDE DEF s
<1>4. Good(InvalidatePosition(s), w) /\ InvalidatePosition(s).card.kind = m.card.kind
  BY <1>1, <1>3, InvalidateGood, InvalidateSame
<1>5. n = f.card.sel => Good(s, w)
  BY <1>1, <1>3, SameGood DEF SlotsSame
<1> QED BY <1>1, <1>3, <1>4, <1>5 DEF SelectDrive, f, s

\* What is done to a card with a drive selected that leaves it selected.
Handles(m, n, w) == Good(n, w) /\ n.card.sel = m.card.sel /\ n.card.kind = m.card.kind

\* A closed card whose drive is changed and whose slot is invalidated.
LEMMA DriveChanges ==
  ASSUME NEW m, NEW w, Good(m, w), ~m.card.writing, NEW u \in Bays, NEW b, Bay(b),
         NEW n, n = [m EXCEPT !.bay = [m.bay EXCEPT ![u] = b]]
  PROVE  /\ Handles(m, InvalidatePosition(n), w) /\ ~InvalidatePosition(n).card.writing
         /\ Formed(n) /\ n.shelf = m.shelf /\ n.card = m.card
         /\ InvalidatePosition(n).bay = [m.bay EXCEPT ![u] = b]
<1>1. n.card = m.card /\ n.shelf = m.shelf /\ n.bay = [m.bay EXCEPT ![u] = b] /\ Formed(m) /\ DOMAIN n = DOMAIN m
  BY DEF Good, Formed
<1>2. Formed(n)
  BY <1>1 DEF Formed
<1> QED BY ZenonT(60), <1>1, <1>2, InvalidateGood, InvalidateSame DEF Handles

\* A head stays on the tracks of its drive.
LEMMA SteppingInTracks ==
  ASSUME NEW k \in TrackNumbers, NEW kind, NEW v
  PROVE  Stepping(kind, v, k) \in TrackNumbers
BY HsConstants DEF Stepping, Inward, Outward, TrackNumbers

\* stepHead: the write is flushed before the head leaves.
LEMMA HeadKeeps ==
  ASSUME NEW m, NEW w, Good(m, w), HasDrive(m), NEW v
  PROVE  Handles(m, StepHead(m, v), w) /\ ~StepHead(m, v).card.writing
<1> DEFINE f == FlushWrite(m)
           u == m.card.sel
           k == Stepping(m.card.kind, v, f.bay[u].track)
           b == [f.bay[u] EXCEPT !.track = k]
           n == [f EXCEPT !.bay = [f.bay EXCEPT ![u] = b]]
<1>1. Good(f, w) /\ f.bay = m.bay /\ f.card.sel = m.card.sel /\ ~f.card.writing /\ f.card.kind = m.card.kind
  BY FlushKeeps
<1>2. u \in Bays /\ Bay(f.bay[u]) /\ Formed(f)
  BY <1>1 DEF Good, Formed, HasDrive
<1>3. StepHead(m, v) = InvalidatePosition(n)
  BY <1>2 DEF StepHead, Formed
<1> HIDE DEF f
<1>4. Bay(b)
  BY <1>2, SteppingInTracks DEF Bay
<1> HIDE DEF b
<1>5. Handles(f, InvalidatePosition(n), w) /\ ~InvalidatePosition(n).card.writing
  BY <1>1, <1>2, <1>4, DriveChanges
<1> QED BY <1>1, <1>3, <1>5 DEF Handles

\* The record history makes of a write that has just been armed.
Arming(n) == [disk |-> Sel(n).disk, ro |-> Sel(n).ro, place |-> <<n.card.wTrack, n.card.wSector>>, given |-> FALSE]

\* armWrite: the new write goes where the head is.
LEMMA MitsArmKeeps ==
  ASSUME NEW m, NEW w, Good(m, w), HasDrive(m), NEW t \in Nat, NEW n, n = ArmWrite(m, t)
  PROVE  Handles(m, n, Append(w, Arming(n)))
<1> DEFINE f == FlushWrite(m)
           e == IF Spins(m) THEN SectorAt(t) ELSE Nowhere
           z == [i \in Slots |-> Skipped]
           x == [f EXCEPT !.card.writing = TRUE, !.card.writePos = 0, !.card.wTrack = Sel(m).track,
                          !.card.wSector = e, !.card.wbuf = z]
           r == Arming(n)
           w2 == Append(w, r)
<1>1. Good(f, w) /\ f.bay = m.bay /\ f.card.sel = m.card.sel /\ ~f.card.writing /\ f.card.kind = m.card.kind
  BY FlushKeeps
<1>2. n = x
  BY DEF ArmWrite
<1>3. e \in SectorNumbers \cup {Nowhere} /\ (Spins(m) => e \in SectorNumbers)
  BY SectorIn
<1>4. Formed(f)
  BY <1>1 DEF Good
<1> HIDE DEF f, e
<1>5. /\ Formed(n) /\ n.bay = m.bay /\ n.shelf = f.shelf /\ n.card.sel = m.card.sel /\ n.card.kind = m.card.kind
      /\ n.card.writing /\ n.card.writePos = 0 /\ n.card.wTrack = Sel(m).track /\ n.card.wSector = e /\ n.card.wbuf = z
      /\ n.card.buf = f.card.buf /\ n.card.bufSector = f.card.bufSector
  <2> HIDE DEF z
  <2>1. /\ n.bay = f.bay /\ n.shelf = f.shelf /\ n.card.sel = f.card.sel /\ n.card.kind = f.card.kind
        /\ n.card.writing = TRUE /\ n.card.writePos = 0 /\ n.card.wTrack = Sel(m).track /\ n.card.wSector = e
        /\ n.card.wbuf = z /\ n.card.buf = f.card.buf /\ n.card.bufSector = f.card.bufSector
        /\ DOMAIN n = DOMAIN f /\ DOMAIN n.card = DOMAIN f.card
    <3> DEFINE a1 == [f EXCEPT !.card.writing = TRUE]
               a2 == [a1 EXCEPT !.card.writePos = 0]
               a3 == [a2 EXCEPT !.card.wTrack = Sel(m).track]
    <3>0. n = [a3 EXCEPT !.card.wSector = e, !.card.wbuf = z]
      BY <1>2
    <3>1. /\ a2.bay = f.bay /\ a2.shelf = f.shelf /\ DOMAIN a2 = DOMAIN f /\ DOMAIN a2.card = DOMAIN f.card
          /\ a2.card.writing /\ a2.card.writePos = 0
          /\ \A x1 \in CardParts \ {"writing", "writePos"} : a2.card[x1] = f.card[x1]
      BY <1>4 DEF Formed, CardParts
    <3> HIDE DEF a2
    <3>2. /\ a3.bay = f.bay /\ a3.shelf = f.shelf /\ DOMAIN a3 = DOMAIN f /\ DOMAIN a3.card = DOMAIN f.card
          /\ a3.card.writing /\ a3.card.writePos = 0 /\ a3.card.wTrack = Sel(m).track
          /\ \A x1 \in CardParts \ {"writing", "writePos", "wTrack"} : a3.card[x1] = f.card[x1]
      BY <1>4, <3>1 DEF Formed, CardParts
    <3> HIDE DEF a3
    <3> QED BY ZenonT(60), <1>4, <3>0, <3>2 DEF Formed, CardParts
  <2>2. Formed(n)
    BY <2>1, <1>4 DEF Formed
  <2> QED BY <1>1, <2>1, <2>2
<1> HIDE DEF x
<1>6. HasDrive(n) /\ HasDrive(f) /\ Sel(n) = Sel(m) /\ Sel(f) = Sel(m) /\ Spins(n) = Spins(m) /\ Spins(f) = Spins(m)
  BY <1>1, <1>5 DEF HasDrive, Sel, Spins
<1>7. SlotRead(n)
  BY <1>1, <1>5, <1>6 DEF Good, SlotRead
<1>8. /\ Bay(Sel(m)) /\ r.disk = Sel(m).disk /\ r.ro = Sel(m).ro /\ r.place = <<Sel(m).track, e>> /\ ~r.given
      /\ r \in WriteRecords
  <2>1. Bay(Sel(m))
    BY <1>4, <1>1 DEF Formed, HasDrive, Sel
  <2> QED BY <2>1, <1>3, <1>5, <1>6 DEF Bay, Arming, WriteRecords
<1> HIDE DEF r
<1>9. /\ w \in Seq(WriteRecords) /\ w2 \in Seq(WriteRecords) /\ Len(w2) = Len(w) + 1 /\ Len(w) \in Nat /\ w2[Len(w2)] = r
      /\ \A v \in 1..Len(w) : w2[v] = w[v] /\ v \in 1..Len(w2)
  BY <1>1, <1>8 DEF Good, Whole
<1> HIDE DEF w2
<1>10. Arms(n, w2)
  <2>1. n.card.wbuf \in [Slots -> {Len(w2), Skipped}] /\ 0 \notin Slots
    BY <1>5 DEF Slots
  <2>2. r.disk # NoDisk => e \in SectorNumbers
    BY <1>3, <1>6, <1>8 DEF Spins
  <2> QED BY <1>5, <1>6, <1>8, <1>9, <2>1, <2>2 DEF Arms
<1>11. WholeSlots(n.shelf, w2)
  <2> SUFFICES ASSUME NEW d \in HsDisks, NEW p \in Places
               PROVE  \/ f.shelf[d][p] = Pristine
                      \/ \E v \in 1..Len(w2) : /\ w2[v].disk = d /\ w2[v].place = p /\ ~w2[v].ro
                                               /\ \A i \in Slots : f.shelf[d][p][i] \in {v, Skipped}
    BY <1>5 DEF WholeSlots
  <2>1. \/ f.shelf[d][p] = Pristine
        \/ \E v \in 1..Len(w) : /\ w[v].disk = d /\ w[v].place = p /\ ~w[v].ro
                                /\ \A i \in Slots : f.shelf[d][p][i] \in {v, Skipped}
    BY SMTT(30), <1>1 DEF Good, Whole, WholeSlots
  <2> QED BY <2>1, <1>9
<1>12. Lands(n.shelf, w2, n.card.writing)
  <2> SUFFICES ASSUME NEW v \in 1..Len(w2), w2[v].given, w2[v].disk # NoDisk, ~w2[v].ro
               PROVE  \/ \E i \in Slots : f.shelf[w2[v].disk][w2[v].place][i] = v
                      \/ \E y \in 1..Len(w2) : y > v /\ w2[v].disk = w2[y].disk /\ w2[v].place = w2[y].place
    BY <1>5 DEF Lands
  <2>1. v \in 1..Len(w)
    BY <1>8, <1>9
  <2>2. \/ \E i \in Slots : f.shelf[w[v].disk][w[v].place][i] = v
        \/ \E y \in 1..Len(w) : y > v /\ w[v].disk = w[y].disk /\ w[v].place = w[y].place
    BY <1>1, <1>9, <2>1 DEF Good, Whole, Lands
  <2> QED BY <2>1, <2>2, <1>9
<1>13. Whole(n, w2)
  BY <1>9, <1>11, <1>12 DEF Whole
<1> QED BY <1>5, <1>7, <1>10, <1>13 DEF Handles, Good, w2, r

\* One handling after another.
LEMMA HandlesOn ==
  ASSUME NEW m, NEW n, NEW x, NEW w, NEW w2, Handles(m, n, w), Handles(n, x, w2)
  PROVE  Handles(m, x, w2)
BY DEF Handles

\* armWrite after other orders of the same command byte.
LEMMA ArmHandles ==
  ASSUME NEW m, NEW x, NEW w, Handles(m, x, w), HasDrive(m), NEW t \in Nat
  PROVE  Handles(m, ArmWrite(x, t), Append(w, Arming(ArmWrite(x, t))))
<1>1. Good(x, w) /\ HasDrive(x)
  BY DEF Handles, HasDrive
<1>2. Handles(x, ArmWrite(x, t), Append(w, Arming(ArmWrite(x, t))))
  BY <1>1, MitsArmKeeps
<1> QED BY <1>2 DEF Handles

\* Only the head of the selected drive has been loaded, which the 88-DCDD counts with its drive.
LEMMA MitsLoadKeeps ==
  ASSUME NEW m, NEW w, Good(m, w), HasDrive(m), NEW on, NEW n, n = [m EXCEPT !.bay[m.card.sel].loaded = on]
  PROVE  Handles(m, n, w)
<1> DEFINE u == m.card.sel
           b == [m.bay[u] EXCEPT !.loaded = on]
<1>1. u \in Bays /\ Bay(m.bay[u]) /\ Formed(m)
  BY DEF Good, Formed, HasDrive
<1>2. /\ n.card = m.card /\ n.shelf = m.shelf /\ n.bay = [m.bay EXCEPT ![u] = b] /\ DOMAIN n = DOMAIN m
  BY <1>1 DEF Formed
<1>3. /\ Bay(b) /\ b.disk = m.bay[u].disk /\ b.ro = m.bay[u].ro /\ b.track = m.bay[u].track
  BY <1>1 DEF Bay
<1> HIDE DEF b
<1>4. Formed(n)
  BY <1>1, <1>2, <1>3 DEF Formed
<1>5. /\ HasDrive(n) = HasDrive(m) /\ Spins(n) = Spins(m) /\ Sel(n).disk = Sel(m).disk
      /\ Sel(n).ro = Sel(m).ro /\ Sel(n).track = Sel(m).track
  BY <1>1, <1>2, <1>3 DEF HasDrive, Spins, Sel, Formed
<1>6. SlotRead(n)
  BY <1>2, <1>5 DEF Good, SlotRead
<1>7. Arms(n, w)
  BY <1>2, <1>5 DEF Good, Arms
<1>8. Whole(n, w)
  BY <1>2 DEF Good, Whole
<1> QED BY <1>2, <1>4, <1>6, <1>7, <1>8 DEF Handles, Good

\* The head is unloaded: the slot is written, and no longer kept.
LEMMA UnloadKeeps ==
  ASSUME NEW m, NEW w, Good(m, w), HasDrive(m),
         NEW n, n = InvalidatePosition([FlushWrite(m) EXCEPT !.bay[m.card.sel].loaded = FALSE])
  PROVE  Handles(m, n, w)
<1> DEFINE f == FlushWrite(m)
           u == m.card.sel
           b == [f.bay[u] EXCEPT !.loaded = FALSE]
           x == [f EXCEPT !.bay = [f.bay EXCEPT ![u] = b]]
<1>1. Good(f, w) /\ f.bay = m.bay /\ f.card.sel = m.card.sel /\ ~f.card.writing /\ f.card.kind = m.card.kind
  BY FlushKeeps
<1>2. u \in Bays /\ Bay(f.bay[u]) /\ Formed(f)
  BY <1>1 DEF Good, Formed, HasDrive
<1>3. n = InvalidatePosition(x)
  BY <1>2 DEF Formed
<1> HIDE DEF f
<1>4. Bay(b)
  BY <1>2 DEF Bay
<1> HIDE DEF b
<1>5. Handles(f, InvalidatePosition(x), w)
  BY <1>1, <1>2, <1>4, DriveChanges
<1> QED BY <1>1, <1>3, <1>5 DEF Handles

\* A command byte with no order in it.
LEMMA HandlesSelf ==
  ASSUME NEW m, NEW w, Good(m, w)
  PROVE  Handles(m, m, w)
BY DEF Handles

\* Only the timers have been touched.
LEMMA TimersKeep ==
  ASSUME NEW m, NEW w, Good(m, w), NEW a, NEW b
  PROVE  /\ Handles(m, [m EXCEPT !.card.settleIn = a, !.card.offIn = b], w)
         /\ Handles(m, [m EXCEPT !.card.offIn = b], w)
<1>1. Formed(m)
  BY DEF Good
<1>2. ASSUME NEW n, n \in {[m EXCEPT !.card.settleIn = a, !.card.offIn = b], [m EXCEPT !.card.offIn = b]}
      PROVE  Handles(m, n, w)
  <2>1. Formed(n) /\ SlotsSame(m, n)
    BY ZenonT(60), <1>1, <1>2 DEF Formed, SlotsSame, CardParts
  <2> QED BY <2>1, SameGood DEF Handles, SlotsSame
<1> QED BY <1>2

\* The 88-DCDD's command byte: its orders in the order of the code.
LEMMA DcddKeeps ==
  ASSUME NEW m, NEW w, Good(m, w), HasDrive(m), NEW v, NEW t \in Nat, NEW n, n = DcddCommand(m, v, t)
  PROVE  Handles(m, n, IF "write" \in v THEN Append(w, Arming(n)) ELSE w)
<1> DEFINE a == IF {"in", "out"} \cap v # {} THEN StepHead(m, v) ELSE m
           b == IF "load" \in v THEN [a EXCEPT !.bay[m.card.sel].loaded = TRUE] ELSE a
           c == IF "unload" \in v
                THEN InvalidatePosition([FlushWrite(b) EXCEPT !.bay[m.card.sel].loaded = FALSE]) ELSE b
<1>1. n = IF "write" \in v THEN ArmWrite(c, t) ELSE c
  BY DEF DcddCommand
<1>2. Handles(m, a, w)
  BY HeadKeeps, HandlesSelf
<1> HIDE DEF a
<1>3. Handles(m, b, w)
  <2>1. Good(a, w) /\ HasDrive(a) /\ a.card.sel = m.card.sel
    BY <1>2 DEF Handles, HasDrive
  <2>2. Handles(a, [a EXCEPT !.bay[a.card.sel].loaded = TRUE], w)
    BY <2>1, MitsLoadKeeps
  <2> QED BY <2>1, <2>2, <1>2, HandlesOn
<1> HIDE DEF b
<1>4. Handles(m, c, w)
  <2>1. Good(b, w) /\ HasDrive(b) /\ b.card.sel = m.card.sel
    BY <1>3 DEF Handles, HasDrive
  <2>2. Handles(b, InvalidatePosition([FlushWrite(b) EXCEPT !.bay[b.card.sel].loaded = FALSE]), w)
    BY <2>1, UnloadKeeps
  <2> QED BY <2>1, <2>2, <1>3, HandlesOn
<1> HIDE DEF c
<1> QED BY <1>1, <1>4, ArmHandles

\* The 88-MDS's command byte.
LEMMA MdsKeeps ==
  ASSUME NEW m, NEW w, Good(m, w), HasDrive(m), NEW v, NEW t \in Nat, NEW n, n = MdsCommand(m, v, t)
  PROVE  Handles(m, n, IF "write" \in v THEN Append(w, Arming(n)) ELSE w)
<1> DEFINE s == StepHead(m, v)
           a == IF {"in", "out"} \cap v # {}
                THEN [s EXCEPT !.card.settleIn = StepSettle, !.card.offIn = DisableTimer] ELSE m
           b == IF "load" \in v THEN [a EXCEPT !.card.offIn = DisableTimer] ELSE a
<1>1. n = IF "write" \in v THEN ArmWrite(b, t) ELSE b
  BY DEF MdsCommand
<1>2. Handles(m, s, w)
  BY HeadKeeps
<1> HIDE DEF s
<1>3. Handles(m, a, w)
  <2>1. Good(s, w)
    BY <1>2 DEF Handles
  <2> QED BY <2>1, <1>2, TimersKeep, HandlesOn, HandlesSelf
<1> HIDE DEF a
<1>4. Handles(m, b, w)
  <2>1. Good(a, w)
    BY <1>3 DEF Handles
  <2> QED BY <2>1, <1>3, TimersKeep, HandlesOn
<1> HIDE DEF b
<1> QED BY <1>1, <1>4, ArmHandles

\* A command byte on either card, with a drive selected or none.
LEMMA CommandKeeps ==
  ASSUME NEW m, NEW w, Good(m, w), m.card.kind \in MitsKinds, NEW v, NEW t \in Nat, NEW n, n = MitsCommand(m, v, t)
  PROVE  Handles(m, n, IF "write" \notin v \/ ~HasDrive(m) THEN w ELSE Append(w, Arming(n)))
<1>1. CASE ~HasDrive(m)
  BY <1>1, HandlesSelf DEF MitsCommand
<1>2. CASE HasDrive(m) /\ m.card.kind = "dcdd"
  BY <1>2, DcddKeeps DEF MitsCommand
<1>3. CASE HasDrive(m) /\ m.card.kind # "dcdd"
  BY <1>3, MdsKeeps DEF MitsCommand
<1> QED BY <1>1, <1>2, <1>3

-----------------------------------------------------------------------------
\* The machine as it is, or as a step leaves it.
LEMMA AlikeGood ==
  ASSUME NEW n, NEW w, Good(n, w),
         NEW h, {"card", "bay", "shelf"} \subseteq DOMAIN h, h.card = n.card, h.bay = n.bay, h.shelf = n.shelf
  PROVE  Good(h, w)
<1>1. HasDrive(h) = HasDrive(n) /\ Sel(h) = Sel(n) /\ Spins(h) = Spins(n)
  BY DEF HasDrive, Sel, Spins
<1>2. Formed(h) /\ Whole(h, w)
  BY DEF Good, Formed, Whole
<1>3. SlotRead(h)
  BY <1>1 DEF Good, SlotRead
<1>4. Arms(h, w)
  BY <1>1 DEF Good, Arms
<1> QED BY <1>2, <1>3, <1>4 DEF Good

\* A good machine taken over by the step is good after it.
LEMMA BecomesGood ==
  ASSUME NEW n, Becomes(n), Good(n, where')
  PROVE  Good(HsMachine, where)'
<1> DEFINE h == [card |-> card', bay |-> bay', shelf |-> shelf']
<1>1. DOMAIN h = {"card", "bay", "shelf"} /\ h.card = n.card /\ h.bay = n.bay /\ h.shelf = n.shelf
  BY DEF Becomes
<1> HIDE DEF h
<1>2. Good(h, where')
  BY <1>1, AlikeGood
<1> QED BY <1>2 DEF h, HsMachine

\* The inductive invariant: the two slots of a card on the bench are right.
MitsInv == turned \in Nat /\ card.kind \in MitsKinds /\ Good(HsMachine, where)

\* The parts of the machine.
LEMMA MachineIs ==
  HsMachine.card = card /\ HsMachine.bay = bay /\ HsMachine.shelf = shelf
BY DEF HsMachine

\* The guest's byte lands in the pending slot, and history knows whether it fits.
LEMMA WriteKeeps ==
  ASSUME MitsInv, HsWriteData
  PROVE  Good(HsMachine, where)' /\ card'.kind = card.kind
<1> DEFINE m == HsMachine
           w == where
           k == Len(where)
           slot == IF Spins(HsMachine) /\ WriteIndex(turned) > 0 THEN WriteIndex(turned) ELSE 0
           g == w[k].given \/ slot < HsBytes
           q == [card.wbuf EXCEPT ![slot + 1] = k]
           n == [card |-> card', bay |-> bay', shelf |-> shelf']
<1>1. Good(m, w) /\ turned \in Nat /\ m.card = card /\ m.bay = bay /\ m.shelf = shelf
  BY MachineIs DEF MitsInv
<1>2. slot \in Nat
  <2>1. Into(turned) \in Nat
    BY <1>1, HsConstants DEF Into
  <2>2. WriteIndex(turned) \in Int
    BY <2>1, HsConstants DEF WriteIndex, Nowhere
  <2> QED BY <2>2
<1>3. /\ card.writing /\ bay' = bay /\ shelf' = shelf
      /\ card' = [card EXCEPT !.wbuf = [i \in Slots |-> IF i = slot + 1 THEN k ELSE card.wbuf[i]], !.writePos = slot + 1]
      /\ where' = [where EXCEPT ![k].given = g]
  BY DEF HsWriteData
<1> HIDE DEF slot
<1>4. /\ Formed(m) /\ SlotRead(m) /\ k \in Nat /\ k # 0 /\ w \in Seq(WriteRecords) /\ card.wbuf \in [Slots -> {k, Skipped}]
      /\ w[k].place = <<card.wTrack, card.wSector>>
      /\ (HasDrive(m) => w[k].disk = Sel(m).disk /\ w[k].ro = Sel(m).ro /\ card.wTrack = Sel(m).track)
      /\ (~HasDrive(m) => w[k].disk = NoDisk)
      /\ (w[k].disk # NoDisk => card.wSector \in SectorNumbers)
      /\ (w[k].given => \E i \in Slots : card.wbuf[i] = k)
      /\ WholeSlots(shelf, w) /\ Lands(shelf, w, card.writing)
  <2>1. Formed(m) /\ SlotRead(m) /\ Arms(m, w) /\ w \in Seq(WriteRecords) /\ WholeSlots(shelf, w) /\ Lands(shelf, w, card.writing)
    BY <1>1 DEF Good, Whole
  <2>2. k \in Nat
    BY <2>1
  <2> QED BY <1>1, <1>3, <2>1, <2>2 DEF Arms
<1>5. /\ Formed(n) /\ n.bay = bay /\ n.shelf = shelf /\ n.card.writing /\ n.card.writePos = slot + 1
      /\ n.card.wTrack = card.wTrack /\ n.card.wSector = card.wSector /\ n.card.sel = card.sel /\ n.card.kind = card.kind
      /\ n.card.buf = card.buf /\ n.card.bufSector = card.bufSector
      /\ n.card.wbuf = [i \in Slots |-> IF i = slot + 1 THEN k ELSE card.wbuf[i]]
  BY <1>1, <1>3, <1>4 DEF Formed, CardParts
<1> HIDE DEF n
<1>6. HasDrive(n) = HasDrive(m) /\ Sel(n) = Sel(m) /\ Spins(n) = Spins(m)
  BY <1>1, <1>5 DEF HasDrive, Sel, Spins
<1>7. /\ where' \in Seq(WriteRecords) /\ Len(where') = k
      /\ \A v \in 1..k : /\ where'[v].disk = w[v].disk /\ where'[v].ro = w[v].ro /\ where'[v].place = w[v].place
                         /\ v # k => where'[v].given = w[v].given
      /\ where'[k].given = g
  <2>1. w[k] \in WriteRecords /\ g \in BOOLEAN
    <3>1. w[k] \in WriteRecords
      BY <1>4
    <3>2. g \in BOOLEAN
      OBVIOUS
    <3> QED BY <3>1, <3>2
  <2>2. [w[k] EXCEPT !.given = g] \in WriteRecords
    BY <2>1 DEF WriteRecords
  <2>3. where' = [w EXCEPT ![k] = [w[k] EXCEPT !.given = g]]
    BY <1>3
  <2> HIDE DEF g
  <2>4. where' \in Seq(WriteRecords) /\ Len(where') = k
    BY <1>4, <2>2, <2>3
  <2>5. \A v \in 1..k : where'[v] = IF v = k THEN [w[k] EXCEPT !.given = g] ELSE w[v]
    BY <1>4, <2>3
  <2> QED BY <1>4, <2>1, <2>4, <2>5 DEF WriteRecords
<1>8. SlotRead(n)
  BY <1>1, <1>4, <1>5, <1>6 DEF SlotRead
<1>9. Arms(n, where')
  <2>1. n.card.wbuf \in [Slots -> {k, Skipped}]
    BY <1>4, <1>5
  <2>2. slot + 1 \in Slots => n.card.wbuf[slot + 1] = k
    BY <1>5
  <2>3. where'[k].given => \E i \in Slots : n.card.wbuf[i] = k
    <3> SUFFICES ASSUME where'[k].given
                 PROVE  \E i \in Slots : n.card.wbuf[i] = k
      OBVIOUS
    <3>1. CASE slot < HsBytes
      <4>1. slot + 1 \in Slots
        BY <3>1, <1>2, HsConstants DEF Slots
      <4> QED BY <4>1, <2>2
    <3>2. CASE ~(slot < HsBytes)
      <4>1. PICK i \in Slots : card.wbuf[i] = k
        BY <3>2, <1>4, <1>7
      <4> QED BY <4>1, <1>5
    <3> QED BY <3>1, <3>2
  <2>4. k \in 1..k
    BY <1>4
  <2> QED BY <1>1, <1>2, <1>4, <1>5, <1>6, <1>7, <2>1, <2>2, <2>3, <2>4 DEF Arms
<1>10. WholeSlots(shelf, where')
  BY <1>4, <1>7 DEF WholeSlots
<1>11. Lands(shelf, where', n.card.writing)
  BY <1>3, <1>4, <1>5, <1>7 DEF Lands
<1>12. Good(n, where')
  BY <1>5, <1>7, <1>8, <1>9, <1>10, <1>11 DEF Good, Whole
<1> QED BY <1>5, <1>12 DEF n, HsMachine

\* A drive that is not the selected one has changed.
LEMMA OtherChanges ==
  ASSUME NEW m, NEW w, Good(m, w), NEW u \in Bays, m.card.sel # u, NEW b, Bay(b),
         NEW n, n = [m EXCEPT !.bay = [m.bay EXCEPT ![u] = b]]
  PROVE  Good(n, w) /\ n.card = m.card
<1>1. Formed(m)
  BY DEF Good
<1>2. n.card = m.card /\ n.shelf = m.shelf /\ n.bay = [m.bay EXCEPT ![u] = b] /\ DOMAIN n = DOMAIN m
  BY <1>1 DEF Formed
<1>3. Formed(n)
  BY <1>1, <1>2 DEF Formed
<1>4. HasDrive(n) = HasDrive(m) /\ (HasDrive(m) => Sel(n) = Sel(m)) /\ Spins(n) = Spins(m)
  BY <1>1, <1>2 DEF HasDrive, Sel, Spins, Formed
<1>5. SlotRead(n)
  BY <1>2, <1>4 DEF Good, SlotRead, Spins
<1>6. Arms(n, w)
  BY <1>2, <1>4 DEF Good, Arms
<1> QED BY <1>2, <1>3, <1>5, <1>6 DEF Good, Whole

\* The machine m with b as its drive u.
Put(m, u, b) == [m EXCEPT !.bay = [m.bay EXCEPT ![u] = b]]

\* A disk comes or goes: the slot pending for the selected drive is written first.
LEMMA MountKeeps ==
  ASSUME NEW m, NEW w, Good(m, w), NEW u \in Bays, NEW b, Bay(b),
         NEW n, n = Put(LeftBehind(m, u), u, b)
  PROVE  Good(n, w) /\ n.card.kind = m.card.kind
<1> USE DEF Put
<1>1. CASE m.card.sel # u
  <2>1. LeftBehind(m, u) = m
    BY <1>1 DEF LeftBehind
  <2> QED BY <1>1, <2>1, OtherChanges
<1>2. CASE m.card.sel = u
  <2> DEFINE f == FlushWrite(m)
             x == InvalidatePosition(f)
  <2>1. Good(f, w) /\ f.bay = m.bay /\ f.card.sel = m.card.sel /\ ~f.card.writing /\ f.card.kind = m.card.kind
    BY FlushKeeps
  <2>2. LeftBehind(m, u) = x
    BY <1>2 DEF LeftBehind
  <2> HIDE DEF f
  <2>3. Formed(f)
    BY <2>1 DEF Good
  <2>4. Good(x, w) /\ ~x.card.writing /\ x.card.bufSector = Nowhere /\ x.card.kind = f.card.kind
    <3>1. Good(x, w) /\ ~x.card.writing /\ x.card.kind = f.card.kind
      BY <2>1, <2>3, InvalidateGood, InvalidateSame
    <3> QED BY <3>1, <2>3 DEF InvalidatePosition, Formed, CardParts
  <2> HIDE DEF x
  <2>5. Formed(x)
    BY <2>4 DEF Good
  <2>6. n.card = x.card /\ n.shelf = x.shelf /\ n.bay = [x.bay EXCEPT ![u] = b] /\ DOMAIN n = DOMAIN x
    BY <2>2, <2>5 DEF Formed
  <2>7. Formed(n)
    BY <2>5, <2>6 DEF Formed
  <2> QED BY <2>1, <2>4, <2>6, <2>7, BlankGood
<1> QED BY <1>1, <1>2

\* What the guest does at the ports but giving a byte.
LEMMA ReadsKeep ==
  ASSUME MitsInv, HsReadStatus \/ HsReadSector \/ HsReadData
  PROVE  Good(HsMachine, where)' /\ card'.kind = card.kind
<1> DEFINE m == SyncSector(HsMachine, turned)
           n == [m EXCEPT !.card.readPos = ByteIndex(turned) + 1]
<1>1. Good(m, where) /\ m.card.kind = card.kind
  BY SyncKeeps, MachineIs DEF MitsInv
<1>2. where' = where /\ (Becomes(m) \/ Becomes(n))
  BY DEF HsReadStatus, HsReadSector, HsReadData
<1> HIDE DEF m
<1>3. Good(n, where) /\ n.card.kind = m.card.kind
  <2>1. Formed(m)
    BY <1>1 DEF Good
  <2>2. Formed(n) /\ SlotsSame(m, n)
    BY <2>1 DEF Formed, SlotsSame, CardParts
  <2> QED BY <1>1, <2>2, SameGood DEF SlotsSame
<1> HIDE DEF n
<1>4. card'.kind = card.kind
  BY <1>1, <1>2, <1>3 DEF Becomes
<1> QED BY <1>1, <1>2, <1>3, <1>4, BecomesGood

\* OUT 08.
LEMMA SelectsKeep ==
  ASSUME MitsInv, NEW n \in 0..HsDrives, HsSelect(n)
  PROVE  Good(HsMachine, where)' /\ card'.kind = card.kind
<1> DEFINE u == IF n \in Bays THEN n ELSE Nowhere
           x == SelectDrive(HsMachine, u)
<1>1. Good(x, where) /\ x.card.kind = card.kind
  BY SelectKeeps, MachineIs DEF MitsInv
<1>2. where' = where /\ Becomes(x)
  BY DEF HsSelect
<1> HIDE DEF x
<1>3. card'.kind = card.kind
  BY <1>1, <1>2 DEF Becomes
<1> QED BY <1>1, <1>2, <1>3, BecomesGood

\* OUT 09.
LEMMA CommandsKeep ==
  ASSUME MitsInv, NEW v, HsCommand(v)
  PROVE  Good(HsMachine, where)' /\ card'.kind = card.kind
<1> DEFINE n == MitsCommand(HsMachine, v, turned)
           to == IF "write" \notin v \/ ~HasDrive(HsMachine) THEN where ELSE Append(where, Arming(n))
<1>1. Handles(HsMachine, n, to)
  BY CommandKeeps, MachineIs DEF MitsInv
<1>2. Becomes(n)
  BY DEF HsCommand
<1>3. where' = to
  <2>1. card' = n.card /\ bay' = n.bay
    BY <1>2 DEF Becomes
  <2>2. Sel(n) = bay'[card'.sel]
    BY <2>1 DEF Sel
  <2> HIDE DEF n
  <2> QED BY <2>1, <2>2 DEF HsCommand, Arming, n
<1> HIDE DEF n, to
<1>4. card'.kind = card.kind
  BY <1>1, <1>2, MachineIs DEF Becomes, Handles
<1> QED BY <1>1, <1>2, <1>3, <1>4, BecomesGood DEF Handles

\* What the operator does.
LEMMA MountsKeep ==
  ASSUME MitsInv, NEW u \in Bays, NEW d \in HsDisks, NEW ro \in BOOLEAN, HsMount(u, d, ro) \/ HsUnmount(u)
  PROVE  Good(HsMachine, where)' /\ card'.kind = card.kind
<1> DEFINE x == LeftBehind(HsMachine, u)
           i == [x EXCEPT !.bay[u].disk = d, !.bay[u].ro = ro]
           o == [x EXCEPT !.bay[u].disk = NoDisk, !.bay[u].ro = FALSE, !.bay[u].loaded = FALSE]
           bi == [x.bay[u] EXCEPT !.disk = d, !.ro = ro]
           bo == [x.bay[u] EXCEPT !.disk = NoDisk, !.ro = FALSE, !.loaded = FALSE]
<1>1. where' = where /\ (Becomes(i) \/ Becomes(o))
  BY DEF HsMount, HsUnmount, HsByHand
<1>2. Good(HsMachine, where) /\ HsMachine.card.kind = card.kind
  BY MachineIs DEF MitsInv
<1>3. Formed(x)
  <2>1. CASE HsMachine.card.sel # u
    BY <2>1, <1>2 DEF LeftBehind, Good
  <2>2. CASE HsMachine.card.sel = u
    <3>1. Good(FlushWrite(HsMachine), where)
      BY <1>2, FlushKeeps
    <3>2. Formed(InvalidatePosition(FlushWrite(HsMachine)))
      BY <3>1 DEF Good, InvalidatePosition, Formed, CardParts
    <3> QED BY <3>2, <2>2 DEF LeftBehind
  <2> QED BY <2>1, <2>2
<1> HIDE DEF x
<1>4. i = [x EXCEPT !.bay = [x.bay EXCEPT ![u] = bi]] /\ o = [x EXCEPT !.bay = [x.bay EXCEPT ![u] = bo]]
  BY <1>3 DEF Formed
<1>5. Bay(bi) /\ Bay(bo)
  <2>1. Bay(x.bay[u])
    BY <1>3 DEF Formed
  <2> QED BY <2>1 DEF Bay, Disks
<1> HIDE DEF bi, bo
<1>6. Good(i, where) /\ i.card.kind = card.kind /\ Good(o, where) /\ o.card.kind = card.kind
  <2>1. ASSUME NEW b, Bay(b)
        PROVE  /\ Good([x EXCEPT !.bay = [x.bay EXCEPT ![u] = b]], where)
               /\ [x EXCEPT !.bay = [x.bay EXCEPT ![u] = b]].card.kind = card.kind
    <3> DEFINE n == [x EXCEPT !.bay = [x.bay EXCEPT ![u] = b]]
    <3>1. n = Put(LeftBehind(HsMachine, u), u, b)
      BY DEF x, Put
    <3> HIDE DEF n
    <3>2. Good(n, where) /\ n.card.kind = HsMachine.card.kind
      BY <1>2, <2>1, <3>1, MountKeeps
    <3> QED BY <1>2, <3>2 DEF n
  <2> HIDE DEF i, o
  <2> QED BY <1>4, <1>5, <2>1
<1> HIDE DEF i, o
<1>7. card'.kind = card.kind
  BY <1>1, <1>6 DEF Becomes
<1> QED BY <1>1, <1>6, <1>7, BecomesGood

\* A reset, hard or soft.
LEMMA ResetsKeep ==
  ASSUME MitsInv, HsReset
  PROVE  Good(HsMachine, where)' /\ card'.kind = card.kind
<1> DEFINE m == HsMachine
           f == FlushWrite(m)
           s == Reselected(f, Nowhere)
           y == [u \in Bays |-> [bay[u] EXCEPT !.loaded = FALSE]]
           n == [s EXCEPT !.bay = y]
           x == InvalidatePosition(n)
<1>1. where' = where /\ Becomes(x)
  BY DEF HsReset, HsByHand
<1>2. Good(m, where) /\ m.card.kind = card.kind /\ m.card.kind \in MitsKinds /\ m.bay = bay
  BY MachineIs DEF MitsInv
<1>3. Good(f, where) /\ f.bay = bay /\ ~f.card.writing /\ f.card.kind = card.kind
  BY <1>2, FlushKeeps
<1> HIDE DEF f, m
<1>4. Formed(f)
  BY <1>3 DEF Good
<1>5. Formed(s) /\ s.bay = bay /\ s.shelf = f.shelf /\ s.card.kind = card.kind /\ s.card.writing = f.card.writing
  BY <1>2, <1>3, <1>4, ReselectedIs
<1> HIDE DEF s
<1>6. \A u \in Bays : Bay(y[u])
  BY <1>5 DEF Formed, Bay
<1> HIDE DEF y
<1>7. n.card = s.card /\ n.shelf = s.shelf /\ n.bay = y /\ DOMAIN n = DOMAIN s
  BY <1>5 DEF Formed
<1>8. DOMAIN y = Bays
  BY DEF y
<1>9. Formed(n)
  BY <1>5, <1>6, <1>7, <1>8 DEF Formed
<1> HIDE DEF n
<1>10. Good(x, where) /\ x.card.kind = card.kind
  BY <1>3, <1>5, <1>7, <1>9, InvalidateGood, InvalidateSame
<1> HIDE DEF x
<1>11. card'.kind = card.kind
  BY <1>1, <1>10 DEF Becomes
<1> QED BY <1>1, <1>10, <1>11, BecomesGood

\* SET drives= takes the drive away from under an armed write, and there was no disk in it.
LEMMA SetDrivesKeeps ==
  ASSUME MitsInv, HsSetDrives
  PROVE  Good(HsMachine, where)' /\ card'.kind = card.kind
<1> DEFINE m == HsMachine
           y == [u \in Bays |-> IF u < card.sel THEN bay[u] ELSE [bay[u] EXCEPT !.track = 0, !.loaded = FALSE]]
           n == [m EXCEPT !.card.sel = Nowhere, !.bay = y]
<1>1. where' = where /\ Becomes(n) /\ card.sel > 0 /\ \A u \in Bays : u >= card.sel => bay[u].disk = NoDisk
  BY DEF HsSetDrives, HsByHand
<1>2. Good(m, where) /\ m.card = card /\ m.bay = bay /\ m.shelf = shelf
  BY MachineIs DEF MitsInv
<1> HIDE DEF m
<1>3. Formed(m)
  BY <1>2 DEF Good
<1>4. \A u \in Bays : Bay(y[u])
  <2>1. 0 \in TrackNumbers
    BY HsConstants DEF TrackNumbers
  <2> QED BY <1>2, <1>3, <2>1 DEF Formed, Bay
<1>5. DOMAIN y = Bays
  OBVIOUS
<1> HIDE DEF y
<1>6. /\ n.bay = y /\ n.shelf = shelf /\ n.card.sel = Nowhere /\ n.card.kind = card.kind
      /\ n.card.writing = card.writing /\ n.card.writePos = card.writePos
      /\ n.card.wSector = card.wSector /\ n.card.wTrack = card.wTrack /\ n.card.wbuf = card.wbuf
      /\ DOMAIN n = DOMAIN m /\ DOMAIN n.card = DOMAIN card
  BY <1>2, <1>3 DEF Formed, CardParts
<1> HIDE DEF n
<1>7. Formed(n)
  BY <1>2, <1>3, <1>4, <1>5, <1>6 DEF Formed
<1>8. ~HasDrive(n) /\ HasDrive(m) /\ Sel(m).disk = NoDisk
  BY <1>1, <1>2, <1>3, <1>6, HsConstants DEF HasDrive, Sel, Formed, Nowhere, Bays
<1>9. SlotRead(n)
  BY <1>8 DEF SlotRead
<1>10. Arms(n, where)
  BY <1>2, <1>6, <1>8 DEF Good, Arms
<1>11. Good(n, where)
  BY <1>2, <1>6, <1>7, <1>9, <1>10 DEF Good, Whole
<1>12. card'.kind = card.kind
  BY <1>1, <1>6 DEF Becomes
<1> QED BY <1>1, <1>11, <1>12, BecomesGood

\* Time passes: the platter turns and no slot changes.
LEMMA MitsTickKeeps ==
  ASSUME MitsInv, HsTick
  PROVE  Good(HsMachine, where)' /\ card'.kind = card.kind /\ turned' \in Nat
<1> DEFINE h == [card |-> card', bay |-> bay', shelf |-> shelf']
<1>1. /\ card' = [card EXCEPT !.offIn = OneLess(@), !.speedIn = OneLess(@), !.settleIn = OneLess(@)]
      /\ bay' = bay /\ shelf' = shelf /\ where' = where
  BY DEF HsTick
<1>2. Good(HsMachine, where) /\ HsMachine.card = card /\ HsMachine.bay = bay /\ HsMachine.shelf = shelf
  BY MachineIs DEF MitsInv
<1>3. Formed(HsMachine)
  BY <1>2 DEF Good
<1>4. SlotsSame(HsMachine, h) /\ Formed(h)
  BY <1>1, <1>2, <1>3 DEF SlotsSame, Formed, CardParts
<1>5. Good(h, where)
  BY <1>2, <1>4, SameGood
<1>6. turned' \in Nat
  <2>1. HsSectorTicks * HsSectors \in Nat \ {0} /\ turned + 1 \in Nat
    BY HsConstants DEF MitsInv
  <2>2. turned' = (turned + 1) % (HsSectorTicks * HsSectors)
    BY DEF HsTick
  <2> QED BY <2>1, <2>2
<1> QED BY <1>1, <1>4, <1>5, <1>6, <1>2 DEF HsMachine, SlotsSame

\* A card just powered on.
LEMMA MitsStarts ==
  ASSUME HsInit
  PROVE  MitsInv
<1>1. /\ card.kind \in MitsKinds /\ card.sel = Nowhere /\ ~card.writing /\ card.writing \in BOOLEAN /\ card.bufSector = Nowhere
      /\ CardParts \subseteq DOMAIN card /\ where = <<>> /\ turned = 0
      /\ bay = [u \in Bays |-> [disk |-> IF u = 0 THEN guest.disk ELSE NoDisk, ro |-> FALSE, track |-> 0, loaded |-> FALSE]]
      /\ shelf = [d \in HsDisks |-> [p \in Places |-> Pristine]]
  BY DEF HsInit, CardParts, Pristine
<1>2. /\ DOMAIN HsMachine = {"card", "bay", "shelf"} /\ HsMachine.card = card /\ HsMachine.bay = bay /\ HsMachine.shelf = shelf
  BY DEF HsMachine
<1>3. guest.disk \in HsDisks /\ 0 \in TrackNumbers
  BY HsConstants DEF HsInit, TrackNumbers
<1>4. \A u \in Bays : Bay(bay[u])
  BY <1>1, <1>3 DEF Bay, Disks
<1>5. Formed(HsMachine)
  BY <1>1, <1>2, <1>4 DEF Formed
<1>6. SlotRead(HsMachine)
  BY <1>1, <1>2 DEF SlotRead
<1>7. Arms(HsMachine, where)
  BY <1>1, <1>2 DEF Arms
<1>8. Whole(HsMachine, where)
  BY <1>1, <1>2 DEF Whole, WholeSlots, Lands
<1> QED BY <1>1, <1>5, <1>6, <1>7, <1>8 DEF MitsInv, Good

\* Nothing happens.
LEMMA MitsStill ==
  ASSUME MitsInv, UNCHANGED hsVars
  PROVE  MitsInv'
<1>1. card' = card /\ bay' = bay /\ shelf' = shelf /\ where' = where /\ turned' = turned
  BY DEF hsVars
<1>2. Becomes(HsMachine)
  BY <1>1, MachineIs DEF Becomes
<1>3. Good(HsMachine, where)'
  BY <1>1, <1>2, BecomesGood DEF MitsInv
<1> QED BY <1>1, <1>3 DEF MitsInv

\* Every step of the guest, of the operator and of time keeps the two slots right.
LEMMA MitsStep ==
  ASSUME MitsInv, [HsNext]_hsVars
  PROVE  MitsInv'
<1>1. ASSUME HsGuest
      PROVE  Good(HsMachine, where)' /\ card'.kind = card.kind /\ turned' = turned
  <2>1. turned' = turned
    BY <1>1 DEF HsGuest, HsReadStatus, HsReadSector, HsReadData, HsWriteData, HsSelect, HsCommand, HsStill
  <2>2. CASE HsReadStatus \/ HsReadSector \/ HsReadData
    BY <2>1, <2>2, ReadsKeep
  <2>3. CASE HsWriteData
    BY <2>1, <2>3, WriteKeeps
  <2>4. CASE \E n \in 0..HsDrives : HsSelect(n)
    BY <2>1, <2>4, SelectsKeep
  <2>5. CASE \E v \in guest.commands : HsCommand(v.bits)
    BY <2>1, <2>5, CommandsKeep
  <2> QED BY <1>1, <2>2, <2>3, <2>4, <2>5 DEF HsGuest
<1>2. ASSUME HsOperator
      PROVE  Good(HsMachine, where)' /\ card'.kind = card.kind /\ turned' = turned
  <2>1. turned' = turned
    BY <1>2 DEF HsOperator, HsMount, HsUnmount, HsReset, HsSetDrives, HsByHand
  <2>2. CASE \E u \in Bays, d \in HsDisks, ro \in BOOLEAN : HsMount(u, d, ro)
    BY <2>1, <2>2, MountsKeep
  <2>3. CASE \E u \in Bays : HsUnmount(u)
    <3>1. PICK u \in Bays : HsUnmount(u)
      BY <2>3
    <3>2. PICK d \in HsDisks : TRUE
      BY <3>1, MachineIs DEF MitsInv, Good, Formed, Bay, Disks, HsUnmount
    <3> QED BY <2>1, <3>1, <3>2, MountsKeep
  <2>4. CASE HsReset
    BY <2>1, <2>4, ResetsKeep
  <2>5. CASE HsSetDrives
    BY <2>1, <2>5, SetDrivesKeeps
  <2> QED BY SMTT(30), <1>2, <2>2, <2>3, <2>4, <2>5 DEF HsOperator
<1>3. CASE HsTick
  BY <1>3, MitsTickKeeps DEF MitsInv
<1> QED BY <1>1, <1>2, <1>3, MitsStill DEF MitsInv, HsNext

\* What is on a disk is what the invariant says of its shelf.
LEMMA MitsLands ==
  ASSUME MitsInv
  PROVE  SlotLandsWhereArmed
<1>1. /\ Formed(HsMachine) /\ Arms(HsMachine, where) /\ WholeSlots(shelf, where) /\ Lands(shelf, where, card.writing)
  BY MachineIs DEF MitsInv, Good, Whole
<1>2. ASSUME NEW d \in HsDisks, NEW p \in Places
      PROVE  \/ shelf[d][p] = [i \in Slots |-> AsItCame]
             \/ \E w \in HsWrites :
                  /\ where[w].disk = d /\ where[w].place = p /\ ~where[w].ro
                  /\ \A i \in Slots : shelf[d][p][i] \in {w, Skipped}
  BY <1>1 DEF WholeSlots, Pristine, HsWrites
<1>3. ASSUME NEW w \in HsWrites, where[w].given, where[w].disk # NoDisk, ~where[w].ro
      PROVE  \/ Holds(where[w].disk, where[w].place, w)
             \/ Pending(w) /\ HasDrive(HsMachine) /\ bay[card.sel].disk = where[w].disk /\ bay[card.sel].track = card.wTrack
             \/ \E v \in HsWrites : v > w /\ SamePlace(v, w)
  <2>1. CASE \E i \in Slots : shelf[where[w].disk][where[w].place][i] = w
    BY <2>1 DEF Holds
  <2>2. CASE card.writing /\ w = Len(where)
    BY <2>2, <1>1, <1>3, MachineIs DEF Arms, Pending, Sel
  <2>3. CASE \E x \in 1..Len(where) : x > w /\ where[w].disk = where[x].disk /\ where[w].place = where[x].place
    BY <2>3 DEF HsWrites, SamePlace
  <2> QED BY <1>1, <1>3, <2>1, <2>2, <2>3 DEF Lands, HsWrites
<1> QED BY <1>2, <1>3 DEF SlotLandsWhereArmed

\* A look syncs the sector first, so the slot read is the one under the head.
LEMMA MitsFresh ==
  ASSUME MitsInv
  PROVE  ReadIsUnderHead
<1> SUFFICES ASSUME HeadLoaded(HsMachine), Spins(HsMachine)
             PROVE  DataFrom(HsMachine, turned)
                      = SyncSector(HsMachine, turned).shelf[Sel(HsMachine).disk]
                          [<<Sel(HsMachine).track, SectorAt(turned)>>][ByteIndex(turned) + 1]
  BY DEF ReadIsUnderHead
<1> DEFINE m == HsMachine
           n == SyncSector(m, turned)
<1>1. /\ Good(n, where) /\ n.bay = m.bay /\ n.card.sel = m.card.sel /\ n.card.bufSector = SectorAt(turned)
  BY SyncKeeps DEF MitsInv
<1>2. SectorAt(turned) # Nowhere
  BY SectorIn, HsConstants DEF MitsInv
<1>3. HasDrive(n) /\ Sel(n) = Sel(m)
  BY <1>1 DEF Spins, HasDrive, Sel
<1>4. n.card.buf = n.shelf[Sel(m).disk][<<Sel(m).track, SectorAt(turned)>>]
  BY <1>1, <1>2, <1>3 DEF Good, SlotRead
<1> QED BY <1>4 DEF DataFrom

-----------------------------------------------------------------------------
(***************************************************************************)
(* The three cards of SlotCards, for the same constants.                   *)
(*                                                                         *)
(* A North Star board finds out what the platter did when it is next       *)
(* looked at.  Its invariant speaks of both: what the card believes        *)
(* (lastReal, the sector it loaded or began to write) is so as long as no  *)
(* hole has gone by unseen (crossedHole), and a look (NsTick) ends the     *)
(* sector before anything else when one has.  A Micropolis board writes at *)
(* the boundary, wherever the head is then: its invariant says where the   *)
(* head still stands (Stands), and that no disk is in two drives (Unique), *)
(* without which the slot it reads could be stale.                         *)
(***************************************************************************)

\* Where the platter can be, the places of a disk with two sides, and the record of a write.
Turns == 0..(HsSectorTicks * HsSectors - 1)
ScPlaces == (0..(2 * HsTracks - 1)) \X SectorNumbers
ScWrites == [disk : Disks, place : ScPlaces \cup {<<>>}, ro : BOOLEAN, left : BOOLEAN, done : BOOLEAN]

\* The registers of a card, of whichever kind.
ScParts ==
  {"kind", "strap", "sel", "armed", "sf", "wake", "motorReal", "motorOn", "motorIn", "free", "crossedHole", "crossedFree",
   "lastReal", "wr", "wrDD", "wrPos", "wTrack", "wSector", "wrSide", "wbuf", "rdFor", "rdValid", "rdPos", "rdSide", "buf",
   "forced", "stepFf", "dirIn", "orders", "selected", "unit", "head", "wrt", "timedOut", "came"}

\* A machine has its parts, in their ranges.
ScFormed(m) ==
  /\ {"card", "bay", "shelf"} \subseteq DOMAIN m
  /\ ScParts \subseteq DOMAIN m.card
  /\ m.card.sel \in Bays \cup {Nowhere} /\ m.card.unit \in Bays
  /\ m.card.head \in 0..1 /\ m.card.wrSide \in 0..1
  /\ {"side", "dd", "step"} \subseteq DOMAIN m.card.orders /\ m.card.orders.side \in 0..1
  /\ m.card.motorOn \in BOOLEAN /\ m.card.lastReal \in BOOLEAN
  /\ m.card.crossedHole \in BOOLEAN /\ m.card.rdValid \in BOOLEAN
  /\ m.card.selected \in BOOLEAN /\ m.card.wrt \in BOOLEAN /\ m.card.came \in BOOLEAN
  /\ m.card.wr \in {"idle", "preamble", "sync", "data", "done"}
  /\ m.card.free \in 0..(FreeTicks - 1) /\ m.card.wake \in Nat
  /\ DOMAIN m.card.wbuf = Slots
  /\ DOMAIN m.bay = Bays /\ \A u \in Bays : Bay(m.bay[u])
  /\ DOMAIN m.shelf = HsDisks /\ \A d \in HsDisks : DOMAIN m.shelf[d] = ScPlaces

\* A place of the shelf is as it came or holds one write: on a North Star board whole and never one the
\* head left; where the head did not leave, in the place the write was for.  A write that is done and
\* whose head did not leave is on its disk.
ScWhole(s, w, vg) ==
  \A d \in HsDisks, p \in ScPlaces :
    \/ s[d][p] = Pristine
    \/ \E v \in 1..Len(w) :
         /\ \A i \in Slots : s[d][p][i] = v \/ (vg /\ s[d][p][i] = Skipped)
         /\ vg \/ (w[v].done /\ ~w[v].left)
         /\ ~w[v].left => w[v].disk = d /\ w[v].place = p /\ ~w[v].ro
ScLands(s, w) ==
  \A v \in 1..Len(w) :
    w[v].done /\ ~w[v].left /\ ~w[v].ro /\ w[v].disk # NoDisk => s[w[v].disk][w[v].place] # Pristine
Shelved(m, w) == w \in Seq(ScWrites) /\ ScWhole(m.shelf, w, m.card.kind = "vgmdc") /\ ScLands(m.shelf, w)

\* A North Star board between a look and the hole holds the sector under the head.
NsRead(m, t) ==
  m.card.rdFor # Unread =>
    /\ m.card.wr = "idle"
    /\ m.card.rdValid =>
         /\ m.card.lastReal /\ m.card.rdSide \in 0..1
         /\ Real(m) /\ ~m.card.crossedHole =>
              m.card.buf = m.shelf[Sel(m).disk][<<Surface(Sel(m).track, m.card.rdSide), SectorAt(t)>>]

\* Where the write in progress goes, and what it has of it so far: a write that the card believes to be
\* on a turning disk was armed there, and the bytes given are its own.
AtPlace(m, e, t) ==
  /\ ~e.left /\ e.disk = Sel(m).disk /\ e.place = <<m.card.wTrack, m.card.wSector>>
  /\ m.card.wTrack = Surface(Sel(m).track, m.card.wrSide) /\ m.card.wSector = SectorAt(t)
  /\ e.ro = ~Fits(m)

Active(m) == m.card.wr \in {"preamble", "sync", "data"}
NsArms(m, w, t) ==
  /\ Active(m) =>
       /\ Len(w) # 0 /\ ~w[Len(w)].done
       /\ m.card.wrPos \in 0..(HsBytes - 1) /\ (m.card.wr # "data" => m.card.wrPos = 0)
       /\ \A i \in 1..m.card.wrPos : m.card.wbuf[i] = Len(w)
       /\ m.card.lastReal => Real(m) /\ (~m.card.crossedHole => AtPlace(m, w[Len(w)], t))
       /\ ~m.card.lastReal => w[Len(w)].disk = NoDisk \/ (m.card.kind = "mdsa" /\ Real(m))
  /\ m.card.wr = "done" => Len(w) # 0 /\ w[Len(w)].done

\* The deadline of a North Star board, and what is right with one on the bench.
NsWake(m) == m.card.armed /\ m.card.strap => m.card.wake \in 1..FreeTicks
NsSound(m, w, t) == ScFormed(m) /\ NsRead(m, t) /\ NsArms(m, w, t) /\ Shelved(m, w)
NsGood(m, w, t) == m.card.kind \in NorthStars /\ NsSound(m, w, t) /\ NsWake(m)

\* The Micropolis board's slot is the one its key names.
VgCache(m) ==
  \A u \in Bays, h \in 0..1, k \in TrackNumbers, s \in SectorNumbers :
    m.card.rdFor = <<u, h, k, s>> /\ m.bay[u].disk # NoDisk /\ HasSide(m.bay[u].disk, h)
      => m.card.buf = m.shelf[m.bay[u].disk][<<Surface(k, h), s>>]
\* The write the Micropolis board holds stands where it was begun, or the record says the head left.
Stands(m, e) ==
  /\ VgSpins(m) /\ e.disk = VgDrive(m).disk /\ e.place = <<Surface(VgDrive(m).track, m.card.head), m.card.wSector>>
  /\ e.ro = ~Fits(m)
VgArms(m, w) ==
  /\ m.card.wrt =>
       /\ Len(w) # 0 /\ ~w[Len(w)].done /\ m.card.wSector \in SectorNumbers
       /\ \A i \in Slots : m.card.wbuf[i] \in {Len(w), Skipped}
       /\ ~w[Len(w)].left => Stands(m, w[Len(w)])
  /\ ~m.card.wrt => Len(w) = 0 \/ w[Len(w)].done
\* Its deadline is the next boundary; no disk is in two drives.
VgWake(m, t) ==
  (m.card.wrt \/ m.card.armed) /\ VgSpins(m) /\ ~m.card.came => m.card.wake = HsSectorTicks - Into(t)
Unique(m) == \A u, v \in Bays : m.bay[u].disk = m.bay[v].disk /\ m.bay[u].disk # NoDisk => u = v
VgSound(m, w) == ScFormed(m) /\ m.card.kind = "vgmdc" /\ VgCache(m) /\ VgArms(m, w) /\ Unique(m) /\ Shelved(m, w)
VgGood(m, w, t) == VgSound(m, w) /\ VgWake(m, t)

\* The inductive invariant: the card on the bench is right after its kind.
ScInv ==
  /\ turned \in Turns
  /\ guest \in HsRigs /\ card.kind = guest.kind
  /\ card.kind \in NorthStars => NsGood(HsMachine, where, turned)
  /\ card.kind = "vgmdc" => VgGood(HsMachine, where, turned)

\* What the constants of the three cards are.
LEMMA ScConstants ==
  /\ HsTracks \in Nat \ {0} /\ HsSectors \in Nat \ {0} /\ HsBytes \in Nat \ {0} /\ HsDrives \in Nat \ {0}
  /\ HsSectorTicks \in Nat \ {0} /\ FreeTicks \in Nat \ {0} /\ MotorTicks \in Nat \ {0} /\ HsSectorTicks <= FreeTicks
  /\ Nowhere \notin Bays /\ Nowhere \notin SectorNumbers
BY HardSectorAssumption, SlotCardsAssumption DEF Nowhere, Bays, SectorNumbers

\* A quotient and a remainder are what divides.
LEMMA Division ==
  ASSUME NEW T \in Nat \ {0}, NEW t \in Nat, NEW q \in Nat, NEW r \in 0..(T - 1), t = T * q + r
  PROVE  t \div T = q /\ t % T = r
OBVIOUS
\* Division has a quotient and a remainder.
LEMMA Divided ==
  ASSUME NEW T \in Nat \ {0}, NEW t \in Nat
  PROVE  /\ t \div T \in Nat /\ t % T \in 0..(T - 1) /\ t = T * (t \div T) + (t % T)
OBVIOUS
\* Multiplying keeps an order.
LEMMA Times ==
  ASSUME NEW T \in Nat, NEW a \in Nat, NEW b \in Nat, a <= b
  PROVE  T * a <= T * b
<1>1. PICK c \in Nat : b = a + c
  <2>1. b - a \in Nat /\ b = a + (b - a)
    OBVIOUS
  <2> QED BY <2>1
<1>2. T * b = T * a + T * c /\ T * c \in Nat /\ T * a \in Nat
  BY <1>1
<1> QED BY <1>2
\* A small number is its own remainder.
LEMMA Small ==
  ASSUME NEW S \in Nat \ {0}, NEW q \in Nat, q < S
  PROVE  q % S = q
OBVIOUS

\* The platter turns by a tick.
LEMMA TurnsOn ==
  ASSUME NEW t \in Turns, NEW n, n = (t + 1) % (HsSectorTicks * HsSectors)
  PROVE  /\ n \in Turns /\ Into(t) \in 0..(HsSectorTicks - 1) /\ SectorAt(t) \in SectorNumbers
         /\ Into(t) # HsSectorTicks - 1 => Into(n) = Into(t) + 1 /\ SectorAt(n) = SectorAt(t)
         /\ Into(t) = HsSectorTicks - 1 => Into(n) = 0
<1> DEFINE T == HsSectorTicks
           S == HsSectors
           q == t \div T
           r == t % T
<1>1. T \in Nat \ {0} /\ S \in Nat \ {0}
  BY ScConstants
<1>2. T * S \in Nat \ {0}
  BY <1>1
<1>3. t \in Nat /\ t < T * S /\ 0 \in Turns
  BY <1>2 DEF Turns
<1>4. q \in Nat /\ r \in 0..(T - 1) /\ t = T * q + r
  BY <1>1, <1>3, Divided
<1>5. q < S
  <2> SUFFICES ASSUME q >= S
               PROVE  FALSE
    BY <1>1, <1>4
  <2> HIDE DEF q, r
  <2>1. T * S <= T * q
    BY <1>1, <1>4, Times
  <2> QED BY <2>1, <1>1, <1>2, <1>3, <1>4
<1>6. n = IF t + 1 = T * S THEN 0 ELSE t + 1
  BY <1>2, <1>3
<1>7. n \in Turns
  BY <1>2, <1>3, <1>6 DEF Turns
<1>8. Into(t) = r /\ SectorAt(t) = q
  <2>1. q % S = q
    <3> HIDE DEF q, r
    <3> QED BY <1>1, <1>4, <1>5, Small
  <2> QED BY <2>1 DEF Into, SectorAt
<1>9. ASSUME r # T - 1
      PROVE  Into(n) = r + 1 /\ SectorAt(n) = q
  <2> HIDE DEF q, r
  <2>1. t + 1 = T * q + (r + 1) /\ r + 1 \in 0..(T - 1) /\ T * q \in Nat
    BY <1>1, <1>4, <1>9
  <2>2. t + 1 # T * S
    <3>1. T * (q + 1) <= T * S
      BY <1>1, <1>4, <1>5, Times
    <3>2. T * (q + 1) = T * q + T
      BY <1>1, <1>4
    <3> QED BY <2>1, <3>1, <3>2, <1>1, <1>4
  <2>3. n = t + 1
    BY <2>2, <1>6
  <2>4. n \div T = q /\ n % T = r + 1
    <3>1. n \in Nat /\ n = T * q + (r + 1)
      BY <2>1, <2>3, <1>3
    <3> QED BY <3>1, <2>1, <1>1, <1>4, Division
  <2>5. q % S = q
    BY <1>1, <1>4, <1>5, Small
  <2> QED BY <2>4, <2>5 DEF Into, SectorAt, q, r
<1>10. ASSUME r = T - 1
       PROVE  Into(n) = 0
  <2>1. CASE t + 1 = T * S
    BY <2>1, <1>1, <1>6 DEF Into
  <2>2. CASE t + 1 # T * S
    <3>1. T * (q + 1) = T * q + T
      BY <1>1, <1>4
    <3>2. n = T * (q + 1) + 0 /\ n \in Nat
      BY <3>1, <2>2, <1>1, <1>3, <1>4, <1>6, <1>10
    <3> HIDE DEF q, r
    <3>3. n % T = 0
      <4>1. 0 \in 0..(T - 1) /\ q + 1 \in Nat
        BY <1>1, <1>4
      <4> QED BY <3>2, <4>1, <1>1, Division
    <3> QED BY <3>3 DEF Into
  <2> QED BY <2>1, <2>2
<1>11. q \in SectorNumbers
  BY <1>1, <1>4, <1>5 DEF SectorNumbers
<1> QED BY <1>4, <1>7, <1>8, <1>9, <1>10, <1>11

\* Nothing of n but the registers named is other than in m.
SameBut(m, n, P) ==
  /\ n.bay = m.bay /\ n.shelf = m.shelf /\ DOMAIN n = DOMAIN m /\ DOMAIN n.card = DOMAIN m.card
  /\ \A x \in ScParts \ P : n.card[x] = m.card[x]

\* Registers nothing but the next deadline is read from.
LooseParts == {"sf", "wake", "armed", "free", "crossedFree", "motorIn", "rdPos", "forced", "stepFf", "dirIn", "orders"}

\* A North Star card that differs in loose registers is as sound.
LEMMA LooselySound ==
  ASSUME NEW m, NEW w, NEW t, NsSound(m, w, t), NEW n, ScFormed(n), SameBut(m, n, LooseParts)
  PROVE  NsSound(n, w, t) /\ Real(n) = Real(m) /\ n.card.kind = m.card.kind
<1>1. /\ n.card.kind = m.card.kind /\ n.card.sel = m.card.sel /\ n.card.motorOn = m.card.motorOn
      /\ n.card.lastReal = m.card.lastReal /\ n.card.crossedHole = m.card.crossedHole
      /\ n.card.wr = m.card.wr /\ n.card.wrDD = m.card.wrDD /\ n.card.wrPos = m.card.wrPos /\ n.card.wTrack = m.card.wTrack
      /\ n.card.wSector = m.card.wSector /\ n.card.wrSide = m.card.wrSide /\ n.card.wbuf = m.card.wbuf
      /\ n.card.rdFor = m.card.rdFor /\ n.card.rdValid = m.card.rdValid /\ n.card.rdSide = m.card.rdSide
      /\ n.card.buf = m.card.buf /\ n.card.unit = m.card.unit /\ n.card.head = m.card.head
      /\ n.bay = m.bay /\ n.shelf = m.shelf
  BY DEF SameBut, LooseParts, ScParts
<1>2. Real(n) = Real(m) /\ Sel(n) = Sel(m)
  BY <1>1 DEF Real, Spins, HasDrive, Sel
<1>3. Fits(n) = Fits(m)
  BY <1>1, <1>2 DEF Fits, VgDrive
<1>4. NsRead(n, t)
  BY <1>1, <1>2 DEF NsSound, NsRead
<1>5. NsArms(n, w, t)
  BY <1>1, <1>2, <1>3 DEF NsSound, NsArms, Active, AtPlace
<1>6. Shelved(n, w)
  BY <1>1 DEF NsSound, Shelved
<1> QED BY <1>1, <1>2, <1>4, <1>5, <1>6 DEF NsSound

\* A card between two sectors has nothing to be wrong about.
Between(m) == m.card.wr = "idle" /\ m.card.rdFor = Unread
\* A North Star card between two sectors is sound whenever its shelf is.
LEMMA BetweenSound ==
  ASSUME NEW m, NEW w, Shelved(m, w), NEW t, NEW n, ScFormed(n), Between(n), n.shelf = m.shelf, n.card.kind = m.card.kind
  PROVE  NsSound(n, w, t)
BY DEF Between, NsSound, NsRead, NsArms, Active, Shelved

\* endSector: neither a write nor a read is under way.
LEMMA EndSectorIs ==
  ASSUME NEW m, ScFormed(m), NEW n, n = EndSector(m)
  PROVE  /\ SameBut(m, n, {"wr", "wrPos", "rdFor", "rdPos", "forced"}) /\ ScFormed(n) /\ Between(n)
         /\ n.card.kind = m.card.kind /\ n.card.sel = m.card.sel /\ n.card.motorOn = m.card.motorOn
         /\ n.card.lastReal = m.card.lastReal /\ n.card.crossedHole = m.card.crossedHole
         /\ n.card.armed = m.card.armed /\ n.card.strap = m.card.strap /\ n.card.wake = m.card.wake
<1>1. SameBut(m, n, {"wr", "wrPos", "rdFor", "rdPos", "forced"}) /\ Between(n)
  BY DEF EndSector, SameBut, Between, ScFormed, ScParts
<1>2. n.card.wr = "idle"
  BY <1>1 DEF Between
<1>3. ScFormed(n)
  BY <1>1, <1>2 DEF SameBut, ScFormed, ScParts
<1> QED BY <1>1, <1>3 DEF SameBut, ScParts

\* What is told of an operation on a North Star card: the deadline is still there if it was.
NsKeeps(m, n, w, t) == NsSound(n, w, t) /\ n.card.kind = m.card.kind /\ (NsWake(m) => NsWake(n))

\* Selecting a drive ends the sector first.
LEMMA NsSelectKeeps ==
  ASSUME NEW m, NEW w, NEW t, NsSound(m, w, t), NEW u, NEW n, n = NsSelectDrive(m, u)
  PROVE  NsKeeps(m, n, w, t)
<1> DEFINE k == IF u \in Bays THEN u ELSE Nowhere
           e == EndSector(m)
           x == [e EXCEPT !.card.sel = k]
<1>1. CASE k = m.card.sel
  BY <1>1 DEF NsSelectDrive, NsKeeps
<1>2. CASE k # m.card.sel
  <2>1. n = x
    BY <1>2 DEF NsSelectDrive
  <2>2. /\ ScFormed(e) /\ Between(e) /\ e.shelf = m.shelf /\ e.card.kind = m.card.kind
        /\ e.card.armed = m.card.armed /\ e.card.strap = m.card.strap /\ e.card.wake = m.card.wake
    BY EndSectorIs DEF NsSound, SameBut
  <2> HIDE DEF e
  <2>3. SameBut(e, x, {"sel"}) /\ x.card.sel = k
    BY <2>2 DEF SameBut, ScFormed, ScParts
  <2> HIDE DEF x
  <2>4. k \in Bays \cup {Nowhere}
    OBVIOUS
  <2>5. ScFormed(x) /\ Between(x) /\ x.shelf = e.shelf /\ x.card.kind = e.card.kind
        /\ x.card.armed = e.card.armed /\ x.card.strap = e.card.strap /\ x.card.wake = e.card.wake
    <3>1. ScFormed(x)
      BY <2>2, <2>3, <2>4 DEF SameBut, ScFormed, ScParts
    <3> QED BY <3>1, <2>2, <2>3 DEF SameBut, ScParts, Between
  <2>6. NsSound(x, w, t)
    BY <2>2, <2>5, BetweenSound DEF NsSound
  <2> QED BY <2>1, <2>2, <2>5, <2>6 DEF NsKeeps, NsWake
<1> QED BY <1>1, <1>2

\* A head stays on the tracks of its drive.
LEMMA TracksStep ==
  ASSUME NEW k \in TrackNumbers
  PROVE  Inward(k) \in TrackNumbers /\ Outward(k) \in TrackNumbers
BY ScConstants DEF Inward, Outward, TrackNumbers

\* Stepping the head ends the sector first.
LEMMA NsStepKeeps ==
  ASSUME NEW m, NEW w, NEW t, NsSound(m, w, t), NEW inward, NEW n, n = NsStep(m, inward)
  PROVE  NsKeeps(m, n, w, t)
<1> DEFINE e == EndSector(m)
           b == [e.bay[m.card.sel] EXCEPT !.track = IF inward THEN Inward(@) ELSE Outward(@)]
           x == [e EXCEPT !.bay = [e.bay EXCEPT ![m.card.sel] = b]]
<1>1. CASE ~HasDrive(m)
  BY <1>1 DEF NsStep, NsKeeps
<1>2. CASE HasDrive(m)
  <2>1. /\ ScFormed(e) /\ Between(e) /\ e.shelf = m.shelf /\ e.bay = m.bay /\ e.card.kind = m.card.kind
        /\ e.card.armed = m.card.armed /\ e.card.strap = m.card.strap /\ e.card.wake = m.card.wake
    BY EndSectorIs DEF NsSound, SameBut
  <2>2. n = x
    BY <1>2, <2>1 DEF NsStep, ScFormed
  <2>3. m.card.sel \in Bays
    BY <1>2 DEF HasDrive, NsSound, ScFormed
  <2> HIDE DEF e
  <2>4. Bay(b)
    <3>1. Bay(e.bay[m.card.sel])
      BY <2>1, <2>3 DEF ScFormed
    <3>2. Inward(e.bay[m.card.sel].track) \in TrackNumbers /\ Outward(e.bay[m.card.sel].track) \in TrackNumbers
      BY <3>1, TracksStep DEF Bay
    <3> QED BY <3>1, <3>2 DEF Bay
  <2> HIDE DEF b
  <2>5. x.card = e.card /\ x.shelf = e.shelf /\ x.bay = [e.bay EXCEPT ![m.card.sel] = b] /\ DOMAIN x = DOMAIN e
    BY <2>1 DEF ScFormed
  <2> HIDE DEF x
  <2>6. ScFormed(x)
    BY <2>1, <2>3, <2>4, <2>5 DEF ScFormed
  <2>7. Between(x)
    BY <2>1, <2>5 DEF Between
  <2>8. NsSound(x, w, t)
    BY <2>1, <2>5, <2>6, <2>7, BetweenSound DEF NsSound
  <2> QED BY <2>1, <2>2, <2>5, <2>8 DEF NsKeeps, NsWake
<1> QED BY <1>1, <1>2

\* The deadline is within the period of the pulse.
LEMMA ScheduleWakes ==
  ASSUME NEW m, ScFormed(m), NEW t \in Turns, NEW n, n = ScheduleWake(m, t)
  PROVE  SameBut(m, n, {"wake"}) /\ ScFormed(n) /\ NsWake(n)
<1> DEFINE at == IF ~(m.card.armed /\ m.card.strap) THEN NoTime
                 ELSE (IF Real(m) THEN HsSectorTicks ELSE FreeTicks) - Rotation(m, t).into
<1>1. n = [m EXCEPT !.card.wake = at]
  BY DEF ScheduleWake
<1>2. at \in Nat /\ (m.card.armed /\ m.card.strap => at \in 1..FreeTicks)
  <2>1. Into(t) \in 0..(HsSectorTicks - 1) /\ m.card.free \in 0..(FreeTicks - 1)
    BY TurnsOn DEF ScFormed
  <2>2. Rotation(m, t).into = IF Real(m) THEN Into(t) ELSE m.card.free
    BY DEF Rotation
  <2> QED BY <2>1, <2>2, ScConstants DEF NoTime
<1> HIDE DEF at
<1>3. SameBut(m, n, {"wake"}) /\ n.card.wake = at
  BY <1>1 DEF SameBut, ScFormed, ScParts
<1>4. ScFormed(n)
  BY <1>2, <1>3 DEF SameBut, ScFormed, ScParts
<1>5. n.card.armed = m.card.armed /\ n.card.strap = m.card.strap
  BY <1>3 DEF SameBut, ScParts
<1> QED BY <1>2, <1>3, <1>4, <1>5 DEF NsWake

\* Arming the interrupt schedules the deadline.
LEMMA ArmKeeps ==
  ASSUME NEW m, NEW w, NEW t \in Turns, NsSound(m, w, t), NEW on, NEW n, n = ArmInterrupt(m, on, t)
  PROVE  NsKeeps(m, n, w, t) /\ n.card.strap = m.card.strap
<1> DEFINE x == [m EXCEPT !.card.armed = on]
<1>1. CASE m.card.armed = on
  BY <1>1 DEF ArmInterrupt, NsKeeps
<1>2. CASE m.card.armed # on
  <2>1. n = ScheduleWake(x, t)
    BY <1>2 DEF ArmInterrupt
  <2>2. SameBut(m, x, {"armed"})
    BY DEF NsSound, SameBut, ScFormed, ScParts
  <2> HIDE DEF x
  <2>3. ScFormed(x)
    BY <2>2 DEF NsSound, SameBut, ScFormed, ScParts
  <2>4. SameBut(x, n, {"wake"}) /\ ScFormed(n) /\ NsWake(n)
    BY <2>1, <2>3, ScheduleWakes
  <2>5. SameBut(m, n, LooseParts) /\ n.card.strap = m.card.strap
    BY <2>2, <2>4 DEF SameBut, LooseParts, ScParts
  <2> QED BY <2>4, <2>5, LooselySound DEF NsKeeps
<1> QED BY <1>1, <1>2

\* A reset of a North Star card.
LEMMA NsResetKeeps ==
  ASSUME NEW m, NEW w, NEW t \in Turns, NsSound(m, w, t), m.card.kind \in NorthStars, NEW n, n = NsReset(m, t)
  PROVE  NsSound(n, w, t) /\ n.card.kind = m.card.kind /\ (NsWake(m) => NsWake(n))
<1> DEFINE o == [m EXCEPT !.card.motorOn = FALSE]
           s == NsSelectDrive(o, Nowhere)
           a == ArmInterrupt(s, FALSE, t)
           r == EndSector(a)
           y == [r EXCEPT !.card.stepFf = FALSE]
           z == [r EXCEPT !.card.orders = [side |-> 0, dd |-> FALSE, step |-> FALSE]]
<1>1. n = IF m.card.kind = "mdsa" THEN y ELSE z
  BY DEF NsReset
<1>2. SameBut(m, o, {"motorOn"}) /\ o.card.motorOn = FALSE
  BY DEF NsSound, SameBut, ScFormed, ScParts
<1> HIDE DEF o
<1>3. ScFormed(o) /\ o.card.kind = m.card.kind /\ o.shelf = m.shelf /\ o.card.sel = m.card.sel
      /\ o.card.armed = m.card.armed /\ o.card.strap = m.card.strap /\ o.card.wake = m.card.wake
  BY ZenonT(60), <1>2 DEF NsSound, SameBut, ScFormed, ScParts
<1>4. ScFormed(s) /\ s.card.kind = m.card.kind /\ s.shelf = m.shelf
      /\ s.card.armed = m.card.armed /\ s.card.strap = m.card.strap /\ s.card.wake = m.card.wake
  <2>1. CASE o.card.sel = Nowhere
    <3>1. s = o
      BY <2>1, ScConstants DEF NsSelectDrive
    <3> QED BY <3>1, <1>3
  <2>2. CASE o.card.sel # Nowhere
    <3> DEFINE e == EndSector(o)
    <3>1. s = [e EXCEPT !.card.sel = Nowhere]
      BY <2>2, ScConstants DEF NsSelectDrive
    <3>2. /\ ScFormed(e) /\ e.shelf = o.shelf /\ e.card.kind = o.card.kind
          /\ e.card.armed = o.card.armed /\ e.card.strap = o.card.strap /\ e.card.wake = o.card.wake
      BY <1>3, EndSectorIs DEF SameBut
    <3> HIDE DEF e, s
    <3>3. SameBut(e, s, {"sel"}) /\ s.card.sel = Nowhere
      BY <3>1, <3>2 DEF SameBut, ScFormed, ScParts
    <3>4. ScFormed(s)
      BY <3>2, <3>3 DEF SameBut, ScFormed, ScParts
    <3> QED BY <3>2, <3>3, <3>4, <1>3 DEF SameBut, ScParts
  <2> QED BY <2>1, <2>2
<1> HIDE DEF s
<1>5. ScFormed(a) /\ a.card.kind = m.card.kind /\ a.shelf = m.shelf /\ (NsWake(m) => NsWake(a))
  <2>1. CASE s.card.armed = FALSE
    BY <2>1, <1>4 DEF ArmInterrupt, NsWake
  <2>2. CASE s.card.armed # FALSE
    <3> DEFINE x == [s EXCEPT !.card.armed = FALSE]
    <3>1. a = ScheduleWake(x, t)
      BY <2>2 DEF ArmInterrupt
    <3>2. SameBut(s, x, {"armed"})
      BY <1>4 DEF SameBut, ScFormed, ScParts
    <3> HIDE DEF x, a
    <3>3. ScFormed(x)
      BY <1>4, <3>2 DEF SameBut, ScFormed, ScParts
    <3>4. SameBut(x, a, {"wake"}) /\ ScFormed(a) /\ NsWake(a)
      BY <3>1, <3>3, ScheduleWakes
    <3> QED BY <1>4, <3>2, <3>4 DEF SameBut, ScParts
  <2> QED BY <2>1, <2>2
<1> HIDE DEF a
<1>6. /\ ScFormed(r) /\ Between(r) /\ r.shelf = a.shelf /\ r.card.kind = a.card.kind
      /\ r.card.armed = a.card.armed /\ r.card.strap = a.card.strap /\ r.card.wake = a.card.wake
  BY <1>5, EndSectorIs DEF SameBut
<1> HIDE DEF r
<1>7. SameBut(r, y, {"stepFf"}) /\ SameBut(r, z, {"orders"}) /\ z.card.orders = [side |-> 0, dd |-> FALSE, step |-> FALSE]
  BY <1>6 DEF SameBut, ScFormed, ScParts
<1> HIDE DEF y, z
<1>8. ScFormed(y) /\ ScFormed(z)
  BY <1>6, <1>7 DEF SameBut, ScFormed, ScParts
<1>9. /\ Between(y) /\ y.shelf = r.shelf /\ y.card.kind = r.card.kind /\ (NsWake(r) => NsWake(y))
      /\ Between(z) /\ z.shelf = r.shelf /\ z.card.kind = r.card.kind /\ (NsWake(r) => NsWake(z))
  BY <1>6, <1>7 DEF SameBut, ScParts, Between, NsWake
<1>10. NsWake(a) => NsWake(r)
  BY <1>6 DEF NsWake
<1>11. NsSound(y, w, t) /\ NsSound(z, w, t)
  BY <1>5, <1>6, <1>8, <1>9, BetweenSound DEF NsSound
<1> QED BY <1>1, <1>5, <1>6, <1>9, <1>10, <1>11

\* The card has looked where the platter is.
LookedAt(m) == m.card.lastReal = Real(m) /\ (Real(m) => ~m.card.crossedHole)

\* The motor timer: the drive stops, or was not to stop yet.
LEMMA MotorOffIs ==
  ASSUME NEW m, NEW w, NEW t, NsSound(m, w, t), NEW o, o = MotorOff(m)
  PROVE  /\ o = m \/ ~Real(o)
         /\ ScFormed(o) /\ o.shelf = m.shelf /\ o.card.kind = m.card.kind /\ o.card.lastReal = m.card.lastReal
         /\ o.card.armed = m.card.armed /\ o.card.strap = m.card.strap /\ o.card.wake = m.card.wake
         /\ ~m.card.lastReal => NsSound(o, w, t)
<1> DEFINE f == [m EXCEPT !.card.motorOn = FALSE]
<1>1. CASE ~(m.card.motorOn /\ m.card.motorReal /\ m.card.motorIn = NoTime)
  BY <1>1 DEF MotorOff, NsSound
<1>2. CASE m.card.motorOn /\ m.card.motorReal /\ m.card.motorIn = NoTime
  <2>1. o = IF m.card.kind = "mdsa" THEN NsSelectDrive(f, Nowhere) ELSE f
    BY <1>2 DEF MotorOff
  <2>2. SameBut(m, f, {"motorOn"}) /\ f.card.motorOn = FALSE
    BY DEF NsSound, SameBut, ScFormed, ScParts
  <2> HIDE DEF f
  <2>3. /\ ScFormed(f) /\ ~Real(f) /\ f.shelf = m.shelf /\ f.bay = m.bay /\ f.card.kind = m.card.kind /\ f.card.sel = m.card.sel
        /\ f.card.lastReal = m.card.lastReal
        /\ f.card.armed = m.card.armed /\ f.card.strap = m.card.strap /\ f.card.wake = m.card.wake
        /\ f.card.wr = m.card.wr /\ f.card.rdFor = m.card.rdFor /\ f.card.rdValid = m.card.rdValid
        /\ f.card.wrPos = m.card.wrPos /\ f.card.wbuf = m.card.wbuf
    BY ZenonT(60), <2>2 DEF NsSound, SameBut, ScFormed, ScParts, Real
  <2>4. CASE m.card.kind = "mdsa" /\ f.card.sel # Nowhere
    <3> DEFINE e == EndSector(f)
    <3>1. o = [e EXCEPT !.card.sel = Nowhere]
      BY <2>1, <2>4, ScConstants DEF NsSelectDrive
    <3>2. /\ ScFormed(e) /\ Between(e) /\ e.shelf = f.shelf /\ e.card.kind = f.card.kind /\ e.card.lastReal = f.card.lastReal
          /\ e.card.armed = f.card.armed /\ e.card.strap = f.card.strap /\ e.card.wake = f.card.wake
      BY <2>3, EndSectorIs DEF SameBut
    <3> HIDE DEF e
    <3>3. SameBut(e, o, {"sel"}) /\ o.card.sel = Nowhere
      BY <3>1, <3>2 DEF SameBut, ScFormed, ScParts
    <3>4. ScFormed(o) /\ ~Real(o) /\ Between(o)
      BY <3>2, <3>3 DEF SameBut, ScFormed, ScParts, Real, Spins, HasDrive, Between
    <3>5. /\ o.shelf = m.shelf /\ o.card.kind = m.card.kind /\ o.card.lastReal = m.card.lastReal
          /\ o.card.armed = m.card.armed /\ o.card.strap = m.card.strap /\ o.card.wake = m.card.wake
      BY <2>3, <3>2, <3>3 DEF SameBut, ScParts
    <3> QED BY <3>4, <3>5, BetweenSound DEF NsSound
  <2>5. CASE ~(m.card.kind = "mdsa" /\ f.card.sel # Nowhere)
    <3>1. o = f
      BY <2>1, <2>5, ScConstants DEF NsSelectDrive
    <3>2. ASSUME ~m.card.lastReal
          PROVE  NsSound(f, w, t)
      <4>1. NsRead(f, t)
        BY <2>3, <3>2 DEF NsSound, NsRead
      <4>2. ~(m.card.kind = "mdsa" /\ Real(m))
        BY <2>3, <2>5 DEF Real, Spins, HasDrive
      <4>3. NsArms(f, w, t)
        BY <2>3, <3>2, <4>2 DEF NsSound, NsArms, Active
      <4> QED BY <2>3, <4>1, <4>3 DEF NsSound, Shelved
    <3> QED BY <3>1, <3>2, <2>3
  <2> QED BY <2>4, <2>5
<1> QED BY <1>1, <1>2

\* The look itself: a sector that has gone by is ended, and the motor stops when it is time.
LEMMA NsTickKeeps ==
  ASSUME NEW m, NEW w, NEW t, NsSound(m, w, t), NEW n, n = NsTick(m)
  PROVE  NsKeeps(m, n, w, t) /\ LookedAt(n)
         /\ n.card.armed = m.card.armed /\ n.card.strap = m.card.strap /\ n.card.wake = m.card.wake
<1> DEFINE o == MotorOff(m)
           looked == [o EXCEPT !.card.crossedHole = FALSE, !.card.crossedFree = FALSE]
           x == [looked EXCEPT !.card.lastReal = Real(o)]
           y == [looked EXCEPT !.card.sf = TRUE]
<1>1. /\ o = m \/ ~Real(o)
      /\ ScFormed(o) /\ o.shelf = m.shelf /\ o.card.kind = m.card.kind /\ o.card.lastReal = m.card.lastReal
      /\ o.card.armed = m.card.armed /\ o.card.strap = m.card.strap /\ o.card.wake = m.card.wake
      /\ ~m.card.lastReal => NsSound(o, w, t)
  BY MotorOffIs
<1>2. \/ Real(o) # o.card.lastReal /\ n = EndSector(x)
      \/ Real(o) = o.card.lastReal /\ Passed(o.card, Real(o)) /\ n = EndSector(y)
      \/ Real(o) = o.card.lastReal /\ ~Passed(o.card, Real(o)) /\ n = o
  BY DEF NsTick
<1> HIDE DEF o
<1>3. SameBut(o, looked, {"crossedHole", "crossedFree"}) /\ looked.card.crossedHole = FALSE
  BY <1>1 DEF SameBut, ScFormed, ScParts
<1> HIDE DEF looked
<1>4. /\ SameBut(looked, x, {"lastReal"}) /\ x.card.lastReal = Real(o)
      /\ SameBut(looked, y, {"sf"})
  BY <1>1, <1>3 DEF SameBut, ScFormed, ScParts
<1> HIDE DEF x, y
<1>5. Real(o) \in BOOLEAN
  BY <1>1 DEF Real, Spins, HasDrive, ScFormed
<1>6. ASSUME NEW z, z = x \/ (z = y /\ Real(o) = o.card.lastReal), NEW e, e = EndSector(z)
      PROVE  NsKeeps(m, e, w, t) /\ LookedAt(e)
             /\ e.card.armed = m.card.armed /\ e.card.strap = m.card.strap /\ e.card.wake = m.card.wake
  <2>1. /\ z.bay = o.bay /\ z.shelf = o.shelf /\ z.card.kind = o.card.kind /\ z.card.sel = o.card.sel
        /\ z.card.motorOn = o.card.motorOn /\ z.card.lastReal = Real(o) /\ z.card.crossedHole = FALSE
        /\ z.card.armed = o.card.armed /\ z.card.strap = o.card.strap /\ z.card.wake = o.card.wake
    BY <1>3, <1>4, <1>6 DEF SameBut, ScParts
  <2>2. ScFormed(z)
    <3>1. ScFormed(looked)
      BY ZenonT(60), <1>1, <1>3 DEF SameBut, ScFormed, ScParts
    <3>2. ScFormed(x)
      BY <3>1, <1>4, <1>5 DEF SameBut, ScFormed, ScParts
    <3>3. ScFormed(y)
      BY <3>1, <1>4 DEF SameBut, ScFormed, ScParts
    <3> QED BY <3>2, <3>3, <1>6
  <2>3. /\ ScFormed(e) /\ Between(e) /\ e.bay = z.bay /\ e.shelf = z.shelf /\ e.card.kind = z.card.kind /\ e.card.sel = z.card.sel
        /\ e.card.motorOn = z.card.motorOn /\ e.card.lastReal = z.card.lastReal /\ e.card.crossedHole = z.card.crossedHole
        /\ e.card.armed = z.card.armed /\ e.card.strap = z.card.strap /\ e.card.wake = z.card.wake
    BY <1>6, <2>2, EndSectorIs DEF SameBut
  <2>4. NsSound(e, w, t)
    BY <1>1, <2>1, <2>3, BetweenSound DEF NsSound
  <2>5. LookedAt(e)
    BY <2>1, <2>3 DEF LookedAt, Real, Spins, HasDrive, Sel
  <2> QED BY <1>1, <2>1, <2>3, <2>4, <2>5 DEF NsKeeps, NsWake
<1>7. CASE Real(o) # o.card.lastReal /\ n = EndSector(x)
  BY <1>6, <1>7
<1>8. CASE Real(o) = o.card.lastReal /\ n = EndSector(y)
  BY <1>6, <1>8
<1>9. CASE Real(o) = o.card.lastReal /\ ~Passed(o.card, Real(o)) /\ n = o
  <2>1. LookedAt(o)
    BY <1>5, <1>9 DEF LookedAt, Passed
  <2>2. NsSound(o, w, t)
    BY <1>1, <1>9
  <2> QED BY <1>1, <1>9, <2>1, <2>2 DEF NsKeeps, NsWake
<1> QED BY <1>2, <1>7, <1>8, <1>9

\* loadSector, when the card has looked.
ReadParts == {"rdFor", "rdPos", "rdValid", "rdSide", "buf"}
\* loadSector: what is read is the sector under the head.
LEMMA LoadKeeps ==
  ASSUME NEW m, NEW w, NEW t \in Turns, NsSound(m, w, t), LookedAt(m), m.card.wr = "idle",
         NEW n, n = LoadSector(m, Rotation(m, t))
  PROVE  NsSound(n, w, t) /\ SameBut(m, n, ReadParts)
<1> DEFINE r == Rotation(m, t)
           v == Readable(m, r)
           b == IF v THEN m.shelf[Sel(m).disk][<<Surface(Sel(m).track, Side(m.card)), r.sector>>] ELSE m.card.buf
           x == [m EXCEPT !.card.rdFor = <<r.sector>>, !.card.rdPos = 0, !.card.rdValid = v, !.card.rdSide = Side(m.card),
                          !.card.buf = b]
<1>1. CASE m.card.rdFor # Unread
  BY <1>1 DEF LoadSector, SameBut
<1>2. CASE m.card.rdFor = Unread
  <2>1. n = x
    BY <1>2 DEF LoadSector, NsSound, ScFormed, ScParts
  <2>2. r.real = Real(m) /\ (Real(m) => r.sector = SectorAt(t)) /\ v \in BOOLEAN
    BY DEF Rotation, Readable, HasSide, Real, Spins, HasDrive, NsSound, ScFormed
  <2>3. Side(m.card) \in 0..1
    BY DEF Side, NsSound, ScFormed
  <2>4. v => Real(m) /\ b = m.shelf[Sel(m).disk][<<Surface(Sel(m).track, Side(m.card)), SectorAt(t)>>]
    BY <2>2 DEF Readable
  <2> HIDE DEF r, v, b
  <2>5. SameBut(m, x, ReadParts) /\ x.card.rdValid = v /\ x.card.rdSide = Side(m.card) /\ x.card.buf = b
    BY DEF ReadParts, NsSound, SameBut, ScFormed, ScParts
  <2> HIDE DEF x
  <2>6. ScFormed(x)
    BY <2>2, <2>5 DEF ReadParts, NsSound, SameBut, ScFormed, ScParts
  <2>7. /\ x.bay = m.bay /\ x.shelf = m.shelf /\ x.card.kind = m.card.kind /\ x.card.sel = m.card.sel
        /\ x.card.motorOn = m.card.motorOn /\ x.card.lastReal = m.card.lastReal /\ x.card.crossedHole = m.card.crossedHole
        /\ x.card.wr = m.card.wr
    BY <2>5 DEF ReadParts, SameBut, ScParts
  <2>8. Real(x) = Real(m) /\ Sel(x) = Sel(m)
    BY <2>7 DEF Real, Spins, HasDrive, Sel
  <2>9. NsRead(x, t)
    BY <2>3, <2>4, <2>5, <2>7, <2>8 DEF NsRead, LookedAt
  <2>10. NsArms(x, w, t)
    BY <2>7 DEF NsArms, Active
  <2> QED BY <2>1, <2>5, <2>6, <2>7, <2>9, <2>10 DEF NsSound, Shelved
<1> QED BY <1>1, <1>2

\* What a look does.
LooksTo(m, look, r) == IF look = "data" THEN NsReadData(m, r) ELSE BodyLooked(m, r)
\* A look at the data or at the body of the sector.
LEMMA LooksKeep ==
  ASSUME NEW m, NEW w, NEW t \in Turns, NsSound(m, w, t), LookedAt(m), NEW look,
         NEW n, n = LooksTo(m, look, Rotation(m, t))
  PROVE  NsSound(n, w, t) /\ SameBut(m, n, ReadParts)
<1> DEFINE r == Rotation(m, t)
           l == LoadSector(m, r)
<1>1. m.card.wr = "idle" => NsSound(l, w, t) /\ SameBut(m, l, ReadParts)
  BY LoadKeeps
<1>2. n = m \/ (m.card.wr = "idle" /\ n = l) \/ n = [m EXCEPT !.card.rdPos = @ + 1]
      \/ (m.card.wr = "idle" /\ n = [l EXCEPT !.card.rdPos = @ + 1])
  BY DEF LooksTo, NsReadData, BodyLooked, BodyLoads
<1> HIDE DEF l
<1>3. ASSUME NEW x, NsSound(x, w, t), SameBut(m, x, ReadParts), n = [x EXCEPT !.card.rdPos = @ + 1]
      PROVE  NsSound(n, w, t) /\ SameBut(m, n, ReadParts)
  <2>1. SameBut(x, n, {"rdPos"})
    BY <1>3 DEF NsSound, SameBut, ScFormed, ScParts
  <2>2. ScFormed(n)
    BY <1>3, <2>1 DEF NsSound, SameBut, ScFormed, ScParts
  <2>3. SameBut(x, n, LooseParts) /\ SameBut(m, n, ReadParts)
    BY <1>3, <2>1 DEF SameBut, LooseParts, ReadParts
  <2> QED BY <1>3, <2>2, <2>3, LooselySound
<1>4. SameBut(m, m, ReadParts)
  BY DEF SameBut
<1> QED BY <1>1, <1>2, <1>3, <1>4

\* What the platter does under a card that is given a command: it has looked, or its motor was just started.
Turning(m, r, t) ==
  /\ r.real = m.card.lastReal
  /\ r.real => Real(m) /\ ~m.card.crossedHole /\ r.sector = SectorAt(t)
  /\ ~r.real => ~Real(m) \/ m.card.kind = "mdsa"

\* The motor is started, with the platter looked at or at rest.
LEMMA MotorSetKeeps ==
  ASSUME NEW m, NEW w, NEW t \in Turns, NsSound(m, w, t), NEW r, Turning(m, r, t),
         NEW n, n = MotorSet(m)
  PROVE  NsKeeps(m, n, w, t) /\ (m.card.kind = "mdsa" => Turning(n, r, t))
<1> DEFINE at == IF m.card.motorReal THEN MotorTicks ELSE NoTime
           x == [m EXCEPT !.card.motorOn = TRUE, !.card.motorIn = at]
<1>1. n = x
  BY DEF MotorSet
<1> HIDE DEF at
<1>2. SameBut(m, x, {"motorOn", "motorIn"}) /\ x.card.motorOn = TRUE
  BY DEF NsSound, SameBut, ScFormed, ScParts
<1> HIDE DEF x
<1>3. ScFormed(x)
  BY ZenonT(60), <1>2 DEF NsSound, SameBut, ScFormed, ScParts
<1>4. /\ x.bay = m.bay /\ x.shelf = m.shelf /\ x.card.kind = m.card.kind /\ x.card.sel = m.card.sel
      /\ x.card.lastReal = m.card.lastReal /\ x.card.crossedHole = m.card.crossedHole
      /\ x.card.wr = m.card.wr /\ x.card.wrDD = m.card.wrDD /\ x.card.wrPos = m.card.wrPos /\ x.card.wTrack = m.card.wTrack
      /\ x.card.wSector = m.card.wSector /\ x.card.wrSide = m.card.wrSide /\ x.card.wbuf = m.card.wbuf
      /\ x.card.rdFor = m.card.rdFor /\ x.card.rdValid = m.card.rdValid /\ x.card.rdSide = m.card.rdSide
      /\ x.card.buf = m.card.buf /\ x.card.unit = m.card.unit /\ x.card.head = m.card.head
      /\ x.card.armed = m.card.armed /\ x.card.strap = m.card.strap /\ x.card.wake = m.card.wake
  BY <1>2 DEF SameBut, ScParts
<1>5. Sel(x) = Sel(m) /\ (Real(m) => Real(x))
  BY <1>2, <1>4 DEF Real, Spins, HasDrive, Sel
<1>6. Fits(x) = Fits(m)
  BY <1>4, <1>5 DEF Fits, VgDrive
<1>7. m.card.lastReal => Real(m) /\ ~m.card.crossedHole
  BY DEF Turning
<1>8. NsRead(x, t)
  BY <1>4, <1>5, <1>7 DEF NsSound, NsRead
<1>9. NsArms(x, w, t)
  BY <1>4, <1>5, <1>6, <1>7 DEF NsSound, NsArms, Active, AtPlace
<1>10. NsSound(x, w, t)
  BY <1>3, <1>4, <1>8, <1>9 DEF NsSound, Shelved
<1>11. m.card.kind = "mdsa" => Turning(x, r, t)
  BY <1>4, <1>5 DEF Turning
<1> QED BY <1>1, <1>4, <1>10, <1>11 DEF NsKeeps, NsWake

\* The record of the writes only grows, and what has been done stays; a write newly done is on its disk,
\* or was to be nowhere.
Grows(s, w, v) ==
  /\ v \in Seq(ScWrites) /\ Len(v) >= Len(w)
  /\ \A i \in 1..Len(w) :
       /\ v[i].disk = w[i].disk /\ v[i].place = w[i].place /\ v[i].ro = w[i].ro
       /\ w[i].left => v[i].left
       /\ w[i].done => v[i].left = w[i].left /\ v[i].done
  /\ \A i \in 1..Len(v) :
       v[i].done /\ ~v[i].left /\ ~v[i].ro /\ v[i].disk # NoDisk =>
         (i \in 1..Len(w) /\ w[i].done) \/ s[v[i].disk][v[i].place] # Pristine

\* A record in which only writes to nowhere were added or closed leaves the shelf explained.
LEMMA GrowsShelved ==
  ASSUME NEW m, NEW w, Shelved(m, w), NEW v, Grows(m.shelf, w, v)
  PROVE  Shelved(m, v)
<1> DEFINE vg == m.card.kind = "vgmdc"
<1>1. w \in Seq(ScWrites) /\ Len(w) \in Nat /\ Len(v) \in Nat
  BY DEF Shelved, Grows
<1>2. ScWhole(m.shelf, v, vg)
  <2> SUFFICES ASSUME NEW d \in HsDisks, NEW p \in ScPlaces
               PROVE  \/ m.shelf[d][p] = Pristine
                      \/ \E x \in 1..Len(v) :
                           /\ \A i \in Slots : m.shelf[d][p][i] = x \/ (vg /\ m.shelf[d][p][i] = Skipped)
                           /\ vg \/ (v[x].done /\ ~v[x].left)
                           /\ ~v[x].left => v[x].disk = d /\ v[x].place = p /\ ~v[x].ro
    BY DEF ScWhole
  <2>1. CASE m.shelf[d][p] = Pristine
    BY <2>1
  <2>2. CASE m.shelf[d][p] # Pristine
    <3>1. PICK x \in 1..Len(w) :
            /\ \A i \in Slots : m.shelf[d][p][i] = x \/ (vg /\ m.shelf[d][p][i] = Skipped)
            /\ vg \/ (w[x].done /\ ~w[x].left)
            /\ ~w[x].left => w[x].disk = d /\ w[x].place = p /\ ~w[x].ro
      BY <2>2 DEF Shelved, ScWhole
    <3>2. x \in 1..Len(v)
      BY <1>1, <3>1 DEF Grows
    <3> QED BY <3>1, <3>2 DEF Grows
  <2> QED BY <2>1, <2>2
<1>3. ScLands(m.shelf, v)
  <2> SUFFICES ASSUME NEW x \in 1..Len(v), v[x].done, ~v[x].left, ~v[x].ro, v[x].disk # NoDisk
               PROVE  m.shelf[v[x].disk][v[x].place] # Pristine
    BY DEF ScLands
  <2> QED BY DEF Grows, Shelved, ScLands
<1> QED BY <1>2, <1>3 DEF Grows, Shelved

\* The head leaves the place of the write in progress.
LEMMA SeenKeeps ==
  ASSUME NEW m, NEW w, NEW t \in Turns, NsSound(m, w, t), m.card.kind \in NorthStars, NEW v, v = Seen(w, m, t)
  PROVE  NsSound(m, v, t)
<1> DEFINE k == Len(w)
           e == [w[k] EXCEPT !.left = TRUE]
           y == [w EXCEPT ![k] = e]
<1>1. w \in Seq(ScWrites) /\ k \in Nat
  BY DEF NsSound, Shelved
<1>2. CASE v = w
  BY <1>2
<1>3. CASE v # w
  <2>1. /\ w # <<>> /\ ~w[k].done /\ v = y
        /\ ~(w[k].disk # NoDisk /\ PlaceUnder(m, t) = <<w[k].disk, w[k].place>>)
    BY <1>1, <1>3 DEF Seen
  <2>2. k \in 1..Len(w) /\ w[k] \in ScWrites
    BY <1>1, <2>1
  <2>3. e \in ScWrites /\ e.left /\ e.disk = w[k].disk /\ e.place = w[k].place /\ e.ro = w[k].ro /\ e.done = w[k].done
    BY <2>2 DEF ScWrites
  <2> HIDE DEF e
  <2>4. y \in Seq(ScWrites) /\ Len(y) = k /\ y[k] = e /\ \A i \in 1..k : i # k => y[i] = w[i]
    BY <1>1, <2>2, <2>3
  <2> HIDE DEF y
  <2>5. Grows(m.shelf, w, y)
    BY <1>1, <2>1, <2>2, <2>3, <2>4 DEF Grows
  <2>6. Shelved(m, y)
    BY <2>5, GrowsShelved DEF NsSound
  <2>7. ~(Active(m) /\ m.card.lastReal /\ ~m.card.crossedHole)
    <3> SUFFICES ASSUME Active(m), m.card.lastReal, ~m.card.crossedHole
                 PROVE  FALSE
      OBVIOUS
    <3>1. Real(m) /\ AtPlace(m, w[k], t)
      BY DEF NsSound, NsArms
    <3>2. PlaceUnder(m, t) = <<Sel(m).disk, <<Surface(Sel(m).track, m.card.wrSide), SectorAt(t)>> >>
      BY <3>1 DEF PlaceUnder, NorthStars
    <3>3. Sel(m).disk # NoDisk
      BY <3>1 DEF Real, Spins
    <3> QED BY <2>1, <3>1, <3>2, <3>3 DEF AtPlace
  <2>8. NsArms(m, y, t)
    BY <1>1, <2>1, <2>2, <2>3, <2>4, <2>7 DEF NsSound, NsArms
  <2> QED BY <2>1, <2>6, <2>8 DEF NsSound
<1> QED BY <1>2, <1>3

\* A surface is one of those of the disk.
LEMMA SurfaceIs ==
  ASSUME NEW k \in TrackNumbers, NEW h \in 0..1
  PROVE  Surface(k, h) \in 0..(2 * HsTracks - 1)
<1>1. h = 0 \/ h = 1
  OBVIOUS
<1>2. k + (0 * HsTracks) = k /\ k + (1 * HsTracks) = k + HsTracks
  BY ScConstants DEF TrackNumbers
<1> QED BY <1>1, <1>2, ScConstants DEF Surface, TrackNumbers

\* A write given up is told in the record, and goes nowhere.
LEMMA GivenUpGrows ==
  ASSUME NEW s, NEW w, w \in Seq(ScWrites), NEW v, v = GivenUp(w)
  PROVE  Grows(s, w, v) /\ Len(v) = Len(w)
<1> DEFINE k == Len(w)
           e == [[w[k] EXCEPT !.left = TRUE] EXCEPT !.done = TRUE]
           y == [w EXCEPT ![k] = e]
<1>1. CASE w = <<>> \/ w[k].done
  <2>1. v = w /\ Len(w) \in Nat
    BY <1>1 DEF GivenUp
  <2> QED BY <2>1 DEF Grows
<1>2. CASE ~(w = <<>> \/ w[k].done)
  <2>1. k \in 1..Len(w) /\ w[k] \in ScWrites /\ k \in Nat
    BY <1>2
  <2>2. v = [w EXCEPT ![k].left = TRUE, ![k].done = TRUE]
    BY <1>2 DEF GivenUp
  <2>3. v = y
    BY <2>1, <2>2
  <2>4. e \in ScWrites /\ e.left /\ e.disk = w[k].disk /\ e.place = w[k].place /\ e.ro = w[k].ro
    BY <2>1 DEF ScWrites
  <2> HIDE DEF e
  <2>5. y \in Seq(ScWrites) /\ Len(y) = k /\ y[k] = e /\ \A i \in 1..k : i # k => y[i] = w[i]
    BY <2>1, <2>4
  <2> HIDE DEF y
  <2> QED BY <1>2, <2>1, <2>3, <2>4, <2>5 DEF Grows
<1> QED BY <1>1, <1>2

\* A write newly begun is the last, and not done.
LEMMA AppendGrows ==
  ASSUME NEW s, NEW w, w \in Seq(ScWrites), NEW e \in ScWrites, ~e.done, NEW v, v = Append(w, e)
  PROVE  Grows(s, w, v) /\ Len(v) = Len(w) + 1 /\ v[Len(v)] = e
<1>1. Len(v) = Len(w) + 1 /\ v \in Seq(ScWrites) /\ v[Len(v)] = e /\ Len(w) \in Nat /\ \A i \in 1..Len(w) : v[i] = w[i]
  OBVIOUS
<1>2. \A i \in 1..Len(v) : i \in 1..Len(w) \/ i = Len(v)
  BY <1>1
<1> QED BY <1>1, <1>2 DEF Grows

\* beginWrite.
LEMMA BeginKeeps ==
  ASSUME NEW m, NEW w, NEW t \in Turns, NsSound(m, w, t), m.card.kind \in NorthStars, NEW r, Turning(m, r, t), InWindow(r),
         NEW n, n = BeginWrite(m, r), NEW x, NEW v, v = Append(GivenUp(w), Begun(x, n, t))
  PROVE  NsKeeps(m, n, v, t)
<1> DEFINE dd == m.card.kind = "mdsad" /\ m.card.orders.dd
           k == Surface(IF HasDrive(m) THEN Sel(m).track ELSE 0, Side(m.card))
           y == [m EXCEPT !.card.wr = "preamble", !.card.wrDD = dd, !.card.wrPos = 0, !.card.wTrack = k,
                          !.card.wSector = r.sector, !.card.wrSide = Side(m.card), !.card.rdFor = Unread]
           e == Begun(x, n, t)
           g == GivenUp(w)
<1>1. n = y
  BY DEF BeginWrite
<1> HIDE DEF dd, k
<1>2. /\ SameBut(m, y, {"wr", "wrDD", "wrPos", "wTrack", "wSector", "wrSide", "rdFor"})
      /\ y.card.wr = "preamble" /\ y.card.wrPos = 0 /\ y.card.wTrack = k /\ y.card.wSector = r.sector
      /\ y.card.wrSide = Side(m.card) /\ y.card.rdFor = Unread
  BY ZenonT(60) DEF NsSound, SameBut, ScFormed, ScParts
<1> HIDE DEF y
<1>3. Side(m.card) \in 0..1
  BY DEF Side, NsSound, ScFormed
<1>4. ScFormed(n)
  BY <1>1, <1>2, <1>3 DEF NsSound, SameBut, ScFormed, ScParts
<1>5. /\ n.bay = m.bay /\ n.shelf = m.shelf /\ n.card.kind = m.card.kind /\ n.card.sel = m.card.sel
      /\ n.card.motorOn = m.card.motorOn /\ n.card.lastReal = m.card.lastReal /\ n.card.crossedHole = m.card.crossedHole
      /\ n.card.armed = m.card.armed /\ n.card.strap = m.card.strap /\ n.card.wake = m.card.wake
      /\ n.card.wr = "preamble" /\ n.card.wrPos = 0 /\ n.card.wTrack = k /\ n.card.wSector = r.sector
      /\ n.card.wrSide = Side(m.card) /\ n.card.rdFor = Unread
  BY <1>1, <1>2 DEF SameBut, ScParts
<1>6. Real(n) = Real(m) /\ Sel(n) = Sel(m) /\ (Real(n) => HasDrive(m) /\ Sel(n).disk # NoDisk /\ Bay(Sel(n)))
  BY <1>5 DEF Real, Spins, HasDrive, Sel, NsSound, ScFormed
<1>7. PlaceUnder(n, t) = IF Real(n) THEN <<Sel(n).disk, <<Surface(Sel(n).track, n.card.wrSide), SectorAt(t)>> >> ELSE <<>>
  BY <1>5 DEF PlaceUnder, NorthStars
<1>8. /\ e.ro \in BOOLEAN /\ ~e.left /\ ~e.done
      /\ DOMAIN e = {"disk", "place", "ro", "left", "done"} /\ e.left = FALSE /\ e.done = FALSE
      /\ e = [disk |-> e.disk, place |-> e.place, ro |-> e.ro, left |-> e.left, done |-> e.done]
  BY DEF Begun
<1>9. CASE Real(n)
  <2>1. /\ e.disk = Sel(n).disk /\ e.place = <<Surface(Sel(n).track, n.card.wrSide), SectorAt(t)>> /\ e.ro = ~Fits(n)
    BY <1>7, <1>9 DEF Begun
  <2>2. e.disk \in Disks /\ e.place \in ScPlaces
    BY <1>3, <1>5, <1>6, <1>9, <2>1, SurfaceIs, TurnsOn DEF Bay, ScPlaces
  <2> HIDE DEF e
  <2>3. e \in ScWrites
    BY <1>8, <2>2 DEF ScWrites
  <2>4. n.card.lastReal => AtPlace(n, e, t)
    BY <1>5, <1>6, <1>8, <1>9, <2>1 DEF AtPlace, Turning, k
  <2>5. w \in Seq(ScWrites)
    BY DEF NsSound, Shelved
  <2>6. Grows(m.shelf, w, g) /\ g \in Seq(ScWrites)
    BY <2>5, GivenUpGrows DEF Grows
  <2>7. Shelved(m, g)
    BY <2>6, GrowsShelved DEF NsSound
  <2> HIDE DEF g
  <2>8. Grows(m.shelf, g, v) /\ Len(v) = Len(g) + 1 /\ v[Len(v)] = e /\ Len(g) \in Nat
    <3>1. v = Append(g, e) /\ Len(g) \in Nat
      BY <2>6 DEF e, g
    <3>2. ~e.done
      BY <1>8
    <3>3. Grows(m.shelf, g, v) /\ Len(v) = Len(g) + 1 /\ v[Len(v)] = e
      BY ONLY <2>3, <2>6, <3>1, <3>2, AppendGrows
    <3> QED BY <3>1, <3>3
  <2>9. Shelved(m, v)
    BY <2>7, <2>8, GrowsShelved
  <2>10. NsArms(n, v, t)
    <3>1. ~n.card.lastReal => n.card.kind = "mdsa" /\ Real(n)
      BY <1>5, <1>6, <1>9 DEF Turning
    <3> QED BY <1>5, <1>8, <1>9, <2>4, <2>8, <3>1, ScConstants DEF NsArms
  <2> QED BY <1>4, <1>5, <2>9, <2>10 DEF NsKeeps, NsSound, NsRead, Shelved, NsWake
<1>10. CASE ~Real(n)
  <2>1. e.disk = NoDisk /\ e.place = <<>>
    BY <1>7, <1>10 DEF Begun
  <2> HIDE DEF e
  <2>3. e \in ScWrites
    BY <1>8, <2>1 DEF ScWrites, Disks
  <2>5. w \in Seq(ScWrites)
    BY DEF NsSound, Shelved
  <2>6. Grows(m.shelf, w, g) /\ g \in Seq(ScWrites)
    BY <2>5, GivenUpGrows DEF Grows
  <2>7. Shelved(m, g)
    BY <2>6, GrowsShelved DEF NsSound
  <2> HIDE DEF g
  <2>8. Grows(m.shelf, g, v) /\ Len(v) = Len(g) + 1 /\ v[Len(v)] = e /\ Len(g) \in Nat
    <3>1. v = Append(g, e) /\ Len(g) \in Nat
      BY <2>6 DEF e, g
    <3>2. ~e.done
      BY <1>8
    <3>3. Grows(m.shelf, g, v) /\ Len(v) = Len(g) + 1 /\ v[Len(v)] = e
      BY ONLY <2>3, <2>6, <3>1, <3>2, AppendGrows
    <3> QED BY <3>1, <3>3
  <2>9. Shelved(m, v)
    BY <2>7, <2>8, GrowsShelved
  <2>10. NsArms(n, v, t)
    <3>1. ~n.card.lastReal
      BY <1>5, <1>6, <1>10 DEF Turning
    <3> QED BY <1>5, <1>8, <2>1, <2>8, <3>1, ScConstants DEF NsArms
  <2> QED BY <1>4, <1>5, <2>9, <2>10 DEF NsKeeps, NsSound, NsRead, Shelved, NsWake
<1> QED BY <1>9, <1>10

\* A register nothing hangs on.
LEMMA LooseKeeps ==
  ASSUME NEW m, NEW w, NEW t, NsSound(m, w, t), NEW n, ScFormed(n),
         SameBut(m, n, {"sf", "forced", "stepFf", "dirIn", "orders", "rdPos"})
  PROVE  NsKeeps(m, n, w, t)
<1>1. SameBut(m, n, LooseParts)
  BY DEF SameBut, LooseParts
<1>2. n.card.armed = m.card.armed /\ n.card.strap = m.card.strap /\ n.card.wake = m.card.wake
  BY DEF SameBut, ScParts
<1> QED BY <1>1, <1>2, LooselySound DEF NsKeeps, NsWake

\* One operation after another.
LEMMA KeepsOn ==
  ASSUME NEW m, NEW w, NEW t, NEW x, NsKeeps(m, x, w, t), NEW n, NEW v, NsKeeps(x, n, v, t)
  PROVE  NsKeeps(m, n, v, t)
BY DEF NsKeeps

\* The MDS-A's commands but one that begins a write.
LEMMA MdsaKeeps ==
  ASSUME NEW m, NEW w, NEW t \in Turns, NsSound(m, w, t), m.card.kind \in NorthStars, NEW c, NEW r, ~(c.op = "write" /\ InWindow(r)),
         NEW n, n = MdsaCommand(m, c, r, t)
  PROVE  NsKeeps(m, n, w, t)
<1>1. NsKeeps(m, m, w, t)
  BY DEF NsKeeps
<1>2. CASE c.op = "select"
  <2>1. n = m \/ n = NsSelectDrive(m, c.n)
    BY <1>2 DEF MdsaCommand
  <2> QED BY <1>1, <2>1, NsSelectKeeps
<1>3. CASE c.op = "write"
  BY <1>1, <1>3 DEF MdsaCommand, BeginWrite
<1>4. CASE c.op = "step"
  <2> DEFINE s == IF m.card.stepFf /\ ~c.on THEN NsStep(m, m.card.dirIn) ELSE m
             x == [s EXCEPT !.card.stepFf = c.on]
  <2>1. n = x
    BY <1>4 DEF MdsaCommand
  <2>2. NsKeeps(m, s, w, t)
    BY <1>1, NsStepKeeps
  <2> HIDE DEF s
  <2>3. SameBut(s, x, {"stepFf"})
    BY <2>2 DEF NsKeeps, NsSound, SameBut, ScFormed, ScParts
  <2> HIDE DEF x
  <2>4. ScFormed(x) /\ SameBut(s, x, {"sf", "forced", "stepFf", "dirIn", "orders", "rdPos"})
    BY <2>2, <2>3 DEF NsKeeps, NsSound, SameBut, ScFormed, ScParts
  <2>5. NsKeeps(s, x, w, t)
    BY <2>2, <2>4, LooseKeeps DEF NsKeeps
  <2> QED BY <2>1, <2>2, <2>5, KeepsOn
<1>5. CASE c.op = "arm"
  BY <1>5, ArmKeeps DEF MdsaCommand
<1>6. CASE c.op = "flag" \/ c.op = "direction"
  <2> DEFINE x == [m EXCEPT !.card.sf = FALSE]
             y == [m EXCEPT !.card.dirIn = c.on]
  <2>1. n = x \/ n = y
    BY <1>6 DEF MdsaCommand
  <2>2. SameBut(m, x, {"sf"}) /\ SameBut(m, y, {"dirIn"})
    BY DEF NsSound, SameBut, ScFormed, ScParts
  <2> HIDE DEF x, y
  <2>3. ScFormed(n) /\ SameBut(m, n, {"sf", "forced", "stepFf", "dirIn", "orders", "rdPos"})
    BY <2>1, <2>2 DEF NsSound, SameBut, ScFormed, ScParts
  <2> QED BY <2>3, LooseKeeps
<1>7. CASE c.op = "reset"
  BY <1>7, NsResetKeeps DEF MdsaCommand, NsKeeps
<1>8. CASE c.op \notin {"select", "write", "step", "arm", "flag", "direction", "reset"}
  BY <1>1, <1>8 DEF MdsaCommand
<1> QED BY <1>2, <1>3, <1>4, <1>5, <1>6, <1>7, <1>8

\* The MDS-A-D's.
LEMMA MdsadKeeps ==
  ASSUME NEW m, NEW w, NEW t \in Turns, NsSound(m, w, t), m.card.kind \in NorthStars, NEW c, NEW r, Turning(m, r, t),
         ~(c.op = "write" /\ InWindow(r)), c.op = "orders" => c.side \in 0..1,
         NEW n, n = MdsadCommand(m, c, r, t)
  PROVE  NsKeeps(m, n, w, t)
<1>1. NsKeeps(m, m, w, t)
  BY DEF NsKeeps
<1>2. CASE c.op = "orders"
  <2> DEFINE a == [side |-> c.side, dd |-> c.dd, step |-> c.step]
             x == [m EXCEPT !.card.orders = a]
             o == NsSelectDrive(x, c.n)
  <2>1. n = o \/ n = NsStep(o, c.on)
    BY <1>2 DEF MdsadCommand
  <2>2. {"side", "dd", "step"} \subseteq DOMAIN a /\ a.side \in 0..1
    BY <1>2
  <2> HIDE DEF a
  <2>3. SameBut(m, x, {"orders"}) /\ x.card.orders = a
    BY DEF NsSound, SameBut, ScFormed, ScParts
  <2> HIDE DEF x
  <2>4. ScFormed(x) /\ SameBut(m, x, {"sf", "forced", "stepFf", "dirIn", "orders", "rdPos"})
    BY <2>2, <2>3 DEF NsSound, SameBut, ScFormed, ScParts
  <2>5. NsKeeps(m, x, w, t)
    BY <2>4, LooseKeeps
  <2>6. NsKeeps(x, o, w, t)
    BY <2>5, NsSelectKeeps DEF NsKeeps
  <2> HIDE DEF o
  <2>7. NsKeeps(o, NsStep(o, c.on), w, t)
    BY <2>6, NsStepKeeps DEF NsKeeps
  <2> QED BY <2>1, <2>5, <2>6, <2>7, KeepsOn
<1>3. CASE c.op = "write"
  BY <1>1, <1>3 DEF MdsadCommand, BeginWrite
<1>5. CASE c.op = "arm"
  BY <1>5, ArmKeeps DEF MdsadCommand
<1>6. CASE c.op = "flag" \/ c.op = "body"
  <2> DEFINE x == [m EXCEPT !.card.sf = FALSE]
             y == [m EXCEPT !.card.forced = TRUE]
  <2>1. n = x \/ n = y
    BY <1>6 DEF MdsadCommand
  <2>2. SameBut(m, x, {"sf"}) /\ SameBut(m, y, {"forced"})
    BY DEF NsSound, SameBut, ScFormed, ScParts
  <2> HIDE DEF x, y
  <2>3. ScFormed(n) /\ SameBut(m, n, {"sf", "forced", "stepFf", "dirIn", "orders", "rdPos"})
    BY <2>1, <2>2 DEF NsSound, SameBut, ScFormed, ScParts
  <2> QED BY <2>3, LooseKeeps
<1>7. CASE c.op = "reset"
  BY <1>7, NsResetKeeps DEF MdsadCommand, NsKeeps
<1>8. CASE c.op = "motor"
  BY <1>8, MotorSetKeeps DEF MdsadCommand
<1>9. CASE c.op \notin {"orders", "write", "arm", "flag", "body", "motor", "reset"}
  BY <1>1, <1>9 DEF MdsadCommand
<1> QED BY <1>2, <1>3, <1>5, <1>6, <1>7, <1>8, <1>9

\* An access: the card has looked, and r is where the platter was then.
LEMMA AccessKeeps ==
  ASSUME NEW m, NEW w, NEW t \in Turns, NsSound(m, w, t), LookedAt(m), m.card.kind \in NorthStars,
         NEW look, NEW c, m.card.kind = "mdsad" /\ c.op = "orders" => c.side \in 0..1,
         NEW n, n = NsAccessed(m, look, c, t)
  PROVE  /\ ~Begins(m, c, t) => NsKeeps(m, n, w, t)
         /\ Begins(m, c, t) => NsKeeps(m, n, Append(GivenUp(w), Begun(m, n, t)), t)
<1> DEFINE r == Rotation(m, t)
           l == LooksTo(m, look, r)
           k == IF c.motor THEN MotorSet(l) ELSE l
<1>1. Begins(m, c, t) = (c.op = "write" /\ InWindow(r))
  BY DEF Begins, NorthStars
<1>2. /\ r.real = Real(m) /\ (r.real => r.sector = SectorAt(t))
  BY DEF Rotation, Real, Spins, HasDrive, NsSound, ScFormed
<1>3. Turning(m, r, t)
  BY <1>2 DEF Turning, LookedAt
<1>4. /\ m.card.kind = "mdsa" => n = MdsaCommand(k, c, r, t)
      /\ m.card.kind # "mdsa" /\ c.op = "orders" => n = MdsadCommand(m, c, r, t)
      /\ m.card.kind # "mdsa" /\ c.op # "orders" => n = MdsadCommand(l, c, r, t)
  BY DEF NsAccessed, LooksTo
<1>5. NsSound(l, w, t) /\ SameBut(m, l, ReadParts)
  BY LooksKeep
<1> HIDE DEF l, r
<1>6. NsKeeps(m, l, w, t) /\ Turning(l, r, t) /\ l.card.kind = m.card.kind
  <2>1. /\ l.card.kind = m.card.kind /\ l.card.armed = m.card.armed /\ l.card.strap = m.card.strap /\ l.card.wake = m.card.wake
        /\ l.card.lastReal = m.card.lastReal /\ l.card.crossedHole = m.card.crossedHole /\ l.card.sel = m.card.sel
        /\ l.card.motorOn = m.card.motorOn /\ l.bay = m.bay
    BY <1>5 DEF SameBut, ReadParts, ScParts
  <2>2. Real(l) = Real(m)
    BY <2>1 DEF Real, Spins, HasDrive, Sel
  <2> QED BY <1>3, <1>5, <2>1, <2>2 DEF NsKeeps, NsWake, Turning
<1>7. CASE m.card.kind = "mdsa"
  <2>1. NsKeeps(m, k, w, t) /\ Turning(k, r, t) /\ k.card.kind = m.card.kind
    <3>1. NsSound(l, w, t) /\ l.card.kind = "mdsa"
      BY <1>5, <1>6, <1>7
    <3>2. NsKeeps(l, MotorSet(l), w, t) /\ Turning(MotorSet(l), r, t)
      BY <1>6, <3>1, MotorSetKeeps
    <3> QED BY <1>6, <3>2 DEF NsKeeps
  <2> HIDE DEF k
  <2>2. n = MdsaCommand(k, c, r, t) /\ NsSound(k, w, t) /\ k.card.kind \in NorthStars
    <3>1. n = MdsaCommand(k, c, r, t)
      BY <1>4, <1>7
    <3> QED BY <2>1, <3>1 DEF NsKeeps
  <2>3. ~Begins(m, c, t) => NsKeeps(k, n, w, t)
    BY <1>1, <2>2, MdsaKeeps
  <2>4. ASSUME Begins(m, c, t)
        PROVE  NsKeeps(k, n, Append(GivenUp(w), Begun(m, n, t)), t)
    <3>1. n = BeginWrite(k, r) /\ InWindow(r)
      BY <1>1, <2>2, <2>4 DEF MdsaCommand
    <3> QED BY <2>1, <2>2, <3>1, BeginKeeps
  <2> QED BY <2>1, <2>3, <2>4, KeepsOn
<1>8. CASE m.card.kind # "mdsa" /\ c.op = "orders"
  <2>1. n = MdsadCommand(m, c, r, t) /\ m.card.kind = "mdsad" /\ ~Begins(m, c, t)
    BY <1>1, <1>4, <1>8 DEF NorthStars
  <2> QED BY <1>3, <1>8, <2>1, MdsadKeeps
<1>9. CASE m.card.kind # "mdsa" /\ c.op # "orders"
  <2>1. n = MdsadCommand(l, c, r, t) /\ NsSound(l, w, t) /\ l.card.kind \in NorthStars
    BY <1>4, <1>5, <1>6, <1>9
  <2>2. ~Begins(m, c, t) => NsKeeps(l, n, w, t)
    BY <1>1, <1>6, <1>9, <2>1, MdsadKeeps
  <2>3. ASSUME Begins(m, c, t)
        PROVE  NsKeeps(l, n, Append(GivenUp(w), Begun(m, n, t)), t)
    <3>1. n = BeginWrite(l, r) /\ InWindow(r)
      BY <1>1, <2>1, <2>3 DEF MdsadCommand
    <3> QED BY <1>6, <2>1, <3>1, BeginKeeps
  <2> QED BY <1>6, <2>2, <2>3, KeepsOn
<1> QED BY <1>7, <1>8, <1>9

\* The last write is done, and nothing else of the record changes.
Closes(w, v) ==
  /\ v \in Seq(ScWrites) /\ Len(v) = Len(w) /\ v[Len(w)].done
  /\ v[Len(w)].disk = w[Len(w)].disk /\ v[Len(w)].place = w[Len(w)].place /\ v[Len(w)].ro = w[Len(w)].ro
  /\ v[Len(w)].left = w[Len(w)].left
  /\ \A i \in 1..Len(w) : i # Len(w) => v[i] = w[i]
\* The record of a write that has ended is closed.
LEMMA FinishedIs ==
  ASSUME NEW w, w \in Seq(ScWrites), NEW n, NEW v, v = WriteDone(w, n)
  PROVE  /\ w = <<>> \/ Unfinished(n) => v = w
         /\ w # <<>> /\ ~Unfinished(n) => Len(w) \in Nat \ {0} /\ Closes(w, v)
<1> DEFINE k == Len(w)
           e == [w[k] EXCEPT !.done = TRUE]
           y == [w EXCEPT ![k] = e]
<1>1. w = <<>> \/ Unfinished(n) => v = w
  BY DEF WriteDone
<1>2. ASSUME w # <<>>, ~Unfinished(n)
      PROVE  k \in Nat \ {0} /\ Closes(w, v)
  <2>1. k \in 1..Len(w) /\ w[k] \in ScWrites /\ k \in Nat \ {0}
    BY <1>2
  <2>2. v = y
    BY <1>2, <2>1 DEF WriteDone
  <2>3. e \in ScWrites /\ e.done /\ e.left = w[k].left /\ e.disk = w[k].disk /\ e.place = w[k].place /\ e.ro = w[k].ro
    BY <2>1 DEF ScWrites
  <2> HIDE DEF e
  <2>4. y \in Seq(ScWrites) /\ Len(y) = k /\ y[k] = e /\ \A i \in 1..k : i # k => y[i] = w[i]
    BY <2>1, <2>3
  <2> HIDE DEF y
  <2> QED BY <2>1, <2>2, <2>3, <2>4 DEF Closes
<1> QED BY <1>1, <1>2

\* writeData, whose bytes are those of the last write.
LEMMA NsWriteKeeps ==
  ASSUME NEW m, NEW t \in Turns, NsSound(m, where, t), m.card.kind \in NorthStars, LookedAt(m), NEW zero \in BOOLEAN,
         NEW n, n = NsWriteData(m, zero),
         NEW v, v = IF n.card.wr = "done" /\ m.card.wr = "data" THEN WriteDone(where, n) ELSE where
  PROVE  NsKeeps(m, n, v, t)
<1> DEFINE k == Len(where)
           p == m.card.wrPos + 1
           b == [m.card.wbuf EXCEPT ![p] = k]
           y == [m EXCEPT !.card.wbuf = b, !.card.wrPos = p]
           z == [Committed(y) EXCEPT !.card.wr = "done"]
<1>1. where \in Seq(ScWrites) /\ k \in Nat
  BY DEF NsSound, Shelved
<1>2. CASE m.card.wr \in {"idle", "done"} \/ (m.card.wr = "preamble" /\ zero)
  <2>1. n = m
    BY <1>2 DEF NsWriteData
  <2> QED BY <1>2, <2>1 DEF NsKeeps
<1>3. CASE (m.card.wr = "preamble" /\ ~zero) \/ m.card.wr = "sync"
  <2> DEFINE to == IF m.card.wr = "preamble" /\ m.card.wrDD THEN "sync" ELSE "data"
  <2>1. n = [m EXCEPT !.card.wr = to]
    BY <1>3 DEF NsWriteData
  <2>2. to \in {"sync", "data"}
    OBVIOUS
  <2> HIDE DEF to
  <2>3. SameBut(m, n, {"wr"}) /\ n.card.wr = to
    BY <2>1 DEF NsSound, SameBut, ScFormed, ScParts
  <2>4. ScFormed(n)
    BY <2>2, <2>3 DEF NsSound, SameBut, ScFormed, ScParts
  <2>5. /\ n.bay = m.bay /\ n.shelf = m.shelf /\ n.card.kind = m.card.kind /\ n.card.sel = m.card.sel
        /\ n.card.motorOn = m.card.motorOn /\ n.card.lastReal = m.card.lastReal /\ n.card.crossedHole = m.card.crossedHole
        /\ n.card.wrDD = m.card.wrDD /\ n.card.wrPos = m.card.wrPos /\ n.card.wTrack = m.card.wTrack
        /\ n.card.wSector = m.card.wSector /\ n.card.wrSide = m.card.wrSide /\ n.card.wbuf = m.card.wbuf
        /\ n.card.rdFor = m.card.rdFor /\ n.card.unit = m.card.unit /\ n.card.head = m.card.head
        /\ n.card.armed = m.card.armed /\ n.card.strap = m.card.strap /\ n.card.wake = m.card.wake
    BY <2>3 DEF SameBut, ScParts
  <2>6. Real(n) = Real(m) /\ Sel(n) = Sel(m)
    BY <2>5 DEF Real, Spins, HasDrive, Sel
  <2>7. Fits(n) = Fits(m)
    BY <2>5, <2>6 DEF Fits, VgDrive
  <2>8. NsRead(n, t)
    BY <1>3, <2>5 DEF NsSound, NsRead
  <2>9. NsArms(n, where, t)
    BY <1>3, <2>2, <2>3, <2>5, <2>6, <2>7 DEF NsSound, NsArms, Active, AtPlace
  <2>10. v = where
    BY <2>2, <2>3
  <2> QED BY <2>4, <2>5, <2>8, <2>9, <2>10 DEF NsKeeps, NsSound, Shelved, NsWake
<1>4. CASE m.card.wr = "data"
  <2>1. /\ k # 0 /\ ~where[k].done /\ m.card.wrPos \in 0..(HsBytes - 1) /\ \A i \in 1..m.card.wrPos : m.card.wbuf[i] = k
        /\ m.card.lastReal => Real(m) /\ AtPlace(m, where[k], t)
        /\ ~m.card.lastReal => where[k].disk = NoDisk
    BY <1>4 DEF NsSound, NsArms, Active, LookedAt
  <2>2. p \in Slots /\ p \in Nat
    BY <2>1, ScConstants DEF Slots
  <2>3. DOMAIN b = Slots /\ \A i \in 1..p : b[i] = k
    <3>1. DOMAIN m.card.wbuf = Slots
      BY DEF NsSound, ScFormed
    <3>2. DOMAIN b = Slots /\ b[p] = k /\ \A i \in Slots : i # p => b[i] = m.card.wbuf[i]
      BY <2>2, <3>1
    <3>3. \A i \in 1..p : i \in Slots /\ (i = p \/ i \in 1..m.card.wrPos)
      <4> DEFINE q == m.card.wrPos
      <4>1. q \in 0..(HsBytes - 1) /\ HsBytes \in Nat
        BY <2>1, ScConstants
      <4> HIDE DEF q
      <4>2. \A i \in 1..(q + 1) : i \in 1..HsBytes /\ (i = q + 1 \/ i \in 1..q)
        BY <4>1
      <4> QED BY <4>2 DEF q, Slots
    <3> HIDE DEF b
    <3> QED BY <2>1, <3>2, <3>3
  <2>4. n = IF p = HsBytes THEN z ELSE y
    <3>1. [m EXCEPT !.card.wbuf[p] = k, !.card.wrPos = @ + 1] = y
      OBVIOUS
    <3>2. y.card.wrPos = p
      BY DEF NsSound, ScFormed, ScParts
    <3>3. n = LET x == [m EXCEPT !.card.wbuf[m.card.wrPos + 1] = Len(where), !.card.wrPos = @ + 1] IN
                IF x.card.wrPos = HsBytes THEN [Committed(x) EXCEPT !.card.wr = "done"] ELSE x
      BY <1>4 DEF NsWriteData
    <3> QED BY <3>1, <3>2, <3>3
  <2> HIDE DEF b, p
  <2>5. SameBut(m, y, {"wbuf", "wrPos"}) /\ y.card.wbuf = b /\ y.card.wrPos = p
    BY DEF NsSound, SameBut, ScFormed, ScParts
  <2> HIDE DEF y
  <2>6. ScFormed(y)
    BY <2>3, <2>5 DEF NsSound, SameBut, ScFormed, ScParts
  <2>7. /\ y.bay = m.bay /\ y.shelf = m.shelf /\ y.card.kind = m.card.kind /\ y.card.sel = m.card.sel
        /\ y.card.motorOn = m.card.motorOn /\ y.card.lastReal = m.card.lastReal /\ y.card.crossedHole = m.card.crossedHole
        /\ y.card.wr = m.card.wr /\ y.card.wrDD = m.card.wrDD /\ y.card.wTrack = m.card.wTrack
        /\ y.card.wSector = m.card.wSector /\ y.card.wrSide = m.card.wrSide
        /\ y.card.rdFor = m.card.rdFor /\ y.card.unit = m.card.unit /\ y.card.head = m.card.head
        /\ y.card.armed = m.card.armed /\ y.card.strap = m.card.strap /\ y.card.wake = m.card.wake
    BY <2>5 DEF SameBut, ScParts
  <2>8. Real(y) = Real(m) /\ Sel(y) = Sel(m) /\ Spins(y) = Spins(m)
    BY <2>7 DEF Real, Spins, HasDrive, Sel
  <2>9. Fits(y) = Fits(m)
    BY <2>7, <2>8 DEF Fits, VgDrive
  <2>10. CASE p # HsBytes
    <3>1. NsRead(y, t)
      BY <1>4, <2>7 DEF NsSound, NsRead
    <3>2. NsArms(y, where, t)
      <4>1. p \in 0..(HsBytes - 1)
        BY <2>2, <2>10, ScConstants DEF Slots
      <4> QED BY <1>4, <2>1, <2>3, <2>5, <2>7, <2>8, <2>9, <4>1 DEF NsArms, Active, AtPlace
    <3>3. v = where /\ n = y
      BY <1>4, <2>4, <2>7, <2>10
    <3> QED BY <2>6, <2>7, <3>1, <3>2, <3>3 DEF NsKeeps, NsSound, Shelved, NsWake
  <2>11. CASE p = HsBytes
    <3> DEFINE d == Sel(m).disk
               q == <<m.card.wTrack, m.card.wSector>>
               j == Committed(y)
    <3>1. \A i \in Slots : b[i] = k
      BY <2>3, <2>11 DEF Slots
    <3>2. Commits(y) = (m.card.lastReal /\ Spins(m) /\ Fits(m))
      BY <2>7, <2>8 DEF Commits, Fits, NorthStars
    <3>3. /\ j.bay = m.bay /\ j.card = y.card /\ {"card", "bay", "shelf"} \subseteq DOMAIN j
          /\ j.shelf = IF Commits(y) THEN [m.shelf EXCEPT ![d] = [@ EXCEPT ![q] = b]] ELSE m.shelf
      BY <2>5, <2>6, <2>7, <2>8 DEF Committed, ScFormed
    <3> HIDE DEF j
    <3>4. /\ z.bay = j.bay /\ z.shelf = j.shelf /\ z.card.wr = "done" /\ DOMAIN z = DOMAIN j /\ DOMAIN z.card = DOMAIN j.card
          /\ \A x \in ScParts \ {"wr"} : z.card[x] = j.card[x]
      BY <2>6, <3>3 DEF ScFormed, ScParts, j
    <3> HIDE DEF z
    <3>5. Commits(y) => /\ d \in HsDisks /\ q \in ScPlaces /\ d = where[k].disk /\ q = where[k].place
                        /\ ~where[k].ro /\ ~where[k].left
      <4> SUFFICES ASSUME Commits(y)
                   PROVE  /\ d \in HsDisks /\ q \in ScPlaces /\ d = where[k].disk /\ q = where[k].place
                          /\ ~where[k].ro /\ ~where[k].left
        OBVIOUS
      <4>1. AtPlace(m, where[k], t) /\ Real(m) /\ Fits(m)
        BY <2>1, <3>2
      <4>2. Bay(Sel(m)) /\ d # NoDisk
        BY <4>1 DEF Real, Spins, HasDrive, Sel, NsSound, ScFormed
      <4>3. q \in ScPlaces
        BY <4>1, <4>2, SurfaceIs, TurnsOn DEF AtPlace, Bay, ScPlaces, NsSound, ScFormed
      <4> QED BY <4>1, <4>2, <4>3 DEF AtPlace, Bay, Disks
    <3>6. ScFormed(z)
      <4>1. DOMAIN z.shelf = HsDisks /\ \A x \in HsDisks : DOMAIN z.shelf[x] = ScPlaces
        BY <2>6, <2>7, <3>3, <3>4, <3>5 DEF ScFormed
      <4> QED BY <2>6, <2>7, <3>3, <3>4, <4>1 DEF ScFormed, ScParts
    <3>7. ~Unfinished(z) /\ n = z /\ v = WriteDone(where, z) /\ z.card.kind = m.card.kind
      <4>1. z.card.kind = m.card.kind
        BY <2>7, <3>3, <3>4 DEF ScParts
      <4> QED BY <1>4, <2>4, <2>11, <3>4, <4>1 DEF Unfinished, NorthStars
    <3>8. k \in Nat \ {0} /\ Closes(where, v)
      BY <1>1, <2>1, <3>7, FinishedIs
    <3>9. \A x \in HsDisks, o \in ScPlaces :
            z.shelf[x][o] = IF Commits(y) /\ x = d /\ o = q THEN b ELSE m.shelf[x][o]
      BY <2>6, <2>7, <3>3, <3>4, <3>5 DEF ScFormed
    <3>10. b # Pristine
      BY <2>1, <2>2, <3>1 DEF Pristine, AsItCame
    <3>11. ScWhole(z.shelf, v, FALSE)
      <4> SUFFICES ASSUME NEW x \in HsDisks, NEW o \in ScPlaces
                   PROVE  \/ z.shelf[x][o] = Pristine
                          \/ \E i \in 1..Len(v) :
                               /\ \A a \in Slots : z.shelf[x][o][a] = i
                               /\ v[i].done /\ ~v[i].left
                               /\ v[i].disk = x /\ v[i].place = o /\ ~v[i].ro
        BY DEF ScWhole
      <4>1. CASE Commits(y) /\ x = d /\ o = q
        <5>1. z.shelf[x][o] = b
          BY <3>9, <4>1
        <5>2. k \in 1..Len(v) /\ v[k].done /\ ~v[k].left /\ v[k].disk = x /\ v[k].place = o /\ ~v[k].ro
          BY <3>5, <3>8, <4>1 DEF Closes
        <5> QED BY <3>1, <5>1, <5>2
      <4>2. CASE ~(Commits(y) /\ x = d /\ o = q)
        <5>1. z.shelf[x][o] = m.shelf[x][o]
          BY <3>9, <4>2
        <5>2. m.card.kind # "vgmdc"
          BY DEF NorthStars
        <5>3. CASE m.shelf[x][o] = Pristine
          BY <5>1, <5>3
        <5>4. CASE m.shelf[x][o] # Pristine
          <6>1. PICK i \in 1..k : /\ \A a \in Slots : m.shelf[x][o][a] = i
                                  /\ where[i].done /\ ~where[i].left
                                  /\ where[i].disk = x /\ where[i].place = o /\ ~where[i].ro
            BY <5>2, <5>4 DEF NsSound, Shelved, ScWhole
          <6>2. i # k /\ v[i] = where[i] /\ i \in 1..Len(v)
            BY SMTT(30), <2>1, <3>8, <6>1 DEF Closes
          <6> QED BY <5>1, <6>1, <6>2
        <5> QED BY <5>3, <5>4
      <4> QED BY <4>1, <4>2
    <3>12. ScLands(z.shelf, v)
      <4> SUFFICES ASSUME NEW i \in 1..Len(v), v[i].done, ~v[i].left, ~v[i].ro, v[i].disk # NoDisk
                   PROVE  z.shelf[v[i].disk][v[i].place] # Pristine
        BY DEF ScLands
      <4>1. CASE i = k
        <5>1. Commits(y)
          BY <2>1, <3>2, <3>8, <4>1 DEF Closes, AtPlace, Real
        <5> QED BY <3>5, <3>8, <3>9, <3>10, <4>1, <5>1 DEF Closes
      <4>2. CASE i # k
        <5>1. v[i] = where[i] /\ i \in 1..k
          BY <3>8, <4>2 DEF Closes
        <5>2. m.shelf[v[i].disk][v[i].place] # Pristine
          BY <5>1 DEF NsSound, Shelved, ScLands
        <5>3. v[i].disk \in HsDisks
          <6>1. v[i].disk # NoDisk
            OBVIOUS
          <6>2. where[i] \in ScWrites
            BY SMTT(30), <5>1, <1>1
          <6> QED BY <5>1, <6>1, <6>2 DEF ScWrites, Disks
        <5>4. CASE v[i].place \in ScPlaces
          BY SMTT(30), <3>9, <3>10, <5>2, <5>3, <5>4
        <5>5. CASE v[i].place \notin ScPlaces
          <6>1. z.shelf[v[i].disk][v[i].place] = m.shelf[v[i].disk][v[i].place]
            BY <2>6, <2>7, <3>3, <3>4, <3>5, <5>3, <5>5 DEF ScFormed
          <6> QED BY SMTT(30), <5>2, <6>1
        <5> QED BY <5>4, <5>5
      <4> QED BY <4>1, <4>2
    <3>13. NsArms(z, v, t)
      BY <3>4, <3>8 DEF NsArms, Active, Closes
    <3>14. NsRead(z, t)
      <4>1. z.card.rdFor = m.card.rdFor
        BY <2>7, <3>3, <3>4 DEF ScParts
      <4> QED BY <1>4, <4>1 DEF NsSound, NsRead
    <3>15. NsWake(m) => NsWake(z)
      BY <2>7, <3>3, <3>4 DEF ScParts, NsWake
    <3>16. z.card.kind # "vgmdc" /\ v \in Seq(ScWrites)
      BY <3>7, <3>8 DEF NorthStars, Closes
    <3>17. Shelved(z, v)
      BY <3>11, <3>12, <3>16 DEF Shelved
    <3> QED BY <3>6, <3>7, <3>13, <3>14, <3>15, <3>17 DEF NsKeeps, NsSound
  <2> QED BY <2>10, <2>11
<1> QED BY <1>2, <1>3, <1>4 DEF NsSound, ScFormed

\* What the card becomes is the machine.
LEMMA NsBecomes ==
  ASSUME NEW m, NsGood(m, where', turned'), turned' \in Turns, guest' \in HsRigs, m.card.kind = guest'.kind, Becomes(m)
  PROVE  ScInv'
<1> DEFINE h == [card |-> card', bay |-> bay', shelf |-> shelf']
<1>1. h.card = m.card /\ h.bay = m.bay /\ h.shelf = m.shelf /\ DOMAIN h = {"card", "bay", "shelf"} /\ card' = m.card
  BY DEF Becomes
<1>2. h = HsMachine'
  BY DEF HsMachine
<1> HIDE DEF h
<1>3. Real(h) = Real(m) /\ Sel(h) = Sel(m) /\ Fits(h) = Fits(m)
  BY <1>1 DEF Real, Spins, HasDrive, Sel, Fits, VgDrive
<1>4. ScFormed(h)
  BY <1>1 DEF NsGood, NsSound, ScFormed
<1>5. NsRead(h, turned')
  BY <1>1, <1>3 DEF NsGood, NsSound, NsRead
<1>6. NsArms(h, where', turned')
  BY <1>1, <1>3 DEF NsGood, NsSound, NsArms, Active, AtPlace
<1>7. Shelved(h, where') /\ NsWake(h)
  BY <1>1 DEF NsGood, NsSound, Shelved, NsWake
<1>8. NsGood(h, where', turned')
  BY <1>1, <1>4, <1>5, <1>6, <1>7 DEF NsGood, NsSound
<1>9. card'.kind \in NorthStars /\ card'.kind # "vgmdc"
  BY <1>1 DEF NsGood, NorthStars
<1> QED BY <1>1, <1>2, <1>8, <1>9 DEF ScInv

\* A command to a North Star board.
LEMMA NsAccessKeeps ==
  ASSUME ScInv, NEW look, NEW c \in guest.commands, NsAccess(look, c)
  PROVE  ScInv'
<1>1. card.kind \in NorthStars /\ NsGood(HsMachine, where, turned) /\ turned \in Turns /\ guest \in HsRigs /\ card.kind = guest.kind
  BY DEF ScInv, NsAccess, ScIs
<1>2. PICK m : m = NsTick(HsMachine) /\ \E n \in {NsAccessed(m, look, c, turned)} :
            /\ Becomes(n)
            /\ where' = IF Begins(m, c, turned)
                        THEN Append(GivenUp(where), Begun(m, n, turned))
                        ELSE Seen(Seen(where, m, turned), n, turned)
  BY DEF NsAccess
<1>3. PICK n : n = NsAccessed(m, look, c, turned) /\ Becomes(n)
            /\ where' = IF Begins(m, c, turned)
                        THEN Append(GivenUp(where), Begun(m, n, turned))
                        ELSE Seen(Seen(where, m, turned), n, turned)
  BY <1>2
<1>4. turned' = turned /\ guest' = guest
  BY DEF NsAccess, HsStill
<1>5. NsKeeps(HsMachine, m, where, turned) /\ LookedAt(m)
  BY <1>1, <1>2, NsTickKeeps DEF NsGood
<1>6. NsSound(m, where, turned) /\ m.card.kind = card.kind /\ NsWake(m)
  BY <1>1, <1>5 DEF NsKeeps, NsGood, HsMachine
<1>7. m.card.kind = "mdsad" /\ c.op = "orders" => c.side \in 0..1
  BY <1>1, <1>6, SlotCardsAssumption
<1>8. m.card.kind \in NorthStars
  BY <1>1, <1>6
<1>9. CASE Begins(m, c, turned)
  <2>1. NsKeeps(m, n, where', turned)
    BY <1>1, <1>3, <1>5, <1>6, <1>7, <1>8, <1>9, AccessKeeps
  <2>2. NsGood(n, where', turned) /\ n.card.kind = guest.kind
    BY <1>1, <1>6, <2>1 DEF NsKeeps, NsGood
  <2> QED BY <1>1, <1>3, <1>4, <2>2, NsBecomes
<1>10. CASE ~Begins(m, c, turned)
  <2> DEFINE w == Seen(where, m, turned)
  <2>1. NsSound(m, w, turned)
    BY <1>1, <1>6, <1>8, SeenKeeps
  <2> HIDE DEF w
  <2>2. NsKeeps(m, n, w, turned)
    BY <1>1, <1>3, <1>5, <1>7, <1>8, <1>10, <2>1, AccessKeeps
  <2>3. where' = Seen(w, n, turned)
    BY <1>3, <1>10 DEF w
  <2>4. NsSound(n, where', turned)
    BY <1>1, <1>8, <2>2, <2>3, SeenKeeps DEF NsKeeps
  <2>5. NsGood(n, where', turned) /\ n.card.kind = guest.kind
    BY <1>1, <1>6, <2>2, <2>4 DEF NsKeeps, NsGood
  <2> QED BY <1>1, <1>3, <1>4, <2>5, NsBecomes
<1> QED BY <1>9, <1>10

\* A byte given to one.
LEMMA NsGiveKeeps ==
  ASSUME ScInv, NEW zero \in BOOLEAN, NsWrite(zero)
  PROVE  ScInv'
<1>1. card.kind \in NorthStars /\ NsGood(HsMachine, where, turned) /\ turned \in Turns /\ guest \in HsRigs /\ card.kind = guest.kind
  BY DEF ScInv, NsWrite, ScIs
<1>2. PICK m : m = NsTick(HsMachine) /\ \E n \in {NsWriteData(m, zero)} :
            /\ Becomes(n)
            /\ where' = IF n.card.wr = "done" /\ m.card.wr = "data" THEN WriteDone(where, n) ELSE where
  BY DEF NsWrite
<1>3. PICK n : n = NsWriteData(m, zero) /\ Becomes(n)
            /\ where' = IF n.card.wr = "done" /\ m.card.wr = "data" THEN WriteDone(where, n) ELSE where
  BY <1>2
<1>4. turned' = turned /\ guest' = guest
  BY DEF NsWrite, HsStill
<1>5. NsKeeps(HsMachine, m, where, turned) /\ LookedAt(m)
  BY <1>1, <1>2, NsTickKeeps DEF NsGood
<1>6. NsSound(m, where, turned) /\ m.card.kind = card.kind /\ NsWake(m)
  BY <1>1, <1>5 DEF NsKeeps, NsGood, HsMachine
<1>7. NsKeeps(m, n, where', turned)
  BY <1>1, <1>3, <1>5, <1>6, NsWriteKeeps
<1>8. NsGood(n, where', turned) /\ n.card.kind = guest.kind
  BY <1>1, <1>6, <1>7 DEF NsKeeps, NsGood
<1> QED BY <1>1, <1>3, <1>4, <1>8, NsBecomes

\* A deadline set anew.
LEMMA ScheduleKeeps ==
  ASSUME NEW m, NEW w, NEW t \in Turns, NsSound(m, w, t), NEW n, n = ScheduleWake(m, t)
  PROVE  NsSound(n, w, t) /\ NsWake(n) /\ n.card.kind = m.card.kind
<1>1. SameBut(m, n, {"wake"}) /\ ScFormed(n) /\ NsWake(n)
  BY ScheduleWakes DEF NsSound
<1>2. SameBut(m, n, LooseParts)
  BY <1>1 DEF SameBut, LooseParts
<1> QED BY <1>1, <1>2, LooselySound

\* To finish what is done.
LEMMA FinishedStill ==
  ASSUME NEW m, NEW w, NEW t, NsSound(m, w, t), m.card.kind \in NorthStars
  PROVE  WriteDone(w, m) = w
<1> DEFINE k == Len(w)
           e == [w[k] EXCEPT !.done = TRUE]
<1>1. CASE w = <<>> \/ Unfinished(m)
  BY <1>1 DEF WriteDone
<1>2. CASE w # <<>> /\ ~Unfinished(m)
  <2>1. m.card.wr = "done"
    BY <1>2 DEF Unfinished, NorthStars
  <2>2. w \in Seq(ScWrites) /\ k \in 1..Len(w) /\ w[k].done /\ w[k] \in ScWrites
    BY <1>2, <2>1 DEF NsSound, Shelved, NsArms
  <2>3. e = w[k]
    <3>1. w[k].done = TRUE
      BY <2>2 DEF ScWrites
    <3> QED BY <2>2, <3>1 DEF ScWrites
  <2>4. WriteDone(w, m) = [w EXCEPT ![k] = e]
    BY <1>2, <2>2 DEF WriteDone
  <2> HIDE DEF e
  <2> QED BY <2>2, <2>3, <2>4
<1> QED BY <1>1, <1>2

\* A disk put in a drive or taken out of it.
LEMMA NsChangeKeeps ==
  ASSUME NEW m, NEW w, NEW t, NsSound(m, w, t), m.card.kind \in NorthStars, NEW u \in Bays, NEW d \in Disks, NEW ro \in BOOLEAN,
         NEW n, n = ScChange(m, u, d, ro)
  PROVE  NsKeeps(m, n, w, t)
<1> DEFINE e == IF m.card.sel = u THEN EndSector(m) ELSE m
           b == [e.bay[u] EXCEPT !.disk = d, !.ro = ro]
           g == e.card.came \/ d # NoDisk
           s == [e EXCEPT !.bay = [e.bay EXCEPT ![u] = b], !.card.came = g]
<1>1. ScFormed(e) /\ SameBut(m, e, {"wr", "wrPos", "rdFor", "rdPos", "forced"}) /\ (m.card.sel = u => Between(e))
      /\ (m.card.sel # u => e = m)
  <2>1. ScFormed(m)
    BY DEF NsSound
  <2> QED BY <2>1, EndSectorIs DEF SameBut
<1>2. n = s
  <2>1. n = [e EXCEPT !.bay[u].disk = d, !.bay[u].ro = ro, !.card.came = @ \/ d # NoDisk]
    BY DEF ScChange, NorthStars
  <2>2. {"card", "bay"} \subseteq DOMAIN e /\ u \in DOMAIN e.bay
    BY <1>1 DEF ScFormed
  <2> HIDE DEF e
  <2> QED BY <2>1, <2>2
<1>3. g \in BOOLEAN
  OBVIOUS
<1>4. Bay(b)
  <2>1. Bay(e.bay[u])
    BY <1>1 DEF ScFormed
  <2> HIDE DEF e
  <2> QED BY <2>1 DEF Bay
<1> HIDE DEF e, b, g
<1>5. /\ s.bay = [e.bay EXCEPT ![u] = b] /\ s.shelf = e.shelf /\ DOMAIN s = DOMAIN e /\ DOMAIN s.card = DOMAIN e.card
      /\ s.card.came = g /\ \A x \in ScParts \ {"came"} : s.card[x] = e.card[x]
  BY <1>1 DEF ScFormed, ScParts
<1> HIDE DEF s
<1>6. ScFormed(s)
  <2>1. DOMAIN s.bay = Bays /\ \A v \in Bays : Bay(s.bay[v])
    BY <1>1, <1>4, <1>5 DEF ScFormed
  <2> QED BY <1>1, <1>3, <1>5, <2>1 DEF ScFormed, ScParts
<1>7. /\ s.card.kind = e.card.kind /\ s.card.sel = e.card.sel /\ s.card.motorOn = e.card.motorOn
      /\ s.card.lastReal = e.card.lastReal /\ s.card.crossedHole = e.card.crossedHole
      /\ s.card.wr = e.card.wr /\ s.card.wrDD = e.card.wrDD /\ s.card.wrPos = e.card.wrPos /\ s.card.wTrack = e.card.wTrack
      /\ s.card.wSector = e.card.wSector /\ s.card.wrSide = e.card.wrSide /\ s.card.wbuf = e.card.wbuf
      /\ s.card.rdFor = e.card.rdFor /\ s.card.rdValid = e.card.rdValid /\ s.card.rdSide = e.card.rdSide
      /\ s.card.buf = e.card.buf
      /\ s.card.armed = e.card.armed /\ s.card.strap = e.card.strap /\ s.card.wake = e.card.wake
  BY <1>5 DEF ScParts
<1>8. /\ e.card.kind = m.card.kind /\ e.card.sel = m.card.sel /\ e.shelf = m.shelf
      /\ e.card.armed = m.card.armed /\ e.card.strap = m.card.strap /\ e.card.wake = m.card.wake
  BY <1>1 DEF SameBut, ScParts
<1>9. CASE m.card.sel = u
  <2>1. Between(s)
    BY <1>1, <1>7, <1>9 DEF Between
  <2>2. NsSound(s, w, t)
    BY <1>5, <1>6, <1>7, <1>8, <2>1, BetweenSound DEF NsSound
  <2> QED BY <1>2, <1>7, <1>8, <2>2 DEF NsKeeps, NsWake
<1>10. CASE m.card.sel # u
  <2>1. e = m
    BY <1>1, <1>10
  <2>2. HasDrive(m) => m.card.sel \in Bays /\ s.bay[m.card.sel] = m.bay[m.card.sel]
    BY <1>5, <1>10, <2>1 DEF HasDrive, NsSound, ScFormed
  <2>3. Real(s) = Real(m) /\ (Real(m) => Sel(s) = Sel(m))
    BY <1>7, <2>1, <2>2 DEF Real, Spins, HasDrive, Sel
  <2>4. Real(m) => Fits(s) = Fits(m)
    BY <1>7, <2>1, <2>3 DEF Fits, NorthStars
  <2>5. NsRead(s, t)
    BY <1>5, <1>7, <2>1, <2>3 DEF NsSound, NsRead
  <2>6. NsArms(s, w, t)
    BY <1>7, <2>1, <2>3, <2>4 DEF NsSound, NsArms, Active, AtPlace
  <2>7. NsSound(s, w, t)
    BY <1>5, <1>6, <1>7, <2>1, <2>5, <2>6 DEF NsSound, Shelved
  <2> QED BY <1>2, <1>7, <2>1, <2>7 DEF NsKeeps, NsWake
<1> QED BY <1>9, <1>10

\* The operator at a North Star board.
LEMMA NsByHandKeeps ==
  ASSUME ScInv, card.kind \in NorthStars, NEW m, ScByHand(m), NsKeeps(HsMachine, m, where, turned) \/ (NsSound(m, where, turned) /\ NsWake(m) /\ m.card.kind = card.kind)
  PROVE  ScInv'
<1>1. NsGood(HsMachine, where, turned) /\ turned \in Turns /\ guest \in HsRigs /\ card.kind = guest.kind
  BY DEF ScInv
<1>2. NsSound(m, where, turned) /\ NsWake(m) /\ m.card.kind = card.kind
  BY <1>1 DEF NsKeeps, NsGood, HsMachine
<1>3. Becomes(m) /\ turned' = turned /\ guest' = guest /\ where' = WriteDone(Seen(where, m, turned), m)
  BY DEF ScByHand
<1>4. NsSound(m, Seen(where, m, turned), turned)
  BY <1>1, <1>2, SeenKeeps
<1>5. where' = Seen(where, m, turned)
  BY <1>2, <1>3, <1>4, FinishedStill
<1>6. NsGood(m, where', turned)
  BY <1>2, <1>4, <1>5 DEF NsGood
<1> QED BY <1>1, <1>2, <1>3, <1>6, NsBecomes

\* The operator's hands on a North Star card.
LEMMA NsHandsKeep ==
  ASSUME ScInv, card.kind \in NorthStars,
         \/ \E u \in Bays, d \in HsDisks, ro \in BOOLEAN : ScMount(u, d, ro)
         \/ \E u \in Bays : ScUnmount(u)
         \/ \E power \in BOOLEAN : ScReset(power)
  PROVE  ScInv'
<1>1. NsGood(HsMachine, where, turned) /\ turned \in Turns /\ HsMachine.card = card
  BY DEF ScInv, HsMachine
<1>2. NsSound(HsMachine, where, turned) /\ HsMachine.card.kind \in NorthStars /\ NsWake(HsMachine)
  BY <1>1 DEF NsGood
<1>3. CASE \E u \in Bays, d \in HsDisks, ro \in BOOLEAN : ScMount(u, d, ro)
  <2>1. PICK u \in Bays, d \in HsDisks, ro \in BOOLEAN : ScByHand(ScChange(HsMachine, u, d, ro))
    BY <1>3 DEF ScMount
  <2>2. d \in Disks
    BY DEF Disks
  <2>3. NsKeeps(HsMachine, ScChange(HsMachine, u, d, ro), where, turned)
    BY <1>2, <2>2, NsChangeKeeps
  <2> QED BY <2>1, <2>3, NsByHandKeeps
<1>4. CASE \E u \in Bays : ScUnmount(u)
  <2>1. PICK u \in Bays : ScByHand(ScChange(HsMachine, u, NoDisk, FALSE))
    BY <1>4 DEF ScUnmount
  <2>2. NoDisk \in Disks /\ FALSE \in BOOLEAN
    BY DEF Disks
  <2>3. NsKeeps(HsMachine, ScChange(HsMachine, u, NoDisk, FALSE), where, turned)
    BY <1>2, <2>2, NsChangeKeeps
  <2> QED BY <2>1, <2>3, NsByHandKeeps
<1>5. CASE \E power \in BOOLEAN : ScReset(power)
  <2> DEFINE h == HsMachine
  <2>1. \/ ScByHand(ScheduleWake(NsReset(h, turned), turned))
        \/ ScByHand(ScheduleWake(h, turned))
        \/ ScByHand(h)
    BY <1>5 DEF ScReset, NorthStars
  <2>2. NsSound(NsReset(h, turned), where, turned) /\ NsReset(h, turned).card.kind = card.kind
    BY <1>1, <1>2, NsResetKeeps
  <2>3. CASE ScByHand(ScheduleWake(NsReset(h, turned), turned))
    <3>1. /\ NsSound(ScheduleWake(NsReset(h, turned), turned), where, turned) /\ NsWake(ScheduleWake(NsReset(h, turned), turned))
          /\ ScheduleWake(NsReset(h, turned), turned).card.kind = card.kind
      BY <1>1, <2>2, ScheduleKeeps
    <3> QED BY <2>3, <3>1, NsByHandKeeps
  <2>4. CASE ScByHand(ScheduleWake(h, turned))
    <3>1. /\ NsSound(ScheduleWake(h, turned), where, turned) /\ NsWake(ScheduleWake(h, turned))
          /\ ScheduleWake(h, turned).card.kind = card.kind
      BY <1>1, <1>2, ScheduleKeeps
    <3> QED BY <2>4, <3>1, NsByHandKeeps
  <2>5. CASE ScByHand(h)
    <3>1. NsKeeps(h, h, where, turned)
      BY <1>2 DEF NsKeeps
    <3> QED BY <2>5, <3>1, NsByHandKeeps
  <2> QED BY <2>1, <2>3, <2>4, <2>5
<1> QED BY <1>3, <1>4, <1>5

\* A tick passes over a North Star board.
LEMMA NsTimePasses ==
  ASSUME NEW m, NEW w, NEW t \in Turns, NsSound(m, w, t), NEW u, u = (t + 1) % (HsSectorTicks * HsSectors),
         NEW n, ScFormed(n), SameBut(m, n, LooseParts \cup {"crossedHole"}),
         n.card.crossedHole = (m.card.crossedHole \/ Into(u) = 0)
  PROVE  NsSound(n, w, u)
<1>1. /\ n.card.kind = m.card.kind /\ n.card.sel = m.card.sel /\ n.card.motorOn = m.card.motorOn
      /\ n.card.lastReal = m.card.lastReal
      /\ n.card.wr = m.card.wr /\ n.card.wrDD = m.card.wrDD /\ n.card.wrPos = m.card.wrPos /\ n.card.wTrack = m.card.wTrack
      /\ n.card.wSector = m.card.wSector /\ n.card.wrSide = m.card.wrSide /\ n.card.wbuf = m.card.wbuf
      /\ n.card.rdFor = m.card.rdFor /\ n.card.rdValid = m.card.rdValid /\ n.card.rdSide = m.card.rdSide
      /\ n.card.buf = m.card.buf /\ n.card.unit = m.card.unit /\ n.card.head = m.card.head
      /\ n.bay = m.bay /\ n.shelf = m.shelf
  BY DEF SameBut, LooseParts, ScParts
<1>2. Real(n) = Real(m) /\ Sel(n) = Sel(m)
  BY <1>1 DEF Real, Spins, HasDrive, Sel
<1>3. Fits(n) = Fits(m)
  BY <1>1, <1>2 DEF Fits, VgDrive
<1>4. ~n.card.crossedHole => ~m.card.crossedHole /\ SectorAt(u) = SectorAt(t)
  BY TurnsOn
<1>5. NsRead(n, u)
  BY <1>1, <1>2, <1>4 DEF NsSound, NsRead
<1>6. NsArms(n, w, u)
  BY <1>1, <1>2, <1>3, <1>4 DEF NsSound, NsArms, Active, AtPlace
<1> QED BY <1>1, <1>5, <1>6 DEF NsSound, Shelved

\* Time on a North Star card.
LEMMA NsTimeKeeps ==
  ASSUME ScInv, card.kind \in NorthStars, ScTick
  PROVE  ScInv'
<1> DEFINE h == HsMachine
           k == [card EXCEPT !.motorIn = OneLess(@), !.wake = OneLess(@),
                             !.free = IF ScIs(NorthStars) THEN (@ + 1) % FreeTicks ELSE @,
                             !.crossedHole = ScIs(NorthStars) /\ (@ \/ Into(turned') = 0),
                             !.crossedFree = ScIs(NorthStars) /\ (@ \/ card.free + 1 = FreeTicks)]
           m == [h EXCEPT !.card = k]
           n == IF card.wake # 1 THEN m ELSE ScheduleWake(NsTick(m), turned')
<1>1. NsGood(h, where, turned) /\ turned \in Turns /\ guest \in HsRigs /\ card.kind = guest.kind
      /\ h.card = card /\ h.bay = bay /\ h.shelf = shelf /\ DOMAIN h = {"card", "bay", "shelf"}
  BY DEF ScInv, HsMachine
<1>2. turned' = (turned + 1) % (HsSectorTicks * HsSectors) /\ guest' = guest /\ turned' \in Turns
  BY <1>1, TurnsOn DEF ScTick
<1>3. Becomes(n) /\ where' = Seen(where, n, turned')
  <2>1. PICK mm \in {[HsMachine EXCEPT
            !.card = [card EXCEPT !.motorIn = OneLess(@), !.wake = OneLess(@),
                               !.free = IF ScIs(NorthStars) THEN (@ + 1) % FreeTicks ELSE @,
                               !.crossedHole = ScIs(NorthStars) /\ (@ \/ Into(turned') = 0),
                               !.crossedFree = ScIs(NorthStars) /\ (@ \/ card.free + 1 = FreeTicks)]]} :
                 \E nn \in {CASE card.wake # 1 -> mm
                              [] card.wake = 1 /\ card.kind = "vgmdc" -> VgTick(mm, turned')
                              [] OTHER -> ScheduleWake(NsTick(mm), turned')} :
                   /\ Becomes(nn)
                   /\ where' = IF card.kind = "vgmdc" THEN Seen(WriteDone(where, nn), nn, turned') ELSE Seen(where, nn, turned')
    BY DEF ScTick
  <2>2. mm = m
    OBVIOUS
  <2> HIDE DEF m
  <2> QED BY <2>1, <2>2 DEF NorthStars
<1>4. NsSound(h, where, turned) /\ NsWake(h) /\ ScFormed(h)
  BY <1>1 DEF NsGood, NsSound
<1>5. /\ DOMAIN k = DOMAIN card /\ k.wake = OneLess(card.wake) /\ k.free \in 0..(FreeTicks - 1)
      /\ k.crossedHole = (card.crossedHole \/ Into(turned') = 0)
      /\ \A x \in ScParts \ {"wake", "motorIn", "free", "crossedHole", "crossedFree"} : k[x] = card[x]
  <2>1. ScIs(NorthStars)
    BY DEF ScIs
  <2>2. /\ DOMAIN k = DOMAIN card /\ k.wake = OneLess(card.wake) /\ k.free = (card.free + 1) % FreeTicks
        /\ k.crossedHole = (card.crossedHole \/ Into(turned') = 0)
        /\ \A x \in ScParts \ {"wake", "motorIn", "free", "crossedHole", "crossedFree"} : k[x] = card[x]
    BY <1>1, <1>4, <2>1 DEF ScFormed, ScParts
  <2>3. (card.free + 1) % FreeTicks \in 0..(FreeTicks - 1)
    <3>1. card.free + 1 \in Nat
      BY <1>1, <1>4 DEF ScFormed
    <3> QED BY <3>1, Divided, ScConstants
  <2> QED BY <2>2, <2>3
<1> HIDE DEF k
<1>6. m.card = k /\ m.bay = h.bay /\ m.shelf = h.shelf /\ DOMAIN m = DOMAIN h
  BY <1>1
<1> HIDE DEF m
<1>7. SameBut(h, m, LooseParts \cup {"crossedHole"})
  BY <1>1, <1>5, <1>6 DEF SameBut, LooseParts
<1>8. m.card.kind = card.kind /\ m.card.armed = card.armed /\ m.card.strap = card.strap
  BY <1>5, <1>6 DEF ScParts
<1>9. ScFormed(m)
  <2>1. k.wake \in Nat
    BY <1>1, <1>4, <1>5 DEF ScFormed, OneLess
  <2>2. k.crossedHole \in BOOLEAN
    BY <1>5
  <2> QED BY <1>1, <1>4, <1>5, <1>6, <2>1, <2>2 DEF ScFormed, ScParts
<1>10. NsSound(m, where, turned')
  BY <1>1, <1>2, <1>4, <1>5, <1>6, <1>7, <1>9, NsTimePasses
<1>11. NsSound(n, where, turned') /\ NsWake(n) /\ n.card.kind = card.kind
  <2>1. CASE card.wake # 1
    <3>1. NsWake(m)
      BY <1>1, <1>4, <1>5, <1>6, <1>8, <2>1, ScConstants DEF NsWake, OneLess
    <3> QED BY <1>8, <1>10, <2>1, <3>1
  <2>2. CASE card.wake = 1
    <3>1. NsSound(NsTick(m), where, turned') /\ NsTick(m).card.kind = card.kind
      BY <1>8, <1>10, NsTickKeeps DEF NsKeeps
    <3> QED BY <1>2, <2>2, <3>1, ScheduleKeeps
  <2> QED BY <2>1, <2>2
<1> HIDE DEF n
<1>12. NsSound(n, where', turned')
  BY <1>2, <1>3, <1>11, SeenKeeps
<1>13. NsGood(n, where', turned') /\ n.card.kind = guest'.kind
  BY <1>1, <1>2, <1>11, <1>12 DEF NsGood
<1> QED BY <1>1, <1>2, <1>3, <1>13, NsBecomes

-----------------------------------------------------------------------------
(***************************************************************************)
(* The Micropolis board.                                                   *)
(***************************************************************************)
LEMMA RearmIs ==
  ASSUME NEW m, ScFormed(m), NEW t \in Turns, NEW n, n = VgRearm(m, t)
  PROVE  SameBut(m, n, {"wake", "came"}) /\ ScFormed(n) /\ VgWake(n, t)
<1> DEFINE at == IF (m.card.wrt \/ m.card.armed) /\ VgSpins(m) THEN HsSectorTicks - Into(t) ELSE NoTime
<1>1. n = [m EXCEPT !.card.wake = at, !.card.came = FALSE]
  BY DEF VgRearm
<1>2. at \in Nat /\ ((m.card.wrt \/ m.card.armed) /\ VgSpins(m) => at = HsSectorTicks - Into(t))
  BY TurnsOn, ScConstants DEF NoTime
<1> HIDE DEF at
<1>3. SameBut(m, n, {"wake", "came"}) /\ n.card.wake = at /\ n.card.came = FALSE
  BY ZenonT(60), <1>1 DEF SameBut, ScFormed, ScParts
<1>4. ScFormed(n)
  BY ZenonT(60), <1>2, <1>3 DEF SameBut, ScFormed, ScParts
<1>5. /\ n.card.armed = m.card.armed /\ n.card.wrt = m.card.wrt /\ n.card.selected = m.card.selected
      /\ n.card.unit = m.card.unit /\ n.bay = m.bay
  BY <1>3 DEF SameBut, ScParts
<1>6. VgSpins(n) = VgSpins(m)
  BY <1>5 DEF VgSpins, VgChosen, VgDrive
<1> QED BY <1>2, <1>3, <1>4, <1>5, <1>6 DEF VgWake

\* Registers a sector does not hang on.
VgLoose == {"wake", "came", "armed", "sf", "motorIn", "timedOut", "free", "crossedHole", "crossedFree", "selected", "wrPos"}
\* A Micropolis board that differs in loose registers is as sound.
LEMMA VgLooselySound ==
  ASSUME NEW m, NEW w, VgSound(m, w), NEW n, ScFormed(n), SameBut(m, n, VgLoose), m.card.wrt => n.card.selected = m.card.selected
  PROVE  VgSound(n, w)
<1>1. /\ n.card.kind = m.card.kind /\ n.card.rdFor = m.card.rdFor /\ n.card.buf = m.card.buf
      /\ n.card.unit = m.card.unit /\ n.card.head = m.card.head
      /\ n.card.wrt = m.card.wrt /\ n.card.wSector = m.card.wSector /\ n.card.wbuf = m.card.wbuf
      /\ n.bay = m.bay /\ n.shelf = m.shelf
  BY DEF SameBut, VgLoose, ScParts
<1>2. Fits(n) = Fits(m) /\ VgDrive(n) = VgDrive(m) /\ (m.card.wrt => VgSpins(n) = VgSpins(m))
  BY <1>1 DEF Fits, VgDrive, VgSound, VgSpins, VgChosen
<1>3. VgCache(n) /\ Unique(n) /\ Shelved(n, w)
  BY <1>1 DEF VgSound, VgCache, Unique, Shelved
<1>4. VgArms(n, w)
  BY <1>1, <1>2 DEF VgSound, VgArms, Stands
<1> QED BY <1>1, <1>3, <1>4 DEF VgSound

\* A write already done is not closed again.
LEMMA ClosesOnce ==
  ASSUME NEW w \in Seq(ScWrites), w # <<>> => w[Len(w)].done, NEW n
  PROVE  WriteDone(w, n) = w
<1> DEFINE k == Len(w)
           e == [w[k] EXCEPT !.done = TRUE]
<1>1. CASE w = <<>> \/ Unfinished(n)
  BY <1>1 DEF WriteDone
<1>2. CASE w # <<>> /\ ~Unfinished(n)
  <2>2. k \in 1..Len(w) /\ w[k].done /\ w[k] \in ScWrites
    BY <1>2
  <2>3. e = w[k]
    <3>1. w[k].done = TRUE
      BY <2>2 DEF ScWrites
    <3> QED BY <2>2, <3>1 DEF ScWrites
  <2>4. WriteDone(w, n) = [w EXCEPT ![k] = e]
    BY <1>2, <2>2 DEF WriteDone
  <2> HIDE DEF e
  <2> QED BY <2>2, <2>3, <2>4
<1> QED BY <1>1, <1>2

\* A sound board's record needs no closing.
LEMMA VgFinishedStill ==
  ASSUME NEW m, NEW w, VgSound(m, w)
  PROVE  WriteDone(w, m) = w
<1>1. w \in Seq(ScWrites) /\ (m.card.wrt = Unfinished(m))
  BY DEF VgSound, Shelved, Unfinished
<1>2. CASE m.card.wrt
  BY <1>1, <1>2 DEF WriteDone
<1>3. CASE ~m.card.wrt
  <2>1. w # <<>> => w[Len(w)].done
    BY <1>1, <1>3 DEF VgSound, VgArms
  <2> QED BY <1>1, <2>1, ClosesOnce
<1> QED BY <1>2, <1>3 DEF VgSound, ScFormed

\* endWrite: the slot is on the disk, and the write is done.
EndParts == {"wrt", "rdFor"}
\* endWrite: a write with the head still there is on the disk whole, one the head left is
\* wherever the head was, and nothing of it is lost from the record.
LEMMA EndWriteKeeps ==
  ASSUME NEW m, NEW w, VgSound(m, w), NEW n, n = EndWrite(m), NEW v, v = WriteDone(w, n)
  PROVE  /\ VgSound(n, v) /\ ~n.card.wrt /\ n.bay = m.bay /\ DOMAIN n.card = DOMAIN m.card
         /\ \A x \in ScParts \ EndParts : n.card[x] = m.card[x]
<1> DEFINE k == Len(w)
           e == [m EXCEPT !.card.wrt = FALSE, !.card.rdFor = Unread]
           d == VgDrive(m).disk
           q == <<Surface(VgDrive(m).track, m.card.head), m.card.wSector>>
           fits == ~(d = NoDisk \/ VgDrive(m).ro \/ ~HasSide(d, m.card.head))
           s == IF fits THEN [m.shelf EXCEPT ![d] = [@ EXCEPT ![q] = m.card.wbuf]] ELSE m.shelf
<1>1. CASE ~m.card.wrt
  <2>1. n = m
    BY <1>1 DEF EndWrite
  <2>2. v = w
    BY <2>1, VgFinishedStill
  <2> QED BY <1>1, <2>1, <2>2
<1>2. CASE m.card.wrt
  <2>1. /\ ScFormed(m) /\ m.card.kind = "vgmdc" /\ w \in Seq(ScWrites) /\ k \in Nat \ {0} /\ ~w[k].done
        /\ m.card.wSector \in SectorNumbers /\ \A i \in Slots : m.card.wbuf[i] \in {k, Skipped}
        /\ ~w[k].left => Stands(m, w[k])
    BY <1>2 DEF VgSound, VgArms, Shelved
  <2>2. /\ n.bay = m.bay /\ n.card = e.card /\ n.shelf = s /\ {"card", "bay", "shelf"} \subseteq DOMAIN n
    BY <1>2, <2>1 DEF EndWrite, ScFormed
  <2>3. /\ DOMAIN e.card = DOMAIN m.card /\ e.card.wrt = FALSE /\ e.card.rdFor = Unread
        /\ \A x \in ScParts \ EndParts : e.card[x] = m.card[x]
    BY <2>1 DEF ScFormed, ScParts, EndParts
  <2>4. Bay(VgDrive(m)) /\ m.card.head \in 0..1
    BY <2>1 DEF VgDrive, ScFormed
  <2>5. fits => d \in HsDisks
    BY <2>4 DEF Bay, Disks
  <2>6. q \in ScPlaces
    BY <2>1, <2>4, SurfaceIs DEF Bay, ScPlaces
  <2> HIDE DEF e
  <2>7. /\ DOMAIN n.shelf = HsDisks /\ \A x \in HsDisks : DOMAIN n.shelf[x] = ScPlaces
        /\ \A x \in HsDisks, o \in ScPlaces :
             n.shelf[x][o] = IF fits /\ x = d /\ o = q THEN m.card.wbuf ELSE m.shelf[x][o]
    <3>1. DOMAIN m.shelf = HsDisks /\ \A x \in HsDisks : DOMAIN m.shelf[x] = ScPlaces
      BY <2>1 DEF ScFormed
    <3> HIDE DEF fits, q, d
    <3> QED BY <2>2, <2>5, <2>6, <3>1
  <2>8. ScFormed(n)
    <3>1. /\ n.card.sel = m.card.sel /\ n.card.unit = m.card.unit /\ n.card.head = m.card.head /\ n.card.wrSide = m.card.wrSide
          /\ n.card.orders = m.card.orders /\ n.card.motorOn = m.card.motorOn /\ n.card.lastReal = m.card.lastReal
          /\ n.card.crossedHole = m.card.crossedHole /\ n.card.rdValid = m.card.rdValid
          /\ n.card.selected = m.card.selected /\ n.card.came = m.card.came /\ n.card.wr = m.card.wr
          /\ n.card.free = m.card.free /\ n.card.wake = m.card.wake /\ n.card.wbuf = m.card.wbuf
          /\ n.card.wrt = FALSE /\ DOMAIN n.card = DOMAIN m.card
      BY <2>2, <2>3 DEF ScParts, EndParts
    <3> QED BY <2>1, <2>2, <2>7, <3>1 DEF ScFormed
  <2>9. n.card.kind = "vgmdc" /\ n.card.rdFor = Unread /\ ~n.card.wrt
    BY <2>1, <2>2, <2>3 DEF ScParts, EndParts
  <2>10. Closes(w, v)
    <3>1. w # <<>> /\ ~Unfinished(n)
      BY <2>1, <2>9 DEF Unfinished
    <3> QED BY <2>1, <3>1, FinishedIs
  <2>11. VgCache(n) /\ Unique(n)
    BY <2>1, <2>2, <2>9 DEF VgSound, VgCache, Unique, Unread
  <2>12. VgArms(n, v)
    BY <2>9, <2>10 DEF VgArms, Closes
  <2>13. fits <=> d # NoDisk /\ Fits(m)
    BY <2>1 DEF Fits
  <2>14. ~w[k].left => w[k].disk = d /\ w[k].place = q /\ (fits <=> ~w[k].ro) /\ d # NoDisk
    BY <2>1, <2>13 DEF Stands, VgSpins, Fits, HasSide
  <2> HIDE DEF fits, q, d
  <2>15. ScWhole(n.shelf, v, TRUE)
    <3> SUFFICES ASSUME NEW x \in HsDisks, NEW o \in ScPlaces
                 PROVE  \/ n.shelf[x][o] = Pristine
                        \/ \E i \in 1..Len(v) :
                             /\ \A a \in Slots : n.shelf[x][o][a] = i \/ n.shelf[x][o][a] = Skipped
                             /\ ~v[i].left => v[i].disk = x /\ v[i].place = o /\ ~v[i].ro
      BY DEF ScWhole
    <3>1. CASE fits /\ x = d /\ o = q
      <4>1. n.shelf[x][o] = m.card.wbuf
        BY <2>7, <3>1
      <4>2. k \in 1..Len(v) /\ (~v[k].left => v[k].disk = x /\ v[k].place = o /\ ~v[k].ro)
        BY <2>1, <2>10, <2>14, <3>1 DEF Closes
      <4> QED BY <2>1, <4>1, <4>2
    <3>2. CASE ~(fits /\ x = d /\ o = q)
      <4>1. n.shelf[x][o] = m.shelf[x][o]
        BY <2>7, <3>2
      <4>2. CASE m.shelf[x][o] = Pristine
        BY <4>1, <4>2
      <4>3. CASE m.shelf[x][o] # Pristine
        <5>1. PICK i \in 1..k : /\ \A a \in Slots : m.shelf[x][o][a] = i \/ m.shelf[x][o][a] = Skipped
                                /\ ~w[i].left => w[i].disk = x /\ w[i].place = o /\ ~w[i].ro
          BY <2>1, <4>3 DEF VgSound, Shelved, ScWhole
        <5>2. i \in 1..Len(v) /\ (~v[i].left => v[i].disk = x /\ v[i].place = o /\ ~v[i].ro)
          <6>1. CASE i = k
            BY <2>10, <5>1, <6>1 DEF Closes
          <6>2. CASE i # k
            BY <2>10, <5>1, <6>2 DEF Closes
          <6> QED BY <6>1, <6>2
        <5> QED BY <4>1, <5>1, <5>2
      <4> QED BY <4>2, <4>3
    <3> QED BY <3>1, <3>2
  <2>16. m.card.wbuf # Pristine
    <3>1. 1 \in Slots
      BY ScConstants DEF Slots
    <3>2. m.card.wbuf[1] # 0
      BY <2>1, <3>1 DEF Skipped
    <3> QED BY <3>1, <3>2 DEF Pristine, AsItCame
  <2>17. ScLands(n.shelf, v)
    <3> SUFFICES ASSUME NEW i \in 1..Len(v), v[i].done, ~v[i].left, ~v[i].ro, v[i].disk # NoDisk
                 PROVE  n.shelf[v[i].disk][v[i].place] # Pristine
      BY DEF ScLands
    <3>1. CASE i = k
      <4>1. fits /\ v[i].disk = d /\ v[i].place = q
        BY <2>10, <2>14, <3>1 DEF Closes
      <4> QED BY <2>5, <2>6, <2>7, <2>16, <4>1
    <3>2. CASE i # k
      <4>1. v[i] = w[i] /\ i \in 1..k
        BY <2>10, <3>2 DEF Closes
      <4>2. m.shelf[v[i].disk][v[i].place] # Pristine
        BY <4>1 DEF VgSound, Shelved, ScLands
      <4>3. v[i].disk \in HsDisks
        <5>1. w[i] \in ScWrites
          BY <2>1, <4>1
        <5> QED BY <4>1, <5>1 DEF ScWrites, Disks
      <4>4. CASE v[i].place \in ScPlaces
        BY <2>7, <2>16, <4>2, <4>3, <4>4
      <4>5. CASE v[i].place \notin ScPlaces
        <5>1. n.shelf[v[i].disk][v[i].place] = m.shelf[v[i].disk][v[i].place]
          BY <2>1, <2>2, <2>5, <2>6, <4>3, <4>5 DEF ScFormed
        <5> QED BY <4>2, <5>1
      <4> QED BY <4>4, <4>5
    <3> QED BY <3>1, <3>2
  <2>18. Shelved(n, v)
    BY <2>9, <2>10, <2>15, <2>17 DEF Shelved, Closes
  <2>19. VgSound(n, v)
    BY <2>8, <2>9, <2>11, <2>12, <2>18 DEF VgSound
  <2> QED BY <2>2, <2>3, <2>9, <2>19
<1> QED BY <1>1, <1>2 DEF VgSound, ScFormed

\* Closing twice is closing once.
LEMMA FinishedAgain ==
  ASSUME NEW w \in Seq(ScWrites), NEW x, NEW n, x.card.kind = "vgmdc", n.card.kind = "vgmdc", x.card.wrt \/ ~n.card.wrt
  PROVE  WriteDone(WriteDone(w, x), n) = WriteDone(w, n)
<1>1. (Unfinished(x) <=> x.card.wrt) /\ (Unfinished(n) <=> n.card.wrt)
  BY DEF Unfinished
<1>2. CASE w = <<>> \/ Unfinished(x)
  BY <1>2 DEF WriteDone
<1>3. CASE w # <<>> /\ ~Unfinished(x)
  <2> DEFINE v == WriteDone(w, x)
  <2>1. Closes(w, v) /\ WriteDone(w, n) = v
    BY <1>1, <1>3, FinishedIs DEF WriteDone
  <2> HIDE DEF v
  <2>2. v \in Seq(ScWrites) /\ (v # <<>> => v[Len(v)].done)
    BY <2>1 DEF Closes
  <2> QED BY <2>1, <2>2, ClosesOnce DEF v
<1> QED BY <1>2, <1>3

\* RESET, or the drives timed out.
LEMMA VgResetKeeps ==
  ASSUME NEW m, NEW w, VgSound(m, w), NEW t \in Turns, NEW n, n = VgReset(m, t)
  PROVE  /\ VgSound(n, WriteDone(w, n)) /\ VgWake(n, t) /\ ~n.card.wrt /\ ~n.card.selected
         /\ n.card.timedOut = m.card.timedOut
<1> DEFINE e == EndWrite(m)
           v == WriteDone(w, e)
           y == [e EXCEPT !.card.selected = FALSE, !.card.armed = FALSE, !.card.sf = FALSE]
<1>0. e = EndWrite(m) /\ v = WriteDone(w, e)
  OBVIOUS
<1>1. /\ VgSound(e, v) /\ ~e.card.wrt /\ e.card.timedOut = m.card.timedOut
  <2> HIDE DEF e, v
  <2>1. /\ VgSound(e, v) /\ ~e.card.wrt
        /\ \A x \in ScParts \ EndParts : e.card[x] = m.card[x]
    BY ONLY VgSound(m, w), <1>0, EndWriteKeeps
  <2>2. "timedOut" \in ScParts \ EndParts
    BY DEF ScParts, EndParts
  <2> QED BY <2>1, <2>2
<1>2. n = VgRearm(y, t)
  BY DEF VgReset
<1> HIDE DEF e, v
<1>3. SameBut(e, y, {"selected", "armed", "sf"}) /\ y.card.selected = FALSE
  BY <1>1 DEF VgSound, SameBut, ScFormed, ScParts
<1> HIDE DEF y
<1>4. ScFormed(y) /\ SameBut(e, y, VgLoose)
  BY ZenonT(60), <1>1, <1>3 DEF VgSound, SameBut, ScFormed, ScParts, VgLoose
<1>5. VgSound(y, v)
  BY <1>1, <1>4, VgLooselySound
<1>6. SameBut(y, n, {"wake", "came"}) /\ ScFormed(n) /\ VgWake(n, t)
  BY <1>2, <1>4, RearmIs
<1>7. SameBut(y, n, VgLoose) /\ n.card.wrt = e.card.wrt /\ n.card.selected = y.card.selected /\ n.card.kind = e.card.kind
      /\ n.card.timedOut = e.card.timedOut
  BY <1>3, <1>6 DEF SameBut, ScParts, VgLoose
<1>8. VgSound(n, v)
  BY <1>5, <1>6, <1>7, VgLooselySound
<1>9. WriteDone(w, n) = v
  BY <1>1, <1>7 DEF WriteDone, Unfinished, v, VgSound
<1> QED BY <1>1, <1>3, <1>6, <1>7, <1>8, <1>9

\* The look: the motor's time is up, which ends a write, or nothing changes.
LEMMA SettleKeeps ==
  ASSUME NEW m, NEW w, VgSound(m, w), NEW t \in Turns, NEW n, n = Settle(m, t)
  PROVE  /\ VgSound(n, WriteDone(w, n)) /\ (VgWake(m, t) => VgWake(n, t))
         /\ n = m \/ (~n.card.wrt /\ ~n.card.selected /\ n.card.timedOut = TRUE)
<1> DEFINE y == [m EXCEPT !.card.timedOut = TRUE]
<1>1. CASE n = m
  BY <1>1, VgFinishedStill
<1>2. CASE n # m
  <2>1. n = VgReset(y, t)
    BY <1>2 DEF Settle
  <2>2. SameBut(m, y, {"timedOut"}) /\ y.card.timedOut = TRUE
    BY DEF VgSound, SameBut, ScFormed, ScParts
  <2> HIDE DEF y
  <2>3. ScFormed(y) /\ SameBut(m, y, VgLoose) /\ y.card.selected = m.card.selected
    BY <2>2 DEF VgSound, SameBut, ScFormed, ScParts, VgLoose
  <2>4. VgSound(y, w)
    BY <2>3, VgLooselySound
  <2> QED BY <2>1, <2>2, <2>4, VgResetKeeps
<1> QED BY <1>1, <1>2

\* slotUnderHead.
LEMMA SlotUnderHeadKeeps ==
  ASSUME NEW m, NEW w, VgSound(m, w), NEW t \in Turns, NEW n, n = SlotUnderHead(m, t)
  PROVE  VgSound(n, w) /\ SameBut(m, n, {"rdFor", "buf"})
<1> DEFINE b == IF HasSide(VgDrive(m).disk, m.card.head)
                THEN m.shelf[VgDrive(m).disk][<<Surface(VgDrive(m).track, m.card.head), SectorAt(t)>>]
                ELSE [i \in Slots |-> Skipped]
           y == [m EXCEPT !.card.rdFor = KeyOf(m, t), !.card.buf = b]
<1>1. CASE n = m
  BY <1>1 DEF SameBut
<1>2. CASE n # m
  <2>1. n = y
    BY <1>2 DEF SlotUnderHead
  <2> HIDE DEF b
  <2>2. SameBut(m, y, {"rdFor", "buf"}) /\ y.card.rdFor = KeyOf(m, t) /\ y.card.buf = b
    BY DEF VgSound, SameBut, ScFormed, ScParts
  <2> HIDE DEF y
  <2>3. ScFormed(y)
    BY <2>2 DEF VgSound, SameBut, ScFormed, ScParts
  <2>4. /\ y.card.kind = m.card.kind /\ y.card.unit = m.card.unit /\ y.card.head = m.card.head
        /\ y.card.selected = m.card.selected
        /\ y.card.wrt = m.card.wrt /\ y.card.wSector = m.card.wSector /\ y.card.wbuf = m.card.wbuf
        /\ y.bay = m.bay /\ y.shelf = m.shelf
    BY <2>2 DEF SameBut, ScParts
  <2>5. VgCache(y)
    <3> SUFFICES ASSUME NEW u \in Bays, NEW h \in 0..1, NEW k \in TrackNumbers, NEW s \in SectorNumbers,
                        KeyOf(m, t) = <<u, h, k, s>>, m.bay[u].disk # NoDisk, HasSide(m.bay[u].disk, h)
                 PROVE  b = m.shelf[m.bay[u].disk][<<Surface(k, h), s>>]
      BY <2>2, <2>4 DEF VgCache
    <3>1. m.card.unit = u /\ m.card.head = h /\ VgDrive(m).track = k /\ SectorAt(t) = s
      BY DEF KeyOf
    <3> QED BY <3>1 DEF b, VgDrive
  <2>6. Fits(y) = Fits(m) /\ VgDrive(y) = VgDrive(m) /\ VgSpins(y) = VgSpins(m)
    BY <2>4 DEF Fits, VgDrive, VgSound, VgSpins, VgChosen
  <2>7. Unique(y) /\ Shelved(y, w)
    BY <2>4 DEF VgSound, Unique, Shelved
  <2>8. VgArms(y, w)
    BY <2>4, <2>6 DEF VgSound, VgArms, Stands
  <2> QED BY <2>1, <2>2, <2>3, <2>4, <2>5, <2>7, <2>8 DEF VgSound
<1> QED BY <1>1, <1>2

\* A read.
LEMMA VgReadKeeps ==
  ASSUME NEW m, NEW w, VgSound(m, w), NEW t \in Turns, NEW look, NEW n, n = VgRead(m, look, t)
  PROVE  VgSound(n, WriteDone(w, n)) /\ (VgWake(m, t) => VgWake(n, t))
<1> DEFINE e == Settle(m, t)
           v == WriteDone(w, e)
           s == [e EXCEPT !.card.motorIn = MotorTicks, !.card.timedOut = FALSE]
<1>1. n = s \/ n = SlotUnderHead(s, t)
  BY DEF VgRead
<1>2. VgSound(e, v) /\ (VgWake(m, t) => VgWake(e, t))
  BY SettleKeeps
<1> HIDE DEF e, v
<1>3. SameBut(e, s, {"motorIn", "timedOut"})
  BY <1>2 DEF VgSound, SameBut, ScFormed, ScParts
<1> HIDE DEF s
<1>4. ScFormed(s) /\ SameBut(e, s, VgLoose) /\ s.card.selected = e.card.selected
  BY <1>2, <1>3 DEF VgSound, SameBut, ScFormed, ScParts, VgLoose
<1>5. VgSound(s, v)
  BY <1>2, <1>4, VgLooselySound
<1>6. VgSound(n, v) /\ SameBut(e, n, {"motorIn", "timedOut", "rdFor", "buf"})
  BY <1>1, <1>3, <1>5, SlotUnderHeadKeeps DEF SameBut
<1>7. /\ n.card.wake = e.card.wake /\ n.card.came = e.card.came /\ n.card.armed = e.card.armed /\ n.card.wrt = e.card.wrt
      /\ n.card.selected = e.card.selected /\ n.card.unit = e.card.unit /\ n.bay = e.bay /\ n.card.kind = e.card.kind
  BY <1>6 DEF SameBut, ScParts
<1>8. VgWake(e, t) => VgWake(n, t)
  BY <1>7 DEF VgWake, VgSpins, VgChosen, VgDrive
<1>9. WriteDone(w, n) = v
  BY <1>2, <1>7 DEF WriteDone, Unfinished, v, VgSound
<1> QED BY <1>2, <1>6, <1>8, <1>9

\* writeData.
LEMMA VgWriteKeeps ==
  ASSUME NEW m, VgSound(m, where), NEW t \in Turns, NEW n, n = VgWriteData(m, t)
  PROVE  VgSound(n, where) /\ (VgWake(m, t) => VgWake(n, t)) /\ n.card.wrt = m.card.wrt
<1> DEFINE b == [i \in Slots |-> IF i = m.card.wrPos + 1 THEN Len(where) ELSE m.card.wbuf[i]]
           y == [m EXCEPT !.card.wbuf = b, !.card.wrPos = IF @ > HsBytes THEN @ ELSE @ + 1]
<1>1. CASE n = m
  BY <1>1
<1>2. CASE n # m
  <2>1. n = y /\ m.card.wrt
    BY <1>2 DEF VgWriteData
  <2>2. \A i \in Slots : b[i] \in {Len(where), Skipped}
    BY <2>1 DEF VgSound, VgArms
  <2>3. DOMAIN b = Slots
    OBVIOUS
  <2> HIDE DEF b
  <2>4. SameBut(m, y, {"wbuf", "wrPos"}) /\ y.card.wbuf = b
    BY DEF VgSound, SameBut, ScFormed, ScParts
  <2> HIDE DEF y
  <2>5. ScFormed(y)
    BY <2>3, <2>4 DEF VgSound, SameBut, ScFormed, ScParts
  <2>6. /\ y.card.kind = m.card.kind /\ y.card.rdFor = m.card.rdFor /\ y.card.buf = m.card.buf
        /\ y.card.unit = m.card.unit /\ y.card.head = m.card.head /\ y.card.selected = m.card.selected
        /\ y.card.wrt = m.card.wrt /\ y.card.wSector = m.card.wSector
        /\ y.card.wake = m.card.wake /\ y.card.came = m.card.came /\ y.card.armed = m.card.armed
        /\ y.bay = m.bay /\ y.shelf = m.shelf
    BY <2>4 DEF SameBut, ScParts
  <2>7. Fits(y) = Fits(m) /\ VgDrive(y) = VgDrive(m) /\ VgSpins(y) = VgSpins(m)
    BY <2>6 DEF Fits, VgDrive, VgSound, VgSpins, VgChosen
  <2>8. VgCache(y) /\ Unique(y) /\ Shelved(y, where)
    BY <2>6 DEF VgSound, VgCache, Unique, Shelved
  <2>9. VgArms(y, where)
    BY <2>1, <2>2, <2>4, <2>6, <2>7 DEF VgSound, VgArms, Stands
  <2>10. VgWake(m, t) => VgWake(y, t)
    BY <2>6, <2>7 DEF VgWake
  <2> QED BY <2>1, <2>5, <2>6, <2>8, <2>9, <2>10 DEF VgSound
<1> QED BY <1>1, <1>2

\* A write the head left may be where it likes.
LEMMA LeftShelved ==
  ASSUME NEW m, m.card.kind = "vgmdc", NEW w, Shelved(m, w), NEW v, v \in Seq(ScWrites), Len(v) = Len(w),
         \A i \in 1..Len(w) : /\ v[i].disk = w[i].disk /\ v[i].place = w[i].place /\ v[i].ro = w[i].ro
                              /\ v[i].left \/ (v[i].left = w[i].left /\ v[i].done = w[i].done)
  PROVE  Shelved(m, v)
<1>1. w \in Seq(ScWrites) /\ Len(w) \in Nat
  BY DEF Shelved
<1>2. \A i \in 1..Len(w) : ~v[i].left => ~w[i].left /\ (v[i].done => w[i].done)
  OBVIOUS
<1>3. ScWhole(m.shelf, v, TRUE)
  BY <1>1, <1>2 DEF Shelved, ScWhole
<1>4. ScLands(m.shelf, v)
  BY <1>1, <1>2 DEF Shelved, ScLands
<1> QED BY <1>3, <1>4 DEF Shelved

\* The history after the head may have moved: the last write, if it is not done, has been left, or the head
\* is where it was.
LEMMA SeenIs ==
  ASSUME NEW w \in Seq(ScWrites), NEW m, NEW t, NEW v, v = Seen(w, m, t)
  PROVE  \/ v = w /\ (w # <<>> /\ ~w[Len(w)].done => /\ w[Len(w)].disk # NoDisk
                                                     /\ PlaceUnder(m, t) = <<w[Len(w)].disk, w[Len(w)].place>>)
         \/ /\ w # <<>> /\ ~w[Len(w)].done /\ Len(w) \in Nat \ {0}
            /\ v \in Seq(ScWrites) /\ Len(v) = Len(w) /\ v[Len(w)].left /\ ~v[Len(w)].done
            /\ v[Len(w)].disk = w[Len(w)].disk /\ v[Len(w)].place = w[Len(w)].place /\ v[Len(w)].ro = w[Len(w)].ro
            /\ \A i \in 1..Len(w) : i # Len(w) => v[i] = w[i]
<1> DEFINE k == Len(w)
           e == [w[k] EXCEPT !.left = TRUE]
           y == [w EXCEPT ![k] = e]
<1>1. CASE v = w /\ (w # <<>> /\ ~w[k].done => w[k].disk # NoDisk /\ PlaceUnder(m, t) = <<w[k].disk, w[k].place>>)
  BY <1>1
<1>2. CASE ~(v = w /\ (w # <<>> /\ ~w[k].done => w[k].disk # NoDisk /\ PlaceUnder(m, t) = <<w[k].disk, w[k].place>>))
  <2>1. w # <<>> /\ ~w[k].done
    BY <1>2 DEF Seen
  <2>2. k \in 1..Len(w) /\ w[k] \in ScWrites /\ k \in Nat \ {0}
    BY <2>1
  <2>3. v = y
    BY <1>2, <2>1, <2>2 DEF Seen
  <2>4. e \in ScWrites /\ e.left /\ e.disk = w[k].disk /\ e.place = w[k].place /\ e.ro = w[k].ro /\ e.done = w[k].done
    BY <2>2 DEF ScWrites
  <2> HIDE DEF e
  <2>5. y \in Seq(ScWrites) /\ Len(y) = k /\ y[k] = e /\ \A i \in 1..k : i # k => y[i] = w[i]
    BY <2>2, <2>4
  <2> HIDE DEF y
  <2> QED BY <2>1, <2>2, <2>3, <2>4, <2>5
<1> QED BY <1>1, <1>2

\* A surface is of one track and one side.
LEMMA SurfaceOne ==
  ASSUME NEW k \in TrackNumbers, NEW l \in TrackNumbers, NEW h \in 0..1, NEW g \in 0..1, Surface(k, h) = Surface(l, g)
  PROVE  k = l /\ h = g
<1>1. (h = 0 \/ h = 1) /\ (g = 0 \/ g = 1)
  OBVIOUS
<1>2. /\ k + (0 * HsTracks) = k /\ k + (1 * HsTracks) = k + HsTracks
      /\ l + (0 * HsTracks) = l /\ l + (1 * HsTracks) = l + HsTracks
  BY ScConstants DEF TrackNumbers
<1> QED BY <1>1, <1>2, ScConstants DEF Surface, TrackNumbers

\* The head, or what is under it, may have moved; the slot the card keeps is the same.
LEMMA VgMoves ==
  ASSUME NEW m, NEW w, VgSound(m, w), NEW t \in Turns, NEW n, ScFormed(n), n.card.kind = "vgmdc", VgCache(n), Unique(n),
         n.shelf = m.shelf, n.card.wrt = m.card.wrt, n.card.wSector = m.card.wSector, n.card.wbuf = m.card.wbuf,
         VgDrive(n).disk = VgDrive(m).disk /\ VgDrive(m).disk # NoDisk => VgDrive(n).ro = VgDrive(m).ro,
         NEW v, v = WriteDone(Seen(w, n, t), n)
  PROVE  VgSound(n, v)
<1> DEFINE s == Seen(w, n, t)
           k == Len(w)
<1>1. w \in Seq(ScWrites) /\ Shelved(n, w) /\ (Unfinished(n) <=> n.card.wrt) /\ VgArms(m, w) /\ ScFormed(m) /\ m.card.kind = "vgmdc"
  BY DEF VgSound, Shelved, Unfinished
<1>2. \/ s = w /\ (w # <<>> /\ ~w[k].done => w[k].disk # NoDisk /\ PlaceUnder(n, t) = <<w[k].disk, w[k].place>>)
      \/ /\ w # <<>> /\ ~w[k].done /\ k \in Nat \ {0}
         /\ s \in Seq(ScWrites) /\ Len(s) = k /\ s[k].left /\ ~s[k].done
         /\ s[k].disk = w[k].disk /\ s[k].place = w[k].place /\ s[k].ro = w[k].ro
         /\ \A i \in 1..k : i # k => s[i] = w[i]
  BY <1>1, SeenIs
<1>3. CASE ~m.card.wrt
  <2>1. w # <<>> => w[k].done
    BY <1>1, <1>3 DEF VgArms
  <2>2. s = w
    BY <1>2, <2>1
  <2>3. v = w
    BY <1>1, <2>1, <2>2, ClosesOnce
  <2>4. VgArms(n, w)
    BY <1>1, <1>3 DEF VgArms
  <2> QED BY <1>1, <2>3, <2>4 DEF VgSound
<1>4. CASE m.card.wrt /\ s # w
  <2>1. v = s
    BY <1>1, <1>4 DEF WriteDone
  <2>2. /\ w # <<>> /\ ~w[k].done /\ k \in Nat \ {0}
        /\ s \in Seq(ScWrites) /\ Len(s) = k /\ s[k].left /\ ~s[k].done
        /\ s[k].disk = w[k].disk /\ s[k].place = w[k].place /\ s[k].ro = w[k].ro
        /\ \A i \in 1..k : i # k => s[i] = w[i]
    BY <1>2, <1>4
  <2> HIDE DEF s, k
  <2>3. \A i \in 1..k : /\ s[i].disk = w[i].disk /\ s[i].place = w[i].place /\ s[i].ro = w[i].ro
                        /\ s[i].left \/ (s[i].left = w[i].left /\ s[i].done = w[i].done)
    BY <2>2
  <2>4. Shelved(n, s)
    BY <1>1, <2>2, <2>3, LeftShelved DEF k
  <2>5. VgArms(n, s)
    BY <1>1, <1>4, <2>2 DEF VgArms, k
  <2> QED BY <2>1, <2>4, <2>5 DEF VgSound
<1>5. CASE m.card.wrt /\ s = w
  <2>1. v = w
    BY <1>1, <1>5 DEF WriteDone
  <2>2. /\ k # 0 /\ ~w[k].done /\ m.card.wSector \in SectorNumbers /\ \A i \in Slots : m.card.wbuf[i] \in {k, Skipped}
        /\ ~w[k].left => Stands(m, w[k])
    BY <1>1, <1>5 DEF VgArms
  <2>3. ASSUME ~w[k].left
        PROVE  Stands(n, w[k])
    <3> DEFINE there == <<Surface(VgDrive(n).track, n.card.head), SectorAt(t)>>
    <3>1. /\ w[k].disk = VgDrive(m).disk /\ w[k].place = <<Surface(VgDrive(m).track, m.card.head), m.card.wSector>>
          /\ w[k].ro = ~Fits(m)
      BY <2>2, <2>3 DEF Stands
    <3>2. PlaceUnder(n, t) = <<w[k].disk, w[k].place>> /\ w[k].disk # NoDisk
      <4>1. w # <<>> /\ (s = w => ~s[k].left)
        BY <2>2, <2>3
      <4> QED BY <1>2, <1>5, <2>2, <4>1
    <3>3. /\ VgSpins(n) => PlaceUnder(n, t) = <<VgDrive(n).disk, there>>
          /\ ~VgSpins(n) => PlaceUnder(n, t) = <<>>
      BY DEF PlaceUnder
    <3>4. VgSpins(n) /\ w[k].disk = VgDrive(n).disk /\ w[k].place = there
      <4> HIDE DEF there
      <4>1. <<>> # <<w[k].disk, w[k].place>>
        OBVIOUS
      <4>2. VgSpins(n)
        BY <3>2, <3>3, <4>1
      <4>3. <<w[k].disk, w[k].place>> = <<VgDrive(n).disk, there>>
        BY <3>2, <3>3, <4>2
      <4> QED BY <4>2, <4>3
    <3>5. Surface(VgDrive(m).track, m.card.head) = Surface(VgDrive(n).track, n.card.head) /\ m.card.wSector = SectorAt(t)
      BY <3>1, <3>4
    <3>6. /\ VgDrive(m).track \in TrackNumbers /\ VgDrive(n).track \in TrackNumbers /\ m.card.head \in 0..1 /\ n.card.head \in 0..1
      BY <1>1 DEF ScFormed, VgDrive, Bay
    <3>7. m.card.head = n.card.head
      BY <3>5, <3>6, SurfaceOne
    <3>8. VgDrive(n).ro = VgDrive(m).ro
      BY <3>1, <3>2, <3>4
    <3>9. Fits(n) = Fits(m)
      BY <1>1, <3>1, <3>4, <3>7, <3>8 DEF Fits
    <3> QED BY <3>1, <3>4, <3>5, <3>9 DEF Stands
  <2>7. VgArms(n, w)
    BY <1>5, <2>2, <2>3 DEF VgArms
  <2> QED BY <1>1, <2>1, <2>7 DEF VgSound
<1> QED BY <1>3, <1>4, <1>5 DEF VgSound, ScFormed

\* A write that has ended, the head wherever it is.
LEMMA VgEnded ==
  ASSUME NEW n, NEW w \in Seq(ScWrites), VgSound(n, WriteDone(w, n)), ~n.card.wrt, NEW t,
         NEW v, v = WriteDone(Seen(w, n, t), n)
  PROVE  VgSound(n, v)
<1> DEFINE s == Seen(w, n, t)
           k == Len(w)
           f == WriteDone(w, n)
<1>1. ~Unfinished(n) /\ n.card.kind = "vgmdc"
  BY DEF VgSound, Unfinished
<1>2. CASE s = w
  BY <1>2
<1>3. CASE s # w
  <2>1. /\ w # <<>> /\ k \in Nat \ {0}
        /\ s \in Seq(ScWrites) /\ Len(s) = k /\ s[k].left
        /\ s[k].disk = w[k].disk /\ s[k].place = w[k].place /\ s[k].ro = w[k].ro
        /\ \A i \in 1..k : i # k => s[i] = w[i]
    BY <1>3, SeenIs
  <2>2. Closes(w, f)
    BY <1>1, <2>1, FinishedIs
  <2>3. Closes(s, v)
    <3>1. s # <<>>
      BY <2>1
    <3> QED BY <1>1, <2>1, <3>1, FinishedIs
  <2> HIDE DEF s, f
  <2>4. v \in Seq(ScWrites) /\ Len(v) = Len(f) /\ Len(f) = k
    BY <2>1, <2>2, <2>3 DEF Closes
  <2>5. \A i \in 1..Len(f) : /\ v[i].disk = f[i].disk /\ v[i].place = f[i].place /\ v[i].ro = f[i].ro
                             /\ v[i].left \/ (v[i].left = f[i].left /\ v[i].done = f[i].done)
    <3> SUFFICES ASSUME NEW i \in 1..k
                 PROVE  /\ v[i].disk = f[i].disk /\ v[i].place = f[i].place /\ v[i].ro = f[i].ro
                        /\ v[i].left \/ (v[i].left = f[i].left /\ v[i].done = f[i].done)
      BY <2>4
    <3>1. CASE i = k
      BY <2>1, <2>2, <2>3, <3>1 DEF Closes
    <3>2. CASE i # k
      BY <2>1, <2>2, <2>3, <3>2 DEF Closes
    <3> QED BY <3>1, <3>2
  <2>6. Shelved(n, f)
    BY DEF VgSound, f
  <2>7. Shelved(n, v)
    BY <1>1, <2>4, <2>5, <2>6, LeftShelved
  <2>8. VgArms(n, v)
    BY <2>1, <2>3 DEF VgArms, Closes
  <2> QED BY <2>7, <2>8 DEF VgSound
<1> QED BY <1>2, <1>3

\* A command that begins no write.
LEMMA VgCommandKeeps ==
  ASSUME NEW m, NEW w, NEW t \in Turns, VgSound(m, w), VgWake(m, t), NEW c, ~(c.op = "write" /\ VgWriteBegins(m)),
         c.op = "select" => c.n \in Bays /\ c.side \in 0..1,
         NEW n, n = VgCommand(m, c, t), NEW v, v = WriteDone(Seen(w, n, t), n)
  PROVE  VgSound(n, v) /\ VgWake(n, t)
<1>1. /\ ScFormed(m) /\ m.card.kind = "vgmdc" /\ VgCache(m) /\ Unique(m) /\ w \in Seq(ScWrites)
  BY DEF VgSound, Shelved
<1>2. CASE n = m
  BY <1>1, <1>2, VgMoves
<1>3. CASE c.op = "select"
  <2> DEFINE y == [m EXCEPT !.card.selected = TRUE, !.card.unit = c.n, !.card.head = c.side]
  <2>1. n = VgRearm(y, t)
    BY <1>3 DEF VgCommand
  <2>2. SameBut(m, y, {"selected", "unit", "head"}) /\ y.card.selected = TRUE /\ y.card.unit = c.n /\ y.card.head = c.side
    BY <1>1 DEF SameBut, ScFormed, ScParts
  <2> HIDE DEF y
  <2>3. ScFormed(y)
    BY ZenonT(60), <1>1, <1>3, <2>2 DEF SameBut, ScFormed, ScParts
  <2>4. SameBut(y, n, {"wake", "came"}) /\ ScFormed(n) /\ VgWake(n, t)
    BY <2>1, <2>3, RearmIs
  <2>5. /\ n.card.kind = "vgmdc" /\ n.card.rdFor = m.card.rdFor /\ n.card.buf = m.card.buf /\ n.bay = m.bay /\ n.shelf = m.shelf
        /\ n.card.wrt = m.card.wrt /\ n.card.wSector = m.card.wSector /\ n.card.wbuf = m.card.wbuf
    BY <1>1, <2>2, <2>4 DEF SameBut, ScParts
  <2>6. VgCache(n) /\ Unique(n)
    BY <1>1, <2>5 DEF VgCache, Unique
  <2>7. VgDrive(n).disk = VgDrive(m).disk /\ VgDrive(m).disk # NoDisk => VgDrive(n).ro = VgDrive(m).ro
    BY <1>1, <2>4, <2>5 DEF VgDrive, Unique, ScFormed
  <2> QED BY <2>4, <2>5, <2>6, <2>7, VgMoves
<1>4. CASE c.op = "arm"
  <2> DEFINE y == [m EXCEPT !.card.armed = c.on, !.card.sf = @ /\ c.on]
  <2>1. n = VgRearm(y, t)
    BY <1>4 DEF VgCommand
  <2>2. SameBut(m, y, {"armed", "sf"})
    BY <1>1 DEF SameBut, ScFormed, ScParts
  <2> HIDE DEF y
  <2>3. ScFormed(y)
    BY <1>1, <2>2 DEF SameBut, ScFormed, ScParts
  <2>4. SameBut(y, n, {"wake", "came"}) /\ ScFormed(n) /\ VgWake(n, t)
    BY <2>1, <2>3, RearmIs
  <2>5. /\ n.card.kind = "vgmdc" /\ n.card.rdFor = m.card.rdFor /\ n.card.buf = m.card.buf /\ n.bay = m.bay /\ n.shelf = m.shelf
        /\ n.card.wrt = m.card.wrt /\ n.card.wSector = m.card.wSector /\ n.card.wbuf = m.card.wbuf /\ n.card.unit = m.card.unit
    BY <1>1, <2>2, <2>4 DEF SameBut, ScParts
  <2>6. VgCache(n) /\ Unique(n) /\ VgDrive(n).ro = VgDrive(m).ro
    BY <1>1, <2>5 DEF VgCache, Unique, VgDrive
  <2> QED BY <2>4, <2>5, <2>6, VgMoves
<1>5. CASE c.op = "step" /\ n # m
  <2> DEFINE b == [m.bay[m.card.unit] EXCEPT !.track = IF c.on THEN Inward(@) ELSE Outward(@)]
             y == [m EXCEPT !.bay = [m.bay EXCEPT ![m.card.unit] = b]]
  <2>1. n = y
    BY <1>1, <1>5 DEF VgCommand, ScFormed
  <2>2. m.card.unit \in Bays /\ Bay(m.bay[m.card.unit])
    BY <1>1 DEF ScFormed
  <2>3. Bay(b) /\ b.disk = m.bay[m.card.unit].disk /\ b.ro = m.bay[m.card.unit].ro
    <3>1. Inward(m.bay[m.card.unit].track) \in TrackNumbers /\ Outward(m.bay[m.card.unit].track) \in TrackNumbers
      BY <2>2, TracksStep DEF Bay
    <3> QED BY <2>2, <3>1 DEF Bay
  <2> HIDE DEF b
  <2>4. y.card = m.card /\ y.shelf = m.shelf /\ y.bay = [m.bay EXCEPT ![m.card.unit] = b] /\ DOMAIN y = DOMAIN m
    BY <1>1 DEF ScFormed
  <2> HIDE DEF y
  <2>5. ScFormed(y) /\ \A u \in Bays : y.bay[u].disk = m.bay[u].disk /\ y.bay[u].ro = m.bay[u].ro
    BY SMTT(30), <1>1, <2>2, <2>3, <2>4 DEF ScFormed
  <2>6. VgCache(y) /\ Unique(y) /\ VgDrive(y).ro = VgDrive(m).ro /\ VgDrive(y).disk = VgDrive(m).disk
    BY <1>1, <2>2, <2>4, <2>5 DEF VgCache, Unique, VgDrive
  <2>7. VgWake(y, t)
    BY <2>4, <2>6 DEF VgWake, VgSpins, VgChosen
  <2> QED BY <1>1, <2>1, <2>4, <2>5, <2>6, <2>7, VgMoves
<1>6. CASE c.op = "reset"
  <2>1. n = VgReset(m, t)
    BY <1>6 DEF VgCommand
  <2>2. VgSound(n, WriteDone(w, n)) /\ VgWake(n, t) /\ ~n.card.wrt
    BY <2>1, VgResetKeeps
  <2> QED BY <1>1, <2>2, VgEnded
<1>7. CASE c.op = "write" \/ c.op \notin {"select", "arm", "step", "write", "reset"}
  <2>1. n = m
    BY <1>7 DEF VgCommand
  <2> QED BY <1>2, <2>1
<1> QED BY <1>2, <1>3, <1>4, <1>5, <1>6, <1>7

\* One that does.
LEMMA VgBeginKeeps ==
  ASSUME NEW m, NEW w, NEW t \in Turns, VgSound(m, w), NEW c, c.op = "write", VgWriteBegins(m),
         NEW n, n = VgCommand(m, c, t), NEW v, v = Append(w, Begun(m, n, t))
  PROVE  VgSound(n, v) /\ VgWake(n, t)
<1> DEFINE b == [i \in Slots |-> Skipped]
           y == [m EXCEPT !.card.wrt = TRUE, !.card.wSector = SectorAt(t), !.card.wrPos = 0, !.card.wbuf = b]
           e == Begun(m, n, t)
           there == <<Surface(VgDrive(m).track, m.card.head), SectorAt(t)>>
<1>1. /\ ScFormed(m) /\ m.card.kind = "vgmdc" /\ VgCache(m) /\ Unique(m) /\ w \in Seq(ScWrites) /\ Shelved(m, w)
  BY DEF VgSound, Shelved
<1>2. n = VgRearm(y, t)
  BY DEF VgCommand
<1>3. DOMAIN b = Slots /\ \A i \in Slots : b[i] = Skipped
  OBVIOUS
<1> HIDE DEF b
<1>4. /\ SameBut(m, y, {"wrt", "wSector", "wrPos", "wbuf"})
      /\ y.card.wrt = TRUE /\ y.card.wSector = SectorAt(t) /\ y.card.wbuf = b
  BY <1>1 DEF SameBut, ScFormed, ScParts
<1> HIDE DEF y
<1>5. ScFormed(y)
  BY ZenonT(60), <1>1, <1>3, <1>4 DEF SameBut, ScFormed, ScParts
<1>6. SameBut(y, n, {"wake", "came"}) /\ ScFormed(n) /\ VgWake(n, t)
  BY <1>2, <1>5, RearmIs
<1>7. /\ n.card.kind = "vgmdc" /\ n.card.rdFor = m.card.rdFor /\ n.card.buf = m.card.buf /\ n.bay = m.bay /\ n.shelf = m.shelf
      /\ n.card.unit = m.card.unit /\ n.card.head = m.card.head /\ n.card.selected = m.card.selected
      /\ n.card.wrt = TRUE /\ n.card.wSector = SectorAt(t) /\ n.card.wbuf = b
  BY <1>1, <1>4, <1>6 DEF SameBut, ScParts
<1>8. VgCache(n) /\ Unique(n) /\ VgDrive(n) = VgDrive(m) /\ VgSpins(n) /\ Fits(n) = Fits(m) /\ Fits(n) \in BOOLEAN
  BY <1>1, <1>7 DEF VgCache, Unique, VgDrive, VgSpins, VgChosen, VgWriteBegins, Fits
<1>9. PlaceUnder(n, t) = <<VgDrive(m).disk, there>>
  BY <1>7, <1>8 DEF PlaceUnder
<1>10. e = [disk |-> VgDrive(m).disk, place |-> there, ro |-> ~Fits(n), left |-> FALSE, done |-> FALSE]
  <2> HIDE DEF there
  <2>1. <<>> # <<VgDrive(m).disk, there>>
    OBVIOUS
  <2> QED BY <1>8, <1>9, <2>1 DEF Begun
<1>11. SectorAt(t) \in SectorNumbers
  BY TurnsOn
<1>12. e \in ScWrites
  <2>1. VgDrive(m).disk \in Disks /\ VgDrive(m).track \in TrackNumbers /\ m.card.head \in 0..1
    BY <1>1 DEF ScFormed, Bay, VgDrive
  <2>2. there \in ScPlaces
    BY <1>11, <2>1, SurfaceIs DEF ScPlaces
  <2> HIDE DEF there
  <2> QED BY <1>8, <1>10, <2>1, <2>2 DEF ScWrites
<1>13. v = Append(w, e)
  OBVIOUS
<1>14. Stands(n, e)
  BY <1>7, <1>8, <1>10 DEF Stands
<1>15. ~e.done
  BY <1>10
<1> HIDE DEF e, there
<1>16. Grows(m.shelf, w, v) /\ Len(v) = Len(w) + 1 /\ v[Len(v)] = e /\ Len(w) \in Nat
  <2>1. Grows(m.shelf, w, v) /\ Len(v) = Len(w) + 1 /\ v[Len(v)] = e
    BY ONLY <1>1, <1>12, <1>13, <1>15, AppendGrows
  <2> QED BY <1>1, <2>1
<1>17. Shelved(n, v)
  <2>1. Shelved(m, v)
    BY <1>1, <1>16, GrowsShelved
  <2> QED BY <1>1, <1>7, <2>1 DEF Shelved
<1>18. VgArms(n, v)
  BY <1>3, <1>7, <1>11, <1>14, <1>15, <1>16 DEF VgArms
<1> QED BY <1>6, <1>7, <1>8, <1>17, <1>18 DEF VgSound

\* What the Micropolis board becomes is the machine.
LEMMA VgBecomes ==
  ASSUME NEW m, VgGood(m, where', turned'), turned' \in Turns, guest' \in HsRigs, m.card.kind = guest'.kind, Becomes(m)
  PROVE  ScInv'
<1> DEFINE h == [card |-> card', bay |-> bay', shelf |-> shelf']
<1>1. h.card = m.card /\ h.bay = m.bay /\ h.shelf = m.shelf /\ DOMAIN h = {"card", "bay", "shelf"} /\ card' = m.card
  BY DEF Becomes
<1>2. h = HsMachine'
  BY DEF HsMachine
<1> HIDE DEF h
<1>3. VgDrive(h) = VgDrive(m) /\ VgSpins(h) = VgSpins(m) /\ (m.card.kind = "vgmdc" => Fits(h) = Fits(m))
  BY <1>1 DEF VgDrive, VgSpins, VgChosen, Fits
<1>4. ScFormed(h)
  BY <1>1 DEF VgGood, VgSound, ScFormed
<1>5. VgCache(h) /\ Unique(h) /\ Shelved(h, where') /\ h.card.kind = "vgmdc"
  BY <1>1 DEF VgGood, VgSound, VgCache, Unique, Shelved
<1>6. VgArms(h, where')
  BY <1>1, <1>3, <1>5 DEF VgGood, VgSound, VgArms, Stands
<1>7. VgWake(h, turned')
  BY <1>1, <1>3 DEF VgGood, VgWake
<1>8. VgGood(h, where', turned')
  BY <1>4, <1>5, <1>6, <1>7 DEF VgGood, VgSound
<1>9. card'.kind \notin NorthStars
  BY <1>1, <1>5 DEF NorthStars
<1> QED BY <1>1, <1>2, <1>8, <1>9 DEF ScInv

\* The guest at its registers.
LEMMA VgLookKeeps ==
  ASSUME ScInv, NEW look, VgLook(look)
  PROVE  ScInv'
<1> DEFINE h == HsMachine
           n == VgRead(h, look, turned)
<1>1. VgGood(h, where, turned) /\ turned \in Turns /\ guest \in HsRigs /\ guest.kind = "vgmdc"
  BY DEF ScInv, VgLook, ScIs
<1>2. Becomes(n) /\ turned' = turned /\ guest' = guest /\ where' = WriteDone(where, n)
  BY DEF VgLook, HsStill
<1>3. VgGood(n, where', turned)
  BY <1>1, <1>2, VgReadKeeps DEF VgGood
<1> HIDE DEF n
<1>4. n.card.kind = "vgmdc"
  BY <1>3 DEF VgGood, VgSound
<1> QED BY <1>1, <1>2, <1>3, <1>4, VgBecomes

\* A byte to the write buffer.
LEMMA VgGiveKeeps ==
  ASSUME ScInv, VgGive
  PROVE  ScInv'
<1> DEFINE h == HsMachine
           m == Settle(h, turned)
           n == VgWriteData(m, turned)
           w == WriteDone(where, m)
<1>1. VgGood(h, where, turned) /\ turned \in Turns /\ guest \in HsRigs /\ guest.kind = "vgmdc"
  BY DEF ScInv, VgGive, ScIs
<1>2. Becomes(n) /\ turned' = turned /\ guest' = guest /\ where' = w
  BY DEF VgGive, HsStill
<1>3. VgSound(m, w) /\ VgWake(m, turned) /\ (m = h \/ ~m.card.wrt)
  BY <1>1, SettleKeeps DEF VgGood
<1>4. VgGood(n, w, turned)
  <2>1. CASE m = h
    <3>1. w = where
      BY <1>1, <2>1, VgFinishedStill DEF VgGood
    <3> QED BY <1>1, <1>3, <2>1, <3>1, VgWriteKeeps DEF VgGood
  <2>2. CASE ~m.card.wrt
    <3>1. n = m
      BY <2>2 DEF VgWriteData
    <3> QED BY <1>3, <3>1 DEF VgGood
  <2> QED BY <1>3, <2>1, <2>2
<1> HIDE DEF n
<1>5. n.card.kind = "vgmdc"
  BY <1>4 DEF VgGood, VgSound
<1> QED BY <1>1, <1>2, <1>4, <1>5, VgBecomes

\* Every command of the Micropolis board.
LEMMA VgObeyKeeps ==
  ASSUME ScInv, NEW c \in guest.commands, VgObey(c)
  PROVE  ScInv'
<1> DEFINE h == HsMachine
           m == Settle(h, turned)
           n == IF m.card.timedOut THEN m ELSE VgCommand(m, c, turned)
<1>1. VgGood(h, where, turned) /\ turned \in Turns /\ guest \in HsRigs /\ guest.kind = "vgmdc" /\ h.card.kind = "vgmdc"
  BY DEF ScInv, VgObey, ScIs, HsMachine
<1>2. /\ Becomes(n) /\ turned' = turned /\ guest' = guest
      /\ where' = IF Begins(m, c, turned) THEN Append(WriteDone(where, m), Begun(m, n, turned))
                  ELSE WriteDone(Seen(where, n, turned), n)
  BY DEF VgObey, HsStill
<1>3. /\ VgSound(m, WriteDone(where, m)) /\ VgWake(m, turned)
      /\ m = h \/ (~m.card.wrt /\ m.card.timedOut = TRUE)
  BY <1>1, SettleKeeps DEF VgGood
<1>4. c.op = "select" => c.n \in Bays /\ c.side \in 0..1
  BY <1>1, SlotCardsAssumption
<1>5. WriteDone(where, h) = where /\ where \in Seq(ScWrites) /\ VgSound(h, where) /\ VgWake(h, turned)
  BY <1>1, VgFinishedStill DEF VgGood, VgSound, Shelved
<1>6. m.card.kind = "vgmdc"
  BY <1>3 DEF VgSound
<1> HIDE DEF h, m
<1>7. Begins(m, c, turned) <=> (c.op = "write" /\ VgWriteBegins(m) /\ ~m.card.timedOut)
  BY <1>6 DEF Begins
<1>8. CASE m.card.timedOut
  <2>1. n = m /\ where' = WriteDone(Seen(where, n, turned), n)
    BY <1>2, <1>7, <1>8
  <2>2. CASE m = h
    <3>1. VgSound(m, where')
      <4>1. /\ ScFormed(m) /\ VgCache(m) /\ Unique(m)
        BY <1>5, <2>2 DEF VgSound
      <4> QED BY <1>1, <1>5, <1>6, <2>1, <2>2, <4>1, VgMoves
    <3> QED BY <1>1, <1>2, <1>3, <1>6, <2>1, <3>1, VgBecomes DEF VgGood
  <2>3. CASE ~m.card.wrt
    <3>1. VgSound(m, where')
      BY <1>3, <1>5, <2>1, <2>3, VgEnded
    <3> QED BY <1>1, <1>2, <1>3, <1>6, <2>1, <3>1, VgBecomes DEF VgGood
  <2> QED BY <1>3, <2>2, <2>3
<1>9. CASE ~m.card.timedOut
  <2>1. m = h /\ n = VgCommand(h, c, turned)
    BY <1>3, <1>9
  <2> HIDE DEF n
  <2>2. CASE Begins(m, c, turned)
    <3>1. where' = Append(where, Begun(h, n, turned)) /\ c.op = "write" /\ VgWriteBegins(h)
      BY <1>2, <1>5, <1>7, <2>1, <2>2
    <3>2. VgSound(n, where') /\ VgWake(n, turned)
      BY <1>1, <1>5, <2>1, <3>1, VgBeginKeeps
    <3> QED BY <1>1, <1>2, <3>2, VgBecomes DEF VgGood, VgSound
  <2>3. CASE ~Begins(m, c, turned)
    <3>1. where' = WriteDone(Seen(where, n, turned), n) /\ ~(c.op = "write" /\ VgWriteBegins(h))
      BY <1>2, <1>7, <1>9, <2>1, <2>3
    <3>2. VgSound(n, where') /\ VgWake(n, turned)
      BY <1>1, <1>4, <1>5, <2>1, <3>1, VgCommandKeeps
    <3> QED BY <1>1, <1>2, <3>2, VgBecomes DEF VgGood, VgSound
  <2> QED BY <2>2, <2>3
<1> QED BY <1>8, <1>9

\* A disk put in a drive or taken out of it.
LEMMA VgChangeKeeps ==
  ASSUME NEW m, NEW w, NEW t \in Turns, VgSound(m, w), t = turned, NEW u \in Bays, NEW d \in Disks, NEW ro \in BOOLEAN,
         d # NoDisk => \A b \in Bays : m.bay[b].disk # d,
         NEW n, n = ScChange(m, u, d, ro), NEW v, v = WriteDone(Seen(w, n, t), n)
  PROVE  VgSound(n, v) /\ VgWake(n, t)
<1> DEFINE e == [m EXCEPT !.card.rdFor = Unread]
           b == [m.bay[u] EXCEPT !.disk = d, !.ro = ro]
           g == m.card.came \/ d # NoDisk
           s == [e EXCEPT !.bay = [m.bay EXCEPT ![u] = b], !.card.came = g]
<1>1. /\ ScFormed(m) /\ m.card.kind = "vgmdc" /\ VgCache(m) /\ Unique(m)
  BY DEF VgSound
<1>2. SameBut(m, e, {"rdFor"}) /\ e.card.rdFor = Unread /\ e.card.came = m.card.came /\ e.bay = m.bay
      /\ {"card", "bay", "shelf"} \subseteq DOMAIN e
  BY <1>1 DEF SameBut, ScFormed, ScParts
<1>3. n = IF d = NoDisk THEN VgRearm(s, t) ELSE s
  <2>1. s = [e EXCEPT !.bay[u].disk = d, !.bay[u].ro = ro, !.card.came = @ \/ d # NoDisk]
    <3>1. u \in DOMAIN e.bay
      BY <1>1, <1>2 DEF ScFormed
    <3> HIDE DEF e
    <3> QED BY <1>2, <3>1
  <2> HIDE DEF s
  <2> QED BY <1>1, <2>1 DEF ScChange
<1>4. Bay(b) /\ b.disk = d /\ g \in BOOLEAN
  <2>1. Bay(m.bay[u])
    BY <1>1 DEF ScFormed
  <2> QED BY <2>1 DEF Bay
<1> HIDE DEF e, b, g
<1>5. /\ s.bay = [m.bay EXCEPT ![u] = b] /\ s.shelf = m.shelf /\ DOMAIN s = DOMAIN m /\ DOMAIN s.card = DOMAIN m.card
      /\ s.card.came = g /\ s.card.rdFor = Unread /\ \A x \in ScParts \ {"came", "rdFor"} : s.card[x] = m.card[x]
  BY <1>1, <1>2 DEF ScFormed, ScParts, SameBut
<1> HIDE DEF s
<1>6. ScFormed(s)
  <2>1. DOMAIN s.bay = Bays /\ \A x \in Bays : Bay(s.bay[x])
    BY <1>1, <1>4, <1>5 DEF ScFormed
  <2> QED BY <1>1, <1>4, <1>5, <2>1 DEF ScFormed, ScParts
<1>7. \/ d = NoDisk /\ SameBut(s, n, {"wake", "came"}) /\ ScFormed(n) /\ VgWake(n, t)
      \/ d # NoDisk /\ n = s
  BY <1>3, <1>6, RearmIs
<1>8. /\ ScFormed(n) /\ n.bay = [m.bay EXCEPT ![u] = b] /\ n.shelf = m.shelf /\ n.card.kind = "vgmdc" /\ n.card.rdFor = Unread
      /\ n.card.wrt = m.card.wrt /\ n.card.wSector = m.card.wSector /\ n.card.wbuf = m.card.wbuf /\ n.card.unit = m.card.unit
  BY <1>1, <1>5, <1>6, <1>7 DEF SameBut, ScParts
<1>9. VgWake(n, t)
  <2>1. d # NoDisk => n.card.came = TRUE
    BY <1>5, <1>7 DEF g
  <2> QED BY <1>7, <2>1 DEF VgWake
<1>10. VgCache(n)
  BY SMTT(30), <1>8 DEF VgCache, Unread
<1>11. /\ n.bay[u].disk = d /\ \A x \in Bays : x # u => n.bay[x] = m.bay[x]
  BY <1>1, <1>4, <1>8 DEF ScFormed
<1>12. Unique(n)
  BY <1>1, <1>11 DEF Unique
<1>13. VgDrive(n).disk = VgDrive(m).disk /\ VgDrive(m).disk # NoDisk => VgDrive(n).ro = VgDrive(m).ro
  <2>1. m.card.unit \in Bays
    BY <1>1 DEF ScFormed
  <2> QED BY <1>8, <1>11, <2>1 DEF VgDrive
<1> QED BY <1>8, <1>9, <1>10, <1>12, <1>13, VgMoves

\* The operator at a Micropolis board.
LEMMA VgHandsKeep ==
  ASSUME ScInv, card.kind = "vgmdc",
         \/ \E u \in Bays, d \in HsDisks, ro \in BOOLEAN : ScMount(u, d, ro)
         \/ \E u \in Bays : ScUnmount(u)
         \/ \E power \in BOOLEAN : ScReset(power)
  PROVE  ScInv'
<1> DEFINE h == HsMachine
<1>1. /\ VgSound(h, where) /\ VgWake(h, turned) /\ turned \in Turns /\ guest \in HsRigs /\ guest.kind = "vgmdc"
      /\ h.card = card /\ h.bay = bay /\ where \in Seq(ScWrites)
  BY DEF ScInv, HsMachine, VgGood, VgSound, Shelved
<1>2. ASSUME NEW m, ScByHand(m), VgSound(m, WriteDone(Seen(where, m, turned), m)), VgWake(m, turned)
      PROVE  ScInv'
  <2>1. Becomes(m) /\ turned' = turned /\ guest' = guest /\ where' = WriteDone(Seen(where, m, turned), m)
    BY <1>2 DEF ScByHand
  <2>2. VgGood(m, where', turned') /\ m.card.kind = "vgmdc"
    BY <1>2, <2>1 DEF VgGood, VgSound
  <2> QED BY <1>1, <2>1, <2>2, VgBecomes
<1>3. CASE \E u \in Bays, d \in HsDisks, ro \in BOOLEAN : ScMount(u, d, ro)
  <2>1. PICK u \in Bays, d \in HsDisks, ro \in BOOLEAN : (\A w \in Bays : bay[w].disk # d) /\ ScByHand(ScChange(HsMachine, u, d, ro))
    BY <1>3 DEF ScMount
  <2> DEFINE n == ScChange(h, u, d, ro)
  <2>2. d \in Disks /\ (d # NoDisk => \A b \in Bays : h.bay[b].disk # d)
    BY <1>1, <2>1 DEF Disks
  <2>3. VgSound(n, WriteDone(Seen(where, n, turned), n)) /\ VgWake(n, turned)
    BY <1>1, <2>2, VgChangeKeeps
  <2> QED BY <1>2, <2>1, <2>3
<1>4. CASE \E u \in Bays : ScUnmount(u)
  <2>1. PICK u \in Bays : ScByHand(ScChange(HsMachine, u, NoDisk, FALSE))
    BY <1>4 DEF ScUnmount
  <2> DEFINE n == ScChange(h, u, NoDisk, FALSE)
  <2>2. NoDisk \in Disks /\ FALSE \in BOOLEAN
    BY DEF Disks
  <2>3. VgSound(n, WriteDone(Seen(where, n, turned), n)) /\ VgWake(n, turned)
    BY <1>1, <2>2, VgChangeKeeps
  <2> QED BY <1>2, <2>1, <2>3
<1>5. CASE \E power \in BOOLEAN : ScReset(power)
  <2> DEFINE r == VgReset(h, turned)
             m == [r EXCEPT !.card.timedOut = TRUE, !.card.motorIn = NoTime]
  <2>1. ScByHand(m) \/ ScByHand(h)
    BY <1>5 DEF ScReset
  <2>2. VgSound(r, WriteDone(where, r)) /\ VgWake(r, turned) /\ ~r.card.wrt
    BY <1>1, VgResetKeeps
  <2> HIDE DEF r
  <2>3. SameBut(r, m, {"timedOut", "motorIn"})
    BY <2>2 DEF VgSound, SameBut, ScFormed, ScParts
  <2> HIDE DEF m
  <2>4. ScFormed(m) /\ SameBut(r, m, VgLoose) /\ m.card.selected = r.card.selected /\ m.card.wrt = r.card.wrt
        /\ m.card.kind = r.card.kind
    BY <2>2, <2>3 DEF VgSound, SameBut, ScFormed, ScParts, VgLoose
  <2>5. VgSound(m, WriteDone(where, r))
    BY <2>2, <2>4, VgLooselySound
  <2>6. WriteDone(where, m) = WriteDone(where, r)
    BY <2>2, <2>4 DEF WriteDone, Unfinished, VgSound
  <2>7. VgSound(m, WriteDone(Seen(where, m, turned), m))
    BY <1>1, <2>2, <2>4, <2>5, <2>6, VgEnded
  <2>8. VgWake(m, turned)
    <3>1. /\ m.card.wake = r.card.wake /\ m.card.came = r.card.came /\ m.card.armed = r.card.armed /\ m.card.unit = r.card.unit
          /\ m.bay = r.bay
      BY <2>3 DEF SameBut, ScParts
    <3> QED BY <2>2, <2>4, <3>1 DEF VgWake, VgSpins, VgChosen, VgDrive
  <2>9. VgSound(h, WriteDone(Seen(where, h, turned), h))
    <3>1. ScFormed(h) /\ h.card.kind = "vgmdc" /\ VgCache(h) /\ Unique(h)
      BY <1>1 DEF VgSound
    <3> QED BY <1>1, <3>1, VgMoves
  <2> QED BY <1>1, <1>2, <2>1, <2>7, <2>8, <2>9
<1> QED BY <1>3, <1>4, <1>5

\* A boundary.
LEMMA VgTickKeeps ==
  ASSUME NEW m, NEW w, VgSound(m, w), NEW t \in Turns, NEW n, n = VgTick(m, t)
  PROVE  VgSound(n, WriteDone(w, n)) /\ VgWake(n, t) /\ ~n.card.wrt
<1> DEFINE s == Settle(m, t)
           e == EndWrite(s)
           v == WriteDone(w, e)
           y == [e EXCEPT !.card.sf = @ \/ e.card.armed]
<1>1. w \in Seq(ScWrites)
  BY DEF VgSound, Shelved
<1>2. n = VgRearm(y, t)
  BY DEF VgTick
<1>3. VgSound(s, WriteDone(w, s))
  BY SettleKeeps
<1>4. VgSound(e, WriteDone(WriteDone(w, s), e)) /\ ~e.card.wrt
  BY <1>3, EndWriteKeeps
<1>5. VgSound(e, v)
  <2>1. s.card.kind = "vgmdc" /\ e.card.kind = "vgmdc"
    BY <1>3, <1>4 DEF VgSound
  <2> QED BY <1>1, <1>4, <2>1, FinishedAgain
<1> HIDE DEF s, e, v
<1>6. SameBut(e, y, {"sf"})
  BY <1>5 DEF VgSound, SameBut, ScFormed, ScParts
<1> HIDE DEF y
<1>7. ScFormed(y)
  BY <1>5, <1>6 DEF VgSound, SameBut, ScFormed, ScParts
<1>8. SameBut(y, n, {"wake", "came"}) /\ ScFormed(n) /\ VgWake(n, t)
  BY <1>2, <1>7, RearmIs
<1>9. SameBut(e, n, VgLoose) /\ n.card.wrt = e.card.wrt /\ n.card.selected = e.card.selected /\ n.card.kind = e.card.kind
  BY <1>6, <1>8 DEF SameBut, ScParts, VgLoose
<1>10. VgSound(n, v)
  BY <1>5, <1>8, <1>9, VgLooselySound
<1>11. WriteDone(w, n) = v
  BY <1>4, <1>5, <1>9 DEF WriteDone, Unfinished, v, VgSound
<1> QED BY <1>4, <1>8, <1>9, <1>10, <1>11

\* Time on the Micropolis board.
LEMMA VgTimeKeeps ==
  ASSUME ScInv, card.kind = "vgmdc", ScTick
  PROVE  ScInv'
<1> DEFINE h == HsMachine
           k == [card EXCEPT !.motorIn = OneLess(@), !.wake = OneLess(@),
                             !.free = IF ScIs(NorthStars) THEN (@ + 1) % FreeTicks ELSE @,
                             !.crossedHole = ScIs(NorthStars) /\ (@ \/ Into(turned') = 0),
                             !.crossedFree = ScIs(NorthStars) /\ (@ \/ card.free + 1 = FreeTicks)]
           m == [h EXCEPT !.card = k]
           n == IF card.wake # 1 THEN m ELSE VgTick(m, turned')
           f == WriteDone(where, n)
<1>1. VgSound(h, where) /\ VgWake(h, turned) /\ turned \in Turns /\ guest \in HsRigs /\ card.kind = guest.kind
      /\ h.card = card /\ h.bay = bay /\ h.shelf = shelf /\ DOMAIN h = {"card", "bay", "shelf"} /\ where \in Seq(ScWrites)
  BY DEF ScInv, HsMachine, VgGood, VgSound, Shelved
<1>2. turned' = (turned + 1) % (HsSectorTicks * HsSectors) /\ guest' = guest /\ turned' \in Turns
  BY <1>1, TurnsOn DEF ScTick
<1>3. Becomes(n) /\ where' = Seen(f, n, turned')
  <2>1. PICK mm \in {[HsMachine EXCEPT
            !.card = [card EXCEPT !.motorIn = OneLess(@), !.wake = OneLess(@),
                               !.free = IF ScIs(NorthStars) THEN (@ + 1) % FreeTicks ELSE @,
                               !.crossedHole = ScIs(NorthStars) /\ (@ \/ Into(turned') = 0),
                               !.crossedFree = ScIs(NorthStars) /\ (@ \/ card.free + 1 = FreeTicks)]]} :
                 \E nn \in {CASE card.wake # 1 -> mm
                              [] card.wake = 1 /\ card.kind = "vgmdc" -> VgTick(mm, turned')
                              [] OTHER -> ScheduleWake(NsTick(mm), turned')} :
                   /\ Becomes(nn)
                   /\ where' = IF card.kind = "vgmdc" THEN Seen(WriteDone(where, nn), nn, turned') ELSE Seen(where, nn, turned')
    BY DEF ScTick
  <2>2. mm = m
    OBVIOUS
  <2> HIDE DEF m
  <2> QED BY <2>1, <2>2
<1>4. /\ DOMAIN k = DOMAIN card /\ k.wake = OneLess(card.wake) /\ k.free = card.free /\ k.crossedHole = FALSE
      /\ \A x \in ScParts \ {"wake", "motorIn", "free", "crossedHole", "crossedFree"} : k[x] = card[x]
  <2>1. ~ScIs(NorthStars)
    BY DEF ScIs, NorthStars
  <2> QED BY <1>1, <2>1 DEF VgSound, ScFormed, ScParts
<1> HIDE DEF k
<1>5. m.card = k /\ m.bay = h.bay /\ m.shelf = h.shelf /\ DOMAIN m = DOMAIN h
  BY <1>1
<1> HIDE DEF m
<1>6. SameBut(h, m, VgLoose) /\ m.card.selected = card.selected
  BY <1>1, <1>4, <1>5 DEF SameBut, VgLoose, ScParts
<1>7. ScFormed(m)
  <2>1. k.wake \in Nat
    BY <1>1, <1>4 DEF VgSound, ScFormed, OneLess
  <2> QED BY ZenonT(60), <1>1, <1>4, <1>5, <2>1 DEF VgSound, ScFormed, ScParts
<1>8. VgSound(m, where)
  BY <1>1, <1>6, <1>7, VgLooselySound
<1>9. CASE card.wake # 1
  <2>1. n = m /\ f = where
    BY <1>8, <1>9, VgFinishedStill
  <2>2. VgWake(m, turned')
    <3>1. /\ m.card.wrt = card.wrt /\ m.card.armed = card.armed /\ m.card.came = card.came /\ m.card.unit = card.unit
      BY <1>4, <1>5 DEF ScParts
    <3>2. VgSpins(m) = VgSpins(h)
      BY <1>1, <1>5, <1>6, <3>1 DEF VgSpins, VgChosen, VgDrive
    <3> SUFFICES ASSUME (m.card.wrt \/ m.card.armed) /\ VgSpins(m) /\ ~m.card.came
                 PROVE  m.card.wake = HsSectorTicks - Into(turned')
      BY DEF VgWake
    <3>3. card.wake = HsSectorTicks - Into(turned)
      BY <1>1, <3>1, <3>2 DEF VgWake
    <3>4. Into(turned) \in 0..(HsSectorTicks - 1) /\ Into(turned) # HsSectorTicks - 1
      BY <1>1, <1>2, <1>9, <3>3, TurnsOn, ScConstants
    <3>5. Into(turned') = Into(turned) + 1
      BY <1>1, <1>2, <3>4, TurnsOn
    <3> QED BY <1>4, <1>5, <3>3, <3>4, <3>5, ScConstants DEF OneLess
  <2>3. m.card.kind = "vgmdc" /\ VgCache(m) /\ Unique(m) /\ VgArms(m, where)
    BY <1>8 DEF VgSound
  <2>4. VgSound(m, WriteDone(Seen(where, m, turned'), m))
    BY <1>2, <1>7, <1>8, <2>3, VgMoves
  <2>5. WriteDone(Seen(where, m, turned'), m) = Seen(where, m, turned')
    <3>1. CASE m.card.wrt
      BY <2>3, <3>1 DEF WriteDone, Unfinished
    <3>2. CASE ~m.card.wrt
      <4>1. where # <<>> => where[Len(where)].done
        BY <1>1, <2>3, <3>2 DEF VgArms
      <4>2. Seen(where, m, turned') = where
        BY <4>1 DEF Seen
      <4> QED BY <1>1, <4>1, <4>2, ClosesOnce
    <3> QED BY <3>1, <3>2
  <2>6. VgGood(m, where', turned')
    BY <1>3, <2>1, <2>2, <2>4, <2>5 DEF VgGood
  <2> QED BY <1>1, <1>2, <1>3, <2>1, <2>3, <2>6, VgBecomes
<1>10. CASE card.wake = 1
  <2>1. n = VgTick(m, turned')
    BY <1>10
  <2> HIDE DEF n
  <2>2. VgSound(n, f) /\ VgWake(n, turned') /\ ~n.card.wrt
    BY <1>2, <1>8, <2>1, VgTickKeeps
  <2>3. f = <<>> \/ f[Len(f)].done
    BY <2>2 DEF VgSound, VgArms, Shelved
  <2>4. where' = f
    BY <1>3, <2>3 DEF Seen
  <2>5. VgGood(n, where', turned') /\ n.card.kind = "vgmdc"
    BY <2>2, <2>4 DEF VgGood, VgSound
  <2> QED BY <1>1, <1>2, <1>3, <2>5, VgBecomes
<1> QED BY <1>9, <1>10

-----------------------------------------------------------------------------
(***************************************************************************)
(* The three cards together.                                               *)
(***************************************************************************)
\* The cards start right.
LEMMA ScStarts ==
  ASSUME ScInit
  PROVE  ScInv
<1> DEFINE h == HsMachine
<1>1. /\ guest \in HsRigs /\ guest.kind \in ScKinds /\ card.kind = guest.kind /\ turned = 0 /\ where = <<>>
      /\ bay = [u \in Bays |-> [disk |-> IF u = 0 THEN guest.disk ELSE NoDisk, ro |-> FALSE, track |-> 0, loaded |-> FALSE]]
      /\ shelf = [d \in HsDisks |-> [p \in ScPlaces |-> Pristine]]
      /\ h.card = card /\ h.bay = bay /\ h.shelf = shelf /\ DOMAIN h = {"card", "bay", "shelf"}
  BY DEF ScInit, ScPlaces, SectorNumbers, Pristine, HsMachine
<1>2. /\ DOMAIN card = ScParts
      /\ card.sel = Nowhere /\ card.unit = 0 /\ card.head = 0 /\ card.wrSide = 0
      /\ card.orders = [side |-> 0, dd |-> FALSE, step |-> FALSE] /\ card.armed = FALSE
      /\ card.motorOn = FALSE /\ card.lastReal = FALSE /\ card.crossedHole = FALSE /\ card.rdValid = FALSE
      /\ card.selected = FALSE /\ card.wrt = FALSE /\ card.came = FALSE /\ card.wr = "idle" /\ card.free = 0 /\ card.wake = 0
      /\ card.wbuf = [i \in Slots |-> Skipped] /\ card.rdFor = Unread
  BY DEF ScInit, ScParts, NoTime
<1>3. guest.disk \in HsDisks /\ 0 \in TrackNumbers /\ 0 \in Bays /\ 0 \in 0..(FreeTicks - 1)
  BY <1>1, HardSectorAssumption, ScConstants DEF TrackNumbers, Bays
<1>4. 0 \in Turns
  <2>1. HsSectorTicks * HsSectors \in Nat \ {0}
    BY ScConstants
  <2> QED BY <2>1 DEF Turns
<1>5. ScFormed(h)
  <2>1. DOMAIN bay = Bays /\ \A u \in Bays : Bay(bay[u])
    <3>1. bay = [u \in Bays |-> [disk |-> IF u = 0 THEN guest.disk ELSE NoDisk, ro |-> FALSE, track |-> 0, loaded |-> FALSE]]
      BY <1>1
    <3>2. ASSUME NEW d \in Disks
          PROVE  Bay([disk |-> d, ro |-> FALSE, track |-> 0, loaded |-> FALSE])
      BY <1>3 DEF Bay
    <3>3. \A u \in Bays : (IF u = 0 THEN guest.disk ELSE NoDisk) \in Disks
      BY <1>3 DEF Disks
    <3> QED BY <3>1, <3>2, <3>3
  <2>2. DOMAIN shelf = HsDisks /\ \A d \in HsDisks : DOMAIN shelf[d] = ScPlaces
    BY <1>1
  <2>3. /\ h.card.sel \in Bays \cup {Nowhere} /\ h.card.unit \in Bays /\ h.card.head \in 0..1 /\ h.card.wrSide \in 0..1
        /\ h.card.motorOn \in BOOLEAN /\ h.card.lastReal \in BOOLEAN /\ h.card.crossedHole \in BOOLEAN
        /\ h.card.rdValid \in BOOLEAN /\ h.card.selected \in BOOLEAN /\ h.card.wrt \in BOOLEAN /\ h.card.came \in BOOLEAN
        /\ h.card.free \in 0..(FreeTicks - 1) /\ h.card.wake \in Nat
    <3>1. h.card = card
      BY <1>1
    <3>2. card.sel \in Bays \cup {Nowhere} /\ card.unit \in Bays /\ card.free \in 0..(FreeTicks - 1)
      BY <1>2, <1>3
    <3>3. card.head \in 0..1 /\ card.wrSide \in 0..1 /\ card.wake \in Nat
      BY <1>2
    <3>4. /\ card.motorOn \in BOOLEAN /\ card.lastReal \in BOOLEAN /\ card.crossedHole \in BOOLEAN
          /\ card.rdValid \in BOOLEAN /\ card.selected \in BOOLEAN /\ card.wrt \in BOOLEAN /\ card.came \in BOOLEAN
      BY <1>2
    <3> HIDE DEF h
    <3> QED BY <3>1, <3>2, <3>3, <3>4
  <2>4. h.card.wr \in {"idle", "preamble", "sync", "data", "done"} /\ DOMAIN h.card.wbuf = Slots
    BY <1>1, <1>2
  <2>5. {"side", "dd", "step"} \subseteq DOMAIN h.card.orders /\ h.card.orders.side \in 0..1
    <3>1. h.card.orders = [side |-> 0, dd |-> FALSE, step |-> FALSE]
      BY <1>1, <1>2
    <3> QED BY <3>1
  <2>6. {"card", "bay", "shelf"} \subseteq DOMAIN h /\ ScParts \subseteq DOMAIN h.card
        /\ h.bay = bay /\ h.shelf = shelf
    BY <1>1, <1>2
  <2> HIDE DEF h
  <2> QED BY <2>1, <2>2, <2>3, <2>4, <2>5, <2>6 DEF ScFormed
<1>6. Shelved(h, where)
  <2>1. where \in Seq(ScWrites) /\ Len(where) = 0
    BY <1>1
  <2> QED BY <1>1, <2>1 DEF Shelved, ScWhole, ScLands
<1>7. card.kind \in NorthStars => NsGood(h, where, turned)
  <2>1. NsRead(h, turned)
    BY <1>1, <1>2 DEF NsRead
  <2>2. NsArms(h, where, turned)
    BY <1>1, <1>2 DEF NsArms, Active
  <2>3. NsWake(h)
    BY <1>1, <1>2 DEF NsWake
  <2> QED BY <1>1, <1>5, <1>6, <2>1, <2>2, <2>3 DEF NsGood, NsSound
<1>8. card.kind = "vgmdc" => VgGood(h, where, turned)
  <2>1. VgCache(h)
    <3>1. h.card.rdFor = <<>>
      BY <1>1, <1>2 DEF Unread
    <3>2. \A u \in Bays, x \in 0..1, k \in TrackNumbers, s \in SectorNumbers : <<u, x, k, s>> # <<>>
      OBVIOUS
    <3> HIDE DEF h
    <3> QED BY ONLY <3>1, <3>2 DEF VgCache
  <2>2. VgArms(h, where)
    BY <1>1, <1>2 DEF VgArms
  <2>3. VgWake(h, turned)
    BY <1>1, <1>2 DEF VgWake, VgSpins, VgChosen
  <2>4. Unique(h)
    BY <1>1 DEF Unique
  <2> QED BY <1>1, <1>5, <1>6, <2>1, <2>2, <2>3, <2>4 DEF VgGood, VgSound
<1> QED BY <1>1, <1>4, <1>7, <1>8 DEF ScInv

\* Nothing happens.
LEMMA ScStill ==
  ASSUME ScInv, UNCHANGED hsVars
  PROVE  ScInv'
BY DEF ScInv, hsVars, HsMachine

\* Every step of the guest, of the operator and of time keeps a card right, and is one of these cards'.
LEMMA ScStep ==
  ASSUME ScInv, ScNext
  PROVE  ScInv' /\ card.kind \in ScKinds
<1>1. CASE \E look \in {"data", "status"}, c \in guest.commands : NsAccess(look, c)
  BY <1>1, NsAccessKeeps DEF NsAccess, ScIs, ScKinds
<1>2. CASE \E zero \in BOOLEAN : NsWrite(zero)
  BY <1>2, NsGiveKeeps DEF NsWrite, ScIs, ScKinds
<1>3. CASE \E look \in {"data", "sector"} : VgLook(look)
  BY <1>3, VgLookKeeps DEF VgLook, ScIs, ScKinds
<1>4. CASE VgGive
  BY <1>4, VgGiveKeeps DEF VgGive, ScIs, ScKinds
<1>5. CASE \E c \in guest.commands : VgObey(c)
  BY <1>5, VgObeyKeeps DEF VgObey, ScIs, ScKinds
<1>6. CASE \/ \E u \in Bays, d \in HsDisks, ro \in BOOLEAN : ScMount(u, d, ro)
           \/ \E u \in Bays : ScUnmount(u)
           \/ \E power \in BOOLEAN : ScReset(power)
  <2>1. card.kind \in ScKinds
    BY <1>6 DEF ScMount, ScUnmount, ScReset, ScIs
  <2> QED BY <1>6, <2>1, NsHandsKeep, VgHandsKeep DEF ScKinds
<1>7. CASE ScTick
  <2>1. card.kind \in ScKinds
    BY <1>7 DEF ScTick, ScIs
  <2> QED BY <1>7, <2>1, NsTimeKeeps, VgTimeKeeps DEF ScKinds
<1> QED BY <1>1, <1>2, <1>3, <1>4, <1>5, <1>6, <1>7 DEF ScNext

\* What is on a disk is what the invariant says of its shelf.
LEMMA ScLandsWhole ==
  ASSUME ScInv
  PROVE  SlotIsWhole
<1> SUFFICES ASSUME card.kind \in ScKinds
             PROVE  /\ \A d \in HsDisks : \A p \in DOMAIN shelf[d] :
                         \/ shelf[d][p] = [i \in Slots |-> AsItCame]
                         \/ \E w \in HsWrites :
                              /\ \A i \in Slots : shelf[d][p][i] \in (IF card.kind = "vgmdc" THEN {w, Skipped} ELSE {w})
                              /\ where[w].left => card.kind = "vgmdc"
                              /\ ~where[w].left => where[w].disk = d /\ where[w].place = p /\ ~where[w].ro
                         \/ card.kind = "vgmdc" /\ shelf[d][p] = [i \in Slots |-> Skipped]
                    /\ \A w \in HsWrites :
                         where[w].done /\ ~where[w].left /\ ~where[w].ro /\ where[w].disk # NoDisk
                           => shelf[where[w].disk][where[w].place] # [i \in Slots |-> AsItCame]
  BY DEF SlotIsWhole, ScIs
<1>1. /\ Shelved(HsMachine, where) /\ ScFormed(HsMachine) /\ HsMachine.card = card /\ HsMachine.shelf = shelf
  BY DEF ScInv, ScKinds, NsGood, NsSound, VgGood, VgSound, HsMachine
<1>2. ScWhole(shelf, where, card.kind = "vgmdc") /\ ScLands(shelf, where)
  BY <1>1 DEF Shelved
<1>3. \A d \in HsDisks : DOMAIN shelf[d] = ScPlaces
  BY <1>1 DEF ScFormed
<1>4. ASSUME NEW d \in HsDisks, NEW p \in DOMAIN shelf[d], shelf[d][p] # [i \in Slots |-> AsItCame]
      PROVE  \E w \in HsWrites :
               /\ \A i \in Slots : shelf[d][p][i] \in (IF card.kind = "vgmdc" THEN {w, Skipped} ELSE {w})
               /\ where[w].left => card.kind = "vgmdc"
               /\ ~where[w].left => where[w].disk = d /\ where[w].place = p /\ ~where[w].ro
  <2>1. PICK v \in 1..Len(where) :
          /\ \A i \in Slots : shelf[d][p][i] = v \/ (card.kind = "vgmdc" /\ shelf[d][p][i] = Skipped)
          /\ card.kind = "vgmdc" \/ (where[v].done /\ ~where[v].left)
          /\ ~where[v].left => where[v].disk = d /\ where[v].place = p /\ ~where[v].ro
    BY <1>2, <1>3, <1>4 DEF ScWhole, Pristine
  <2> QED BY <2>1 DEF HsWrites
<1>5. ASSUME NEW w \in HsWrites, where[w].done, ~where[w].left, ~where[w].ro, where[w].disk # NoDisk
      PROVE  shelf[where[w].disk][where[w].place] # [i \in Slots |-> AsItCame]
  BY <1>2, <1>5 DEF ScLands, HsWrites, Pristine
<1> QED BY <1>4, <1>5

\* What the card keeps of a sector is of the one under the head.
LEMMA ScReadsFresh ==
  ASSUME ScInv
  PROVE  SlotIsFresh
<1> DEFINE m == HsMachine
           n == NsTick(m)
<1>1. m.card = card /\ m.shelf = shelf /\ turned \in Turns
  BY DEF ScInv, HsMachine
<1>2. ASSUME card.kind = "vgmdc", VgSpins(m), card.rdFor = KeyOf(m, turned), HasSide(VgDrive(m).disk, card.head)
      PROVE  card.buf = shelf[VgDrive(m).disk][<<Surface(VgDrive(m).track, card.head), SectorAt(turned)>>]
  <2>1. ScFormed(m) /\ VgCache(m)
    BY <1>2 DEF ScInv, VgGood, VgSound
  <2>2. card.unit \in Bays /\ card.head \in 0..1 /\ m.bay[card.unit].track \in TrackNumbers /\ SectorAt(turned) \in SectorNumbers
    BY <1>1, <2>1, TurnsOn DEF ScFormed, Bay
  <2>3. m.bay[card.unit].disk # NoDisk
    BY <1>1, <1>2 DEF VgSpins, VgDrive
  <2> QED BY <1>1, <1>2, <2>1, <2>2, <2>3 DEF VgCache, KeyOf, VgDrive
<1>3. ASSUME card.kind \in NorthStars, n.card.rdFor # Unread, n.card.rdValid, n.card.rdSide = Side(n.card)
      PROVE  /\ Real(n)
             /\ n.card.buf = n.shelf[Sel(n).disk][<<Surface(Sel(n).track, n.card.rdSide), SectorAt(turned)>>]
  <2>1. NsSound(n, where, turned) /\ LookedAt(n)
    BY <1>3, NsTickKeeps DEF ScInv, NsGood, NsKeeps
  <2> QED BY <1>3, <2>1 DEF NsSound, NsRead, LookedAt
<1> QED BY <1>2, <1>3 DEF SlotIsFresh, ScIs

\* The deadline is part of the invariant.
LEMMA ScAwaits ==
  ASSUME ScInv
  PROVE  PulseIsAwaited
BY DEF ScInv, PulseIsAwaited, ScIs, NsGood, NsWake, VgGood, VgWake, HsMachine

-----------------------------------------------------------------------------
(***************************************************************************)
(* Any of the five cards.                                                  *)
(***************************************************************************)
SlotInv == (card.kind \in MitsKinds /\ MitsInv) \/ (card.kind \in ScKinds /\ ScInv)

\* No card is of both families.
LEMMA Families ==
  MitsKinds \cap ScKinds = {}
BY DEF MitsKinds, ScKinds, NorthStars

\* The rig is not changed once chosen.
LEMMA RigStays ==
  ASSUME ScNext
  PROVE  guest' = guest
<1>1. ASSUME NEW m, ScByHand(m)
      PROVE  guest' = guest
  BY <1>1 DEF ScByHand
<1>2. CASE \/ \E look \in {"data", "status"}, c \in guest.commands : NsAccess(look, c)
           \/ \E zero \in BOOLEAN : NsWrite(zero)
           \/ \E look \in {"data", "sector"} : VgLook(look)
           \/ VgGive
           \/ \E c \in guest.commands : VgObey(c)
  <2>1. HsStill
    BY <1>2 DEF NsAccess, NsWrite, VgLook, VgGive, VgObey
  <2> QED BY <2>1 DEF HsStill
<1>3. CASE \E u \in Bays, d \in HsDisks, ro \in BOOLEAN : ScMount(u, d, ro)
  BY <1>1, <1>3 DEF ScMount
<1>4. CASE \E u \in Bays : ScUnmount(u)
  BY <1>1, <1>4 DEF ScUnmount
<1>5. CASE \E power \in BOOLEAN : ScReset(power)
  BY <1>1, <1>5 DEF ScReset
<1>6. CASE ScTick
  BY <1>6 DEF ScTick
<1> QED BY <1>2, <1>3, <1>4, <1>5, <1>6 DEF ScNext

\* The invariant holds of every behavior, of whichever card.
LEMMA SlotsStayRight ==
  SlotSpec => []SlotInv
<1>1. SlotInit => SlotInv
  <2>1. ASSUME HsInit
        PROVE  SlotInv
    BY <2>1, MitsStarts DEF SlotInv, MitsInv
  <2>2. ASSUME ScInit
        PROVE  SlotInv
    <3>1. card.kind = guest.kind /\ guest.kind \in ScKinds
      BY <2>2 DEF ScInit
    <3> QED BY <2>2, <3>1, ScStarts DEF SlotInv
  <2> QED BY <2>1, <2>2 DEF SlotInit
<1>2. SlotInv /\ [SlotNext]_hsVars => SlotInv'
  <2> SUFFICES ASSUME SlotInv, [SlotNext]_hsVars
               PROVE  SlotInv'
    OBVIOUS
  <2>1. CASE card.kind \in MitsKinds
    <3>1. MitsInv
      BY <2>1, Families DEF SlotInv
    <3>2. ~ScNext
      <4>1. ASSUME ScNext
            PROVE  card.kind \in ScKinds
        BY <4>1 DEF ScNext, NsAccess, NsWrite, VgLook, VgGive, VgObey, ScMount, ScUnmount, ScReset, ScTick, ScIs, ScKinds
      <4> QED BY <2>1, <4>1, Families
    <3>3. [HsNext]_hsVars
      BY <3>2 DEF SlotNext
    <3>4. MitsInv'
      BY <3>1, <3>3, MitsStep
    <3> QED BY <3>4 DEF SlotInv, MitsInv
  <2>2. CASE card.kind \in ScKinds
    <3>1. ScInv
      BY <2>2, Families DEF SlotInv
    <3>2. ~HsNext
      BY <2>2, Families DEF HsNext
    <3>3. CASE ScNext
      <4>1. ScInv' /\ guest' = guest
        BY <3>1, <3>3, ScStep, RigStays
      <4>2. card'.kind = card.kind
        BY <3>1, <4>1 DEF ScInv
      <4> QED BY <2>2, <4>1, <4>2 DEF SlotInv
    <3>4. CASE UNCHANGED hsVars
      <4>1. ScInv' /\ card' = card
        BY <3>1, <3>4, ScStill DEF hsVars
      <4> QED BY <2>2, <4>1 DEF SlotInv
    <3> QED BY <3>2, <3>3, <3>4 DEF SlotNext
  <2> QED BY <2>1, <2>2 DEF SlotInv
<1> QED BY <1>1, <1>2, PTL DEF SlotSpec

\* On every hard-sector card a sector of a disk is the original or one write, whole, in the place the
\* head was at when the write was armed; and a write the guest gave bytes for is there, pending where
\* the head still stands, or written over (the North Star boards drop a write the head left, and the
\* Micropolis board puts it where the head went).
THEOREM SlotsRight == SlotSpec => []SlotsAreWhole
<1>1. SlotInv => SlotsAreWhole
  <2>1. ASSUME card.kind \in MitsKinds, MitsInv
        PROVE  SlotsAreWhole
    <3>1. SlotIsWhole
      BY <2>1, Families DEF SlotIsWhole, ScIs
    <3> QED BY <2>1, <3>1, MitsLands DEF SlotsAreWhole
  <2>2. ASSUME card.kind \in ScKinds, ScInv
        PROVE  SlotsAreWhole
    <3>1. SlotLandsWhereArmed
      BY <2>2, Families DEF SlotLandsWhereArmed
    <3> QED BY <2>2, <3>1, ScLandsWhole DEF SlotsAreWhole
  <2> QED BY <2>1, <2>2 DEF SlotInv
<1> QED BY <1>1, SlotsStayRight, PTL

\* On every hard-sector card what the guest would read is the sector under the head, of the disk that
\* is in the drive, as it is on that disk now.
THEOREM ReadsRight == SlotSpec => []SlotsAreFresh
<1>1. SlotInv => SlotsAreFresh
  <2>1. ASSUME card.kind \in MitsKinds, MitsInv
        PROVE  SlotsAreFresh
    <3>1. SlotIsFresh
      BY <2>1, Families DEF SlotIsFresh, ScIs, ScKinds
    <3> QED BY <2>1, <3>1, MitsFresh DEF SlotsAreFresh
  <2>2. ASSUME card.kind \in ScKinds, ScInv
        PROVE  SlotsAreFresh
    <3>1. ReadIsUnderHead
      BY <2>2, Families DEF ReadIsUnderHead
    <3> QED BY <2>2, <3>1, ScReadsFresh DEF SlotsAreFresh
  <2> QED BY <2>1, <2>2 DEF SlotInv
<1> QED BY <1>1, SlotsStayRight, PTL

\* A North Star board with its interrupt armed has its deadline within the period of the pulse, and a
\* Micropolis board with a write or an interrupt to end has it at the next boundary.
THEOREM PulsesAwaited == SlotSpec => []PulseIsAwaited
<1>1. SlotInv => PulseIsAwaited
  <2>1. ASSUME card.kind \in MitsKinds
        PROVE  PulseIsAwaited
    BY <2>1, Families DEF PulseIsAwaited, ScIs, ScKinds
  <2> QED BY <2>1, ScAwaits DEF SlotInv
<1> QED BY <1>1, SlotsStayRight, PTL
=============================================================================
