--------------------------- MODULE FloppyDma_proof ---------------------------
(***************************************************************************)
(* Proofs about the Disk 1A with its uPD765 (FloppyDma), for any number of *)
(* units and cylinders, any sector size and times, every rig and every     *)
(* guest.                                                                  *)
(*                                                                         *)
(* The first inductive invariant (IInv) has three parts.  The machine is   *)
(* Sane: a unit that is busy, or whose seek has ended, has a seek or a     *)
(* status pending (Sought), and a command in execution has a byte to move  *)
(* (Ordered).  The card looks in time: its one deadline comes before every *)
(* step and every head that settles (Awaited), the wires are driven from   *)
(* what the chip asks for (WiresAgree), and motors that run are looked at  *)
(* before they are to stop (MotorStops).  And trust is earned              *)
(* (TrustIsEarned): a unit that has been calibrated is where its count     *)
(* says and does not run for an end of the drive, or it recalibrates       *)
(* again.  Every operation of the chip is shown to keep the trust in a     *)
(* unit (Keeps), but for the one that begins a seek, after which a trusted *)
(* unit is Leaving: its first pulse is still to come.                      *)
(*                                                                         *)
(* The second (JobOK) says how far a transfer has got: after K whole       *)
(* sectors and n bytes of the next (At), the sectors it has passed are the *)
(* K that the command asks for, they and the part of the next agree with   *)
(* the memory, nothing else has changed (Untouched), and the counter       *)
(* stands behind the bytes moved (CounterAt).  It needs the first: only a  *)
(* Sane machine has a byte to move where its transfer says it does.        *)
(***************************************************************************)
EXTENDS FloppyDma, SequenceTheorems, WellFoundedInduction, TLAPS

\* Cabling, the registers the proof speaks of, and a seek in flight.
Cables == [alternate : Drives \cup {NoUnit}, twoSided : BOOLEAN]
Registers == {"phase", "got", "due", "xfer", "idx", "want", "needNext", "nd", "resultInt", "hd",
              "seek", "pending", "seekEnd", "busy", "pcn"}
Seeks == [active : BOOLEAN, recal : BOOLEAN, target : Nat, hd : Heads, pulses : Nat, due : Nat]

\* The registers of a transfer, and the tracks of a diskette, whose sectors are numbered from 1.
TransferRegisters == {"us", "c", "h", "r", "toMem", "buf", "cmStop", "st1", "st2", "cur", "met", "res"}
HasTransfer(names) == TransferRegisters \subseteq names
Tracks == (0..(Cyls - 1)) \X Heads
Formed(tracks) == DOMAIN tracks = Tracks /\ \A p \in Tracks : DOMAIN tracks[p] \subseteq Nat \ {0}
Medium(d) == {"wp", "heads", "side", "data"} \subseteq DOMAIN d /\ Formed(d.data)

\* A machine has its parts, and every head is on a cylinder of its drive.
Shaped(s) ==
  /\ {"chip", "drive", "cable"} \subseteq DOMAIN s
  /\ Registers \subseteq DOMAIN s.chip /\ HasTransfer(DOMAIN s.chip)
  /\ s.cable \in Cables
  /\ DOMAIN s.drive = Drives
  /\ \A u \in Drives : /\ {"in", "head"} \subseteq DOMAIN s.drive[u]
                       /\ s.drive[u].in \in BOOLEAN /\ s.drive[u].head \in 0..(Cyls - 1)
                       /\ Medium(s.drive[u])

\* The counters of a transfer.
Counters(c) == c.idx \in Nat /\ c.want \in Nat /\ c.needNext \in BOOLEAN /\ c.due \in Nat

\* The drives in t are those of s, but for what is on them and the side selected.
Calm(s, t) ==
  /\ Shaped(t)
  /\ t.cable = s.cable /\ t.chip.seek = s.chip.seek /\ t.chip.pcn = s.chip.pcn
  /\ t.chip.pending = s.chip.pending /\ t.chip.seekEnd = s.chip.seekEnd
  /\ t.chip.busy = s.chip.busy /\ t.chip.got = s.chip.got
  /\ \A u \in Drives : t.drive[u].in = s.drive[u].in /\ t.drive[u].head = s.drive[u].head

\* A transfer is running, and where its byte may be the last.
Working(s) == s.chip.phase = "exec" /\ s.chip.xfer # "none" /\ Counters(s.chip)
\* After a byte the transfer has another, or has come to its result.
Underway(t) == Counters(t.chip) /\ (t.chip.phase = "result" \/ (t.chip.phase = "exec" /\ Moving(t.chip)))
\* A transfer gets from s to t without touching a seek or a head.
Goes(s, t) == Calm(s, t) /\ Underway(t)

\* Steps that leave the seeks alone follow one another.
LEMMA CalmTransitive ==
  ASSUME NEW s, NEW t, NEW w, Calm(s, t), Calm(t, w)
  PROVE  Calm(s, w)
<1> QED BY DEF Calm

\* Doing nothing leaves the seeks alone.
LEMMA CalmSelf ==
  ASSUME NEW s, Shaped(s)
  PROVE  Calm(s, s)
<1> QED BY DEF Calm

\* What the assumptions say of the constants, one by one.
LEMMA Constants == Cyls \in Nat \ {0} /\ SecLen \in Nat \ {0} /\ MaxPulses \in Nat \ {0} /\ Srt \in Nat \ {0}
                   /\ Hlt \in Nat \ {0} /\ MotorT \in Nat \ {0}
  /\ Units \in 1..4 /\ 0 \in Drives /\ Drives \subseteq 0..3
<1> QED BY Upd765Assumption, FloppyDmaAssumption DEF Drives

\* Nothing but registers of the transfer has changed.
Same(s, t) ==
  /\ DOMAIN t = DOMAIN s /\ DOMAIN t.chip = DOMAIN s.chip /\ t.drive = s.drive /\ t.cable = s.cable
  /\ t.chip.seek = s.chip.seek /\ t.chip.pcn = s.chip.pcn /\ t.chip.pending = s.chip.pending
  /\ t.chip.seekEnd = s.chip.seekEnd /\ t.chip.busy = s.chip.busy /\ t.chip.got = s.chip.got

\* What changes registers of the transfer only leaves the seeks alone.
LEMMA SameIsCalm ==
  ASSUME NEW s, NEW t, Shaped(s), Same(s, t)
  PROVE  Calm(s, t)
<1> QED BY DEF Shaped, Same, Calm

\* endData raises the result and leaves the seeks alone.
LEMMA EndDataGoes ==
  ASSUME NEW s, NEW ic, Shaped(s), Counters(s.chip)
  PROVE  Goes(s, EndData(s, ic)) /\ EndData(s, ic).chip.phase = "result"
<1> DEFINE t == EndData(s, ic)
<1>1. Same(s, t)
  BY ZenonT(60) DEF Shaped, EndData, Result, Registers, Same
<1>2. t.chip.phase = "result" /\ t.chip.idx = 0 /\ t.chip.want = 0 /\ t.chip.needNext \in BOOLEAN
      /\ t.chip.due = s.chip.due
  BY ZenonT(60) DEF Shaped, EndData, Result, Registers
<1> HIDE DEF t
<1>3. Calm(s, t)
  BY <1>1, SameIsCalm
<1>4. Underway(t)
  BY <1>2 DEF Underway, Counters
<1> QED BY <1>2, <1>3, <1>4 DEF Goes, t

\* A flag of ST1 or ST2 is a register of the transfer.
LEMMA FlaggedSame ==
  ASSUME NEW s, NEW f, Shaped(s), Counters(s.chip)
  PROVE  /\ Same(s, Flagged1(s, f)) /\ Counters(Flagged1(s, f).chip)
         /\ Flagged1(s, f).chip.phase = s.chip.phase /\ Flagged1(s, f).chip.xfer = s.chip.xfer
         /\ Same(s, Flagged2(s, f)) /\ Counters(Flagged2(s, f).chip)
         /\ Flagged2(s, f).chip.phase = s.chip.phase /\ Flagged2(s, f).chip.xfer = s.chip.xfer
<1> QED BY DEF Shaped, Flagged1, Flagged2, Registers, Same, Counters

\* The ID a result reports is a register of the transfer.
LEMMA IdAfterSame ==
  ASSUME NEW s, NEW e, Shaped(s), Counters(s.chip)
  PROVE  Same(s, IdAfter(s, e)) /\ Counters(IdAfter(s, e).chip)
<1> QED BY DEF Shaped, IdAfter, Registers, Same, Counters

\* A diskette is not changed by the side selected or by where the head is.
LEMMA MediumStays ==
  ASSUME NEW d, Medium(d), NEW x
  PROVE  Medium([d EXCEPT !.side = x]) /\ Medium([d EXCEPT !.head = x])
<1> QED BY DEF Medium

\* A diskette as it comes is one.
LEMMA DisketteIsMedium ==
  ASSUME NEW u, NEW heads, NEW wp
  PROVE  Medium(Diskette(u, heads, wp))
<1>1. Formed(Original(u))
  BY DEF Formed, Original, Tracks
<1> QED BY <1>1 DEF Medium, Diskette

\* Selecting a side moves no head.
LEMMA SelectHeadCalm ==
  ASSUME NEW s, Shaped(s)
  PROVE  Calm(s, SelectHead(s)) /\ SelectHead(s).chip = s.chip
<1> DEFINE t == SelectHead(s)
           v == Unit(s, s.chip.us)
<1>1. t.chip = s.chip /\ t.cable = s.cable /\ DOMAIN t = DOMAIN s
  BY DEF Shaped, SelectHead
<1>2. t.drive = [s.drive EXCEPT ![v].side = s.chip.hd]
  BY DEF Shaped, SelectHead
<1> HIDE DEF t, v
<1>3. DOMAIN t.drive = Drives
  BY <1>2 DEF Shaped
<1>4. \A u \in Drives : /\ DOMAIN t.drive[u] = DOMAIN s.drive[u]
                        /\ t.drive[u].in = s.drive[u].in /\ t.drive[u].head = s.drive[u].head
  BY <1>2 DEF Shaped
<1>5. \A u \in Drives : Medium(t.drive[u])
  <2>1. \A u \in Drives : t.drive[u] \in {s.drive[u], [s.drive[u] EXCEPT !.side = s.chip.hd]}
    BY <1>2 DEF Shaped
  <2>2. \A u \in Drives : Medium(s.drive[u]) /\ Medium([s.drive[u] EXCEPT !.side = s.chip.hd])
    BY MediumStays DEF Shaped
  <2> QED BY <2>1, <2>2
<1>6. Shaped(t)
  BY <1>1, <1>3, <1>4, <1>5 DEF Shaped
<1> QED BY <1>1, <1>4, <1>6 DEF Calm, t

\* A sector that is opened has a byte to move.
LEMMA OpenedGoes ==
  ASSUME NEW s, NEW n, Shaped(s), Working(s)
  PROVE  Goes(s, Opened(s, n))
<1> DEFINE t == Opened(s, n)
<1>1. Same(s, t)
  BY DEF Shaped, Opened, Registers, Same
<1>2. /\ t.chip.phase = "exec" /\ t.chip.xfer # "none" /\ t.chip.idx = 0 /\ t.chip.want = SecLen
      /\ t.chip.needNext \in BOOLEAN /\ t.chip.due \in Nat
  BY DEF Shaped, Opened, Registers, Working, Counters
<1> HIDE DEF t
<1>3. Underway(t)
  BY <1>2, Constants DEF Underway, Counters, Moving
<1> QED BY <1>1, <1>3, SameIsCalm DEF Goes, t

\* What follows a state on the way to it.
LEMMA GoesOn ==
  ASSUME NEW s, NEW t, NEW w, Calm(s, t), Goes(t, w)
  PROVE  Goes(s, w)
<1> QED BY CalmTransitive DEF Goes

\* A transfer goes on from where a change of its registers left it.
LEMMA SameOn ==
  ASSUME NEW s, NEW t, NEW w, Shaped(s), Same(s, t), Goes(t, w)
  PROVE  Goes(s, w)
<1> QED BY SameIsCalm, GoesOn

\* A change of the transfer's registers keeps the shape.
LEMMA SameShaped ==
  ASSUME NEW s, NEW t, Shaped(s), Same(s, t)
  PROVE  Shaped(t)
<1> QED BY DEF Shaped, Same

\* A sector that is not found sets flags only.
LEMMA NotFoundSame ==
  ASSUME NEW s, Shaped(s), Counters(s.chip)
  PROVE  Same(s, NotFound(s)) /\ Counters(NotFound(s).chip)
<1> DEFINE e == IF s.chip.r \in DOMAIN Track(Drive(s, s.chip.us)) /\ s.chip.h = s.chip.hd THEN {"WC"} ELSE {}
           t == Flagged1(s, {"ND"})
<1>1. NotFound(s) = Flagged1(s, {"MA"}) \/ NotFound(s) = Flagged2(t, e)
  BY DEF NotFound
<1>2. Same(s, Flagged1(s, {"MA"})) /\ Counters(Flagged1(s, {"MA"}).chip) /\ Same(s, t) /\ Counters(t.chip)
  BY FlaggedSame
<1> HIDE DEF t, e
<1>3. Shaped(t)
  BY <1>2, SameShaped
<1>4. Same(t, Flagged2(t, e)) /\ Counters(Flagged2(t, e).chip)
  BY <1>2, <1>3, FlaggedSame
<1>5. Same(s, Flagged2(t, e))
  BY <1>2, <1>4 DEF Same
<1> QED BY <1>1, <1>2, <1>4, <1>5

\* openSector opens the sector or ends the command.
LEMMA OpenSectorGoes ==
  ASSUME NEW s, Shaped(s), Working(s)
  PROVE  Goes(s, OpenSector(s))
<1> DEFINE x == NotFound(s)
           y == Flagged2(s, {"CM"})
           z == [y EXCEPT !.chip.cmStop = TRUE]
<1>1. \/ OpenSector(s) = EndData(x, {"AT"})
      \/ OpenSector(s) = Opened(z, s.chip.r)
      \/ OpenSector(s) = Opened(s, s.chip.r)
  BY DEF OpenSector
<1>2. Counters(s.chip)
  BY DEF Working
<1>3. Same(s, x) /\ Counters(x.chip)
  BY <1>2, NotFoundSame
<1>4. Same(s, y) /\ Counters(y.chip) /\ y.chip.phase = s.chip.phase /\ y.chip.xfer = s.chip.xfer
  BY <1>2, FlaggedSame
<1> HIDE DEF x, y
<1>5. Shaped(x) /\ Shaped(y)
  BY <1>3, <1>4, SameShaped
<1>6. Same(y, z) /\ Counters(z.chip) /\ z.chip.phase = y.chip.phase /\ z.chip.xfer = y.chip.xfer
  BY <1>4, <1>5 DEF Same, Counters, Shaped, Registers
<1> HIDE DEF z
<1>7. Shaped(z) /\ Same(s, z) /\ Working(z)
  <2>1. Shaped(z)
    BY <1>5, <1>6, SameShaped
  <2>2. Same(s, z)
    BY <1>4, <1>6 DEF Same
  <2> QED BY <2>1, <2>2, <1>4, <1>6 DEF Working
<1>8. CASE OpenSector(s) = EndData(x, {"AT"})
  BY <1>3, <1>5, <1>8, EndDataGoes, SameOn
<1>9. CASE OpenSector(s) = Opened(z, s.chip.r)
  BY <1>7, <1>9, OpenedGoes, SameOn
<1>10. CASE OpenSector(s) = Opened(s, s.chip.r)
  BY <1>10, OpenedGoes
<1> QED BY <1>1, <1>8, <1>9, <1>10

\* endData after a step that left the seeks alone.
LEMMA EndOn ==
  ASSUME NEW s, NEW t, NEW ic, Shaped(s), Calm(s, t), Counters(t.chip)
  PROVE  Goes(s, EndData(t, ic))
<1>1. Shaped(t)
  BY DEF Calm
<1> QED BY <1>1, EndDataGoes, GoesOn

\* READ TRACK opens the next sector under the head or ends.
LEMMA OpenTrackSectorGoes ==
  ASSUME NEW s, Shaped(s), Working(s)
  PROVE  Goes(s, OpenTrackSector(s))
<1> DEFINE d == Drive(s, s.chip.us)
           n == NextSector(d, s.chip.cursor)
           x == Flagged1(s, {"MA"})
           y == IF d.head = s.chip.c /\ s.chip.h = s.chip.hd /\ n = s.chip.r THEN s
                ELSE Flagged1(s, {"ND"})
           w == Opened(y, n)
           e == (w.chip.cursor + 1) % Cardinality(DOMAIN Track(d))
           z == [w EXCEPT !.chip.cursor = e]
<1>1. OpenTrackSector(s) = EndData(x, {"AT"}) \/ OpenTrackSector(s) = z
  BY DEF OpenTrackSector
<1>2. Counters(s.chip)
  BY DEF Working
<1>3. Same(s, x) /\ Counters(x.chip)
  BY <1>2, FlaggedSame
<1>4. y = s \/ y = Flagged1(s, {"ND"})
  OBVIOUS
<1> HIDE DEF d, n, x, y
<1>5. Shaped(y) /\ Working(y) /\ Same(s, y)
  <2>1. Same(s, s)
    BY DEF Same
  <2>2. Same(s, y) /\ Counters(y.chip) /\ y.chip.phase = s.chip.phase /\ y.chip.xfer = s.chip.xfer
    BY <1>2, <1>4, <2>1, FlaggedSame
  <2> QED BY <2>2, SameShaped DEF Working
<1>6. Goes(y, w)
  BY <1>5, OpenedGoes
<1> HIDE DEF w, e
<1>7. Shaped(w)
  BY <1>6 DEF Goes, Calm
<1>8. /\ Same(w, z) /\ z.chip.idx = w.chip.idx /\ z.chip.want = w.chip.want /\ z.chip.due = w.chip.due
      /\ z.chip.needNext = w.chip.needNext /\ z.chip.phase = w.chip.phase /\ z.chip.xfer = w.chip.xfer
  BY <1>7 DEF Same, Shaped, Registers
<1> HIDE DEF z
<1>9. Goes(w, z)
  BY <1>6, <1>7, <1>8, SameIsCalm DEF Goes, Underway, Counters, Moving
<1>10. Goes(y, z)
  BY <1>6, <1>9, GoesOn DEF Goes
<1>11. Goes(s, z)
  BY <1>5, <1>10, SameOn
<1>12. Goes(s, EndData(x, {"AT"}))
  BY <1>3, EndOn, SameIsCalm
<1> QED BY SMTT(30), <1>1, <1>11, <1>12

\* The end of the track ends the command.
LEMMA EndOfTrackGoes ==
  ASSUME NEW s, Shaped(s), Counters(s.chip)
  PROVE  Goes(s, EndOfTrack(s))
<1> DEFINE x == IdAfter(s, TRUE)
           y == Flagged1(x, {"EN"})
<1>1. Same(s, x) /\ Counters(x.chip)
  BY IdAfterSame
<1> HIDE DEF x
<1>2. Shaped(x)
  BY <1>1, SameShaped
<1>3. Same(x, y) /\ Counters(y.chip)
  BY <1>1, <1>2, FlaggedSame
<1> HIDE DEF y
<1>4. Calm(s, y)
  BY <1>1, <1>2, <1>3, SameIsCalm, CalmTransitive
<1>5. Goes(s, EndData(y, {"AT"}))
  BY <1>3, <1>4, EndOn
<1> QED BY <1>5 DEF EndOfTrack, x, y

\* A multi-track command goes on with the other side or ends.
LEMMA OtherSideGoes ==
  ASSUME NEW s, Shaped(s), Working(s)
  PROVE  Goes(s, OtherSide(s))
<1> DEFINE x == [s EXCEPT !.chip.hd = 1, !.chip.h = 1 - @, !.chip.r = 1]
           y == SelectHead(x)
<1>1. OtherSide(s) = OpenSector(y) \/ OtherSide(s) = EndData(y, {"AT", "NR"})
  BY DEF OtherSide
<1>2. Same(s, x) /\ Counters(x.chip) /\ x.chip.phase = s.chip.phase /\ x.chip.xfer = s.chip.xfer
  BY DEF Same, Shaped, Registers, Working, Counters
<1> HIDE DEF x
<1>3. Shaped(x)
  BY <1>2, SameShaped
<1>4. Calm(x, y) /\ y.chip = x.chip
  BY <1>3, SelectHeadCalm
<1> HIDE DEF y
<1>5. Calm(s, y) /\ Shaped(y) /\ Working(y) /\ Counters(y.chip)
  <2>1. Calm(s, y)
    BY <1>2, <1>4, SameIsCalm, CalmTransitive
  <2>2. Shaped(y)
    BY <1>4 DEF Calm
  <2> QED BY <1>2, <1>4, <2>1, <2>2 DEF Working
<1>6. Goes(s, OpenSector(y))
  BY <1>5, OpenSectorGoes, GoesOn
<1>7. Goes(s, EndData(y, {"AT", "NR"}))
  BY <1>5, EndOn
<1> QED BY <1>1, <1>6, <1>7

\* advanceSector opens another sector or ends the command.
LEMMA AdvanceGoes ==
  ASSUME NEW s, Shaped(s), Working(s)
  PROVE  Goes(s, Advance(s))
<1> DEFINE x == [s EXCEPT !.chip.r = @ + 1]
<1>1. Same(s, x) /\ Counters(x.chip) /\ x.chip.phase = s.chip.phase /\ x.chip.xfer = s.chip.xfer
  BY DEF Same, Shaped, Registers, Working, Counters
<1>2. Advance(s) \in {OpenSector(x), OtherSide(s), EndOfTrack(s)}
  BY DEF Advance
<1> HIDE DEF x
<1>3. Shaped(x) /\ Working(x)
  BY <1>1, SameShaped DEF Working
<1>4. Goes(s, OpenSector(x))
  BY <1>1, <1>3, OpenSectorGoes, SameOn
<1>5. Counters(s.chip)
  BY DEF Working
<1> QED BY <1>2, <1>4, <1>5, OtherSideGoes, EndOfTrackGoes

\* NextByte leaves a machine that moves as it is, or opens the next sector.
LEMMA NextByteGoes ==
  ASSUME NEW s, Shaped(s), Working(s), Moving(s.chip)
  PROVE  Goes(s, NextByte(s))
<1> DEFINE t == [s EXCEPT !.chip.needNext = FALSE]
           x == [t EXCEPT !.chip.r = @ + 1]
<1>1. NextByte(s) \in {s, OpenTrackSector(x), Advance(t)}
  BY DEF NextByte
<1>2. /\ Same(s, t) /\ t.chip.needNext \in BOOLEAN /\ t.chip.idx = s.chip.idx /\ t.chip.due = s.chip.due
      /\ t.chip.want = s.chip.want /\ t.chip.phase = s.chip.phase /\ t.chip.xfer = s.chip.xfer
  BY DEF Same, Shaped, Registers
<1> HIDE DEF t
<1>3. Shaped(t) /\ Working(t)
  BY <1>2, SameShaped DEF Working, Counters
<1>4. Same(t, x) /\ Counters(x.chip) /\ x.chip.phase = t.chip.phase /\ x.chip.xfer = t.chip.xfer
  BY <1>3 DEF Same, Shaped, Registers, Working, Counters
<1> HIDE DEF x
<1>5. Shaped(x) /\ Working(x)
  BY <1>3, <1>4, SameShaped DEF Working
<1>6. Goes(t, OpenTrackSector(x))
  BY <1>3, <1>4, <1>5, OpenTrackSectorGoes, SameOn
<1>7. Goes(s, OpenTrackSector(x)) /\ Goes(s, Advance(t))
  BY <1>2, <1>3, <1>6, AdvanceGoes, SameOn
<1>8. Goes(s, s)
  BY CalmSelf DEF Goes, Underway, Working
<1> QED BY <1>1, <1>7, <1>8

\* A transfer that is to go on has a sector to open with its next byte.
LEMMA GoOnGoes ==
  ASSUME NEW s, Shaped(s), Working(s)
  PROVE  Goes(s, GoOn(s))
<1> DEFINE t == GoOn(s)
<1>1. Same(s, t)
  BY DEF Same, Shaped, Registers, GoOn
<1>2. /\ t.chip.needNext /\ t.chip.needNext \in BOOLEAN /\ t.chip.idx = s.chip.idx
      /\ t.chip.want = s.chip.want /\ t.chip.due = s.chip.due
      /\ t.chip.phase = s.chip.phase /\ t.chip.xfer = s.chip.xfer
  BY DEF Shaped, Registers, GoOn
<1> HIDE DEF t
<1>3. Underway(t)
  BY <1>2 DEF Underway, Working, Counters, Moving
<1> QED BY <1>1, <1>3, SameIsCalm DEF Goes, t

\* The end of a sector asks for the next sector or ends the command.
LEMMA MovedOnGoes ==
  ASSUME NEW s, Shaped(s), Working(s)
  PROVE  Goes(s, MovedOn(s))
<1> DEFINE x == IdAfter(s, s.chip.r = s.chip.got.eot)
<1>1. MovedOn(s) \in {EndData(x, {}), EndOfTrack(s), GoOn(s)}
  BY DEF MovedOn
<1>2. Counters(s.chip)
  BY DEF Working
<1>3. Same(s, x) /\ Counters(x.chip)
  BY <1>2, IdAfterSame
<1> HIDE DEF x
<1>4. Goes(s, EndData(x, {}))
  BY <1>3, EndOn, SameIsCalm
<1> QED BY <1>1, <1>2, <1>4, EndOfTrackGoes, GoOnGoes

\* Nothing a transfer writes on a diskette moves a head.
LEMMA DataCalm ==
  ASSUME NEW s, Shaped(s), NEW t, NEW v, NEW f, v \in Drives => Formed(f),
         t = [s EXCEPT !.drive[v].data = f]
  PROVE  Calm(s, t) /\ t.chip = s.chip
<1>1. t.chip = s.chip /\ t.cable = s.cable /\ DOMAIN t = DOMAIN s
  BY DEF Shaped
<1>2. t.drive = [s.drive EXCEPT ![v].data = f]
  BY DEF Shaped
<1>3. DOMAIN t.drive = Drives
  BY <1>2 DEF Shaped
<1>4. \A u \in Drives : /\ DOMAIN t.drive[u] = DOMAIN s.drive[u]
                        /\ t.drive[u].in = s.drive[u].in /\ t.drive[u].head = s.drive[u].head
  BY <1>2 DEF Shaped
<1>5. \A u \in Drives : Medium(t.drive[u])
  BY <1>2 DEF Shaped, Medium
<1>6. Shaped(t)
  BY <1>1, <1>3, <1>4, <1>5 DEF Shaped
<1> QED BY <1>1, <1>4, <1>6 DEF Calm

\* FORMAT writes its track and ends.
LEMMA FormattedGoes ==
  ASSUME NEW s, Shaped(s), Counters(s.chip)
  PROVE  Goes(s, Formatted(s)) /\ Formatted(s).chip.phase = "result"
<1> DEFINE d == Drive(s, s.chip.us)
           v == Unit(s, s.chip.us)
           p == <<d.head, d.side>>
           e == [n \in 1..s.chip.got.eot |-> [i \in 1..SecLen |-> Fill]]
           t == [s EXCEPT !.drive[v].data[p] = e]
<1>1. Formatted(s) \in {EndData(s, {"AT", "EC"}), EndData(t, {})}
  BY DEF Formatted
<1>2. DOMAIN e \subseteq Nat \ {0}
  OBVIOUS
<1> HIDE DEF e, p, v, d
<1>3. \E f : (v \in Drives => Formed(f)) /\ t = [s EXCEPT !.drive[v].data = f]
  <2> DEFINE f == [s.drive[v].data EXCEPT ![p] = e]
  <2>1. t = [s EXCEPT !.drive[v].data = f]
    BY DEF Shaped
  <2>2. v \in Drives => Formed(f)
    BY <1>2 DEF Shaped, Medium, Formed
  <2> QED BY <2>1, <2>2
<1> HIDE DEF t
<1>4. Calm(s, t) /\ t.chip = s.chip
  BY <1>3, DataCalm
<1>5. Goes(s, EndData(t, {})) /\ EndData(t, {}).chip.phase = "result"
  BY <1>4, EndOn, EndDataGoes DEF Calm
<1> QED BY <1>1, <1>5, EndDataGoes

\* A sector written, or refused by the diskette.
LEMMA WrittenGoes ==
  ASSUME NEW s, Shaped(s), Working(s)
  PROVE  Goes(s, Written(s))
<1> DEFINE d == Drive(s, s.chip.us)
           v == Unit(s, s.chip.us)
           p == <<d.head, d.side>>
           n == s.chip.cur
           e == s.chip.buf
           t == [s EXCEPT !.drive[v].data[p][n] = e]
<1>1. Written(s) \in {EndData(s, {"AT", "EC"}), MovedOn(t)}
  BY DEF Written
<1> HIDE DEF e, p, v, d, n
<1>3. \E f : (v \in Drives => Formed(f)) /\ t = [s EXCEPT !.drive[v].data = f]
  <2> DEFINE f == [s.drive[v].data EXCEPT ![p][n] = e]
  <2>1. t = [s EXCEPT !.drive[v].data = f]
    BY DEF Shaped
  <2>2. v \in Drives => Formed(f)
    BY DEF Shaped, Medium, Formed
  <2> QED BY <2>1, <2>2
<1> HIDE DEF t
<1>4. Calm(s, t) /\ t.chip = s.chip
  BY <1>3, DataCalm
<1>5. Shaped(t) /\ Working(t)
  BY <1>4 DEF Calm, Working
<1>6. Goes(s, MovedOn(t))
  BY <1>4, <1>5, MovedOnGoes, GoesOn
<1> QED BY <1>1, <1>6, EndDataGoes DEF Working

\* A sector compared with the guest's bytes.
LEMMA ScannedGoes ==
  ASSUME NEW s, Shaped(s), Working(s)
  PROVE  Goes(s, Scanned(s))
<1> DEFINE x == Flagged2(s, {"SH"})
           y == Flagged2(s, {"SN"})
<1>1. Scanned(s) \in {EndData(x, {}), EndData(y, {}), GoOn(s)}
  BY DEF Scanned
<1>2. Same(s, x) /\ Same(s, y) /\ Counters(x.chip) /\ Counters(y.chip)
  BY FlaggedSame DEF Working
<1> HIDE DEF x, y
<1>3. Goes(s, EndData(x, {})) /\ Goes(s, EndData(y, {}))
  BY <1>2, EndOn, SameIsCalm
<1> QED BY <1>1, <1>3, GoOnGoes

\* A sector of READ TRACK.
LEMMA TrackReadGoes ==
  ASSUME NEW s, Shaped(s), Working(s)
  PROVE  Goes(s, TrackRead(s))
<1> DEFINE t == [s EXCEPT !.chip.tracked = @ + 1]
           x == [t EXCEPT !.chip.r = @ + 1]
           ic == IF t.chip.st1 = {} THEN {} ELSE {"AT"}
<1>1. TrackRead(s) \in {EndData(x, ic), GoOn(t)}
  BY DEF TrackRead
<1> HIDE DEF ic
<1>2. Same(s, t) /\ Counters(t.chip) /\ t.chip.phase = s.chip.phase /\ t.chip.xfer = s.chip.xfer
  BY DEF Same, Shaped, Registers, Working, Counters
<1> HIDE DEF t
<1>3. Shaped(t) /\ Working(t)
  BY <1>2, SameShaped DEF Working
<1>4. Same(t, x) /\ Counters(x.chip)
  BY <1>3 DEF Same, Shaped, Registers, Working, Counters
<1> HIDE DEF x
<1>5. Calm(s, x)
  BY <1>2, <1>3, <1>4, SameIsCalm, CalmTransitive
<1>6. Goes(s, EndData(x, ic))
  BY <1>4, <1>5, EndOn
<1>7. Goes(s, GoOn(t))
  BY <1>2, <1>3, GoOnGoes, SameOn
<1> QED BY <1>1, <1>6, <1>7

\* Whatever the command, its sector's end goes on or ends.
LEMMA SectorDoneGoes ==
  ASSUME NEW s, Shaped(s), Working(s)
  PROVE  Goes(s, SectorDone(s))
<1>1. SectorDone(s) \in {Formatted(s), Written(s), Scanned(s), TrackRead(s), MovedOn(s)}
  BY DEF SectorDone
<1> QED BY <1>1, FormattedGoes, WrittenGoes, ScannedGoes, TrackReadGoes, MovedOnGoes DEF Working

\* The byte that fills the buffer ends the sector.
LEMMA ByteMovedGoes ==
  ASSUME NEW s, Shaped(s), Working(s)
  PROVE  Goes(s, ByteMoved(s))
<1>1. CASE s.chip.idx >= s.chip.want
  BY <1>1, SectorDoneGoes DEF ByteMoved
<1>2. CASE ~(s.chip.idx >= s.chip.want)
  <2>1. ByteMoved(s) = s
    BY <1>2 DEF ByteMoved
  <2>2. Underway(s)
    BY <1>2 DEF Underway, Working, Counters, Moving
  <2> QED BY <2>1, <2>2, CalmSelf DEF Goes
<1> QED BY <1>1, <1>2

\* A machine with a byte to move, after it: it has another, or it is done.
LEMMA ByteGoes ==
  ASSUME NEW s, Shaped(s), Working(s), Moving(s.chip), NEW b
  PROVE  Goes(s, ByteOut(s)) /\ Goes(s, ByteIn(s, b))
<1> DEFINE t == NextByte(s)
           x == [t EXCEPT !.chip.idx = @ + 1]
           m == x.chip.met /\ t.chip.buf[t.chip.idx + 1] = b
           y == [x EXCEPT !.chip.met = m]
           z == [x EXCEPT !.chip.buf = Append(@, b)]
<1>1. Goes(s, t)
  BY NextByteGoes
<1>2. CASE t.chip.phase # "exec"
  BY <1>1, <1>2 DEF ByteOut, ByteIn, ByteAvailable
<1>3. CASE t.chip.phase = "exec"
  <2>1. ByteOut(s) = ByteMoved(x) /\ ByteIn(s, b) \in {ByteMoved(y), ByteMoved(z)}
    BY <1>3 DEF ByteOut, ByteIn, ByteAvailable
  <2> HIDE DEF t
  <2>2. Shaped(t) /\ Working(t) /\ Calm(s, t)
    BY <1>1, <1>3 DEF Goes, Calm, Underway, Working, Moving
  <2>3. Same(t, x) /\ Counters(x.chip) /\ x.chip.phase = t.chip.phase /\ x.chip.xfer = t.chip.xfer
    BY <2>2 DEF Same, Shaped, Registers, Working, Counters
  <2> HIDE DEF x, m
  <2>4. Shaped(x) /\ Working(x)
    BY <2>2, <2>3, SameShaped DEF Working
  <2>5. Same(x, y) /\ Counters(y.chip) /\ y.chip.phase = x.chip.phase /\ y.chip.xfer = x.chip.xfer
    BY <2>4 DEF Same, Shaped, Registers, Working, Counters
  <2>6. Same(x, z) /\ Counters(z.chip) /\ z.chip.phase = x.chip.phase /\ z.chip.xfer = x.chip.xfer
    BY <2>4 DEF Same, Shaped, Registers, Working, Counters
  <2> HIDE DEF y, z
  <2>7. Shaped(y) /\ Working(y) /\ Shaped(z) /\ Working(z)
    BY <2>4, <2>5, <2>6, SameShaped DEF Working
  <2>8. Calm(s, x)
    BY <2>2, <2>3, SameIsCalm, CalmTransitive
  <2>9. Calm(s, y) /\ Calm(s, z)
    BY <2>4, <2>5, <2>6, <2>8, SameIsCalm, CalmTransitive
  <2>10. Goes(s, ByteMoved(x)) /\ Goes(s, ByteMoved(y)) /\ Goes(s, ByteMoved(z))
    BY <2>4, <2>7, <2>8, <2>9, ByteMovedGoes, GoesOn
  <2> QED BY <2>1, <2>10
<1> QED BY <1>2, <1>3

\* A command with what its handler takes from it.
Given(g) ==
  /\ g.op \in {"sense_int", "unknown", "sense_drive", "recalibrate", "specify", "seek"} \cup DataOps
  /\ g.op \notin {"sense_int", "unknown"} => g.us \in Drives /\ (g.op # "recalibrate" => g.hd \in Heads)
  /\ g.op = "seek" => g.c \in Nat
  /\ g.op \in DataOps => g.eot \in Nat /\ g.r \in Nat /\ g.mt \in BOOLEAN

\* Every command the guest can send carries what its handler takes.
LEMMA CommandsAreGiven ==
  ASSUME NEW g \in Commands
  PROVE  Given(g)
<1>1. CASE g \in [op : {"sense_int", "unknown"}]
  BY <1>1 DEF Given, DataOps
<1>2. CASE g \in [op : {"sense_drive", "recalibrate"}, us : Drives, hd : Heads]
  BY <1>2 DEF Given, DataOps
<1>3. CASE g \in [op : {"specify"}, us : Drives, hd : Heads, nd : BOOLEAN]
  BY <1>3 DEF Given, DataOps
<1>4. CASE g \in [op : {"seek"}, us : Drives, hd : Heads, c : Nat]
  BY <1>4 DEF Given, DataOps
<1>5. CASE g \in [op : DataOps, us : Drives, hd : Heads, mt : BOOLEAN, c : Nat, h : Nat, r : Nat,
                  eot : Nat, good : BOOLEAN]
  BY <1>5 DEF Given, DataOps
<1> QED BY <1>1, <1>2, <1>3, <1>4, <1>5 DEF Commands

\* READ ID reports an ID or none, and ends.
LEMMA IdReadGoes ==
  ASSUME NEW s, Shaped(s), Counters(s.chip)
  PROVE  Goes(s, IdRead(s))
<1> DEFINE d == Drive(s, s.chip.us)
           x == Flagged1(s, {"MA", "ND"})
           n == NextSector(d, s.chip.cursor)
           k == Cardinality(DOMAIN Track(d))
           y == [s EXCEPT !.chip = [@ EXCEPT !.c = d.head, !.h = s.chip.hd, !.r = n,
                                             !.cursor = (@ + 1) % k]]
<1>1. IdRead(s) \in {EndData(x, {"AT"}), EndData(y, {})}
  BY DEF IdRead
<1> HIDE DEF d, n, k
<1>2. Same(s, x) /\ Counters(x.chip)
  BY FlaggedSame
<1>3. Same(s, y) /\ Counters(y.chip)
  BY DEF Same, Shaped, Registers, Counters
<1> HIDE DEF x, y
<1> QED BY <1>1, <1>2, <1>3, EndOn, SameIsCalm

\* The transfers a command can start.
LEMMA TransferIsOne ==
  ASSUME NEW op \in DataOps \ {"read_id"}
  PROVE  Transfer(op) \in {"read", "write", "format", "scan"}
<1> QED BY DEF Transfer, DataOps

\* beginData, at the deadline or at once: a sector is open or the result is up.
LEMMA BeginDataGoes ==
  ASSUME NEW s0, Shaped(s0), Counters(s0.chip), Given(s0.chip.got), s0.chip.got.op \in DataOps
  PROVE  Goes(s0, BeginData(s0))
<1> DEFINE s == [s0 EXCEPT !.chip.phase = "exec", !.chip.unload = Forever]
           op == s.chip.got.op
           k == Transfer(op)
           e == (k = "read")
           t == [s EXCEPT !.chip.xfer = k, !.chip.toMem = e]
           x == [t EXCEPT !.chip.idx = 0, !.chip.want = s.chip.got.eot]
           y == [t EXCEPT !.chip.tracked = 0, !.chip.cursor = 0]
<1>1. \/ op = "read_id" /\ BeginData(s0) = IdRead(s)
      \/ op = "format" /\ BeginData(s0) = ByteMoved(x)
      \/ op = "read_track" /\ BeginData(s0) = OpenTrackSector(y)
      \/ op \notin {"read_id", "format", "read_track"} /\ BeginData(s0) = OpenSector(t)
  BY DEF BeginData
<1>2. Same(s0, s) /\ Counters(s.chip) /\ s.chip.phase = "exec" /\ s.chip.got = s0.chip.got
  BY DEF Same, Shaped, Registers, Counters
<1> HIDE DEF s
<1>3. Shaped(s)
  BY <1>2, SameShaped
<1>4. CASE op = "read_id"
  BY <1>1, <1>2, <1>3, <1>4, IdReadGoes, SameOn
<1>5. CASE op # "read_id"
  <2>1. op \in DataOps \ {"read_id"}
    BY <1>2, <1>5
  <2>2. k # "none"
    BY <2>1, TransferIsOne
  <2> HIDE DEF k, e
  <2>3. Same(s, t) /\ Counters(t.chip) /\ t.chip.phase = "exec" /\ t.chip.xfer = k
    BY <1>2, <1>3 DEF Same, Shaped, Registers, Counters
  <2> HIDE DEF t
  <2>4. Shaped(t) /\ Working(t) /\ Calm(s0, t)
    BY <1>2, <1>3, <2>2, <2>3, SameShaped, SameIsCalm, CalmTransitive DEF Working
  <2>5. Same(t, x) /\ x.chip.idx = 0 /\ x.chip.want = s.chip.got.eot /\ x.chip.due = t.chip.due
        /\ x.chip.needNext = t.chip.needNext /\ x.chip.phase = t.chip.phase /\ x.chip.xfer = t.chip.xfer
    BY <2>4 DEF Same, Shaped, Registers
  <2>6. s.chip.got.eot \in Nat
    BY <1>2 DEF Given
  <2>7. Same(t, y) /\ Counters(y.chip) /\ y.chip.phase = t.chip.phase /\ y.chip.xfer = t.chip.xfer
    BY <2>4 DEF Same, Shaped, Registers, Working, Counters
  <2> HIDE DEF x, y
  <2>8. Shaped(x) /\ Working(x) /\ Shaped(y) /\ Working(y)
    BY <2>4, <2>5, <2>6, <2>7, SameShaped DEF Working, Counters
  <2>9. Goes(t, ByteMoved(x)) /\ Goes(t, OpenTrackSector(y)) /\ Goes(t, OpenSector(t))
    BY <2>4, <2>5, <2>7, <2>8, ByteMovedGoes, OpenTrackSectorGoes, OpenSectorGoes, SameOn
  <2> QED BY <1>1, <1>5, <2>4, <2>9, GoesOn
<1> QED BY <1>4, <1>5
-----------------------------------------------------------------------------
(***************************************************************************)
(* The seeks.                                                              *)
(***************************************************************************)
-----------------------------------------------------------------------------
\* The cable does not cross two units.
Straightened(s) == s.cable.alternate = NoUnit

\* A unit that is busy, or whose seek has ended, has a seek or a status pending;
\* while a unit steps no seek end is pending for it.
Sought(s) ==
  /\ s.chip.seek \in [Drives -> Seeks] /\ s.chip.pcn \in [Drives -> Nat]
  /\ s.chip.busy \in [Drives -> BOOLEAN] /\ s.chip.seekEnd \in [Drives -> BOOLEAN]
  /\ DOMAIN s.chip.pending = Drives
  /\ \A u \in Drives :
       /\ s.chip.busy[u] \/ s.chip.seekEnd[u]
            => s.chip.seek[u].active \/ s.chip.pending[u] # NoStatus
       /\ s.chip.seek[u].active => s.chip.pending[u] # {"SE"}

\* A seek that cannot end where its count was when it began.
Far(k) == k.active /\ (k.recal \/ k.target >= Cyls)
\* The unit is where its count says.
CountsTrue(s, u) == s.chip.pcn[u] = s.drive[u].head
\* Its count is true, and it is not about to run into an end of the drive.
Trusted(s, u) == CountsTrue(s, u) /\ ~Far(s.chip.seek[u])
\* The unit's count is true and its recalibration has not stepped, or it runs for an end
\* of the drive and its first pulse is to come.
Leaving(s, u) ==
  \/ CountsTrue(s, u) /\ (s.chip.seek[u].active /\ s.chip.seek[u].recal => s.chip.seek[u].pulses = 0)
  \/ Far(s.chip.seek[u]) /\ s.chip.seek[u].due > 0
\* A recalibration that reports track 0 has made the count true.
Recovered(s, u) == s.chip.seek[u].recal /\ s.chip.pending[u] = {"SE"} => CountsTrue(s, u)

\* What an operation on a straight cable keeps of the unit u.
Keeps(s, t) ==
  Straightened(s) => /\ Straightened(t)
                     /\ \A u \in Drives : /\ Trusted(s, u) => Trusted(t, u)
                                          /\ Leaving(s, u) => Leaving(t, u)
                                          /\ Recovered(s, u) => Recovered(t, u)

\* What leaves the seeks alone keeps the trust in every unit.
LEMMA CalmKeeps ==
  ASSUME NEW s, NEW t, Calm(s, t), Sought(s)
  PROVE  Sought(t) /\ Keeps(s, t)
<1>1. Sought(t)
  BY DEF Calm, Sought
<1>2. ASSUME NEW u \in Drives
      PROVE  /\ (Trusted(s, u) <=> Trusted(t, u)) /\ (Leaving(s, u) <=> Leaving(t, u))
             /\ (Recovered(s, u) <=> Recovered(t, u))
  BY DEF Calm, Trusted, Leaving, Recovered, CountsTrue
<1> QED BY <1>1, <1>2 DEF Keeps, Straightened, Calm

\* What each of two operations keeps, both keep.
LEMMA KeepsTransitive ==
  ASSUME NEW s, NEW t, NEW w, Keeps(s, t), Keeps(t, w)
  PROVE  Keeps(s, w)
<1> QED BY DEF Keeps

\* The registers the seeks leave alone.
Apart(s, t) ==
  /\ t.chip.phase = s.chip.phase /\ t.chip.got = s.chip.got /\ t.chip.due = s.chip.due
  /\ t.chip.xfer = s.chip.xfer /\ t.chip.idx = s.chip.idx /\ t.chip.want = s.chip.want
  /\ t.chip.needNext = s.chip.needNext /\ t.chip.busy = s.chip.busy /\ t.cable = s.cable

\* The unit u has come to the end of its seek, believing to be on cylinder p.
Stopped(s, t, u, p, status) ==
  /\ Shaped(t) /\ Apart(s, t) /\ t.drive = s.drive
  /\ t.chip.seek = [s.chip.seek EXCEPT ![u].active = FALSE]
  /\ t.chip.pending = [s.chip.pending EXCEPT ![u] = status]
  /\ t.chip.seekEnd = [s.chip.seekEnd EXCEPT ![u] = TRUE]
  /\ t.chip.pcn = [s.chip.pcn EXCEPT ![u] = p]

\* The unit u has been given a pulse, its n-th if it recalibrates.
Pulsed(s, t, u, p, n, inward) ==
  /\ Shaped(t) /\ Apart(s, t)
  /\ t.drive = [s.drive EXCEPT ![Unit(s, u)] = Stepped(@, inward)]
  /\ t.chip.seek = [s.chip.seek EXCEPT ![u].due = Srt, ![u].pulses = n]
  /\ t.chip.pending = s.chip.pending /\ t.chip.seekEnd = s.chip.seekEnd
  /\ t.chip.pcn = [s.chip.pcn EXCEPT ![u] = p]

\* Through a straight cable a unit is the drive of its number.
LEMMA UnitIsDrive ==
  ASSUME NEW s, Shaped(s), NEW u \in Drives
  PROVE  Unit(s, u) \in Drives /\ (Straightened(s) => Unit(s, u) = u)
<1> QED BY DEF Shaped, Cables, Unit, Straightened

\* queueSeekEnd ends the seek of its unit and of no other.
LEMMA QueueStops ==
  ASSUME NEW s, Shaped(s), Sought(s), NEW u \in Drives, NEW p, NEW status
  PROVE  /\ Stopped(s, QueueSeekEnd(s, u, status), u, s.chip.pcn[u], status)
         /\ Stopped(s, QueueSeekEnd([s EXCEPT !.chip.pcn[u] = p], u, status), u, p, status)
<1> DEFINE x == [s EXCEPT !.chip.pcn[u] = p]
           t == QueueSeekEnd(s, u, status)
           w == QueueSeekEnd(x, u, status)
<1>1. DOMAIN t = DOMAIN s /\ DOMAIN t.chip = DOMAIN s.chip /\ t.drive = s.drive /\ Apart(s, t)
  BY DEF Shaped, Registers, QueueSeekEnd, Apart
<1>2. /\ t.chip.seek = [s.chip.seek EXCEPT ![u].active = FALSE]
      /\ t.chip.pending = [s.chip.pending EXCEPT ![u] = status]
      /\ t.chip.seekEnd = [s.chip.seekEnd EXCEPT ![u] = TRUE]
      /\ t.chip.pcn = s.chip.pcn
  BY DEF Shaped, Registers, QueueSeekEnd
<1>3. s.chip.pcn = [s.chip.pcn EXCEPT ![u] = s.chip.pcn[u]]
  BY DEF Sought
<1>4. Shaped(t)
  BY <1>1 DEF Shaped, Apart
<1>5. DOMAIN w = DOMAIN s /\ DOMAIN w.chip = DOMAIN s.chip /\ w.drive = s.drive /\ Apart(s, w)
  BY ZenonT(60) DEF Shaped, Registers, QueueSeekEnd, Apart
<1>6. /\ w.chip.seek = [s.chip.seek EXCEPT ![u].active = FALSE]
      /\ w.chip.pending = [s.chip.pending EXCEPT ![u] = status]
      /\ w.chip.seekEnd = [s.chip.seekEnd EXCEPT ![u] = TRUE]
      /\ w.chip.pcn = [s.chip.pcn EXCEPT ![u] = p]
  BY DEF Shaped, Registers, QueueSeekEnd
<1>7. Shaped(w)
  BY <1>5 DEF Shaped, Apart
<1> HIDE DEF t, w
<1>8. Stopped(s, t, u, s.chip.pcn[u], status) /\ Stopped(s, w, u, p, status)
  BY <1>1, <1>2, <1>3, <1>4, <1>5, <1>6, <1>7 DEF Stopped
<1> QED BY <1>8 DEF t, w

\* A pulse moves one head and restarts one deadline.
LEMMA PulsePulses ==
  ASSUME NEW s, Shaped(s), Sought(s), NEW u \in Drives, NEW p, NEW n \in Nat, NEW inward \in BOOLEAN
  PROVE  /\ Pulsed(s, Pulse([s EXCEPT !.chip.seek[u].pulses = n], u, inward), u,
                   s.chip.pcn[u], n, inward)
         /\ Pulsed(s, Pulse([s EXCEPT !.chip.pcn[u] = p], u, inward), u,
                   p, s.chip.seek[u].pulses, inward)
<1> DEFINE x == [s EXCEPT !.chip.seek[u].pulses = n]
           y == [s EXCEPT !.chip.pcn[u] = p]
           t == Pulse(x, u, inward)
           w == Pulse(y, u, inward)
           v == Unit(s, u)
<1>1. v \in Drives
  BY UnitIsDrive
<1>2. Unit(x, u) = v /\ Unit(y, u) = v
  BY DEF Shaped, Unit
<1> HIDE DEF v
<1>3. DOMAIN t = DOMAIN s /\ DOMAIN t.chip = DOMAIN s.chip /\ Apart(s, t)
      /\ t.drive = [s.drive EXCEPT ![v] = Stepped(@, inward)]
  BY <1>2 DEF Shaped, Registers, Pulse, Apart
<1>4. DOMAIN w = DOMAIN s /\ DOMAIN w.chip = DOMAIN s.chip /\ Apart(s, w)
      /\ w.drive = [s.drive EXCEPT ![v] = Stepped(@, inward)]
  BY <1>2 DEF Shaped, Registers, Pulse, Apart
<1>5. \A d : /\ d.head \in 0..(Cyls - 1) /\ {"in", "head"} \subseteq DOMAIN d =>
                /\ DOMAIN Stepped(d, inward) = DOMAIN d /\ Stepped(d, inward).in = d.in
                /\ Stepped(d, inward).head \in 0..(Cyls - 1)
  BY Constants DEF Stepped
<1>14. \A d : Medium(d) => Medium(Stepped(d, inward))
  BY MediumStays DEF Stepped
<1>6. /\ t.chip.pending = s.chip.pending /\ t.chip.seekEnd = s.chip.seekEnd
      /\ t.chip.pcn = s.chip.pcn
  BY DEF Shaped, Registers, Pulse
<1>7. /\ w.chip.pending = s.chip.pending /\ w.chip.seekEnd = s.chip.seekEnd
      /\ w.chip.pcn = [s.chip.pcn EXCEPT ![u] = p]
  BY DEF Shaped, Registers, Pulse
<1>8. t.chip.seek = [s.chip.seek EXCEPT ![u].due = Srt, ![u].pulses = n]
  <2>1. t.chip.seek = [[s.chip.seek EXCEPT ![u].pulses = n] EXCEPT ![u].due = Srt]
    BY DEF Shaped, Registers, Pulse
  <2>2. s.chip.seek[u] \in Seeks /\ DOMAIN s.chip.seek = Drives
    BY DEF Sought
  <2> QED BY <2>1, <2>2 DEF Seeks
<1>9. w.chip.seek = [s.chip.seek EXCEPT ![u].due = Srt, ![u].pulses = s.chip.seek[u].pulses]
  <2>1. w.chip.seek = [s.chip.seek EXCEPT ![u].due = Srt]
    BY DEF Shaped, Registers, Pulse
  <2>2. s.chip.seek[u] \in Seeks /\ DOMAIN s.chip.seek = Drives
    BY DEF Sought
  <2> QED BY <2>1, <2>2 DEF Seeks
<1>10. s.chip.pcn = [s.chip.pcn EXCEPT ![u] = s.chip.pcn[u]]
  BY DEF Sought
<1> HIDE DEF t, w
<1>11. Shaped(t) /\ Shaped(w)
  <2>1. \A k \in Drives : /\ t.drive[k] \in {s.drive[k], Stepped(s.drive[k], inward)}
                          /\ w.drive[k] \in {s.drive[k], Stepped(s.drive[k], inward)}
    BY <1>3, <1>4 DEF Shaped
  <2>2. \A k \in Drives : \A d \in {s.drive[k], Stepped(s.drive[k], inward)} :
          /\ {"in", "head"} \subseteq DOMAIN d /\ d.in \in BOOLEAN /\ d.head \in 0..(Cyls - 1)
          /\ Medium(d)
    BY <1>5, <1>14 DEF Shaped
  <2>3. DOMAIN t.drive = Drives /\ DOMAIN w.drive = Drives
    BY <1>3, <1>4 DEF Shaped
  <2>4. Shaped(t)
    BY <1>3, <2>1, <2>2, <2>3 DEF Shaped, Apart
  <2>5. Shaped(w)
    BY <1>4, <2>1, <2>2, <2>3 DEF Shaped, Apart
  <2> QED BY <2>4, <2>5
<1>12. Pulsed(s, t, u, s.chip.pcn[u], n, inward)
  BY <1>3, <1>6, <1>8, <1>10, <1>11 DEF Pulsed, v
<1>13. Pulsed(s, w, u, p, s.chip.seek[u].pulses, inward)
  BY <1>4, <1>7, <1>9, <1>11 DEF Pulsed, v
<1> QED BY <1>12, <1>13 DEF t, w

\* The unit has no step that is due.
Clear(s, u) == s.chip.seek[u].active => s.chip.seek[u].due > 0

\* What a step of the unit u, or of none, comes to.
Steps(s, t, u) ==
  /\ Shaped(t) /\ Apart(s, t) /\ Sought(t) /\ Keeps(s, t) /\ (u \in Drives => Clear(t, u))
  /\ \A v \in Drives \ {u} : Clear(s, v) => Clear(t, v)

\* A seek that ends where the unit stands keeps every unit's trust.
LEMMA StoppedSteps ==
  ASSUME NEW s, NEW t, NEW u \in Drives, NEW p \in Nat, NEW status,
         Shaped(s), Sought(s), Stopped(s, t, u, p, status), status # NoStatus,
         Straightened(s) /\ Leaving(s, u) => p = s.drive[u].head,
         Straightened(s) /\ status = {"SE"} /\ s.chip.seek[u].recal => p = s.drive[u].head
  PROVE  Steps(s, t, u)
<1>1. /\ s.chip.seek \in [Drives -> Seeks] /\ s.chip.pcn \in [Drives -> Nat]
      /\ s.chip.seekEnd \in [Drives -> BOOLEAN] /\ DOMAIN s.chip.pending = Drives
  BY DEF Sought
<1>2. /\ t.chip.seek = [s.chip.seek EXCEPT ![u].active = FALSE]
      /\ t.chip.pending = [s.chip.pending EXCEPT ![u] = status]
      /\ t.chip.seekEnd = [s.chip.seekEnd EXCEPT ![u] = TRUE]
      /\ t.chip.pcn = [s.chip.pcn EXCEPT ![u] = p]
  BY DEF Stopped
<1>3. t.chip.seek \in [Drives -> Seeks] /\ t.chip.pcn \in [Drives -> Nat]
      /\ t.chip.seekEnd \in [Drives -> BOOLEAN] /\ DOMAIN t.chip.pending = Drives
  <2>1. [s.chip.seek[u] EXCEPT !.active = FALSE] \in Seeks
    BY ZenonT(60), <1>1 DEF Seeks
  <2>2. t.chip.seek \in [Drives -> Seeks]
    BY <1>1, <1>2, <2>1
  <2>3. t.chip.pcn \in [Drives -> Nat] /\ DOMAIN t.chip.pending = Drives
    BY <1>1, <1>2
  <2>4. t.chip.seekEnd \in [Drives -> BOOLEAN]
    BY <1>1, <1>2
  <2> QED BY <2>2, <2>3, <2>4
<1>4. /\ ~t.chip.seek[u].active /\ t.chip.seek[u].recal = s.chip.seek[u].recal
      /\ t.chip.pending[u] = status /\ t.chip.pcn[u] = p
  BY <1>1, <1>2 DEF Seeks
<1>5. \A v \in Drives \ {u} : /\ t.chip.seek[v] = s.chip.seek[v] /\ t.chip.pending[v] = s.chip.pending[v]
                              /\ t.chip.seekEnd[v] = s.chip.seekEnd[v] /\ t.chip.pcn[v] = s.chip.pcn[v]
  BY <1>1, <1>2
<1>6. t.chip.busy = s.chip.busy /\ t.drive = s.drive /\ t.cable = s.cable
  BY DEF Stopped, Apart
<1>7. Sought(t)
  BY <1>3, <1>4, <1>5, <1>6 DEF Sought
<1>8. ASSUME NEW v \in Drives \ {u}
      PROVE  /\ Trusted(s, v) => Trusted(t, v)
             /\ Leaving(s, v) => Leaving(t, v)
             /\ Recovered(s, v) => Recovered(t, v)
  BY <1>5, <1>6 DEF Trusted, Leaving, Recovered, CountsTrue
<1>9. Straightened(s) => /\ Trusted(s, u) => Trusted(t, u)
                         /\ Leaving(s, u) => Leaving(t, u)
                         /\ Recovered(s, u) => Recovered(t, u)
  BY <1>1, <1>4, <1>6 DEF Trusted, Leaving, Recovered, CountsTrue, Far, Seeks
<1>10. Keeps(s, t)
  BY <1>6, <1>8, <1>9 DEF Keeps, Straightened
<1>11. Clear(t, u) /\ \A v \in Drives \ {u} : Clear(s, v) => Clear(t, v)
  BY <1>4, <1>5 DEF Clear
<1> QED BY <1>7, <1>10, <1>11 DEF Steps, Stopped

\* A pulse keeps the trust in every unit, the stepping one's included: count and head
\* move together, and a recalibration or a seek past the last cylinder was not trusted.
LEMMA PulsedSteps ==
  ASSUME NEW s, NEW t, NEW u \in Drives, NEW p \in Nat, NEW n \in Nat, NEW inward \in BOOLEAN,
         Shaped(s), Sought(s), Pulsed(s, t, u, p, n, inward),
         s.chip.seek[u].active, s.chip.seek[u].due = 0,
         ~s.chip.seek[u].recal => /\ s.chip.pcn[u] # s.chip.seek[u].target
                                  /\ inward = (s.chip.pcn[u] < s.chip.seek[u].target)
                                  /\ p = (IF inward THEN s.chip.pcn[u] + 1 ELSE s.chip.pcn[u] - 1)
  PROVE  Steps(s, t, u)
<1>1. /\ s.chip.seek \in [Drives -> Seeks] /\ s.chip.pcn \in [Drives -> Nat]
      /\ s.chip.seekEnd \in [Drives -> BOOLEAN] /\ DOMAIN s.chip.pending = Drives
      /\ s.chip.pending[u] # {"SE"}
  BY DEF Sought
<1>2. /\ t.chip.seek = [s.chip.seek EXCEPT ![u].due = Srt, ![u].pulses = n]
      /\ t.chip.pending = s.chip.pending /\ t.chip.seekEnd = s.chip.seekEnd
      /\ t.chip.pcn = [s.chip.pcn EXCEPT ![u] = p]
      /\ t.drive = [s.drive EXCEPT ![Unit(s, u)] = Stepped(@, inward)]
  BY DEF Pulsed
<1>3. t.chip.seek \in [Drives -> Seeks] /\ t.chip.pcn \in [Drives -> Nat]
  BY SMTT(30), <1>1, <1>2, Constants DEF Seeks
<1>4. /\ t.chip.seek[u].active /\ t.chip.seek[u].recal = s.chip.seek[u].recal
      /\ t.chip.seek[u].target = s.chip.seek[u].target /\ t.chip.seek[u].due = Srt
      /\ t.chip.pcn[u] = p
  BY <1>1, <1>2 DEF Seeks
<1>5. \A v \in Drives \ {u} : t.chip.seek[v] = s.chip.seek[v] /\ t.chip.pcn[v] = s.chip.pcn[v]
  BY <1>1, <1>2
<1>6. t.chip.busy = s.chip.busy /\ t.cable = s.cable
  BY DEF Pulsed, Apart
<1>7. Sought(t)
  <2>1. \A v \in Drives : t.chip.seek[v].active <=> s.chip.seek[v].active
    BY <1>4, <1>5
  <2> QED BY <1>2, <1>3, <1>6, <2>1 DEF Sought
<1>8. ASSUME Straightened(s), NEW v \in Drives \ {u}
      PROVE  /\ Trusted(s, v) => Trusted(t, v)
             /\ Leaving(s, v) => Leaving(t, v)
             /\ Recovered(s, v) => Recovered(t, v)
  <2>1. t.drive[v] = s.drive[v]
    BY <1>2, <1>8, UnitIsDrive DEF Shaped
  <2> QED BY <1>2, <1>5, <2>1 DEF Trusted, Leaving, Recovered, CountsTrue
<1>9. ASSUME Straightened(s)
      PROVE  /\ Trusted(s, u) => Trusted(t, u)
             /\ Leaving(s, u) => Leaving(t, u)
             /\ Recovered(s, u) => Recovered(t, u)
  <2> DEFINE h == s.drive[u].head
             c == s.chip.pcn[u]
             g == s.chip.seek[u].target
  <2>1. {"in", "head"} \subseteq DOMAIN s.drive[u] /\ h \in 0..(Cyls - 1) /\ c \in Nat /\ g \in Nat
    BY <1>1 DEF Shaped, Seeks
  <2>2. t.drive[u] = Stepped(s.drive[u], inward)
    BY <1>2, <1>9, UnitIsDrive DEF Shaped
  <2>3. t.drive[u].head = IF inward THEN IF h < Cyls - 1 THEN h + 1 ELSE h
                          ELSE IF h > 0 THEN h - 1 ELSE 0
    BY <2>1, <2>2 DEF Stepped
  <2>4. Recovered(t, u)
    BY <1>1, <1>2 DEF Recovered
  <2>5. t.chip.seek[u].recal \/ g >= Cyls => Leaving(t, u) /\ Far(t.chip.seek[u]) /\ Far(s.chip.seek[u])
    BY <1>4, Constants DEF Leaving, Far
  <2>6. ~s.chip.seek[u].recal /\ g < Cyls /\ c = h => p = t.drive[u].head
    BY <2>1, <2>3, Constants
  <2>7. s.chip.seek[u].recal \in BOOLEAN
    BY <1>1 DEF Seeks
  <2>8. CASE s.chip.seek[u].recal \/ g >= Cyls
    BY <1>4, <2>4, <2>5, <2>8 DEF Trusted
  <2>9. CASE ~s.chip.seek[u].recal /\ g < Cyls
    BY <1>4, <2>1, <2>4, <2>6, <2>9, Constants DEF Trusted, Leaving, CountsTrue, Far
  <2> QED BY <2>1, <2>7, <2>8, <2>9, Constants
<1>10. Keeps(s, t)
  BY <1>6, <1>8, <1>9 DEF Keeps, Straightened
<1>11. Clear(t, u) /\ \A v \in Drives \ {u} : Clear(s, v) => Clear(t, v)
  BY <1>4, <1>5, Constants DEF Clear
<1> QED BY <1>7, <1>10, <1>11 DEF Steps, Pulsed

\* stepDrive: a pulse, the end of a seek, or a recalibration that gives up.
LEMMA StepDriveSteps ==
  ASSUME NEW s, NEW u \in Drives, Shaped(s), Sought(s)
  PROVE  Steps(s, StepDrive(s, u), u)
<1> DEFINE k == s.chip.seek[u]
           c == s.chip.pcn[u]
           inward == c < k.target
           x == [s EXCEPT !.chip.seek[u].pulses = @ + 1]
           q == IF inward THEN c + 1 ELSE c - 1
           y == [s EXCEPT !.chip.pcn[u] = IF inward THEN @ + 1 ELSE @ - 1]
           z == [s EXCEPT !.chip.pcn[u] = 0]
           t == StepDrive(s, u)
<1>1. k \in Seeks /\ c \in Nat
  BY DEF Sought
<1>2. x = [s EXCEPT !.chip.seek[u].pulses = k.pulses + 1] /\ y = [s EXCEPT !.chip.pcn[u] = q]
  BY DEF Shaped, Registers
<1>3. CASE ~k.active \/ k.due > 0
  <2>1. t = s
    <3>1. CASE ~k.active
      BY <3>1 DEF StepDrive
    <3>2. CASE k.active /\ k.due > 0
      <4>1. k.due # 0
        BY <1>1, <3>2 DEF Seeks
      <4> HIDE DEF k
      <4>2. ~(k.due = 0)
        BY <4>1
      <4> QED BY <3>2, <4>2 DEF StepDrive, k
    <3> QED BY <1>3, <3>1, <3>2
  <2>2. Keeps(s, s)
    BY DEF Keeps
  <2> QED BY <1>3, <2>1, <2>2 DEF Steps, Apart, Clear
<1>4. CASE k.active /\ ~(k.due > 0)
  <2>1. k.due = 0
    BY <1>1, <1>4 DEF Seeks
  <2>2. CASE ~DriveReady(s, u)
    <3>1. t = QueueSeekEnd(s, u, {"AT", "SE", "NR"})
      BY <1>4, <2>1, <2>2 DEF StepDrive
    <3>2. Stopped(s, t, u, c, {"AT", "SE", "NR"})
      BY <3>1, QueueStops
    <3>3. Leaving(s, u) => c = s.drive[u].head
      BY <1>1, <2>1 DEF Leaving, CountsTrue, Seeks
    <3> QED BY <1>1, <3>2, <3>3, StoppedSteps DEF NoStatus
  <2>3. CASE DriveReady(s, u) /\ k.recal
    <3>0. t = IF Drive(s, u).head = 0 THEN QueueSeekEnd(z, u, {"SE"})
              ELSE IF k.pulses >= MaxPulses THEN QueueSeekEnd(z, u, {"AT", "SE", "EC"})
              ELSE Pulse(x, u, FALSE)
      BY <1>4, <2>1, <2>3 DEF StepDrive
    <3>1. CASE Drive(s, u).head = 0
      <4>1. Stopped(s, t, u, 0, {"SE"})
        BY <3>0, <3>1, QueueStops
      <4>2. Straightened(s) => 0 = s.drive[u].head
        BY <3>1, UnitIsDrive DEF Drive
      <4> QED BY <4>1, <4>2, StoppedSteps DEF NoStatus
    <3>2. CASE Drive(s, u).head # 0 /\ k.pulses >= MaxPulses
      <4>1. Stopped(s, t, u, 0, {"AT", "SE", "EC"})
        BY ZenonT(60), <3>0, <3>2, QueueStops
      <4>2. ~Leaving(s, u)
        BY <1>1, <1>4, <2>1, <2>3, <3>2, Constants DEF Leaving, Seeks
      <4> QED BY <4>1, <4>2, StoppedSteps DEF NoStatus
    <3>3. CASE Drive(s, u).head # 0 /\ ~(k.pulses >= MaxPulses)
      <4>1. t = Pulse(x, u, FALSE)
        BY <3>0, <3>3
      <4>2. k.pulses + 1 \in Nat
        BY <1>1 DEF Seeks
      <4>3. Pulsed(s, t, u, c, k.pulses + 1, FALSE)
        BY <1>2, <4>1, <4>2, PulsePulses
      <4> QED BY <1>1, <1>4, <2>1, <2>3, <4>2, <4>3, PulsedSteps
    <3> QED BY <3>1, <3>2, <3>3
  <2>4. CASE DriveReady(s, u) /\ ~k.recal
    <3>0. t = IF c = k.target THEN QueueSeekEnd(s, u, {"SE"}) ELSE Pulse(y, u, inward)
      BY <1>4, <2>1, <2>4 DEF StepDrive
    <3>1. CASE c = k.target
      <4>1. Stopped(s, t, u, c, {"SE"})
        BY <3>0, <3>1, QueueStops
      <4>2. Leaving(s, u) => c = s.drive[u].head
        BY <1>1, <2>1 DEF Leaving, CountsTrue, Seeks
      <4> QED BY <1>1, <2>4, <4>1, <4>2, StoppedSteps DEF NoStatus
    <3>2. CASE c # k.target
      <4>1. t = Pulse(y, u, inward)
        BY <3>0, <3>2
      <4>2. k.target \in Nat /\ q \in Nat /\ k.pulses \in Nat /\ inward \in BOOLEAN
        BY <1>1, <3>2 DEF Seeks
      <4>3. Pulsed(s, t, u, q, k.pulses, inward)
        BY <1>2, <4>1, <4>2, PulsePulses
      <4> QED BY <1>1, <1>4, <2>1, <2>4, <3>2, <4>2, <4>3, PulsedSteps
    <3> QED BY <3>1, <3>2
  <2> QED BY <2>2, <2>3, <2>4
<1> QED BY <1>3, <1>4

\* stepDrive of a unit whose step may or may not be due.
LEMMA StepUnitSteps ==
  ASSUME NEW s, NEW u, Shaped(s), Sought(s)
  PROVE  Steps(s, StepUnit(s, u), u)
<1>1. CASE u \in Drives
  BY <1>1, StepDriveSteps DEF StepUnit
<1>2. CASE u \notin Drives
  <2>1. StepUnit(s, u) = s
    BY <1>2 DEF StepUnit
  <2>2. Keeps(s, s)
    BY DEF Keeps
  <2> QED BY <1>2, <2>1, <2>2 DEF Steps, Apart, Clear
<1> QED BY <1>1, <1>2

\* No unit has a step that is due.
AllClear(s) == \A u \in Drives : Clear(s, u)

\* The steps of all units, one after another.
LEMMA StepDrivesSteps ==
  ASSUME NEW s, Shaped(s), Sought(s)
  PROVE  /\ Shaped(StepDrives(s)) /\ Apart(s, StepDrives(s)) /\ Sought(StepDrives(s))
         /\ Keeps(s, StepDrives(s)) /\ AllClear(StepDrives(s))
<1> DEFINE a == StepUnit(s, 0)
           b == StepUnit(a, 1)
           c == StepUnit(b, 2)
           d == StepUnit(c, 3)
<1>1. Steps(s, a, 0)
  BY StepUnitSteps
<1> HIDE DEF a
<1>2. Steps(a, b, 1)
  BY <1>1, StepUnitSteps DEF Steps
<1> HIDE DEF b
<1>3. Steps(b, c, 2)
  BY <1>2, StepUnitSteps DEF Steps
<1> HIDE DEF c
<1>4. Steps(c, d, 3)
  BY <1>3, StepUnitSteps DEF Steps
<1>5. StepDrives(s) = d
  BY DEF StepDrives, a, b, c, d
<1> HIDE DEF d
<1>6. AllClear(d)
  BY <1>1, <1>2, <1>3, <1>4, Constants DEF Steps, AllClear
<1>7. Keeps(s, d)
  BY <1>1, <1>2, <1>3, <1>4, KeepsTransitive DEF Steps
<1>8. Apart(s, d)
  BY <1>1, <1>2, <1>3, <1>4 DEF Steps, Apart
<1> QED BY <1>4, <1>5, <1>6, <1>7, <1>8 DEF Steps

-----------------------------------------------------------------------------
\* What the phase says of the command and of the transfer.
Ordered(c) ==
  /\ c.phase \in {"command", "wait", "exec", "result"}
  /\ c.phase \in {"wait", "exec"} => Given(c.got) /\ c.got.op \in DataOps
  /\ c.phase = "command" /\ c.got # NoCommand => Given(c.got) /\ c.got.op # "unknown"
  /\ c.phase = "exec" => Moving(c)

\* A machine between two operations.
Sane(s) == Shaped(s) /\ Sought(s) /\ Counters(s.chip) /\ Ordered(s.chip)

\* Seeks that move on leave a machine sane.
LEMMA ApartSane ==
  ASSUME NEW s, NEW t, Sane(s), Apart(s, t), Shaped(t), Sought(t)
  PROVE  Sane(t)
<1> QED BY DEF Sane, Apart, Counters, Ordered, Moving

\* A transfer that goes on leaves a machine sane.
LEMMA GoesSane ==
  ASSUME NEW s, NEW t, Goes(s, t), Sought(s),
         t.chip.phase = "exec" => Given(s.chip.got) /\ s.chip.got.op \in DataOps
  PROVE  /\ Sane(t) /\ Keeps(s, t) /\ t.chip.phase \in {"result", "exec"}
         /\ AllClear(s) => AllClear(t)
<1>1. Sought(t) /\ Keeps(s, t)
  BY CalmKeeps DEF Goes
<1>2. t.chip.seek = s.chip.seek /\ t.chip.got = s.chip.got /\ Shaped(t)
  BY DEF Goes, Calm
<1>3. Counters(t.chip) /\ (t.chip.phase = "result" \/ (t.chip.phase = "exec" /\ Moving(t.chip)))
  BY DEF Goes, Underway
<1>4. Ordered(t.chip)
  BY <1>2, <1>3 DEF Ordered
<1> QED BY <1>1, <1>2, <1>3, <1>4 DEF Sane, AllClear, Clear

\* Looking at readiness announces drives that came or went, and forgets a seek's end for them.
LEMMA PollReadyKeeps ==
  ASSUME NEW s, Sane(s)
  PROVE  /\ Sane(PollReady(s)) /\ Keeps(s, PollReady(s)) /\ Apart(s, PollReady(s))
         /\ PollReady(s).chip.seek = s.chip.seek
<1> DEFINE t == PollReady(s)
<1>1. CASE ~s.chip.specified \/ s.chip.phase \in {"wait", "exec"}
  BY ZenonT(60), <1>1 DEF PollReady, Keeps, Apart
<1>2. CASE ~(~s.chip.specified \/ s.chip.phase \in {"wait", "exec"})
  <2>1. /\ DOMAIN t = DOMAIN s /\ DOMAIN t.chip = DOMAIN s.chip /\ t.drive = s.drive /\ Apart(s, t)
        /\ t.chip.seek = s.chip.seek /\ t.chip.pcn = s.chip.pcn
    BY <1>2 DEF PollReady, Sane, Shaped, Registers, Apart
  <2>2. DOMAIN t.chip.pending = Drives
    BY <1>2 DEF PollReady, Sane, Shaped, Registers
  <2>3. \A u \in Drives : t.chip.pending[u] \in {s.chip.pending[u], {"AI"}, {"AI", "NR"}}
    BY ZenonT(60), <1>2 DEF PollReady, Sane, Shaped, Registers
  <2>4. t.chip.seekEnd \in [Drives -> BOOLEAN]
    BY ZenonT(60), <1>2 DEF PollReady, Sane, Sought, Shaped, Registers
  <2>5. \A u \in Drives : t.chip.seekEnd[u] => s.chip.seekEnd[u]
    BY <1>2 DEF PollReady, Sane, Shaped, Registers
  <2>6. \A u \in Drives :
          t.chip.pending[u] = s.chip.pending[u] \/ t.chip.pending[u] \notin {NoStatus, {"SE"}}
    <3>1. {"AI"} # {"SE"} /\ {"AI"} # NoStatus /\ {"AI", "NR"} # {"SE"} /\ {"AI", "NR"} # NoStatus
      BY DEF NoStatus
    <3> QED BY <2>3, <3>1
  <2> HIDE DEF t
  <2>7. Shaped(t)
    BY <2>1 DEF Sane, Shaped, Apart
  <2>8. Sought(t)
    BY <2>1, <2>2, <2>4, <2>5, <2>6 DEF Sane, Sought, Apart
  <2>9. Sane(t)
    BY <2>1, <2>7, <2>8, ApartSane
  <2>10. ASSUME NEW u \in Drives
         PROVE  /\ Trusted(s, u) => Trusted(t, u)
                /\ Leaving(s, u) => Leaving(t, u)
                /\ Recovered(s, u) => Recovered(t, u)
    BY <2>1, <2>6 DEF Trusted, Leaving, Recovered, CountsTrue
  <2>11. Keeps(s, t)
    BY <2>1, <2>10 DEF Keeps, Straightened, Apart
  <2> QED BY <2>1, <2>9, <2>11 DEF t
<1> QED BY SMTT(30), <1>1, <1>2

\* After a poll nothing is due.
Settled(s) == AllClear(s) /\ (s.chip.phase = "wait" => s.chip.due > 0)
Still(s, t) ==
  s.chip.phase # "wait" => t.chip.phase = s.chip.phase /\ t.chip.got = s.chip.got

\* poll(): the ready lines, the steps, and the head that has settled.
LEMMA PolledSettles ==
  ASSUME NEW s, Sane(s)
  PROVE  Sane(Polled(s)) /\ Keeps(s, Polled(s)) /\ Settled(Polled(s)) /\ Still(s, Polled(s))
         /\ Polled(s).cable = s.cable
<1> DEFINE t == StepDrives(s)
           w == IF t.chip.phase = "wait" /\ t.chip.due = 0 THEN BeginData(t) ELSE t
           x == PollReady(w)
<1>1. Polled(s) = x
  BY DEF Polled
<1>2. Shaped(t) /\ Apart(s, t) /\ Sought(t) /\ Keeps(s, t) /\ AllClear(t)
  BY StepDrivesSteps DEF Sane
<1>3. Sane(t)
  BY <1>2, ApartSane
<1> HIDE DEF t
<1>4. Sane(w) /\ Keeps(t, w) /\ Settled(w) /\ Still(t, w) /\ w.cable = t.cable
  <2>1. CASE t.chip.phase = "wait" /\ t.chip.due = 0
    <3>1. Goes(t, BeginData(t))
      BY <1>3, <2>1, BeginDataGoes DEF Sane, Ordered
    <3>2. w = BeginData(t)
      BY <2>1
    <3> HIDE DEF w
    <3>3. Sane(w) /\ Keeps(t, w) /\ w.chip.phase \in {"result", "exec"} /\ AllClear(w)
      BY <1>2, <1>3, <2>1, <3>1, <3>2, GoesSane DEF Sane, Ordered
    <3> QED BY <2>1, <3>1, <3>2, <3>3 DEF Settled, Still, Goes, Calm
  <2>2. CASE ~(t.chip.phase = "wait" /\ t.chip.due = 0)
    <3>1. w = t
      BY <2>2
    <3>2. Keeps(t, t) /\ Still(t, t)
      BY DEF Keeps, Still
    <3> QED BY <1>2, <1>3, <2>2, <3>1, <3>2 DEF Settled, Sane, Counters
  <2> QED BY <2>1, <2>2
<1> HIDE DEF w
<1>5. Sane(x) /\ Keeps(w, x) /\ Apart(w, x) /\ x.chip.seek = w.chip.seek
  BY <1>4, PollReadyKeeps
<1> HIDE DEF x
<1>6. Settled(x)
  BY <1>4, <1>5 DEF Settled, AllClear, Clear, Apart
<1>7. Still(s, x)
  BY <1>2, <1>4, <1>5 DEF Still, Apart
<1>8. Keeps(s, x)
  BY <1>2, <1>4, <1>5, KeepsTransitive
<1>9. x.cable = s.cable
  BY <1>2, <1>4, <1>5 DEF Apart
<1> QED BY <1>1, <1>5, <1>6, <1>7, <1>8, <1>9

-----------------------------------------------------------------------------
(***************************************************************************)
(* The handlers.                                                           *)
(***************************************************************************)
\* What an operation may do to the trust in a drive: a seek may begin.
Leads(s, t) ==
  Straightened(s) => /\ Straightened(t)
                     /\ \A u \in Drives : /\ Trusted(s, u) => Leaving(t, u)
                                          /\ Recovered(s, u) => Recovered(t, u)

\* What keeps the trust may as well begin a seek.
LEMMA KeepsLeads ==
  ASSUME NEW s, NEW t, Keeps(s, t)
  PROVE  Leads(s, t)
<1>1. \A u \in Drives : Trusted(t, u) => Leaving(t, u)
  BY DEF Trusted, Leaving, Far
<1> QED BY <1>1 DEF Keeps, Leads

\* Operations before and after the one that begins a seek.
LEMMA LeadsOn ==
  ASSUME NEW s, NEW t, NEW w
  PROVE  /\ Keeps(s, t) /\ Leads(t, w) => Leads(s, w)
         /\ Leads(s, t) /\ Keeps(t, w) => Leads(s, w)
<1> QED BY DEF Keeps, Leads

\* Only registers have changed that the seeks do not use.
Alike(s, t) ==
  /\ DOMAIN t = DOMAIN s /\ DOMAIN t.chip = DOMAIN s.chip /\ t.drive = s.drive /\ t.cable = s.cable
  /\ t.chip.seek = s.chip.seek /\ t.chip.pcn = s.chip.pcn /\ t.chip.pending = s.chip.pending
  /\ t.chip.seekEnd = s.chip.seekEnd /\ t.chip.busy = s.chip.busy
  /\ (Counters(s.chip) => Counters(t.chip))

\* What changes registers of the command keeps the trust.
LEMMA AlikeKeeps ==
  ASSUME NEW s, NEW t, Alike(s, t), Sane(s), Ordered(t.chip)
  PROVE  Sane(t) /\ Keeps(s, t)
<1>1. Sane(t)
  BY DEF Alike, Sane, Shaped, Sought
<1>2. \A u \in Drives : /\ Trusted(s, u) => Trusted(t, u)
                        /\ Leaving(s, u) => Leaving(t, u)
                        /\ Recovered(s, u) => Recovered(t, u)
  BY DEF Alike, Trusted, Leaving, Recovered, CountsTrue
<1> QED BY <1>1, <1>2 DEF Keeps, Straightened, Alike

\* A result of n bytes.
LEMMA ResultKeeps ==
  ASSUME NEW s, Sane(s), NEW n, NEW irq
  PROVE  Sane(Result(s, n, irq)) /\ Keeps(s, Result(s, n, irq))
<1> DEFINE t == Result(s, n, irq)
<1>1. Alike(s, t) /\ t.chip.phase = "result"
  BY DEF Result, Alike, Sane, Shaped, Registers, Counters
<1> HIDE DEF t
<1>2. Ordered(t.chip)
  BY <1>1 DEF Ordered
<1>3. Sane(t) /\ Keeps(s, t)
  BY <1>1, <1>2, AlikeKeeps
<1> QED BY <1>3 DEF t

\* An invalid command.
LEMMA InvalidKeeps ==
  ASSUME NEW s, Sane(s)
  PROVE  Sane(Invalid(s)) /\ Keeps(s, Invalid(s))
<1> DEFINE e == [NoResult EXCEPT !.ic = {"IC"}]
           t == [s EXCEPT !.chip.res = e]
<1>1. Invalid(s) = Result(t, 1, FALSE)
  BY DEF Invalid
<1> HIDE DEF e
<1>2. Alike(s, t) /\ t.chip.phase = s.chip.phase /\ t.chip.got = s.chip.got
      /\ t.chip.xfer = s.chip.xfer /\ t.chip.idx = s.chip.idx /\ t.chip.want = s.chip.want
      /\ t.chip.needNext = s.chip.needNext
  BY DEF Alike, Sane, Shaped, Registers, Counters
<1> HIDE DEF t
<1>3. Ordered(t.chip)
  BY <1>2 DEF Ordered, Moving, Sane
<1> QED BY <1>1, <1>2, <1>3, AlikeKeeps, ResultKeeps, KeepsTransitive

\* The chip is ready for another command.
LEMMA ToCommandKeeps ==
  ASSUME NEW s, Sane(s)
  PROVE  Sane(ToCommand(s)) /\ Keeps(s, ToCommand(s))
<1> DEFINE t == ToCommand(s)
<1>1. Alike(s, t) /\ t.chip.phase = "command" /\ t.chip.got = NoCommand
  BY DEF ToCommand, Alike, Sane, Shaped, Registers, Counters
<1> HIDE DEF t
<1>2. Ordered(t.chip)
  BY <1>1 DEF Ordered
<1>3. Sane(t) /\ Keeps(s, t)
  BY <1>1, <1>2, AlikeKeeps
<1> QED BY <1>3 DEF t

\* The guest has read the result.
LEMMA ResultReadKeeps ==
  ASSUME NEW s, Sane(s)
  PROVE  Sane(ResultRead(s)) /\ Keeps(s, ResultRead(s))
<1> DEFINE t == [s EXCEPT !.chip.resultInt = FALSE, !.chip.left = @ - 1]
<1>1. ResultRead(s) = ToCommand(t) \/ ResultRead(s) = t
  BY DEF ResultRead
<1>2. Alike(s, t) /\ t.chip.phase = s.chip.phase /\ t.chip.got = s.chip.got
      /\ t.chip.xfer = s.chip.xfer /\ t.chip.idx = s.chip.idx /\ t.chip.want = s.chip.want
      /\ t.chip.needNext = s.chip.needNext
  BY DEF Alike, Sane, Shaped, Registers, Counters
<1> HIDE DEF t
<1>3. Ordered(t.chip)
  BY <1>2 DEF Ordered, Moving, Sane
<1> QED BY <1>1, <1>2, <1>3, AlikeKeeps, ToCommandKeeps, KeepsTransitive

\* SENSE INTERRUPT STATUS takes the status of one unit, and the unit is no longer busy.
LEMMA SenseIntKeeps ==
  ASSUME NEW s, Sane(s)
  PROVE  Sane(SenseInt(s)) /\ Keeps(s, SenseInt(s))
<1> DEFINE waiting == {u \in Drives : s.chip.pending[u] # NoStatus}
           k == CHOOSE v \in waiting : \A w \in waiting : v <= w
           x == Reported(s, k)
           y == Answered(x, k)
<1>1. SenseInt(s) = Invalid(s) \/ SenseInt(s) = Result(y, 2, FALSE)
  BY DEF SenseInt
<1> HIDE DEF k
<1>2. Alike(s, x) /\ x.chip.phase = s.chip.phase /\ x.chip.got = s.chip.got
      /\ x.chip.xfer = s.chip.xfer /\ x.chip.idx = s.chip.idx /\ x.chip.want = s.chip.want
      /\ x.chip.needNext = s.chip.needNext
  BY DEF Reported, Alike, Sane, Shaped, Registers, Counters
<1> HIDE DEF x
<1>3. Ordered(x.chip)
  BY <1>2 DEF Ordered, Moving, Sane
<1>4. Sane(x) /\ Keeps(s, x)
  BY <1>2, <1>3, AlikeKeeps
<1>5. /\ DOMAIN y = DOMAIN x /\ DOMAIN y.chip = DOMAIN x.chip /\ y.drive = x.drive /\ y.cable = x.cable
      /\ y.chip.seek = x.chip.seek /\ y.chip.pcn = x.chip.pcn
      /\ y.chip.pending = [x.chip.pending EXCEPT ![k] = NoStatus]
      /\ y.chip.seekEnd = [x.chip.seekEnd EXCEPT ![k] = FALSE]
      /\ y.chip.busy = [x.chip.busy EXCEPT ![k] = FALSE]
      /\ y.chip.phase = x.chip.phase /\ y.chip.got = x.chip.got /\ y.chip.due = x.chip.due
      /\ y.chip.xfer = x.chip.xfer /\ y.chip.idx = x.chip.idx /\ y.chip.want = x.chip.want
      /\ y.chip.needNext = x.chip.needNext
  BY <1>4 DEF Answered, Sane, Shaped, Registers
<1> HIDE DEF y
<1>6. Shaped(y) /\ Counters(y.chip) /\ Ordered(y.chip)
  BY <1>4, <1>5 DEF Sane, Shaped, Counters, Ordered, Moving
<1>7. \A u \in Drives : /\ y.chip.pending[u] = IF u = k THEN NoStatus ELSE x.chip.pending[u]
                        /\ y.chip.seekEnd[u] = IF u = k THEN FALSE ELSE x.chip.seekEnd[u]
                        /\ y.chip.busy[u] = IF u = k THEN FALSE ELSE x.chip.busy[u]
  BY ZenonT(60), <1>4, <1>5 DEF Sane, Sought
<1>8. NoStatus # {"SE"}
  BY DEF NoStatus
<1>9. /\ y.chip.busy \in [Drives -> BOOLEAN] /\ y.chip.seekEnd \in [Drives -> BOOLEAN]
      /\ DOMAIN y.chip.pending = Drives
  <2>1. \A f \in [Drives -> BOOLEAN] : [f EXCEPT ![k] = FALSE] \in [Drives -> BOOLEAN]
    OBVIOUS
  <2>2. /\ x.chip.busy \in [Drives -> BOOLEAN] /\ x.chip.seekEnd \in [Drives -> BOOLEAN]
        /\ DOMAIN x.chip.pending = Drives
    BY <1>4 DEF Sane, Sought
  <2> QED BY <1>5, <2>1, <2>2
<1>10. Sought(y)
  BY <1>4, <1>5, <1>7, <1>8, <1>9 DEF Sane, Sought
<1>11. \A u \in Drives : /\ Trusted(x, u) => Trusted(y, u)
                         /\ Leaving(x, u) => Leaving(y, u)
                         /\ Recovered(x, u) => Recovered(y, u)
  BY <1>5, <1>7, <1>8 DEF Trusted, Leaving, Recovered, CountsTrue
<1>12. Sane(y) /\ Keeps(s, y)
  <2>1. Keeps(x, y)
    BY <1>5, <1>11 DEF Keeps, Straightened
  <2>2. Sane(y)
    BY <1>6, <1>10 DEF Sane
  <2> QED BY <1>4, <2>1, <2>2, KeepsTransitive
<1>13. Sane(Result(y, 2, FALSE)) /\ Keeps(y, Result(y, 2, FALSE))
  BY <1>12, ResultKeeps
<1>14. Keeps(s, Result(y, 2, FALSE))
  BY <1>12, <1>13, KeepsTransitive
<1> QED BY <1>1, <1>13, <1>14, InvalidKeeps

\* A seek begins: the unit leaves from where its count says, the other units as they were.
LEMMA StartSeekLeads ==
  ASSUME NEW s, Sane(s), Given(s.chip.got), s.chip.got.op \in {"seek", "recalibrate"},
         s.chip.phase = "command", s.chip.hd \in Heads
  PROVE  Sane(StartSeek(s)) /\ Leads(s, StartSeek(s))
<1> DEFINE c == s.chip.got
           v == c.us
           k == [IdleSeek EXCEPT !.active = TRUE, !.recal = (c.op = "recalibrate"),
                    !.target = IF c.op = "seek" THEN c.c ELSE 0, !.hd = s.chip.hd]
           x == [s EXCEPT !.chip.seek[v] = k, !.chip.busy[v] = TRUE,
                          !.chip.pending[v] = NoStatus]
           y == SelectHead(x)
           z == ToCommand(y)
           w == StepDrives(z)
<1>1. StartSeek(s) = w
  BY DEF StartSeek
<1>2. v \in Drives /\ k \in Seeks /\ k.active /\ k.pulses = 0
  <2>1. v \in Drives /\ (c.op = "seek" => c.c \in Nat)
    BY DEF Given
  <2>2. (c.op = "recalibrate") \in BOOLEAN
    OBVIOUS
  <2> QED BY <2>1, <2>2 DEF IdleSeek, Seeks
<1> HIDE DEF v, k
<1>3. /\ DOMAIN x = DOMAIN s /\ DOMAIN x.chip = DOMAIN s.chip /\ x.drive = s.drive /\ x.cable = s.cable
      /\ x.chip.seek = [s.chip.seek EXCEPT ![v] = k] /\ x.chip.pcn = s.chip.pcn
      /\ x.chip.pending = [s.chip.pending EXCEPT ![v] = NoStatus]
      /\ x.chip.seekEnd = s.chip.seekEnd
      /\ x.chip.busy = [s.chip.busy EXCEPT ![v] = TRUE]
      /\ x.chip.phase = s.chip.phase /\ x.chip.got = s.chip.got /\ x.chip.due = s.chip.due
      /\ x.chip.idx = s.chip.idx /\ x.chip.want = s.chip.want /\ x.chip.needNext = s.chip.needNext
  BY DEF Sane, Shaped, Registers
<1> HIDE DEF x
<1>4. Shaped(x) /\ Counters(x.chip) /\ Ordered(x.chip)
  <2>1. Shaped(x)
    BY <1>3 DEF Sane, Shaped
  <2>2. Counters(x.chip)
    BY <1>3 DEF Sane, Counters
  <2>3. Ordered(x.chip)
    BY <1>3 DEF Ordered
  <2> QED BY <2>1, <2>2, <2>3
<1>5. \A u \in Drives : /\ x.chip.seek[u] = IF u = v THEN k ELSE s.chip.seek[u]
                        /\ x.chip.pending[u] = IF u = v THEN NoStatus ELSE s.chip.pending[u]
                        /\ x.chip.busy[u] = IF u = v THEN TRUE ELSE s.chip.busy[u]
  BY <1>3 DEF Sane, Sought
<1>6. NoStatus # {"SE"}
  BY DEF NoStatus
<1>7. /\ x.chip.seek \in [Drives -> Seeks] /\ x.chip.busy \in [Drives -> BOOLEAN]
      /\ DOMAIN x.chip.pending = Drives
  <2>1. \A f \in [Drives -> BOOLEAN] : [f EXCEPT ![v] = TRUE] \in [Drives -> BOOLEAN]
    OBVIOUS
  <2>2. \A f \in [Drives -> Seeks] : [f EXCEPT ![v] = k] \in [Drives -> Seeks]
    BY <1>2
  <2>3. /\ s.chip.seek \in [Drives -> Seeks] /\ s.chip.busy \in [Drives -> BOOLEAN]
        /\ DOMAIN s.chip.pending = Drives
    BY DEF Sane, Sought
  <2> QED BY <1>3, <2>1, <2>2, <2>3
<1>8. Sought(x)
  <2>1. /\ s.chip.pcn \in [Drives -> Nat] /\ s.chip.seekEnd \in [Drives -> BOOLEAN]
        /\ \A u \in Drives :
             /\ s.chip.busy[u] \/ s.chip.seekEnd[u]
                  => s.chip.seek[u].active \/ s.chip.pending[u] # NoStatus
             /\ s.chip.seek[u].active => s.chip.pending[u] # {"SE"}
    BY DEF Sane, Sought
  <2> QED BY <1>2, <1>3, <1>5, <1>6, <1>7, <2>1 DEF Sought
<1>9. Leads(s, x)
  <2>1. \A u \in Drives : Recovered(s, u) => Recovered(x, u)
    BY <1>3, <1>5, <1>6 DEF Recovered, CountsTrue
  <2>2. \A u \in Drives : Trusted(s, u) => Leaving(x, u)
    BY <1>2, <1>3, <1>5 DEF Trusted, Leaving, CountsTrue, Far
  <2> QED BY <1>3, <2>1, <2>2 DEF Leads, Straightened
<1>10. Sane(x)
  BY <1>4, <1>8 DEF Sane
<1>11. Calm(x, y) /\ y.chip = x.chip
  BY <1>4, SelectHeadCalm
<1> HIDE DEF y
<1>12. Sane(y) /\ Keeps(x, y)
  BY <1>10, <1>11, CalmKeeps DEF Sane, Calm
<1>13. Sane(z) /\ Keeps(y, z)
  BY <1>12, ToCommandKeeps
<1> HIDE DEF z
<1>14. Sane(w) /\ Keeps(z, w)
  BY <1>13, StepDrivesSteps, ApartSane DEF Sane
<1> HIDE DEF w
<1>15. Keeps(x, w)
  BY <1>12, <1>13, <1>14, KeepsTransitive
<1> QED BY <1>1, <1>9, <1>14, <1>15, LeadsOn

\* A data command waits for its head, or begins at once.
LEMMA StartDataKeeps ==
  ASSUME NEW s0, Sane(s0), Given(s0.chip.got), s0.chip.got.op \in DataOps, s0.chip.phase = "command"
  PROVE  Sane(StartData(s0)) /\ Keeps(s0, StartData(s0))
<1> DEFINE c == s0.chip.got
           s == [s0 EXCEPT !.chip = [@ EXCEPT !.c = c.c, !.h = c.h, !.r = c.r, !.st1 = {}, !.st2 = {},
                                         !.needNext = FALSE, !.cmStop = FALSE, !.xfer = "none"]]
           t == SelectHead(s)
           x == [t EXCEPT !.chip.st1 = {"NW"}]
           w == [t EXCEPT !.chip.loaded = c.us, !.chip.phase = "wait", !.chip.due = Hlt]
<1>1. StartData(s0) \in {Invalid(s), EndData(t, {"AT", "NR"}), EndData(x, {"AT"}), BeginData(t), Polled(w)}
  BY DEF StartData
<1>2. Alike(s0, s) /\ s.chip.phase = "command" /\ s.chip.got = s0.chip.got
  BY ZenonT(60) DEF Alike, Sane, Shaped, Registers, Counters
<1> HIDE DEF s
<1>3. Ordered(s.chip)
  BY <1>2 DEF Ordered, Sane
<1>4. Sane(s) /\ Keeps(s0, s)
  BY <1>2, <1>3, AlikeKeeps
<1>5. Calm(s, t) /\ t.chip = s.chip
  BY <1>4, SelectHeadCalm DEF Sane
<1> HIDE DEF t
<1>6. Sane(t) /\ Keeps(s, t) /\ t.chip.phase = "command" /\ t.chip.got = s0.chip.got
  BY <1>2, <1>4, <1>5, CalmKeeps DEF Sane, Calm
<1>7. Same(t, x) /\ Counters(x.chip)
  BY <1>6 DEF Same, Sane, Shaped, Registers, Counters
<1> HIDE DEF x
<1>8. Goes(t, EndData(x, {"AT"})) /\ Goes(t, EndData(t, {"AT", "NR"})) /\ Goes(t, BeginData(t))
  BY <1>6, <1>7, EndOn, EndDataGoes, BeginDataGoes, SameIsCalm DEF Sane
<1>9. \A q : Goes(t, q) => Sane(q) /\ Keeps(t, q)
  BY <1>6, GoesSane DEF Sane
<1>10. Alike(t, w) /\ w.chip.phase = "wait" /\ w.chip.got = s0.chip.got
  <2>1. /\ DOMAIN w = DOMAIN t /\ DOMAIN w.chip = DOMAIN t.chip /\ w.drive = t.drive /\ w.cable = t.cable
        /\ w.chip.seek = t.chip.seek /\ w.chip.pcn = t.chip.pcn /\ w.chip.pending = t.chip.pending
        /\ w.chip.seekEnd = t.chip.seekEnd /\ w.chip.busy = t.chip.busy
        /\ w.chip.due = Hlt /\ w.chip.idx = t.chip.idx /\ w.chip.want = t.chip.want
        /\ w.chip.needNext = t.chip.needNext /\ w.chip.phase = "wait" /\ w.chip.got = t.chip.got
    BY <1>6 DEF Sane, Shaped, Registers
  <2> HIDE DEF w
  <2> QED BY <1>6, <2>1, Constants DEF Alike, Counters
<1> HIDE DEF w
<1>11. Ordered(w.chip)
  BY <1>10 DEF Ordered
<1>12. Sane(w) /\ Keeps(t, w)
  BY <1>6, <1>10, <1>11, AlikeKeeps
<1>13. Sane(Polled(w)) /\ Keeps(t, Polled(w))
  BY <1>12, PolledSettles, KeepsTransitive
<1>14. Sane(Invalid(s)) /\ Keeps(s, Invalid(s))
  BY <1>4, InvalidKeeps
<1>15. Keeps(s0, t)
  BY <1>4, <1>6, KeepsTransitive
<1>16. Keeps(s0, Invalid(s)) /\ \A q : Keeps(t, q) => Keeps(s0, q)
  BY <1>4, <1>14, <1>15, KeepsTransitive
<1> QED BY <1>1, <1>8, <1>9, <1>13, <1>14, <1>16

\* Every command, executed.
LEMMA ExecuteLeads ==
  ASSUME NEW s0, Sane(s0), Given(s0.chip.got), s0.chip.got.op # "unknown", s0.chip.phase = "command"
  PROVE  Sane(Execute(s0)) /\ Leads(s0, Execute(s0))
<1> DEFINE c == s0.chip.got
           b == IF c.op = "recalibrate" THEN 0 ELSE c.hd
           x == [s0 EXCEPT !.chip.us = c.us, !.chip.hd = b]
           y == [x EXCEPT !.chip.nd = c.nd, !.chip.specified = TRUE]
           z == SelectHead(x)
<1>1. \/ c.op = "sense_int" /\ Execute(s0) = SenseInt(s0)
      \/ c.op = "specify" /\ Execute(s0) = ToCommand(y)
      \/ c.op = "sense_drive" /\ Execute(s0) = Result(z, 1, FALSE)
      \/ c.op \in {"seek", "recalibrate"} /\ Execute(s0) = StartSeek(x)
      \/ c.op \in DataOps /\ Execute(s0) = StartData(x)
  <2>1. c.op \in {"sense_int", "sense_drive", "recalibrate", "specify", "seek"} \cup DataOps
    BY DEF Given
  <2>2. CASE c.op = "sense_int"
    BY <2>2 DEF Execute, DataOps
  <2>3. CASE c.op = "specify"
    BY <2>3 DEF Execute, DataOps
  <2>4. CASE c.op = "sense_drive"
    BY <2>4 DEF Execute, DataOps
  <2>5. CASE c.op \in {"seek", "recalibrate"}
    BY <2>5 DEF Execute, DataOps
  <2>6. CASE c.op \in DataOps
    BY <2>6 DEF Execute, DataOps
  <2> QED BY <2>1, <2>2, <2>3, <2>4, <2>5, <2>6
<1>2. c.op # "sense_int" => b \in Heads
  BY DEF Given, Heads
<1> HIDE DEF b
<1>3. /\ Alike(s0, x) /\ x.chip.phase = "command" /\ x.chip.got = c /\ x.chip.hd = b
  BY DEF Alike, Sane, Shaped, Registers, Counters
<1> HIDE DEF x
<1>4. Ordered(x.chip)
  BY <1>3 DEF Ordered
<1>5. Sane(x) /\ Keeps(s0, x)
  BY <1>3, <1>4, AlikeKeeps
<1>6. Alike(x, y) /\ y.chip.phase = "command" /\ y.chip.got = c
  BY <1>3, <1>5 DEF Alike, Sane, Shaped, Registers, Counters
<1> HIDE DEF y
<1>7. Ordered(y.chip)
  BY <1>6 DEF Ordered
<1>8. Sane(ToCommand(y)) /\ Keeps(x, ToCommand(y))
  BY <1>5, <1>6, <1>7, AlikeKeeps, ToCommandKeeps, KeepsTransitive
<1>9. Calm(x, z) /\ z.chip = x.chip
  BY <1>5, SelectHeadCalm DEF Sane
<1> HIDE DEF z
<1>10. Sane(z) /\ Keeps(x, z)
  BY <1>5, <1>9, CalmKeeps DEF Sane, Calm
<1>11. Sane(Result(z, 1, FALSE)) /\ Keeps(x, Result(z, 1, FALSE))
  BY <1>10, ResultKeeps, KeepsTransitive
<1>12. ASSUME NEW q, Sane(q), Keeps(x, q)
       PROVE  Leads(s0, q)
  BY <1>5, <1>12, KeepsTransitive, KeepsLeads
<1>13. CASE c.op = "sense_int" /\ Execute(s0) = SenseInt(s0)
  BY <1>13, SenseIntKeeps, KeepsLeads
<1>14. CASE c.op = "specify" /\ Execute(s0) = ToCommand(y)
  BY <1>8, <1>12, <1>14
<1>15. CASE c.op = "sense_drive" /\ Execute(s0) = Result(z, 1, FALSE)
  BY <1>11, <1>12, <1>15
<1>16. CASE c.op \in {"seek", "recalibrate"} /\ Execute(s0) = StartSeek(x)
  BY <1>2, <1>3, <1>5, <1>16, StartSeekLeads, LeadsOn
<1>17. CASE c.op \in DataOps /\ Execute(s0) = StartData(x)
  <2>1. Sane(StartData(x)) /\ Keeps(x, StartData(x))
    BY <1>3, <1>5, <1>17, StartDataKeeps
  <2> QED BY <1>12, <1>17, <2>1
<1> QED BY <1>1, <1>13, <1>14, <1>15, <1>16, <1>17

\* The command register takes a whole command and executes it.
LEMMA StartCommandLeads ==
  ASSUME NEW s, Sane(s), s.chip.phase = "command", NEW c, Given(c)
  PROVE  Sane(StartCommand(s, c)) /\ Leads(s, StartCommand(s, c))
<1> DEFINE t == [s EXCEPT !.chip.got = c]
           e == [NoResult EXCEPT !.ic = {"IC"}]
           x == [t EXCEPT !.chip.res = e]
           y == Result(x, 1, FALSE)
<1>1. \/ StartCommand(s, c) = y
      \/ c.op # "unknown" /\ StartCommand(s, c) \in {Execute(t), t}
  BY DEF StartCommand, Invalid
<1> HIDE DEF e
<1>2. Alike(s, t) /\ t.chip.phase = "command" /\ t.chip.got = c
  BY DEF Alike, Sane, Shaped, Registers, Counters
<1>3. Alike(s, y) /\ y.chip.phase = "result"
  <2>1. /\ DOMAIN x = DOMAIN t /\ DOMAIN x.chip = DOMAIN t.chip /\ x.drive = t.drive /\ x.cable = t.cable
        /\ x.chip.seek = t.chip.seek /\ x.chip.pcn = t.chip.pcn /\ x.chip.pending = t.chip.pending
        /\ x.chip.seekEnd = t.chip.seekEnd /\ x.chip.busy = t.chip.busy /\ x.chip.idx = t.chip.idx
        /\ x.chip.want = t.chip.want /\ x.chip.needNext = t.chip.needNext /\ x.chip.due = t.chip.due
    BY <1>2 DEF Alike, Sane, Shaped, Registers
  <2> HIDE DEF x, t
  <2>2. Alike(s, x) /\ Registers \subseteq DOMAIN x.chip /\ {"chip", "drive", "cable"} \subseteq DOMAIN x
    BY <1>2, <2>1 DEF Alike, Counters, Sane, Shaped
  <2>3. /\ DOMAIN y = DOMAIN x /\ DOMAIN y.chip = DOMAIN x.chip /\ y.drive = x.drive /\ y.cable = x.cable
        /\ y.chip.seek = x.chip.seek /\ y.chip.pcn = x.chip.pcn /\ y.chip.pending = x.chip.pending
        /\ y.chip.seekEnd = x.chip.seekEnd /\ y.chip.busy = x.chip.busy /\ y.chip.idx = x.chip.idx
        /\ y.chip.want = x.chip.want /\ y.chip.needNext = x.chip.needNext /\ y.chip.due = x.chip.due
        /\ y.chip.phase = "result"
    BY <2>2 DEF Result, Registers
  <2> QED BY <2>2, <2>3 DEF Alike, Counters
<1> HIDE DEF t, y
<1>4. Ordered(y.chip)
  BY <1>3 DEF Ordered
<1>5. Sane(y) /\ Leads(s, y)
  BY <1>3, <1>4, AlikeKeeps, KeepsLeads
<1>6. ASSUME c.op # "unknown"
      PROVE  Sane(t) /\ Keeps(s, t)
  <2>1. Ordered(t.chip)
    BY <1>2, <1>6 DEF Ordered
  <2> QED BY <1>2, <2>1, AlikeKeeps
<1>7. CASE c.op # "unknown" /\ StartCommand(s, c) = Execute(t)
  <2>1. Sane(Execute(t)) /\ Leads(t, Execute(t))
    BY <1>2, <1>6, <1>7, ExecuteLeads
  <2> QED BY <1>6, <1>7, <2>1, LeadsOn
<1>8. CASE c.op # "unknown" /\ StartCommand(s, c) = t
  BY <1>6, <1>8, KeepsLeads
<1> QED BY <1>1, <1>5, <1>7, <1>8

\* RESET: every unit at rest, its count kept.
LEMMA ResetKeeps ==
  ASSUME NEW s, Shaped(s), NEW t, t = ResetChip(s)
  PROVE  /\ Shaped(t) /\ t.drive = s.drive /\ t.cable = s.cable /\ t.chip.pcn = s.chip.pcn
         /\ s.chip.pcn \in [Drives -> Nat] /\ s.chip.due \in Nat => Sane(t)
         /\ Settled(t)
         /\ \A u \in Drives : ~t.chip.seek[u].active /\ ~t.chip.seek[u].recal
<1>1. DOMAIN t = DOMAIN s /\ DOMAIN t.chip = DOMAIN s.chip /\ t.drive = s.drive /\ t.cable = s.cable
  BY ZenonT(60) DEF ResetChip, Shaped
<1>2. /\ t.chip.phase = "command" /\ t.chip.got = NoCommand /\ t.chip.idx = 0 /\ t.chip.want = 0
      /\ ~t.chip.needNext /\ t.chip.needNext \in BOOLEAN
      /\ t.chip.due = s.chip.due /\ t.chip.pcn = s.chip.pcn
  BY ZenonT(60) DEF ResetChip, Shaped, Registers
<1>3. /\ t.chip.seek \in [Drives -> Seeks]
      /\ \A u \in Drives : t.chip.seek[u] = IdleSeek
  <2>1. IdleSeek \in Seeks
    BY DEF IdleSeek, Seeks, Heads
  <2>2. t.chip.seek = [u \in Drives |-> IdleSeek]
    BY ZenonT(60) DEF ResetChip, Shaped, Registers
  <2> QED BY <2>1, <2>2
<1>4. t.chip.seekEnd = [u \in Drives |-> FALSE] /\ t.chip.busy = [u \in Drives |-> FALSE]
  BY ZenonT(60) DEF ResetChip, Shaped, Registers
<1>5. DOMAIN t.chip.pending = Drives
  BY ZenonT(60) DEF ResetChip, Shaped, Registers
<1>6. \A u \in Drives : ~t.chip.seek[u].active /\ ~t.chip.seek[u].recal
  BY <1>3 DEF IdleSeek
<1>7. Shaped(t)
  BY <1>1 DEF Shaped
<1>8. s.chip.pcn \in [Drives -> Nat] => Sought(t)
  BY <1>2, <1>3, <1>4, <1>5, <1>6 DEF Sought
<1>9. Settled(t)
  BY <1>2, <1>6 DEF Settled, AllClear, Clear
<1>10. s.chip.due \in Nat => Counters(t.chip)
  BY <1>2 DEF Counters
<1>11. Ordered(t.chip)
  BY <1>2 DEF Ordered
<1> QED BY <1>1, <1>2, <1>6, <1>7, <1>8, <1>9, <1>10, <1>11 DEF Sane

-----------------------------------------------------------------------------
(***************************************************************************)
(* The card.                                                               *)
(***************************************************************************)
-----------------------------------------------------------------------------
\* The one deadline comes before everything that is due.
Awaited ==
  /\ wake \in Nat
  /\ \A u \in Drives : chip.seek[u].active => wake \in 1..chip.seek[u].due
  /\ chip.phase = "wait" => wake \in 1..chip.due
\* The wires are what the chip asks for.
WiresAgree == hold = Drq(chip) /\ int = IntPin(chip)
\* Motors that run will be looked at before they are to stop.
MotorStops ==
  /\ motor \in [on : BOOLEAN, off : 0..MotorT, wake : 0..MotorT]
  /\ motor.on => motor.wake \in 1..motor.off
\* A unit is trusted that is where its count says and is not leaving, or is recalibrating again.
TrustIsEarned ==
  /\ calibrated \subseteq Drives
  /\ cable # Straight => calibrated = {}
  /\ \A u \in calibrated : Trusted(Machine, u) \/ Recalibrating(chip, u)
\* The inductive invariant.
IInv == rig \in Rigs /\ Sane(Machine) /\ Awaited /\ WiresAgree /\ MotorStops /\ TrustIsEarned

-----------------------------------------------------------------------------
\* The least of some numbers is among them and not above any.
LEMMA LeastIsLeast ==
  ASSUME NEW S, S \subseteq Nat \ {0}, NEW e \in S
  PROVE  Least(S) \in 1..e
<1>1. \E x \in S : \A y \in S : x <= y
  <2> DEFINE R == OpToRel(<, Nat)
  <2>1. PICK x \in S : \A y \in S : <<y, x>> \notin R
    <3> HIDE DEF R
    <3>1. IsWellFoundedOn(R, Nat)
      BY ZenonT(60), NatLessThanWellFounded DEF R
    <3> QED BY <3>1, WFMin
  <2>2. \A y \in S : ~(y < x)
    BY <2>1 DEF OpToRel
  <2> QED BY <2>2
<1>2. Least(S) \in S /\ \A y \in S : Least(S) <= y
  <2> DEFINE P(w) == w \in S /\ \A v \in S : w <= v
  <2>1. Least(S) = CHOOSE w : P(w)
    BY Zenon DEF Least
  <2>2. \E w : P(w)
    BY <1>1
  <2> HIDE DEF P
  <2>3. P(Least(S))
    BY <2>1, <2>2
  <2> QED BY <2>3 DEF P
<1>3. Least(S) \in Nat \ {0} /\ e \in Nat \ {0} /\ Least(S) <= e
  BY <1>2
<1> QED BY <1>3

\* Once nothing is due, every moment the card must wake for lies ahead.
LEMMA EdgesAhead ==
  ASSUME NEW s, Sane(s), Settled(s)
  PROVE  Edges(s.chip) \subseteq Nat \ {0}
<1>1. \A u \in Drives : s.chip.seek[u].active => s.chip.seek[u].due \in Nat \ {0}
  BY DEF Sane, Sought, Seeks, Settled, AllClear, Clear
<1>2. s.chip.phase = "wait" => s.chip.due \in Nat \ {0}
  BY DEF Sane, Counters, Settled
<1> QED BY <1>1, <1>2 DEF Edges

\* refresh(): poll, drive the wires, and one deadline before everything that is due.
LEMMA RefreshSettles ==
  ASSUME NEW s, Sane(s), Refresh(s),
         NEW m, m = [chip |-> chip', drive |-> drive', cable |-> cable']
  PROVE  /\ Sane(Machine)' /\ Awaited' /\ WiresAgree'
         /\ Sane(m) /\ Keeps(s, m) /\ cable' = s.cable
<1> DEFINE t == Polled(s)
<1>1. Sane(t) /\ Keeps(s, t) /\ Settled(t) /\ t.cable = s.cable
  BY PolledSettles
<1>2. /\ chip' = t.chip /\ drive' = t.drive /\ cable' = t.cable
      /\ hold' = Drq(t.chip) /\ int' = IntPin(t.chip) /\ wake' = Least(Edges(t.chip))
  BY DEF Refresh
<1> HIDE DEF t
<1>3. Sane(m)
  <2>1. m.chip = t.chip /\ m.drive = t.drive /\ m.cable = t.cable /\ DOMAIN m = {"chip", "drive", "cable"}
    BY <1>2
  <2>2. Shaped(m)
    BY <1>1, <2>1 DEF Sane, Shaped
  <2>3. Sought(m)
    BY <1>1, <2>1 DEF Sane, Sought
  <2> QED BY <1>1, <2>1, <2>2, <2>3 DEF Sane
<1>4. Keeps(s, m)
  <2>1. m.chip = t.chip /\ m.drive = t.drive /\ m.cable = t.cable
    BY <1>2
  <2>2. \A u \in Drives : /\ Trusted(t, u) <=> Trusted(m, u)
                          /\ Leaving(t, u) <=> Leaving(m, u)
                          /\ Recovered(t, u) <=> Recovered(m, u)
    BY <2>1 DEF Trusted, Leaving, Recovered, CountsTrue
  <2> QED BY <1>1, <2>1, <2>2 DEF Keeps, Straightened
<1>5. Awaited'
  <2>1. Edges(t.chip) \subseteq Nat \ {0}
    BY <1>1, EdgesAhead
  <2>2. wake' \in Nat
    <3>1. CASE Edges(t.chip) = {}
      BY <1>2, <3>1 DEF Least
    <3>2. CASE Edges(t.chip) # {}
      <4>1. PICK e \in Edges(t.chip) : TRUE
        BY <3>2
      <4>2. Least(Edges(t.chip)) \in 1..e
        BY <2>1, <4>1, LeastIsLeast
      <4> QED BY <1>2, <2>1, <4>1, <4>2
    <3> QED BY <3>1, <3>2
  <2>3. ASSUME NEW u \in Drives, t.chip.seek[u].active
        PROVE  wake' \in 1..t.chip.seek[u].due
    <3>1. t.chip.seek[u].due \in Edges(t.chip)
      BY <2>3 DEF Edges
    <3> QED BY <1>2, <2>1, <3>1, LeastIsLeast
  <2>4. ASSUME t.chip.phase = "wait"
        PROVE  wake' \in 1..t.chip.due
    <3>1. t.chip.due \in Edges(t.chip)
      BY <2>4 DEF Edges
    <3> QED BY <1>2, <2>1, <3>1, LeastIsLeast
  <2> QED BY <1>2, <2>2, <2>3, <2>4 DEF Awaited
<1>6. WiresAgree'
  BY <1>2 DEF WiresAgree
<1>7. Sane(Machine)'
  BY <1>3 DEF Machine
<1> QED BY <1>1, <1>2, <1>3, <1>4, <1>5, <1>6, <1>7

\* The history of trust is right after every step that keeps or leads.
LEMMA CalibrationsEarned ==
  ASSUME TrustIsEarned, Sane(Machine), NEW gone, Calibrations(gone),
         NEW m, m = [chip |-> chip', drive |-> drive', cable |-> cable'], Sane(m),
         cable = Straight /\ cable' = Straight =>
           \A u \in Drives \ gone : /\ Trusted(Machine, u) => Leaving(m, u)
                                    /\ Recovered(Machine, u) => Recovered(m, u)
  PROVE  TrustIsEarned'
<1>1. CASE cable # Straight \/ cable' # Straight
  <2>1. calibrated' = {}
    BY <1>1 DEF Calibrations
  <2> QED BY <2>1 DEF TrustIsEarned
<1>2. CASE cable = Straight /\ cable' = Straight
  <2>1. calibrated' \subseteq Drives \ gone
    BY <1>2 DEF Calibrations
  <2>2. ASSUME NEW u \in calibrated'
        PROVE  Trusted(m, u) \/ Recalibrating(m.chip, u)
    <3>0. /\ u \in Drives \ gone /\ m.chip = chip'
          /\ Machine.chip = chip
      BY <2>1 DEF Machine
    <3>1. /\ Trusted(Machine, u) => Leaving(m, u)
          /\ Recovered(Machine, u) => Recovered(m, u)
      BY <1>2, <3>0
    <3>2. \/ Recalibrating(chip, u) /\ chip'.seek[u].recal /\ chip'.pending[u] = {"SE"}
          \/ /\ u \in calibrated /\ ~SentOff(chip', u)
             /\ Recalibrating(chip, u) => Recalibrating(chip', u)
      BY <1>2 DEF Calibrations
    <3>3. CASE Recalibrating(chip, u) /\ chip'.seek[u].recal /\ chip'.pending[u] = {"SE"}
      <4>1. Machine.chip.pending[u] # {"SE"}
        BY <3>0, <3>3 DEF Sane, Sought, Recalibrating
      <4>2. CountsTrue(m, u)
        BY <3>0, <3>1, <3>3, <4>1 DEF Recovered
      <4>3. ~m.chip.seek[u].active
        BY <3>0, <3>3 DEF Sane, Sought
      <4> QED BY <4>2, <4>3 DEF Trusted, Far
    <3>4. CASE /\ u \in calibrated /\ ~SentOff(chip', u)
               /\ Recalibrating(chip, u) => Recalibrating(chip', u)
      <4>1. Trusted(Machine, u) \/ Recalibrating(chip, u)
        BY <3>4 DEF TrustIsEarned
      <4>2. CASE Recalibrating(chip, u)
        BY <3>0, <3>4, <4>2
      <4>3. CASE Trusted(Machine, u)
        <5>1. Leaving(m, u)
          BY <3>1, <4>3
        <5>2. Far(m.chip.seek[u]) => Recalibrating(m.chip, u)
          BY <3>0, <3>4 DEF Far, SentOff, Recalibrating
        <5> QED BY <5>1, <5>2 DEF Leaving, Trusted
      <4> QED BY <4>1, <4>2, <4>3
    <3> QED BY <3>2, <3>3, <3>4
  <2>3. ASSUME NEW u \in calibrated'
        PROVE  (Trusted(Machine, u) \/ Recalibrating(chip, u))'
    BY <2>2, <2>3 DEF Machine, Trusted, CountsTrue
  <2> QED BY <1>2, <2>1, <2>3 DEF TrustIsEarned
<1> QED BY <1>1, <1>2

\* A handler in one piece: what it does to the machine, then refresh.
LEMMA HandlerKeeps ==
  ASSUME TrustIsEarned, Sane(Machine), NEW s, Sane(s), Refresh(s), NEW gone, Calibrations(gone),
         cable = Straight /\ s.cable = Straight => Leads(Machine, s)
  PROVE  Sane(Machine)' /\ Awaited' /\ WiresAgree' /\ TrustIsEarned'
<1> DEFINE m == [chip |-> chip', drive |-> drive', cable |-> cable']
<1>1. Sane(Machine)' /\ Awaited' /\ WiresAgree' /\ Sane(m) /\ Keeps(s, m) /\ cable' = s.cable
  BY RefreshSettles
<1>2. ASSUME cable = Straight, cable' = Straight
      PROVE  \A u \in Drives \ gone : /\ Trusted(Machine, u) => Leaving(m, u)
                                      /\ Recovered(Machine, u) => Recovered(m, u)
  <2> HIDE DEF m
  <2>1. Leads(Machine, m)
    BY <1>1, <1>2, LeadsOn
  <2>2. Straightened(Machine)
    BY <1>2 DEF Straightened, Machine, Straight
  <2> QED BY <2>1, <2>2 DEF Leads
<1>3. TrustIsEarned'
  BY <1>1, <1>2, CalibrationsEarned
<1> QED BY <1>1, <1>3

\* The machine is its chip, its drives and its cable.
LEMMA MachineHas ==
  Machine.chip = chip /\ Machine.drive = drive /\ Machine.cable = cable
<1> QED BY DEF Machine

\* An access to the motors' port restarts their time.
LEMMA TouchedKeeps ==
  ASSUME MotorStops, NEW on \in BOOLEAN, Touched(on)
  PROVE  MotorStops'
<1>1. /\ motor'.on = on /\ motor'.off = MotorT
      /\ motor'.wake = IF on /\ motor.wake = 0 THEN MotorT ELSE motor.wake
  BY DEF Touched
<1>2. DOMAIN motor' = {"on", "off", "wake"}
      /\ motor' = [on |-> motor'.on, off |-> motor'.off, wake |-> motor'.wake]
  BY DEF Touched
<1>3. motor.wake \in 0..MotorT /\ MotorT \in Nat \ {0}
  BY Constants DEF MotorStops
<1>4. motor'.wake \in 0..MotorT /\ motor'.off \in 0..MotorT /\ (on => motor'.wake \in 1..motor'.off)
  BY <1>1, <1>3
<1> QED BY <1>1, <1>2, <1>4 DEF MotorStops

\* poll() of the machine.
LEMMA PolledMachine ==
  ASSUME Sane(Machine)
  PROVE  /\ Sane(Polled(Machine)) /\ Leads(Machine, Polled(Machine)) /\ Keeps(Machine, Polled(Machine))
         /\ Still(Machine, Polled(Machine)) /\ Polled(Machine).cable = cable
<1> QED BY PolledSettles, KeepsLeads, MachineHas

\* A port access whose handler keeps the seeks honest.
LEMMA PortCycleKeeps ==
  ASSUME IInv, NEW s, Sane(s), PortCycle(s),
         cable = Straight /\ s.cable = Straight => Leads(Machine, s)
  PROVE  IInv'
<1>1. Refresh(s) /\ Touched(motor.on) /\ Calibrations({}) /\ rig' = rig
  BY DEF PortCycle
<1>2. motor.on \in BOOLEAN
  BY DEF IInv, MotorStops
<1>3. MotorStops'
  BY <1>1, <1>2, TouchedKeeps DEF IInv
<1>4. Sane(Machine)' /\ Awaited' /\ WiresAgree' /\ TrustIsEarned'
  BY <1>1, HandlerKeeps DEF IInv
<1> QED BY <1>1, <1>3, <1>4 DEF IInv

\* A byte moved leaves a machine sane.
LEMMA ByteSane ==
  ASSUME NEW s, Sane(s), Moving(s.chip), NEW b
  PROVE  /\ Sane(ByteOut(s)) /\ Keeps(s, ByteOut(s)) /\ ByteOut(s).cable = s.cable
         /\ Sane(ByteIn(s, b)) /\ Keeps(s, ByteIn(s, b)) /\ ByteIn(s, b).cable = s.cable
<1>1. Shaped(s) /\ Working(s) /\ Sought(s) /\ Given(s.chip.got) /\ s.chip.got.op \in DataOps
  BY DEF Sane, Working, Moving, Ordered
<1>2. Goes(s, ByteOut(s)) /\ Goes(s, ByteIn(s, b))
  BY <1>1, ByteGoes
<1> QED BY <1>1, <1>2, GoesSane DEF Goes, Calm

\* What the guest does at the ports.
LEMMA GuestKeeps ==
  ASSUME IInv, Guest
  PROVE  IInv'
<1> DEFINE p == Polled(Machine)
<1>1. Sane(p) /\ Leads(Machine, p) /\ Keeps(Machine, p) /\ Still(Machine, p) /\ p.cable = cable
  BY PolledMachine DEF IInv
<1>2. Machine.chip = chip /\ Machine.cable = cable
  BY MachineHas
<1> HIDE DEF p
<1>3. CASE ReadStatus
  BY <1>1, <1>3, PortCycleKeeps DEF ReadStatus, p
<1>4. CASE LastByte
  <2>1. p.chip.phase = "command" /\ p.chip.got = chip.got /\ chip.got # NoCommand
    BY <1>1, <1>2, <1>4 DEF LastByte, Still
  <2>2. Given(p.chip.got) /\ p.chip.got.op # "unknown"
    BY <1>1, <2>1 DEF Sane, Ordered
  <2>3. Sane(Execute(p)) /\ Leads(p, Execute(p))
    BY <1>1, <2>1, <2>2, ExecuteLeads
  <2>4. Leads(Machine, Execute(p))
    BY <1>1, <2>3, LeadsOn
  <2>5. PortCycle(Execute(p))
    BY <1>4 DEF LastByte, p
  <2> QED BY <2>3, <2>4, <2>5, PortCycleKeeps
<1>5. CASE ReadResult
  <2>1. Sane(ResultRead(p)) /\ Keeps(p, ResultRead(p))
    BY <1>1, ResultReadKeeps
  <2>2. Leads(Machine, ResultRead(p))
    BY <1>1, <2>1, LeadsOn
  <2>3. PortCycle(ResultRead(p))
    BY <1>5 DEF ReadResult, p
  <2> QED BY <2>1, <2>2, <2>3, PortCycleKeeps
<1>6. CASE HandRead \/ HandWrite
  <2>1. Moving(p.chip)
    <3>1. chip.phase = "exec"
      BY <1>6 DEF HandRead, HandWrite, Moving
    <3> QED BY <1>1, <1>2, <3>1 DEF Still, Sane, Ordered
  <2>2. \E x : /\ x = ByteOut(p) \/ \E b : x = ByteIn(p, b)
               /\ PortCycle(x)
    BY <1>6 DEF HandRead, HandWrite, p
  <2>3. PICK x : /\ x = ByteOut(p) \/ \E b : x = ByteIn(p, b)
                 /\ PortCycle(x)
    BY <2>2
  <2>4. Sane(x) /\ Keeps(p, x)
    BY <1>1, <2>1, <2>3, ByteSane
  <2>5. Leads(Machine, x)
    BY <1>1, <2>4, LeadsOn
  <2> QED BY <2>3, <2>4, <2>5, PortCycleKeeps
<1>7. ASSUME NEW c \in rig.commands, FirstByte(c)
      PROVE  IInv'
  <2>1. Given(c)
    BY RigsAssumption, CommandsAreGiven DEF IInv
  <2>2. p.chip.phase = "command" /\ PortCycle(StartCommand(p, c))
    BY <1>7 DEF FirstByte, p
  <2>3. Sane(StartCommand(p, c)) /\ Leads(p, StartCommand(p, c))
    BY <1>1, <2>1, <2>2, StartCommandLeads
  <2>4. Leads(Machine, StartCommand(p, c))
    BY <1>1, <2>3, LeadsOn
  <2> QED BY <2>2, <2>3, <2>4, PortCycleKeeps
<1>8. ASSUME NEW b \in 0..1, WriteDma(b)
      PROVE  IInv'
  BY <1>1, <1>8, PortCycleKeeps DEF WriteDma, p
<1>9. ASSUME NEW k \in Cables, WriteSelect(k)
      PROVE  IInv'
  <2> DEFINE x == [p EXCEPT !.cable = k]
  <2>1. PortCycle(x)
    BY <1>9 DEF WriteSelect, p
  <2>2. x.chip = p.chip /\ x.drive = p.drive /\ x.cable = k /\ DOMAIN x = DOMAIN p
    BY <1>1 DEF Sane, Shaped
  <2> HIDE DEF x
  <2>3. Shaped(x)
    BY <1>1, <2>2 DEF Sane, Shaped
  <2>4. Sane(x)
    BY <1>1, <2>2, <2>3 DEF Sane, Sought
  <2>5. ASSUME cable = Straight, k = Straight
        PROVE  Leads(Machine, x)
    <3>1. \A u \in Drives : /\ Leaving(p, u) => Leaving(x, u)
                            /\ Recovered(p, u) => Recovered(x, u)
      BY <2>2 DEF Leaving, Recovered, CountsTrue
    <3> QED BY <1>1, <2>2, <2>5, <3>1 DEF Leads, Straightened
  <2> QED BY <2>1, <2>2, <2>4, <2>5, PortCycleKeeps
<1>10. ASSUME NEW on \in BOOLEAN, WriteMotor(on)
       PROVE  IInv'
  <2>1. Refresh(p) /\ Touched(on) /\ Calibrations({}) /\ rig' = rig
    BY <1>10 DEF WriteMotor, p
  <2>2. MotorStops'
    BY <2>1, TouchedKeeps DEF IInv
  <2>3. Sane(Machine)' /\ Awaited' /\ WiresAgree' /\ TrustIsEarned'
    BY <1>1, <2>1, HandlerKeeps DEF IInv
  <2> QED BY <2>1, <2>2, <2>3 DEF IInv
<1> QED BY <1>3, <1>4, <1>5, <1>6, <1>7, <1>8, <1>9, <1>10 DEF Guest, Cables

\* A byte by DMA or by the processor, which an interrupt of the card has asked for.
LEMMA TransferKeeps ==
  ASSUME IInv, Transfer1
  PROVE  IInv'
<1> DEFINE p == Polled(Machine)
<1>1. Sane(p) /\ Leads(Machine, p) /\ Keeps(Machine, p) /\ p.cable = cable
  BY PolledMachine DEF IInv
<1> HIDE DEF p
<1>2. Drq(p.chip) /\ Calibrations({}) /\ rig' = rig /\ motor' = motor
  BY DEF Transfer1, TransferIn, TransferOut, p
<1>3. PICK x : /\ x = ByteOut(p) \/ \E b : x = ByteIn(p, b)
               /\ Refresh(x)
  BY DEF Transfer1, TransferIn, TransferOut, p
<1>4. Sane(x) /\ Keeps(p, x)
  BY <1>1, <1>2, <1>3, ByteSane DEF Drq
<1>5. Leads(Machine, x)
  BY <1>1, <1>4, LeadsOn
<1>6. Sane(Machine)' /\ Awaited' /\ WiresAgree' /\ TrustIsEarned'
  BY <1>2, <1>3, <1>4, <1>5, HandlerKeeps DEF IInv
<1>7. MotorStops'
  BY <1>2 DEF IInv, MotorStops
<1> QED BY <1>2, <1>6, <1>7 DEF IInv

\* A T-state has passed on the chip: a trusted unit stays one.
Older(s, t) ==
  /\ Sane(t) /\ t.drive = s.drive /\ t.cable = s.cable
  /\ t.chip.phase = s.chip.phase /\ Drq(t.chip) = Drq(s.chip) /\ IntPin(t.chip) = IntPin(s.chip)
  /\ \A u \in Drives : /\ t.chip.seek[u].active = s.chip.seek[u].active
                       /\ t.chip.seek[u].due = Less(s.chip.seek[u].due)
                       /\ Trusted(s, u) => Trusted(t, u)
                       /\ Recovered(s, u) => Recovered(t, u)
  /\ s.chip.phase = "wait" => t.chip.due = Less(s.chip.due)

\* A T-state makes no unit less trusted.
LEMMA AgedKeeps ==
  ASSUME NEW s, Sane(s), NEW t, t = [s EXCEPT !.chip = Aged(s.chip)]
  PROVE  Older(s, t)
<1>1. /\ t.chip = Aged(s.chip) /\ t.drive = s.drive /\ t.cable = s.cable /\ DOMAIN t = DOMAIN s
  BY DEF Sane, Shaped
<1>2. /\ DOMAIN t.chip = DOMAIN s.chip
      /\ t.chip.phase = s.chip.phase /\ t.chip.got = s.chip.got /\ t.chip.xfer = s.chip.xfer
      /\ t.chip.idx = s.chip.idx /\ t.chip.want = s.chip.want /\ t.chip.needNext = s.chip.needNext
      /\ t.chip.nd = s.chip.nd /\ t.chip.resultInt = s.chip.resultInt /\ t.chip.pcn = s.chip.pcn
      /\ t.chip.pending = s.chip.pending /\ t.chip.seekEnd = s.chip.seekEnd
      /\ t.chip.busy = s.chip.busy
      /\ t.chip.due = IF s.chip.phase = "wait" THEN Less(s.chip.due) ELSE 0
  BY <1>1 DEF Aged, Sane, Shaped, Registers
<1>3. t.chip.seek = [u \in Drives |-> [s.chip.seek[u] EXCEPT !.due = Less(@)]]
  BY <1>1 DEF Aged, Sane, Shaped, Registers
<1>4. ASSUME NEW u \in Drives
      PROVE  /\ t.chip.seek[u] \in Seeks
             /\ t.chip.seek[u].active = s.chip.seek[u].active
             /\ t.chip.seek[u].recal = s.chip.seek[u].recal
             /\ t.chip.seek[u].target = s.chip.seek[u].target
             /\ t.chip.seek[u].due = Less(s.chip.seek[u].due)
  <2>1. s.chip.seek[u] \in Seeks
    BY DEF Sane, Sought
  <2>2. Less(s.chip.seek[u].due) \in Nat
    BY <2>1 DEF Seeks, Less
  <2> QED BY <1>3, <2>1, <2>2 DEF Seeks
<1>5. t.chip.seek \in [Drives -> Seeks]
  BY <1>3, <1>4
<1> HIDE DEF Aged
<1>6. Shaped(t)
  BY <1>1, <1>2 DEF Sane, Shaped
<1>7. Sought(t)
  BY <1>2, <1>4, <1>5 DEF Sane, Sought
<1>8. Counters(t.chip)
  BY <1>2 DEF Sane, Counters, Less
<1>9. Ordered(t.chip)
  BY <1>2 DEF Sane, Ordered, Moving
<1>10. Drq(t.chip) = Drq(s.chip) /\ IntPin(t.chip) = IntPin(s.chip)
  BY <1>2 DEF Drq, IntPin, Moving
<1>11. \A u \in Drives : /\ Trusted(s, u) => Trusted(t, u)
                         /\ Recovered(s, u) => Recovered(t, u)
  BY <1>1, <1>2, <1>4 DEF Trusted, Recovered, CountsTrue, Far
<1> QED BY <1>1, <1>2, <1>4, <1>6, <1>7, <1>8, <1>9, <1>10, <1>11 DEF Sane, Older

\* A T-state: what comes due at its end is polled before anyone looks.
LEMMA TickKeeps ==
  ASSUME IInv, Tick
  PROVE  IInv'
<1> DEFINE s == [Machine EXCEPT !.chip = Aged(@)]
           m == [chip |-> chip', drive |-> drive', cable |-> cable']
<1>1. /\ IF wake = 1 THEN Refresh(s)
         ELSE chip' = s.chip /\ wake' = Less(wake) /\ UNCHANGED <<drive, cable, hold, int>>
      /\ motor' = MotorAged /\ Calibrations({}) /\ rig' = rig
  BY DEF Tick
<1>2. Machine.chip = chip /\ Machine.drive = drive /\ Machine.cable = cable
  BY MachineHas
<1>3. /\ Sane(s) /\ s.drive = drive /\ s.cable = cable
      /\ s.chip.phase = chip.phase /\ Drq(s.chip) = Drq(chip) /\ IntPin(s.chip) = IntPin(chip)
      /\ \A u \in Drives : /\ s.chip.seek[u].active = chip.seek[u].active
                           /\ s.chip.seek[u].due = Less(chip.seek[u].due)
                           /\ Trusted(Machine, u) => Trusted(s, u)
                           /\ Recovered(Machine, u) => Recovered(s, u)
      /\ chip.phase = "wait" => s.chip.due = Less(chip.due)
  <2> HIDE DEF s
  <2>1. s = [Machine EXCEPT !.chip = Aged(Machine.chip)]
    BY DEF s
  <2>2. Sane(Machine)
    BY DEF IInv
  <2>3. Older(Machine, s)
    BY <2>1, <2>2, AgedKeeps
  <2> QED BY <1>2, <2>3 DEF Older
<1>4. DOMAIN s = {"chip", "drive", "cable"}
  BY DEF Machine
<1> HIDE DEF s
<1>5. Leads(Machine, s)
  <2>1. \A u \in Drives : Trusted(s, u) => Leaving(s, u)
    BY DEF Trusted, Leaving, Far
  <2> QED BY <1>2, <1>3, <2>1 DEF Leads, Straightened
<1>6. Sane(Machine)' /\ Awaited' /\ WiresAgree' /\ TrustIsEarned'
  <2>1. CASE wake = 1
    BY <1>1, <1>3, <1>5, <2>1, HandlerKeeps DEF IInv
  <2>2. CASE wake # 1
    <3>1. /\ chip' = s.chip /\ drive' = s.drive /\ cable' = s.cable /\ cable' = cable
          /\ wake' = Less(wake) /\ hold' = hold /\ int' = int
      BY <1>1, <1>3, <2>2
    <3>2. m.chip = s.chip /\ m.drive = s.drive /\ m.cable = s.cable /\ DOMAIN m = DOMAIN s
      BY <1>4, <3>1
    <3>3. Sane(m)
      <4> HIDE DEF m
      <4>1. Shaped(m) /\ Sought(m)
        BY <1>3, <3>2 DEF Sane, Shaped, Sought
      <4> QED BY <1>3, <3>2, <4>1 DEF Sane
    <3>4. \A u \in Drives : /\ Trusted(Machine, u) => Leaving(m, u)
                            /\ Recovered(Machine, u) => Recovered(m, u)
      <4> HIDE DEF m
      <4>1. \A u \in Drives : /\ Trusted(s, u) => Leaving(m, u)
                              /\ Recovered(s, u) => Recovered(m, u)
        BY <3>2 DEF Trusted, Leaving, Recovered, CountsTrue, Far
      <4> QED BY <1>3, <4>1
    <3>5. TrustIsEarned'
      BY <1>1, <3>3, <3>4, CalibrationsEarned DEF IInv
    <3>6. Sane(Machine)'
      BY <3>3 DEF Machine
    <3>7. WiresAgree'
      BY <1>3, <3>1 DEF IInv, WiresAgree
    <3>8. Awaited'
      <4>1. wake \in Nat /\ wake # 1
        BY <2>2 DEF IInv, Awaited
      <4>2. \A d \in Nat : wake \in 1..d => Less(wake) \in 1..Less(d)
        BY <4>1 DEF Less
      <4>3. \A u \in Drives : chip.seek[u].due \in Nat
        BY <1>2 DEF IInv, Sane, Sought, Seeks
      <4>4. chip.due \in Nat
        BY <1>2 DEF IInv, Sane, Counters
      <4>5. Less(wake) \in Nat
        BY <4>1 DEF Less
      <4>6. \A u \in Drives : s.chip.seek[u].active => Less(wake) \in 1..s.chip.seek[u].due
        BY <1>3, <4>2, <4>3 DEF IInv, Awaited
      <4>7. s.chip.phase = "wait" => Less(wake) \in 1..s.chip.due
        BY <1>3, <4>2, <4>4 DEF IInv, Awaited
      <4> QED BY <3>1, <4>5, <4>6, <4>7 DEF Awaited
    <3> QED BY <3>5, <3>6, <3>7, <3>8
  <2> QED BY <2>1, <2>2
<1>7. MotorStops'
  <2>1. /\ motor = [on |-> motor.on, off |-> motor.off, wake |-> motor.wake]
        /\ motor.on \in BOOLEAN /\ motor.off \in 0..MotorT /\ motor.wake \in 0..MotorT
        /\ motor.on => motor.wake \in 1..motor.off
    BY DEF IInv, MotorStops
  <2>2. \A n \in 0..MotorT : Less(n) \in 0..MotorT /\ (n > 0 => Less(n) = n - 1)
    BY Constants DEF Less
  <2>3. /\ DOMAIN motor' = {"on", "off", "wake"} /\ motor'.on \in BOOLEAN
        /\ motor'.off \in 0..MotorT /\ motor'.wake \in 0..MotorT
        /\ motor'.on => motor'.wake \in 1..motor'.off
    <3>1. CASE motor.wake # 1
      <4>1. motor' = [motor EXCEPT !.off = Less(motor.off), !.wake = Less(motor.wake)]
        BY <1>1, <2>1, <3>1 DEF MotorAged
      <4>2. DOMAIN motor' = {"on", "off", "wake"} /\ motor'.on = motor.on
            /\ motor'.off = Less(motor.off) /\ motor'.wake = Less(motor.wake)
        BY <2>1, <4>1
      <4> QED BY <2>1, <2>2, <3>1, <4>2, Constants
    <3>2. CASE motor.wake = 1 /\ Less(motor.off) = 0
      <4>1. motor' = [on |-> FALSE, off |-> 0, wake |-> 0]
        BY <1>1, <3>2 DEF MotorAged
      <4> QED BY <4>1, Constants
    <3>3. CASE motor.wake = 1 /\ Less(motor.off) # 0
      <4>1. motor' = [motor EXCEPT !.off = Less(motor.off), !.wake = IF motor.on THEN Less(motor.off) ELSE 0]
        BY <1>1, <3>3 DEF MotorAged
      <4>2. DOMAIN motor' = {"on", "off", "wake"} /\ motor'.on = motor.on
            /\ motor'.off = Less(motor.off)
            /\ motor'.wake = IF motor.on THEN Less(motor.off) ELSE 0
        BY <2>1, <4>1
      <4> QED BY <2>1, <2>2, <3>3, <4>2, Constants
    <3> QED BY <3>1, <3>2, <3>3
  <2>4. motor' = [on |-> motor'.on, off |-> motor'.off, wake |-> motor'.wake]
    BY <1>1, <2>1 DEF MotorAged
  <2> QED BY <2>3, <2>4 DEF MotorStops
<1> QED BY <1>1, <1>6, <1>7 DEF IInv

\* MOUNT and UNMOUNT touch one drive, and neither the chip nor a wire.
LEMMA SwapKeeps ==
  ASSUME IInv, NEW u \in Drives, NEW d, {"in", "head"} \subseteq DOMAIN d, d.in \in BOOLEAN, Medium(d),
         d.head \in 0..(Cyls - 1), drive' = [drive EXCEPT ![u] = d],
         UNCHANGED <<rig, chip, cable, wires, motor>>, Calibrations({u})
  PROVE  IInv'
<1> DEFINE m == [chip |-> chip', drive |-> drive', cable |-> cable']
<1>1. Machine.chip = chip /\ Machine.drive = drive /\ Machine.cable = cable
  BY MachineHas
<1>2. rig' = rig /\ chip' = chip /\ cable' = cable /\ hold' = hold /\ int' = int /\ wake' = wake /\ motor' = motor
  BY DEF wires
<1>3. m.chip = chip /\ m.drive = drive' /\ m.cable = cable /\ DOMAIN m = {"chip", "drive", "cable"}
  BY <1>2
<1>4. DOMAIN drive' = Drives /\ \A v \in Drives : drive'[v] = IF v = u THEN d ELSE drive[v]
  BY <1>1 DEF IInv, Sane, Shaped
<1>5. Sane(m)
  <2> HIDE DEF m
  <2>1. Shaped(m)
    BY <1>1, <1>3, <1>4 DEF IInv, Sane, Shaped
  <2>2. Sought(m) /\ Counters(m.chip) /\ Ordered(m.chip)
    BY <1>1, <1>3 DEF IInv, Sane, Sought
  <2> QED BY <2>1, <2>2 DEF Sane
<1>6. \A v \in Drives \ {u} : /\ Trusted(Machine, v) => Leaving(m, v)
                              /\ Recovered(Machine, v) => Recovered(m, v)
  <2> HIDE DEF m
  <2> QED BY <1>1, <1>3, <1>4 DEF Trusted, Leaving, Recovered, CountsTrue, Far
<1>7. TrustIsEarned'
  BY <1>5, <1>6, CalibrationsEarned DEF IInv
<1>8. Sane(Machine)'
  BY <1>5 DEF Machine
<1>9. Awaited' /\ WiresAgree' /\ MotorStops'
  BY <1>2 DEF IInv, Awaited, WiresAgree, MotorStops
<1> QED BY <1>2, <1>7, <1>8, <1>9 DEF IInv

\* RESET and POWER end in a machine at rest.
LEMMA ResetWithKeeps ==
  ASSUME IInv, NEW s, Sane(s), ResetWith(s), NEW gone, Calibrations(gone),
         cable = Straight /\ s.cable = Straight /\ gone = {} => Leads(Machine, s),
         gone = {} \/ gone = Drives
  PROVE  IInv'
<1> DEFINE m == [chip |-> chip', drive |-> drive', cable |-> cable']
<1>1. Refresh(s) /\ motor' = [on |-> FALSE, off |-> motor.off, wake |-> 0] /\ rig' = rig
  BY DEF ResetWith
<1>2. MotorStops'
  BY <1>1, Constants DEF IInv, MotorStops
<1>3. CASE gone = {}
  <2>1. Sane(Machine)' /\ Awaited' /\ WiresAgree' /\ TrustIsEarned'
    BY <1>1, <1>3, HandlerKeeps DEF IInv
  <2> QED BY <1>1, <1>2, <2>1 DEF IInv
<1>4. CASE gone = Drives
  <2>1. Sane(Machine)' /\ Awaited' /\ WiresAgree' /\ Sane(m)
    BY <1>1, RefreshSettles
  <2>2. calibrated' = {}
    BY <1>4 DEF Calibrations
  <2>3. TrustIsEarned'
    BY <2>2 DEF TrustIsEarned
  <2> QED BY <1>1, <1>2, <2>1, <2>3 DEF IInv
<1> QED BY <1>3, <1>4

\* The straight cable is one.
LEMMA StraightIsCable == Straight \in Cables
<1> QED BY DEF Straight, Cables

\* Diskettes, cables, RESET, POWER and time.
LEMMA WorldKeeps ==
  ASSUME IInv, World
  PROVE  IInv'
<1> USE DEF IInv
<1>1. Machine.chip = chip /\ Machine.drive = drive /\ Machine.cable = cable
  BY MachineHas
<1>2. CASE Tick
  BY <1>2, TickKeeps
<1>3. CASE Pump
  <2>1. Refresh(Machine) /\ Calibrations({}) /\ rig' = rig /\ motor' = motor
    BY <1>3 DEF Pump
  <2>2. Leads(Machine, Machine)
    BY KeepsLeads DEF Keeps
  <2>3. Sane(Machine)' /\ Awaited' /\ WiresAgree' /\ TrustIsEarned'
    BY <2>1, <2>2, HandlerKeeps
  <2>4. MotorStops'
    BY <2>1 DEF MotorStops
  <2> QED BY <2>1, <2>3, <2>4
<1>4. CASE Reset
  <2> DEFINE r == [Machine EXCEPT !.cable = Straight]
             x == ResetChip(r)
  <2>1. ResetWith(x) /\ Calibrations({})
    BY <1>4 DEF Reset
  <2>2. r.chip = chip /\ r.drive = drive /\ r.cable = Straight /\ DOMAIN r = {"chip", "drive", "cable"}
    BY DEF Machine
  <2> HIDE DEF r
  <2>3. Shaped(r) /\ r.chip.pcn \in [Drives -> Nat] /\ r.chip.due \in Nat
    BY <1>1, <2>2, StraightIsCable DEF Sane, Shaped, Sought, Counters
  <2>4. /\ Sane(x) /\ x.drive = drive /\ x.cable = Straight /\ x.chip.pcn = chip.pcn
        /\ \A u \in Drives : ~x.chip.seek[u].active /\ ~x.chip.seek[u].recal
    BY <2>2, <2>3, ResetKeeps
  <2> HIDE DEF x
  <2>5. Leads(Machine, x)
    <3>1. \A u \in Drives : /\ Trusted(Machine, u) => Leaving(x, u)
                            /\ Recovered(x, u)
      BY <1>1, <2>4 DEF Trusted, Leaving, CountsTrue, Recovered
    <3> QED BY <2>4, <3>1 DEF Leads, Straightened, Straight
  <2> QED BY <2>1, <2>4, <2>5, ResetWithKeeps
<1>5. CASE PowerOn
  <2> DEFINE r == [Machine EXCEPT !.cable = Straight]
             e == [u \in Drives |-> 0]
             q == [r EXCEPT !.chip = [@ EXCEPT !.nd = FALSE, !.specified = FALSE, !.cursor = 0, !.pcn = e]]
             x == ResetChip(q)
  <2>1. ResetWith(x) /\ Calibrations(Drives)
    BY <1>5 DEF PowerOn, PowerChip
  <2>2. r.chip = chip /\ r.drive = drive /\ r.cable = Straight /\ DOMAIN r = {"chip", "drive", "cable"}
    BY DEF Machine
  <2> HIDE DEF r
  <2>3. Shaped(r) /\ r.chip.due \in Nat
    BY <1>1, <2>2, StraightIsCable DEF Sane, Shaped, Counters
  <2>4. e \in [Drives -> Nat]
    OBVIOUS
  <2> HIDE DEF e
  <2>5. /\ q.drive = r.drive /\ q.cable = r.cable /\ DOMAIN q = DOMAIN r /\ DOMAIN q.chip = DOMAIN r.chip
        /\ q.chip.pcn = e /\ q.chip.due = r.chip.due
    BY <2>3 DEF Shaped, Registers
  <2> HIDE DEF q
  <2>6. Shaped(q)
    BY <2>3, <2>5 DEF Shaped
  <2>7. Sane(x)
    BY <2>3, <2>4, <2>5, <2>6, ResetKeeps
  <2> HIDE DEF x
  <2>8. Drives # {}
    BY Constants
  <2> QED BY <2>1, <2>7, <2>8, ResetWithKeeps
<1>6. ASSUME NEW u \in Drives, Mount(u)
      PROVE  IInv'
  <2> DEFINE d == [Diskette(u, rig.heads, u \in rig.wp) EXCEPT !.side = drive[u].side]
  <2>1. /\ drive' = [drive EXCEPT ![u] = d]
        /\ UNCHANGED <<rig, chip, cable, wires, motor>> /\ Calibrations({u})
    BY <1>6 DEF Mount
  <2>2. {"in", "head"} \subseteq DOMAIN d /\ d.in \in BOOLEAN /\ d.head \in 0..(Cyls - 1)
    BY Constants DEF Diskette
  <2>3. Medium(d)
    BY DisketteIsMedium, MediumStays
  <2> HIDE DEF d
  <2> QED BY <2>1, <2>2, <2>3, SwapKeeps
<1>7. ASSUME NEW u \in Drives, Unmount(u)
      PROVE  IInv'
  <2> DEFINE d == [drive[u] EXCEPT !.in = FALSE, !.wp = FALSE]
  <2>1. /\ drive' = [drive EXCEPT ![u].in = FALSE, ![u].wp = FALSE]
        /\ UNCHANGED <<rig, chip, cable, wires, motor>> /\ Calibrations({u})
    BY <1>7 DEF Unmount
  <2>2. /\ {"in", "head"} \subseteq DOMAIN drive[u] /\ drive[u].head \in 0..(Cyls - 1)
        /\ DOMAIN drive = Drives
    BY <1>1 DEF Sane, Shaped
  <2>3. drive' = [drive EXCEPT ![u] = d]
    BY <2>1, <2>2
  <2>4. {"in", "head"} \subseteq DOMAIN d /\ d.in \in BOOLEAN /\ d.head \in 0..(Cyls - 1)
    BY <2>2
  <2>5. Medium(d)
    BY <1>1 DEF Sane, Shaped, Medium
  <2> HIDE DEF d
  <2> QED BY <2>1, <2>3, <2>4, <2>5, SwapKeeps
<1> QED BY <1>2, <1>3, <1>4, <1>5, <1>6, <1>7 DEF World

\* A machine just built.
LEMMA InitKeeps ==
  ASSUME Init
  PROVE  IInv
<1> DEFINE b == [chip |-> BlankChip, drive |-> drive, cable |-> cable]
           e == [u \in Drives |-> 0]
           q == [b EXCEPT !.chip = [@ EXCEPT !.nd = FALSE, !.specified = FALSE, !.cursor = 0, !.pcn = e]]
           x == ResetChip(q)
           f == [u \in Drives |-> rig.at0]
<1>1. /\ rig \in Rigs /\ cable = Straight /\ hold = FALSE /\ int = TRUE /\ wake = 0 /\ calibrated = {}
      /\ motor = [on |-> FALSE, off |-> 0, wake |-> 0]
      /\ drive = [u \in Drives |-> [Diskette(u, rig.heads, u \in rig.wp) EXCEPT !.head = rig.at0]]
      /\ chip = [x.chip EXCEPT !.specified = TRUE, !.nd = rig.nd, !.pcn = f]
  BY DEF Init, PowerChip
<1>2. rig.at0 \in 0..(Cyls - 1)
  BY <1>1, RigsAssumption
<1>3. /\ DOMAIN drive = Drives
      /\ \A u \in Drives : /\ {"in", "head"} \subseteq DOMAIN drive[u]
                           /\ drive[u].in /\ drive[u].in \in BOOLEAN /\ drive[u].head = rig.at0
  BY <1>1 DEF Diskette
<1>21. \A u \in Drives : Medium(drive[u])
  BY <1>1, DisketteIsMedium, MediumStays
<1>4. b.chip = BlankChip /\ b.drive = drive /\ b.cable = cable /\ DOMAIN b = {"chip", "drive", "cable"}
  OBVIOUS
<1> HIDE DEF b, e, f
<1>5. Registers \subseteq DOMAIN BlankChip /\ HasTransfer(DOMAIN BlankChip) /\ BlankChip.due = 0
  BY DEF Registers, HasTransfer, TransferRegisters, BlankChip
<1>6. Shaped(b)
  BY <1>1, <1>2, <1>3, <1>4, <1>5, <1>21, StraightIsCable DEF Shaped
<1>7. /\ q.drive = b.drive /\ q.cable = b.cable /\ DOMAIN q = DOMAIN b /\ DOMAIN q.chip = DOMAIN b.chip
      /\ q.chip.pcn = e /\ q.chip.due = b.chip.due
  BY <1>6 DEF Shaped, Registers
<1> HIDE DEF q
<1>8. Shaped(q)
  BY <1>6, <1>7 DEF Shaped
<1>9. e \in [Drives -> Nat] /\ f \in [Drives -> Nat]
  BY <1>2, Constants DEF e, f
<1>10. /\ Sane(x) /\ Settled(x) /\ x.drive = drive /\ x.cable = cable
       /\ \A u \in Drives : ~x.chip.seek[u].active
  BY <1>4, <1>5, <1>7, <1>8, <1>9, ResetKeeps
<1>11. /\ x.chip.phase = "command" /\ x.chip.got = NoCommand /\ ~x.chip.needNext
       /\ x.chip.xfer = "none" /\ x.chip.pending[0] = {"AI"}
  <2>1. DriveReady(q, 0)
    BY <1>1, <1>3, <1>4, <1>7, Constants DEF DriveReady, Drive, Unit, Straight
  <2> QED BY ZenonT(60), <1>8, <2>1, Constants DEF ResetChip, Shaped, Registers
<1> HIDE DEF x
<1>12. /\ DOMAIN chip = DOMAIN x.chip /\ chip.pcn = f
       /\ chip.phase = x.chip.phase /\ chip.got = x.chip.got /\ chip.due = x.chip.due /\ chip.xfer = x.chip.xfer
       /\ chip.idx = x.chip.idx /\ chip.want = x.chip.want /\ chip.needNext = x.chip.needNext
       /\ chip.seek = x.chip.seek /\ chip.pending = x.chip.pending
       /\ chip.seekEnd = x.chip.seekEnd /\ chip.busy = x.chip.busy
  BY <1>1, <1>10 DEF Sane, Shaped, Registers
<1>13. Machine.chip = chip /\ Machine.drive = drive /\ Machine.cable = cable
       /\ DOMAIN Machine = {"chip", "drive", "cable"}
  BY DEF Machine
<1>14. Shaped(Machine)
  BY <1>10, <1>12, <1>13 DEF Sane, Shaped
<1>15. Sought(Machine)
  BY <1>9, <1>10, <1>12, <1>13 DEF Sane, Sought
<1>16. Counters(Machine.chip) /\ Ordered(Machine.chip)
  BY <1>10, <1>12, <1>13 DEF Sane, Counters, Ordered, Moving
<1>17. Awaited
  BY <1>1, <1>10, <1>11, <1>12 DEF Awaited
<1>18. WiresAgree
  <2>1. ~Drq(chip)
    BY <1>11, <1>12 DEF Drq, Moving
  <2>2. {"AI"} # NoStatus
    BY DEF NoStatus
  <2>3. IntPin(chip)
    BY <1>11, <1>12, <2>2, Constants DEF IntPin
  <2>4. Drq(chip) \in BOOLEAN /\ IntPin(chip) \in BOOLEAN
    BY DEF Drq, IntPin
  <2> QED BY <1>1, <2>1, <2>3, <2>4 DEF WiresAgree
<1>19. MotorStops
  BY <1>1, Constants DEF MotorStops
<1>20. TrustIsEarned
  BY <1>1 DEF TrustIsEarned
<1> QED BY <1>1, <1>14, <1>15, <1>16, <1>17, <1>18, <1>19, <1>20 DEF IInv, Sane

-----------------------------------------------------------------------------
\* Whatever the guest, the operator and time do, the machine stays sane, its deadline early
\* enough, its wires driven, and the trust in its units earned.
THEOREM Inductive == Spec => []IInv
<1>1. Init => IInv
  BY InitKeeps
<1>2. IInv /\ [Next]_vars => IInv'
  <2> SUFFICES ASSUME IInv, [Next]_vars
               PROVE  IInv'
    OBVIOUS
  <2>1. CASE Guest
    BY <2>1, GuestKeeps
  <2>2. CASE Transfer1
    BY <2>2, TransferKeeps
  <2>3. CASE World
    BY <2>3, WorldKeeps
  <2>4. CASE UNCHANGED vars
    <3>1. /\ rig' = rig /\ chip' = chip /\ drive' = drive /\ cable' = cable /\ hold' = hold /\ int' = int
          /\ wake' = wake /\ motor' = motor /\ calibrated' = calibrated
      BY <2>4 DEF vars, wires, past
    <3>2. Machine' = Machine
      BY <3>1 DEF Machine
    <3>3. Sane(Machine)' /\ Awaited' /\ WiresAgree' /\ MotorStops'
      BY <3>1, <3>2 DEF IInv, Sane, Shaped, Sought, Awaited, WiresAgree, MotorStops
    <3>4. TrustIsEarned'
      BY <3>1, <3>2 DEF IInv, TrustIsEarned, Trusted, CountsTrue
    <3> QED BY <3>1, <3>3, <3>4 DEF IInv
  <2> QED BY <2>1, <2>2, <2>3, <2>4 DEF Next
<1> QED BY <1>1, <1>2, PTL DEF Spec

\* pHOLD and the interrupt wire are what the chip asks for, no step and no settled head is later
\* than the deadline, a command past its last byte goes on, and motors that run will stop.
THEOREM WiresRight == Spec => []WiresAreTheChips
<1>1. IInv => WiresAreTheChips
  <2> SUFFICES ASSUME IInv
               PROVE  WiresAreTheChips
    OBVIOUS
  <2>1. chip.phase = "exec" => Moving(chip)
    BY MachineHas DEF IInv, Sane, Ordered
  <2>2. /\ hold = Drq(chip) /\ int = IntPin(chip)
        /\ \A u \in Drives : chip.seek[u].active => wake \in 1..chip.seek[u].due
        /\ chip.phase = "wait" => wake \in 1..chip.due
        /\ motor.on => motor.wake \in 1..motor.off
    BY DEF IInv, WiresAgree, Awaited, MotorStops
  <2> QED BY <2>1, <2>2 DEF WiresAreTheChips
<1> QED BY <1>1, Inductive, PTL

\* A unit whose BUSY bit or seek end is up steps still, or has a status pending with the
\* interrupt wire up; and through a straight cable a calibrated unit's head is on the cylinder
\* the chip counts, or is recalibrating.
THEOREM SeeksRight == Spec => []SeeksAreHonest
<1>1. IInv => SeeksAreHonest
  <2> SUFFICES ASSUME IInv
               PROVE  SeeksAreHonest
    OBVIOUS
  <2>1. SeekIsAnswered
    <3>1. ASSUME NEW u \in Drives, chip.busy[u] \/ chip.seekEnd[u], ~chip.seek[u].active
          PROVE  chip.pending[u] # NoStatus /\ int
      <4>1. chip.pending[u] # NoStatus
        BY <3>1, MachineHas DEF IInv, Sane, Sought
      <4>2. IntPin(chip)
        BY <4>1 DEF IntPin
      <4> QED BY <4>1, <4>2 DEF IInv, WiresAgree
    <3> QED BY <3>1 DEF SeekIsAnswered
  <2>2. HeadIsWhereItSays
    <3>1. ASSUME NEW u \in calibrated
          PROVE  chip.pcn[u] = drive[u].head \/ (chip.seek[u].active /\ chip.seek[u].recal)
      BY MachineHas DEF IInv, TrustIsEarned, Trusted, CountsTrue, Recalibrating
    <3> QED BY <3>1 DEF HeadIsWhereItSays
  <2> QED BY <2>1, <2>2 DEF SeeksAreHonest
<1> QED BY <1>1, Inductive, PTL
-----------------------------------------------------------------------------
(***************************************************************************)
(* What a read or write leaves (TransferIsWhole).  First where it stands:  *)
(* Waiting for its heads, Inside a sector, Between two, or Over, and how   *)
(* each operation of the chip takes it from one to the next; then what the *)
(* disk and the memory hold there (RightAt), a byte read or written at a   *)
(* time; then the steps of the card.                                       *)
(***************************************************************************)
\* A read or write as the guest asks for it.
Order(g) == g.op \in {"read", "write"} /\ Given(g)

\* Sector r of the side hd is the k-th that the command asks for.
Place(g, k, hd, r) ==
  /\ k \in Nat \ {0} /\ hd \in Heads /\ r \in Nat \ {0}
  /\ \/ hd = g.hd /\ k = r - g.r + 1 /\ (g.r <= g.eot => r <= g.eot)
     \/ g.mt /\ g.hd = 0 /\ hd = 1 /\ g.r <= g.eot /\ k = FirstSide(g) + r /\ r <= g.eot

\* What is asked for at a place, that nothing before it completes the command, and that the
\* command is complete with it just when the chip sees its end.
LEMMA PlaceAsked ==
  ASSUME NEW g, Order(g), NEW k, NEW hd, NEW r, Place(g, k, hd, r)
  PROVE  /\ Asked(g, k) = <<hd, r>>
         /\ \A q \in 0..(k - 1) : ~Complete(g, q)
         /\ Complete(g, k) <=> r = g.eot /\ ~(g.mt /\ hd = 0)
<1>1. g.r \in Nat /\ g.eot \in Nat /\ g.hd \in Heads /\ g.mt \in BOOLEAN
  BY DEF Order, Given, DataOps
<1>2. CASE hd = g.hd /\ k = r - g.r + 1 /\ (g.r <= g.eot => r <= g.eot)
  <2>0. k \in Nat \ {0} /\ r \in Nat \ {0}
    BY DEF Place
  <2>1. Asked(g, k) = <<hd, r>>
    BY <1>1, <1>2, <2>0 DEF Asked, FirstSide
  <2>2. \A q \in 0..(k - 1) : ~Complete(g, q)
    BY <1>1, <1>2, <2>0 DEF Complete, FirstSide
  <2>3. Complete(g, k) <=> r = g.eot /\ ~(g.mt /\ hd = 0)
    BY <1>1, <1>2, <2>0 DEF Complete, FirstSide
  <2> QED BY <2>1, <2>2, <2>3
<1>3. CASE g.mt /\ g.hd = 0 /\ hd = 1 /\ g.r <= g.eot /\ k = FirstSide(g) + r /\ r <= g.eot
  BY <1>1, <1>3 DEF Place, Asked, Complete, FirstSide
<1> QED BY <1>2, <1>3 DEF Place

\* The place after one that is not the last.
LEMMA PlaceNext ==
  ASSUME NEW g, Order(g), NEW k, NEW hd, NEW r, Place(g, k, hd, r)
  PROVE  /\ r # g.eot => Place(g, k + 1, hd, r + 1)
         /\ r = g.eot /\ g.mt /\ hd = 0 => Place(g, k + 1, 1, 1)
<1>1. g.r \in Nat /\ g.eot \in Nat /\ g.hd \in Heads /\ g.mt \in BOOLEAN
  BY DEF Order, Given, DataOps
<1>2. CASE hd = g.hd /\ k = r - g.r + 1 /\ (g.r <= g.eot => r <= g.eot)
  BY <1>1, <1>2 DEF Place, FirstSide, Heads
<1>3. CASE g.mt /\ g.hd = 0 /\ hd = 1 /\ g.r <= g.eot /\ k = FirstSide(g) + r /\ r <= g.eot
  BY <1>1, <1>3 DEF Place, FirstSide, Heads
<1> QED BY <1>2, <1>3 DEF Place

\* The first place, and that no command is complete before it.
LEMMA PlaceFirst ==
  ASSUME NEW g, Order(g)
  PROVE  /\ g.r # 0 => Place(g, 1, g.hd, g.r)
         /\ ~Complete(g, 0)
<1>1. g.r \in Nat /\ g.eot \in Nat /\ g.hd \in Heads /\ g.mt \in BOOLEAN
  BY DEF Order, Given, DataOps
<1> QED BY <1>1 DEF Place, Complete, FirstSide

\* No two places are asked for alike.
LEMMA PlacesDiffer ==
  ASSUME NEW g, Order(g), NEW k, NEW hd, NEW r, Place(g, k, hd, r), NEW q \in 1..(k - 1)
  PROVE  /\ Asked(g, q) # <<hd, r>> /\ Asked(g, q)[1] \in Heads
         /\ Asked(g, q)[1] # hd \/ Asked(g, q)[2] # r
<1>1. g.r \in Nat /\ g.eot \in Nat /\ g.hd \in Heads /\ g.mt \in BOOLEAN
  BY DEF Order, Given, DataOps
<1>2. CASE hd = g.hd /\ k = r - g.r + 1 /\ (g.r <= g.eot => r <= g.eot)
  BY <1>1, <1>2 DEF Place, Asked, FirstSide, Heads
<1>3. CASE g.mt /\ g.hd = 0 /\ hd = 1 /\ g.r <= g.eot /\ k = FirstSide(g) + r /\ r <= g.eot
  BY <1>1, <1>3 DEF Place, Asked, FirstSide, Heads
<1> QED BY <1>2, <1>3 DEF Place

\* A number is its quotient and its remainder.
LEMMA Divided ==
  ASSUME NEW m \in Nat \ {0}, NEW x \in Nat
  PROVE  /\ x \div m \in Nat /\ x % m \in 0..(m - 1)
         /\ x = m * (x \div m) + (x % m)
<1> QED OBVIOUS

\* A remainder is known by its equation.
LEMMA Remainder ==
  ASSUME NEW m \in Nat \ {0}, NEW q \in Nat, NEW r \in 0..(m - 1)
  PROVE  (m * q + r) % m = r
<1> DEFINE x == m * q + r
           p == x \div m
           s == x % m
<1>1. x \in Nat /\ m * q \in Nat
  OBVIOUS
<1>2. p \in Nat /\ s \in 0..(m - 1) /\ x = m * p + s
  BY <1>1, Divided
<1> HIDE DEF p, s
<1>3. m * (p - q) = r - s
  BY <1>2
<1>4. p - q = 0
  <2>1. CASE p - q >= 1
    <3>1. m * (p - q) >= m
      BY <1>2, <2>1
    <3> QED BY <1>2, <1>3, <3>1
  <2>2. CASE p - q <= -1
    <3>1. m * (p - q) <= -m
      BY <1>2, <2>2
    <3> QED BY <1>2, <1>3, <3>1
  <2> QED BY <1>2, <2>1, <2>2
<1>5. r = s
  BY <1>2, <1>4
<1> QED BY <1>5 DEF s

\* Whole turns of a counter do not change where it stands.
LEMMA Turns ==
  ASSUME NEW m \in Nat \ {0}, NEW q \in Nat, NEW r \in Nat
  PROVE  (m * q + r) % m = r % m
<1>1. r \div m \in Nat /\ r % m \in 0..(m - 1) /\ r = m * (r \div m) + (r % m)
  BY Divided
<1>2. q + (r \div m) \in Nat
  BY <1>1
<1>3. m * q + r = m * (q + (r \div m)) + (r % m)
  BY <1>1
<1> HIDE <1>1
<1> QED BY <1>1, <1>2, <1>3, Remainder

\* An address does not see whether the counter has wrapped.
LEMMA AddressWraps ==
  ASSUME NEW b \in Nat \ {0}, NEW x \in Nat
  PROVE  (x % (b * b * b)) % (b * b) = x % (b * b)
<1> DEFINE m == b * b
           d == b * b * b
           q == x \div d
           r == x % d
<1>1. m \in Nat \ {0} /\ d \in Nat \ {0} /\ d = m * b
  OBVIOUS
<1> HIDE DEF m, d
<1>2. q \in Nat /\ r \in 0..(d - 1) /\ x = d * q + r
  BY <1>1, Divided
<1> HIDE DEF q, r
<1>3. b * q \in Nat /\ r \in Nat
  BY <1>1, <1>2
<1>4. d * q = m * (b * q)
  BY <1>1, <1>2
<1>5. x = m * (b * q) + r
  BY <1>2, <1>4
<1>6. (m * (b * q) + r) % m = r % m
  BY <1>1, <1>3, Turns
<1>7. x % m = r % m
  BY <1>5, <1>6
<1> QED BY <1>7 DEF m, r, d

\* A whole number of sectors.
LEMMA WholeSectors ==
  ASSUME NEW l \in Nat \ {0}, NEW k \in Nat
  PROVE  (k * l) % l = 0 /\ (k * l) \div l = k
<1> QED OBVIOUS

\* Addresses less than the memory apart differ.
LEMMA AddressesDiffer ==
  ASSUME NEW m \in Nat \ {0}, NEW x \in Nat, NEW y \in Nat, x < y, y - x < m
  PROVE  x % m # y % m
<1> DEFINE p == x \div m
           q == y \div m
<1>1. p \in Nat /\ x = m * p + (x % m) /\ q \in Nat /\ y = m * q + (y % m)
  BY Divided
<1>2. x % m \in Nat /\ y % m \in Nat
  BY Divided
<1> HIDE DEF p, q
<1>3. SUFFICES ASSUME x % m = y % m PROVE FALSE
  OBVIOUS
<1>4. y - x = m * (q - p)
  BY <1>1, <1>2, <1>3
<1>5. CASE q - p <= 0
  <2>1. m * (q - p) <= 0
    BY <1>1, <1>5
  <2> QED BY <1>4, <2>1
<1>6. CASE q - p >= 1
  <2>1. m * (q - p) >= m
    BY <1>1, <1>6
  <2> QED BY <1>4, <2>1
<1> QED BY <1>1, <1>5, <1>6

\* The command g is the chip's, on the drive v, with the side it selects and nothing gone wrong.
Held(s, g, v) ==
  /\ v \in Drives /\ s.chip.got = g /\ s.chip.us = g.us /\ Unit(s, g.us) = v
  /\ s.chip.st1 = {} /\ s.chip.cmStop = FALSE /\ s.chip.c = g.c
  /\ s.chip.hd \in Heads /\ s.drive[v].side = s.chip.hd
  /\ (g.op = "write" => ~s.drive[v].wp)
\* It waits for the head to settle.
Waiting(s, g, v) ==
  Held(s, g, v) /\ s.chip.phase = "wait" /\ ~s.chip.needNext
  /\ s.chip.hd = g.hd /\ s.chip.h = g.h /\ s.chip.r = g.r
\* It moves bytes.
Runs(s, g, v) ==
  Held(s, g, v) /\ s.chip.phase = "exec" /\ s.chip.xfer = g.op /\ s.chip.toMem = (g.op = "read")
\* It is at the k-th sector asked for.
OnSector(s, g, v, k) == Runs(s, g, v) /\ s.chip.h = s.chip.hd /\ Place(g, k, s.chip.hd, s.chip.r)
\* n bytes of it have gone; S, the bytes there are.
Inside(s, g, v, k, n, S) ==
  /\ OnSector(s, g, v, k) /\ ~s.chip.needNext
  /\ s.drive[v].in /\ s.drive[v].head = g.c /\ s.drive[v].side < s.drive[v].heads
  /\ s.chip.r \in DOMAIN s.drive[v].data[<<g.c, s.chip.hd>>]
  /\ s.chip.cur = s.chip.r /\ s.chip.want = SecLen /\ s.chip.idx = n /\ n \in 0..(SecLen - 1)
  /\ (g.op = "read" => s.chip.buf = s.drive[v].data[<<g.c, s.chip.hd>>][s.chip.r])
  /\ (g.op = "write" => s.chip.buf \in Seq(S) /\ Len(s.chip.buf) = n)
\* All of it has gone, and the next byte asks for the sector after it.
Between(s, g, v, k) == OnSector(s, g, v, k) /\ s.chip.needNext /\ ~AtEnd(s.chip)
\* The command has come to its result after k sectors.
Over(s, g, k) == s.chip.phase = "result" /\ ("EN" \in s.chip.res.st1 <=> Complete(g, k))

\* What no step of a transfer changes but the sector it writes.
Carries(s, t) ==
  /\ t.cable = s.cable /\ t.chip.nd = s.chip.nd
  /\ \A u \in Drives : t.drive[u].data = s.drive[u].data

\* endData ends with the flags there are.
LEMMA EndDataLands ==
  ASSUME NEW s, Shaped(s), NEW ic
  PROVE  /\ EndData(s, ic).drive = s.drive /\ EndData(s, ic).cable = s.cable
         /\ EndData(s, ic).chip.nd = s.chip.nd /\ EndData(s, ic).chip.phase = "result"
         /\ EndData(s, ic).chip.res.st1 = s.chip.st1
<1> QED BY ZenonT(60) DEF Shaped, Registers, HasTransfer, TransferRegisters, EndData, Result

\* A sector that is not found is not the end of the cylinder.
LEMMA NotFoundLands ==
  ASSUME NEW s, Shaped(s), s.chip.st1 = {}, NEW t, t = EndData(NotFound(s), {"AT"})
  PROVE  Carries(s, t) /\ t.drive = s.drive /\ t.chip.phase = "result" /\ "EN" \notin t.chip.res.st1
<1> DEFINE e == IF s.chip.r \in DOMAIN Track(Drive(s, s.chip.us)) /\ s.chip.h = s.chip.hd THEN {"WC"} ELSE {}
           x == Flagged1(s, {"ND"})
           w == NotFound(s)
<1>1. w = Flagged1(s, {"MA"}) \/ w = Flagged2(x, e)
  BY DEF NotFound
<1> HIDE DEF e, w
<1>2. /\ w.drive = s.drive /\ w.cable = s.cable /\ w.chip.nd = s.chip.nd /\ "EN" \notin w.chip.st1
      /\ DOMAIN w = DOMAIN s /\ DOMAIN w.chip = DOMAIN s.chip
  <2>1. ASSUME NEW y, NEW f, y = Flagged1(s, f)
        PROVE  /\ y.drive = s.drive /\ y.cable = s.cable /\ y.chip.nd = s.chip.nd /\ y.chip.st1 = f
               /\ DOMAIN y = DOMAIN s /\ DOMAIN y.chip = DOMAIN s.chip
    BY <2>1 DEF Shaped, Registers, HasTransfer, TransferRegisters, Flagged1
  <2>2. /\ x.drive = s.drive /\ x.cable = s.cable /\ x.chip.nd = s.chip.nd /\ x.chip.st1 = {"ND"}
        /\ DOMAIN x = DOMAIN s /\ DOMAIN x.chip = DOMAIN s.chip
    BY <2>1
  <2> HIDE DEF x
  <2>3. ASSUME NEW y, y = Flagged2(x, e)
        PROVE  /\ y.drive = x.drive /\ y.cable = x.cable /\ y.chip.nd = x.chip.nd /\ y.chip.st1 = x.chip.st1
               /\ DOMAIN y = DOMAIN x /\ DOMAIN y.chip = DOMAIN x.chip
    BY <2>2, <2>3 DEF Shaped, Registers, HasTransfer, TransferRegisters, Flagged2
  <2>4. CASE w = Flagged1(s, {"MA"})
    BY <2>1, <2>4
  <2>5. CASE w = Flagged2(x, e)
    BY <2>2, <2>3, <2>5
  <2> QED BY <1>1, <2>4, <2>5
<1>3. Shaped(w)
  BY <1>2 DEF Shaped
<1>4. t = EndData(w, {"AT"})
  BY DEF w
<1> QED BY <1>2, <1>3, <1>4, EndDataLands DEF Carries

\* A track with a sector on it is the diskette's.
LEMMA TrackIs ==
  ASSUME NEW d, NEW r
  PROVE  r \in DOMAIN Track(d) <=> d.in /\ d.side < d.heads /\ r \in DOMAIN d.data[<<d.head, d.side>>]
<1> QED BY DEF Track

\* openSector, for the k-th sector asked for.
LEMMA OpenSectorLands ==
  ASSUME NEW s, Shaped(s), NEW g, Order(g), NEW v, Runs(s, g, v), ~s.chip.needNext, NEW k \in Nat \ {0},
         s.chip.r # 0 => Place(g, k, s.chip.hd, s.chip.r), ~Complete(g, k - 1), NEW S,
         NEW t, t = OpenSector(s)
  PROVE  Carries(s, t) /\ (Inside(t, g, v, k, 0, S) \/ Over(t, g, k - 1))
<1> DEFINE d == s.drive[v]
<1>1. v \in Drives /\ Drive(s, s.chip.us) = d /\ d.side = s.chip.hd /\ s.chip.c = g.c /\ s.chip.st1 = {}
  BY DEF Runs, Held, Drive
<1>2. CASE ~Found(s)
  <2>1. t = EndData(NotFound(s), {"AT"})
    BY <1>2 DEF OpenSector
  <2> QED BY <1>1, <2>1, NotFoundLands DEF Over
<1>3. CASE Found(s)
  <2>1. t = Opened(s, s.chip.r)
    BY <1>3 DEF OpenSector, Runs, Held, Order
  <2>2. s.chip.r \in DOMAIN Track(d) /\ s.chip.h = s.chip.hd /\ d.head = g.c
    BY <1>1, <1>3 DEF Found
  <2>3. /\ d.in /\ d.side < d.heads /\ s.chip.r \in DOMAIN d.data[<<g.c, s.chip.hd>>]
        /\ Track(d) = d.data[<<g.c, s.chip.hd>>]
    BY <1>1, <2>2, TrackIs DEF Track
  <2>4. s.chip.r # 0
    <3>1. d.head \in 0..(Cyls - 1) /\ Formed(d.data) /\ s.chip.hd \in Heads
      BY <1>1 DEF Shaped, Medium, Runs, Held
    <3>2. <<g.c, s.chip.hd>> \in Tracks
      BY <2>2, <3>1 DEF Tracks
    <3> QED BY <2>3, <3>1, <3>2 DEF Formed
  <2> DEFINE e == IF s.chip.xfer = "write" THEN <<>> ELSE Track(d)[s.chip.r]
  <2>12. /\ t.drive = s.drive /\ t.cable = s.cable
         /\ t.chip = [s.chip EXCEPT !.cur = s.chip.r, !.idx = 0, !.want = SecLen, !.met = TRUE, !.buf = e]
    BY <1>1, <2>1 DEF Shaped, Opened
  <2> HIDE DEF e
  <2>5. /\ t.drive = s.drive /\ t.cable = s.cable /\ t.chip.nd = s.chip.nd
        /\ t.chip.got = g /\ t.chip.us = g.us /\ t.chip.st1 = {} /\ t.chip.cmStop = FALSE /\ t.chip.c = g.c
        /\ t.chip.hd = s.chip.hd /\ t.chip.h = s.chip.h /\ t.chip.r = s.chip.r
        /\ t.chip.phase = "exec" /\ t.chip.xfer = g.op /\ t.chip.toMem = s.chip.toMem
        /\ ~t.chip.needNext
    BY <2>1, <2>12 DEF Shaped, Registers, HasTransfer, TransferRegisters, Runs, Held
  <2>6. /\ t.chip.cur = s.chip.r /\ t.chip.want = SecLen /\ t.chip.idx = 0
        /\ t.chip.buf = e
    BY <2>12 DEF Shaped, Registers, HasTransfer, TransferRegisters
  <2>7. Runs(t, g, v)
    BY <2>5 DEF Runs, Held, Unit
  <2>8. OnSector(t, g, v, k)
    BY <2>2, <2>4, <2>5, <2>7 DEF OnSector
  <2>9. g.op = "read" => t.chip.buf = t.drive[v].data[<<g.c, t.chip.hd>>][t.chip.r]
    BY <2>3, <2>5, <2>6 DEF Runs, e
  <2>10. g.op = "write" => t.chip.buf \in Seq(S) /\ Len(t.chip.buf) = 0
    BY <2>6 DEF Runs, e
  <2>11. Inside(t, g, v, k, 0, S)
    BY <2>2, <2>3, <2>5, <2>6, <2>8, <2>9, <2>10, Constants DEF Inside
  <2> QED BY <2>5, <2>11 DEF Carries
<1> QED BY <1>2, <1>3

\* Where a step leaves what no transfer changes, the next does too.
LEMMA CarriesOn ==
  ASSUME NEW s, NEW t, NEW w, Carries(s, t), Carries(t, w)
  PROVE  Carries(s, w)
<1> QED BY DEF Carries

\* advanceSector, to the other side of the diskette.
LEMMA OtherSideLands ==
  ASSUME NEW s, Shaped(s), NEW g, Order(g), NEW v, NEW k \in Nat \ {0}, OnSector(s, g, v, k), ~s.chip.needNext,
         s.chip.r = g.eot, g.mt, s.chip.hd = 0, NEW S, NEW t, t = OtherSide(s)
  PROVE  Carries(s, t) /\ (Inside(t, g, v, k + 1, 0, S) \/ Over(t, g, k))
<1> DEFINE x == [s EXCEPT !.chip.hd = 1, !.chip.h = 1 - @, !.chip.r = 1]
           y == SelectHead(x)
<1>1. t = OpenSector(y) \/ t = EndData(y, {"AT", "NR"})
  BY DEF OtherSide
<1>2. /\ x.drive = s.drive /\ x.cable = s.cable /\ DOMAIN x = DOMAIN s /\ DOMAIN x.chip = DOMAIN s.chip
      /\ x.chip.nd = s.chip.nd /\ x.chip.got = s.chip.got /\ x.chip.us = s.chip.us
      /\ x.chip.st1 = s.chip.st1 /\ x.chip.cmStop = s.chip.cmStop /\ x.chip.c = s.chip.c
      /\ x.chip.phase = s.chip.phase /\ x.chip.xfer = s.chip.xfer /\ x.chip.toMem = s.chip.toMem
      /\ x.chip.needNext = s.chip.needNext /\ x.chip.hd = 1 /\ x.chip.h = 1 - s.chip.h /\ x.chip.r = 1
  BY DEF Shaped, Registers, HasTransfer, TransferRegisters
<1>3. x.chip.h = 1
  BY <1>2 DEF OnSector
<1> HIDE DEF x
<1>4. Shaped(x)
  BY <1>2 DEF Shaped
<1>5. Unit(x, x.chip.us) = v /\ v \in Drives
  BY <1>2 DEF OnSector, Runs, Held, Unit
<1>6. Shaped(y) /\ y.chip = x.chip /\ y.cable = x.cable
  BY <1>4, SelectHeadCalm DEF Calm
<1>7. y.drive = [s.drive EXCEPT ![v].side = 1]
  BY <1>2, <1>4, <1>5 DEF SelectHead, Shaped
<1>8. /\ y.drive[v].side = 1 /\ y.drive[v].wp = s.drive[v].wp
      /\ \A u \in Drives : y.drive[u].data = s.drive[u].data
  BY <1>5, <1>7 DEF Shaped, Medium
<1> HIDE DEF y
<1>9. Runs(y, g, v) /\ ~y.chip.needNext
  BY <1>2, <1>5, <1>6, <1>8 DEF OnSector, Runs, Held, Heads, Unit
<1>10. Carries(s, y)
  BY <1>2, <1>6, <1>8 DEF Carries
<1>11. Place(g, k + 1, 1, 1) /\ ~Complete(g, k)
  BY PlaceNext, PlaceAsked DEF OnSector
<1>12. CASE t = OpenSector(y)
  <2>1. Carries(y, t) /\ (Inside(t, g, v, k + 1, 0, S) \/ Over(t, g, (k + 1) - 1))
    BY <1>2, <1>6, <1>9, <1>11, <1>12, OpenSectorLands
  <2> QED BY <1>10, <2>1, CarriesOn
<1>13. CASE t = EndData(y, {"AT", "NR"})
  <2>1. Carries(y, t) /\ t.chip.phase = "result" /\ t.chip.res.st1 = {}
    BY <1>6, <1>9, <1>13, EndDataLands DEF Carries, Runs, Held
  <2> QED BY <1>10, <1>11, <2>1, CarriesOn DEF Over
<1> QED BY <1>1, <1>12, <1>13

\* advanceSector, when there is a sector after this one.
LEMMA AdvanceLands ==
  ASSUME NEW s, Shaped(s), NEW g, Order(g), NEW v, NEW k \in Nat \ {0}, OnSector(s, g, v, k), ~s.chip.needNext,
         ~AtEnd(s.chip), NEW S, NEW t, t = Advance(s)
  PROVE  Carries(s, t) /\ (Inside(t, g, v, k + 1, 0, S) \/ Over(t, g, k))
<1>1. s.chip.got = g /\ Place(g, k, s.chip.hd, s.chip.r)
  BY DEF OnSector, Runs, Held
<1>2. ~(s.chip.r = g.eot /\ ~(g.mt /\ s.chip.hd = 0))
  BY <1>1 DEF AtEnd
<1>3. CASE s.chip.r = g.eot
  <2>1. t = OtherSide(s)
    BY <1>1, <1>2, <1>3 DEF Advance
  <2> QED BY <1>2, <1>3, <2>1, OtherSideLands
<1>4. CASE s.chip.r # g.eot
  <2> DEFINE x == [s EXCEPT !.chip.r = @ + 1]
  <2>1. t = OpenSector(x)
    BY <1>1, <1>4 DEF Advance
  <2>2. /\ x.drive = s.drive /\ x.cable = s.cable /\ DOMAIN x = DOMAIN s /\ DOMAIN x.chip = DOMAIN s.chip
        /\ x.chip.nd = s.chip.nd /\ x.chip.got = s.chip.got /\ x.chip.us = s.chip.us
        /\ x.chip.st1 = s.chip.st1 /\ x.chip.cmStop = s.chip.cmStop /\ x.chip.c = s.chip.c
        /\ x.chip.phase = s.chip.phase /\ x.chip.xfer = s.chip.xfer /\ x.chip.toMem = s.chip.toMem
        /\ x.chip.needNext = s.chip.needNext /\ x.chip.hd = s.chip.hd /\ x.chip.r = s.chip.r + 1
    BY DEF Shaped, Registers, HasTransfer, TransferRegisters
  <2> HIDE DEF x
  <2>3. Shaped(x)
    BY <2>2 DEF Shaped
  <2>4. Runs(x, g, v) /\ ~x.chip.needNext
    BY <2>2 DEF OnSector, Runs, Held, Unit
  <2>5. Place(g, k + 1, x.chip.hd, x.chip.r) /\ ~Complete(g, k)
    BY <1>1, <1>2, <1>4, <2>2, PlaceNext, PlaceAsked
  <2>6. Carries(x, t) /\ (Inside(t, g, v, k + 1, 0, S) \/ Over(t, g, (k + 1) - 1))
    BY <2>1, <2>3, <2>4, <2>5, OpenSectorLands
  <2>7. Carries(s, x)
    BY <2>2 DEF Carries
  <2> QED BY <2>6, <2>7, CarriesOn
<1> QED BY <1>3, <1>4

\* A settled head begins its command.
LEMMA BeginDataLands ==
  ASSUME NEW s, Shaped(s), NEW g, Order(g), NEW v, Held(s, g, v), ~s.chip.needNext,
         s.chip.hd = g.hd, s.chip.r = g.r, NEW S, NEW t, t = BeginData(s)
  PROVE  Carries(s, t) /\ (Inside(t, g, v, 1, 0, S) \/ Over(t, g, 0))
<1> DEFINE y == [s EXCEPT !.chip.phase = "exec", !.chip.unload = Forever]
           e == (g.op = "read")
           x == [y EXCEPT !.chip.xfer = g.op, !.chip.toMem = e]
<1>1. /\ y.drive = s.drive /\ y.cable = s.cable /\ DOMAIN y = DOMAIN s /\ DOMAIN y.chip = DOMAIN s.chip
      /\ y.chip.nd = s.chip.nd /\ y.chip.got = s.chip.got /\ y.chip.us = s.chip.us
      /\ y.chip.st1 = s.chip.st1 /\ y.chip.cmStop = s.chip.cmStop /\ y.chip.c = s.chip.c
      /\ y.chip.phase = "exec" /\ y.chip.needNext = s.chip.needNext /\ y.chip.hd = s.chip.hd
      /\ y.chip.r = s.chip.r
  BY DEF Shaped, Registers, HasTransfer, TransferRegisters
<1>2. t = OpenSector(x)
  <2>1. Transfer(g.op) = g.op /\ (Transfer(g.op) = "read") = e
    BY DEF Transfer, Order
  <2>2. s.chip.got.op = g.op /\ y.chip.got.op = g.op
    BY <1>1 DEF Held
  <2> QED BY <2>1, <2>2 DEF BeginData, Order
<1> HIDE DEF y, e
<1>3. /\ x.drive = y.drive /\ x.cable = y.cable /\ DOMAIN x = DOMAIN y /\ DOMAIN x.chip = DOMAIN y.chip
      /\ x.chip.nd = y.chip.nd /\ x.chip.got = y.chip.got /\ x.chip.us = y.chip.us
      /\ x.chip.st1 = y.chip.st1 /\ x.chip.cmStop = y.chip.cmStop /\ x.chip.c = y.chip.c
      /\ x.chip.phase = y.chip.phase /\ x.chip.needNext = y.chip.needNext /\ x.chip.hd = y.chip.hd
      /\ x.chip.r = y.chip.r /\ x.chip.xfer = g.op /\ x.chip.toMem = e
  BY <1>1 DEF Shaped, Registers, HasTransfer, TransferRegisters
<1> HIDE DEF x
<1>4. Shaped(x)
  BY <1>1, <1>3 DEF Shaped
<1>5. Runs(x, g, v) /\ ~x.chip.needNext
  BY <1>1, <1>3 DEF Runs, Held, Unit, e
<1>6. (x.chip.r # 0 => Place(g, 1, x.chip.hd, x.chip.r)) /\ ~Complete(g, 0)
  BY <1>1, <1>3, PlaceFirst
<1>7. Carries(x, t) /\ (Inside(t, g, v, 1, 0, S) \/ Over(t, g, 1 - 1))
  BY <1>2, <1>4, <1>5, <1>6, OpenSectorLands
<1>8. Carries(s, x)
  BY <1>1, <1>3 DEF Carries
<1> QED BY <1>7, <1>8, CarriesOn

\* The byte after a whole sector opens the next, or there is none.
LEMMA NextByteLands ==
  ASSUME NEW s, Shaped(s), NEW g, Order(g), NEW v, NEW k \in Nat \ {0}, Between(s, g, v, k),
         NEW S, NEW t, t = NextByte(s)
  PROVE  Carries(s, t) /\ (Inside(t, g, v, k + 1, 0, S) \/ Over(t, g, k))
<1> DEFINE x == [s EXCEPT !.chip.needNext = FALSE]
<1>1. t = Advance(x)
  BY DEF NextByte, Between, OnSector, Runs, Held, Order
<1>2. /\ x.drive = s.drive /\ x.cable = s.cable /\ DOMAIN x = DOMAIN s /\ DOMAIN x.chip = DOMAIN s.chip
      /\ x.chip.nd = s.chip.nd /\ x.chip.got = s.chip.got /\ x.chip.us = s.chip.us
      /\ x.chip.st1 = s.chip.st1 /\ x.chip.cmStop = s.chip.cmStop /\ x.chip.c = s.chip.c
      /\ x.chip.phase = s.chip.phase /\ x.chip.xfer = s.chip.xfer /\ x.chip.toMem = s.chip.toMem
      /\ x.chip.needNext = FALSE /\ x.chip.hd = s.chip.hd /\ x.chip.h = s.chip.h /\ x.chip.r = s.chip.r
  BY DEF Shaped, Registers, HasTransfer, TransferRegisters
<1> HIDE DEF x
<1>3. Shaped(x)
  BY <1>2 DEF Shaped
<1>4. OnSector(x, g, v, k) /\ ~AtEnd(x.chip)
  BY <1>2 DEF Between, OnSector, Runs, Held, Unit, AtEnd
<1>5. Carries(s, x)
  BY <1>2 DEF Carries
<1>6. Carries(x, t) /\ (Inside(t, g, v, k + 1, 0, S) \/ Over(t, g, k))
  BY <1>1, <1>2, <1>3, <1>4, AdvanceLands
<1> QED BY <1>5, <1>6, CarriesOn

\* What follows a sector that has gone: another, or the result, with End of Cylinder after the last.
LEMMA MovedOnLands ==
  ASSUME NEW s, Shaped(s), NEW g, Order(g), NEW v, NEW k \in Nat \ {0}, OnSector(s, g, v, k),
         NEW t, t = MovedOn(s)
  PROVE  /\ t.drive = s.drive /\ t.cable = s.cable /\ t.chip.nd = s.chip.nd
         /\ Between(t, g, v, k) \/ (Over(t, g, k) /\ Complete(g, k))
<1>1. s.chip.got = g /\ s.chip.cmStop = FALSE /\ s.chip.st1 = {} /\ Place(g, k, s.chip.hd, s.chip.r)
  BY DEF OnSector, Runs, Held
<1>2. AtEnd(s.chip) <=> Complete(g, k)
  BY <1>1, PlaceAsked DEF AtEnd
<1>3. CASE AtEnd(s.chip)
  <2> DEFINE y == IdAfter(s, TRUE)
             x == Flagged1(y, {"EN"})
  <2>1. t = EndData(x, {"AT"})
    BY <1>1, <1>3 DEF MovedOn, EndOfTrack
  <2>2. /\ y.drive = s.drive /\ y.cable = s.cable /\ DOMAIN y = DOMAIN s /\ DOMAIN y.chip = DOMAIN s.chip
        /\ y.chip.nd = s.chip.nd
    BY DEF Shaped, Registers, HasTransfer, TransferRegisters, IdAfter
  <2> HIDE DEF y
  <2>3. Shaped(y)
    BY <2>2 DEF Shaped
  <2>4. /\ x.drive = y.drive /\ x.cable = y.cable /\ DOMAIN x = DOMAIN y /\ DOMAIN x.chip = DOMAIN y.chip
        /\ x.chip.nd = y.chip.nd /\ x.chip.st1 = y.chip.st1 \cup {"EN"}
    BY <2>3 DEF Shaped, Registers, HasTransfer, TransferRegisters, Flagged1
  <2> HIDE DEF x
  <2>5. Shaped(x)
    BY <2>2, <2>4 DEF Shaped
  <2> QED BY <1>2, <1>3, <2>1, <2>2, <2>4, <2>5, EndDataLands DEF Over
<1>4. CASE ~AtEnd(s.chip)
  <2>1. t = GoOn(s)
    BY <1>1, <1>4 DEF MovedOn
  <2>2. /\ t.drive = s.drive /\ t.cable = s.cable /\ t.chip.nd = s.chip.nd
        /\ t.chip.got = s.chip.got /\ t.chip.us = s.chip.us
        /\ t.chip.st1 = s.chip.st1 /\ t.chip.cmStop = s.chip.cmStop /\ t.chip.c = s.chip.c
        /\ t.chip.phase = s.chip.phase /\ t.chip.xfer = s.chip.xfer /\ t.chip.toMem = s.chip.toMem
        /\ t.chip.needNext = TRUE /\ t.chip.hd = s.chip.hd /\ t.chip.h = s.chip.h /\ t.chip.r = s.chip.r
    BY <2>1 DEF Shaped, Registers, HasTransfer, TransferRegisters, GoOn
  <2>3. Between(t, g, v, k)
    BY <1>4, <2>2 DEF Between, OnSector, Runs, Held, Unit, AtEnd
  <2> QED BY <2>2, <2>3
<1> QED BY <1>3, <1>4

\* A machine inside a sector has the next byte at hand.
LEMMA InsideIsAvailable ==
  ASSUME NEW s, NEW g, Order(g), NEW v, NEW k, NEW n, NEW S, Inside(s, g, v, k, n, S)
  PROVE  NextByte(s) = s /\ ByteAvailable(s) /\ (g.op = "read" => ByteRead(s) = s.chip.buf[n + 1])
<1>1. NextByte(s) = s
  BY DEF NextByte, Inside
<1> QED BY <1>1 DEF ByteAvailable, ByteRead, Inside, OnSector, Runs

\* A byte of a sector that is read.
LEMMA ReadLands ==
  ASSUME NEW s, Shaped(s), NEW g, Order(g), g.op = "read", NEW v, NEW k \in Nat \ {0}, NEW n, NEW S,
         Inside(s, g, v, k, n, S), NEW t, t = ByteOut(s)
  PROVE  /\ Carries(s, t)
         /\ n + 1 < SecLen => Inside(t, g, v, k, n + 1, S) /\ t.chip.buf = s.chip.buf
         /\ n + 1 >= SecLen => Between(t, g, v, k) \/ (Over(t, g, k) /\ Complete(g, k))
<1> DEFINE x == [s EXCEPT !.chip.idx = @ + 1]
<1>1. n \in Nat /\ s.chip.idx = n /\ s.chip.want = SecLen /\ SecLen \in Nat /\ s.chip.xfer = "read"
      /\ s.chip.got = g
  BY Constants DEF Inside, OnSector, Runs, Held
<1>2. t = ByteMoved(x)
  BY InsideIsAvailable DEF ByteOut
<1>3. /\ x.drive = s.drive /\ x.cable = s.cable /\ DOMAIN x = DOMAIN s /\ DOMAIN x.chip = DOMAIN s.chip
      /\ x.chip.nd = s.chip.nd /\ x.chip.got = s.chip.got /\ x.chip.us = s.chip.us
      /\ x.chip.st1 = s.chip.st1 /\ x.chip.cmStop = s.chip.cmStop /\ x.chip.c = s.chip.c
      /\ x.chip.phase = s.chip.phase /\ x.chip.xfer = s.chip.xfer /\ x.chip.toMem = s.chip.toMem
      /\ x.chip.needNext = s.chip.needNext /\ x.chip.hd = s.chip.hd /\ x.chip.h = s.chip.h
      /\ x.chip.r = s.chip.r /\ x.chip.cur = s.chip.cur /\ x.chip.want = s.chip.want
      /\ x.chip.buf = s.chip.buf /\ x.chip.idx = n + 1
  BY <1>1 DEF Shaped, Registers, HasTransfer, TransferRegisters
<1> HIDE DEF x
<1>4. Shaped(x) /\ Carries(s, x)
  BY <1>3 DEF Shaped, Carries
<1>5. OnSector(x, g, v, k)
  BY <1>3 DEF Inside, OnSector, Runs, Held, Unit
<1>6. CASE n + 1 < SecLen
  <2>1. t = x
    BY <1>1, <1>2, <1>3, <1>6 DEF ByteMoved
  <2>2. Inside(x, g, v, k, n + 1, S)
    BY <1>1, <1>3, <1>5, <1>6 DEF Inside
  <2> QED BY <1>1, <1>3, <1>4, <1>6, <2>1, <2>2
<1>7. CASE n + 1 >= SecLen
  <2>1. t = MovedOn(x)
    BY <1>1, <1>2, <1>3, <1>7 DEF ByteMoved, SectorDone
  <2>2. Carries(x, t) /\ (Between(t, g, v, k) \/ (Over(t, g, k) /\ Complete(g, k)))
    BY <1>4, <1>5, <2>1, MovedOnLands DEF Carries
  <2> QED BY <1>1, <1>4, <1>7, <2>2, CarriesOn
<1> QED BY <1>1, <1>6, <1>7

\* The tracks d with the bytes w in the sector r of the track p.
Stored(d, p, r, w) == [d EXCEPT ![p][r] = w]

\* From s inside the k-th sector, after n bytes, the byte b has been written: t.
Wrote(s, t, g, v, k, n, S, b) ==
  /\ t.cable = s.cable /\ t.chip.nd = s.chip.nd
  /\ n + 1 < SecLen => /\ Inside(t, g, v, k, n + 1, S) /\ Carries(s, t)
                       /\ t.chip.buf = Append(s.chip.buf, b)
  /\ n + 1 >= SecLen =>
       /\ Between(t, g, v, k) \/ (Over(t, g, k) /\ Complete(g, k))
       /\ \A u \in Drives : t.drive[u].data =
            IF u = v THEN Stored(s.drive[v].data, <<g.c, s.chip.hd>>, s.chip.r, Append(s.chip.buf, b))
            ELSE s.drive[u].data

\* A byte of a sector that is written: the last one puts the whole of it on the disk.
LEMMA WriteLands ==
  ASSUME NEW s, Shaped(s), NEW g, Order(g), g.op = "write", NEW v, NEW k \in Nat \ {0}, NEW n, NEW S,
         Inside(s, g, v, k, n, S), NEW b \in S, NEW t, t = ByteIn(s, b)
  PROVE  Wrote(s, t, g, v, k, n, S, b)
<1> DEFINE w == Append(s.chip.buf, b)
           x == [s EXCEPT !.chip.idx = @ + 1, !.chip.buf = w]
<1>1. n \in Nat /\ s.chip.idx = n /\ s.chip.want = SecLen /\ SecLen \in Nat /\ s.chip.xfer = "write"
      /\ s.chip.got = g /\ s.chip.us = g.us /\ Unit(s, g.us) = v /\ v \in Drives /\ s.chip.phase = "exec"
  BY Constants DEF Inside, OnSector, Runs, Held
<1>2. t = ByteMoved(x)
  <2>1. t = ByteMoved([[s EXCEPT !.chip.idx = @ + 1] EXCEPT !.chip.buf = Append(@, b)])
    BY <1>1, InsideIsAvailable DEF ByteIn
  <2>2. [[s EXCEPT !.chip.idx = @ + 1] EXCEPT !.chip.buf = Append(@, b)] = x
    BY DEF Shaped, Registers, HasTransfer, TransferRegisters
  <2> QED BY <2>1, <2>2
<1>3. w \in Seq(S) /\ Len(w) = n + 1
  BY <1>1, AppendProperties DEF Inside
<1> HIDE DEF w
<1>4. /\ x.drive = s.drive /\ x.cable = s.cable /\ DOMAIN x = DOMAIN s /\ DOMAIN x.chip = DOMAIN s.chip
      /\ x.chip.nd = s.chip.nd /\ x.chip.got = s.chip.got /\ x.chip.us = s.chip.us
      /\ x.chip.st1 = s.chip.st1 /\ x.chip.cmStop = s.chip.cmStop /\ x.chip.c = s.chip.c
      /\ x.chip.phase = s.chip.phase /\ x.chip.xfer = s.chip.xfer /\ x.chip.toMem = s.chip.toMem
      /\ x.chip.needNext = s.chip.needNext /\ x.chip.hd = s.chip.hd /\ x.chip.h = s.chip.h
      /\ x.chip.r = s.chip.r /\ x.chip.cur = s.chip.cur /\ x.chip.want = s.chip.want
      /\ x.chip.buf = w /\ x.chip.idx = n + 1
  BY <1>1 DEF Shaped, Registers, HasTransfer, TransferRegisters
<1> HIDE DEF x
<1>5. Shaped(x) /\ Carries(s, x)
  BY <1>4 DEF Shaped, Carries
<1>6. OnSector(x, g, v, k)
  BY <1>4 DEF Inside, OnSector, Runs, Held, Unit
<1>7. CASE n + 1 < SecLen
  <2>1. t = x
    BY <1>1, <1>2, <1>4, <1>7 DEF ByteMoved
  <2>2. Inside(x, g, v, k, n + 1, S)
    BY <1>1, <1>3, <1>4, <1>6, <1>7 DEF Inside
  <2> QED BY <1>1, <1>4, <1>5, <1>7, <2>1, <2>2 DEF w, Wrote
<1>8. CASE n + 1 >= SecLen
  <2> DEFINE d == s.drive[v]
             p == <<g.c, s.chip.hd>>
             f == [d.data EXCEPT ![p][s.chip.r] = w]
             y == [x EXCEPT !.drive[v].data[p][s.chip.r] = w]
  <2>1. Drive(x, x.chip.us) = d /\ Unit(x, x.chip.us) = v
    BY <1>1, <1>4 DEF Drive, Unit
  <2>2. /\ d.in /\ d.head = g.c /\ d.side < d.heads /\ d.side = s.chip.hd /\ ~d.wp
        /\ s.chip.r \in DOMAIN d.data[p] /\ s.chip.cur = s.chip.r
    BY DEF Inside, OnSector, Runs, Held
  <2>3. s.chip.cur \in DOMAIN Track(d)
    BY SMTT(30), <2>2, TrackIs
  <2>4. t = MovedOn(y)
    <3>1. t = Written(x)
      BY <1>1, <1>2, <1>4, <1>8 DEF ByteMoved, SectorDone
    <3>2. x.chip.cur = s.chip.r /\ <<d.head, d.side>> = p /\ x.chip.buf = w
      BY <1>4, <2>2
    <3> HIDE DEF p, d
    <3> QED BY <2>1, <2>2, <2>3, <3>1, <3>2, <1>4 DEF Written
  <2>5. y = [x EXCEPT !.drive[v].data = f]
    BY <1>1, <1>4, <1>5 DEF Shaped, Medium
  <2>6. Formed(f)
    BY SMTT(30), <1>1 DEF Shaped, Medium, Formed
  <2> HIDE DEF y
  <2>7. Shaped(y) /\ y.chip = x.chip
    BY <1>5, <2>5, <2>6, DataCalm DEF Calm
  <2>8. y.cable = x.cable /\ y.drive = [s.drive EXCEPT ![v].data = f]
    BY <1>4, <1>5, <2>5 DEF Shaped
  <2>9. /\ \A u \in Drives : y.drive[u].data = IF u = v THEN f ELSE s.drive[u].data
        /\ y.drive[v].side = d.side /\ y.drive[v].wp = d.wp
    BY <1>1, <2>8 DEF Shaped, Medium
  <2> HIDE DEF f
  <2>10. OnSector(y, g, v, k)
    BY <1>4, <1>6, <2>7, <2>8, <2>9 DEF OnSector, Runs, Held, Unit
  <2>11. /\ t.drive = y.drive /\ t.cable = y.cable /\ t.chip.nd = y.chip.nd
         /\ Between(t, g, v, k) \/ (Over(t, g, k) /\ Complete(g, k))
    BY <2>4, <2>7, <2>10, MovedOnLands
  <2>12. t.cable = s.cable /\ t.chip.nd = s.chip.nd
    BY <1>4, <2>7, <2>8, <2>11
  <2>13. \A u \in Drives : t.drive[u].data = IF u = v THEN f ELSE s.drive[u].data
    BY <2>9, <2>11
  <2> QED BY <1>1, <1>8, <2>11, <2>12, <2>13 DEF f, w, Stored, Wrote
<1> QED BY <1>1, <1>7, <1>8

\* The registers that no seek touches, and nothing moved but heads, seeks and what is pending.
SteadyChip(c, d) ==
  /\ d.nd = c.nd /\ d.phase = c.phase /\ d.got = c.got /\ d.us = c.us /\ d.hd = c.hd
  /\ d.c = c.c /\ d.h = c.h /\ d.r = c.r /\ d.xfer = c.xfer /\ d.toMem = c.toMem /\ d.buf = c.buf
  /\ d.idx = c.idx /\ d.want = c.want /\ d.needNext = c.needNext
  /\ d.cmStop = c.cmStop /\ d.st1 = c.st1 /\ d.cur = c.cur /\ d.res = c.res
Steady(s, t) ==
  /\ t.cable = s.cable /\ SteadyChip(s.chip, t.chip)
  /\ \A u \in Drives : /\ t.drive[u].data = s.drive[u].data /\ t.drive[u].in = s.drive[u].in
                       /\ t.drive[u].wp = s.drive[u].wp /\ t.drive[u].heads = s.drive[u].heads
                       /\ t.drive[u].side = s.drive[u].side

\* One steady step after another.
LEMMA SteadyOn ==
  ASSUME NEW s, NEW t, NEW w, Steady(s, t), Steady(t, w)
  PROVE  Steady(s, w)
<1> QED BY DEF Steady, SteadyChip

\* A machine that is as it was.
LEMMA SteadySelf ==
  ASSUME NEW s
  PROVE  Steady(s, s)
<1> QED BY DEF Steady, SteadyChip

\* The end of a seek.
LEMMA QueueSteady ==
  ASSUME NEW s, Shaped(s), NEW u \in Drives, NEW p, NEW status
  PROVE  /\ Steady(s, QueueSeekEnd(s, u, status))
         /\ Steady(s, QueueSeekEnd([s EXCEPT !.chip.pcn[u] = p], u, status))
<1>1. Steady(s, QueueSeekEnd(s, u, status))
  BY ZenonT(60) DEF Shaped, Registers, HasTransfer, TransferRegisters, QueueSeekEnd, Steady, SteadyChip
<1>2. Steady(s, QueueSeekEnd([s EXCEPT !.chip.pcn[u] = p], u, status))
  BY ZenonT(60) DEF Shaped, Registers, HasTransfer, TransferRegisters, QueueSeekEnd, Steady, SteadyChip
<1> QED BY <1>1, <1>2

\* A pulse moves a head and nothing on its diskette.
LEMMA PulseSteady ==
  ASSUME NEW s, Shaped(s), NEW u \in Drives, NEW p, NEW n, NEW inward
  PROVE  /\ Steady(s, Pulse([s EXCEPT !.chip.seek[u].pulses = n], u, inward))
         /\ Steady(s, Pulse([s EXCEPT !.chip.pcn[u] = p], u, inward))
<1> DEFINE x == [s EXCEPT !.chip.seek[u].pulses = n]
           y == [s EXCEPT !.chip.pcn[u] = p]
           v == Unit(s, u)
<1>1. v \in Drives /\ Unit(x, u) = v /\ Unit(y, u) = v
  BY UnitIsDrive DEF Shaped, Unit
<1> HIDE DEF v
<1>2. \A d : Medium(d) => /\ Stepped(d, inward).data = d.data /\ Stepped(d, inward).wp = d.wp
                          /\ Stepped(d, inward).heads = d.heads /\ Stepped(d, inward).side = d.side
  BY DEF Medium, Stepped
<1>3. \A d : {"in", "head"} \subseteq DOMAIN d => Stepped(d, inward).in = d.in
  BY DEF Stepped
<1>4. ASSUME NEW t, t.drive = [s.drive EXCEPT ![v] = Stepped(@, inward)], NEW k \in Drives
      PROVE  /\ t.drive[k].data = s.drive[k].data /\ t.drive[k].in = s.drive[k].in
             /\ t.drive[k].wp = s.drive[k].wp /\ t.drive[k].heads = s.drive[k].heads
             /\ t.drive[k].side = s.drive[k].side
  <2>1. t.drive[k] = IF k = v THEN Stepped(s.drive[k], inward) ELSE s.drive[k]
    BY <1>4 DEF Shaped
  <2>2. Medium(s.drive[k]) /\ {"in", "head"} \subseteq DOMAIN s.drive[k]
    BY DEF Shaped
  <2> QED BY <1>2, <1>3, <2>1, <2>2
<1>5. /\ Pulse(x, u, inward).drive = [s.drive EXCEPT ![v] = Stepped(@, inward)]
      /\ Pulse(y, u, inward).drive = [s.drive EXCEPT ![v] = Stepped(@, inward)]
  BY <1>1 DEF Shaped, Pulse
<1>6. Steady(s, Pulse(x, u, inward))
  <2>1. Pulse(x, u, inward).cable = s.cable /\ SteadyChip(s.chip, Pulse(x, u, inward).chip)
    BY ZenonT(60) DEF Shaped, Registers, HasTransfer, TransferRegisters, Pulse, SteadyChip
  <2> QED BY <1>4, <1>5, <2>1 DEF Steady
<1>7. Steady(s, Pulse(y, u, inward))
  <2>1. Pulse(y, u, inward).cable = s.cable /\ SteadyChip(s.chip, Pulse(y, u, inward).chip)
    BY DEF Shaped, Registers, HasTransfer, TransferRegisters, Pulse, SteadyChip
  <2> QED BY <1>4, <1>5, <2>1 DEF Steady
<1> QED BY <1>6, <1>7

\* stepDrive is steady.
LEMMA StepUnitSteady ==
  ASSUME NEW s, NEW u, Shaped(s), Sought(s)
  PROVE  Steady(s, StepUnit(s, u))
<1> DEFINE k == s.chip.seek[u]
           c == s.chip.pcn[u]
           inward == c < k.target
           q == IF inward THEN c + 1 ELSE c - 1
           z == [s EXCEPT !.chip.pcn[u] = 0]
           m == k.pulses + 1
           t == StepDrive(s, u)
<1>1. CASE u \in Drives
  <2>1. [s EXCEPT !.chip.seek[u].pulses = @ + 1] = [s EXCEPT !.chip.seek[u].pulses = m]
        /\ [s EXCEPT !.chip.pcn[u] = IF inward THEN @ + 1 ELSE @ - 1] = [s EXCEPT !.chip.pcn[u] = q]
    BY DEF Shaped, Registers
  <2>2. t \in {s, QueueSeekEnd(s, u, {"AT", "SE", "NR"}), QueueSeekEnd(z, u, {"SE"}),
               QueueSeekEnd(z, u, {"AT", "SE", "EC"}), Pulse([s EXCEPT !.chip.seek[u].pulses = m], u, FALSE),
               QueueSeekEnd(s, u, {"SE"}), Pulse([s EXCEPT !.chip.pcn[u] = q], u, inward)}
    BY <2>1 DEF StepDrive
  <2>3. StepUnit(s, u) = t
    BY <1>1 DEF StepUnit
  <2> HIDE DEF t, m, q, inward
  <2>4. \A e : Steady(s, QueueSeekEnd(s, u, e)) /\ Steady(s, QueueSeekEnd(z, u, e))
    BY <1>1, QueueSteady
  <2>5. /\ Steady(s, Pulse([s EXCEPT !.chip.seek[u].pulses = m], u, FALSE))
        /\ Steady(s, Pulse([s EXCEPT !.chip.pcn[u] = q], u, inward))
    BY <1>1, PulseSteady
  <2> HIDE DEF z
  <2> QED BY <2>2, <2>3, <2>4, <2>5, SteadySelf
<1>2. CASE u \notin Drives
  BY <1>2, SteadySelf DEF StepUnit
<1> QED BY <1>1, <1>2

\* stepDrives is steady.
LEMMA StepDrivesSteady ==
  ASSUME NEW s, Shaped(s), Sought(s)
  PROVE  Steady(s, StepDrives(s))
<1> DEFINE a == StepUnit(s, 0)
           b == StepUnit(a, 1)
           c == StepUnit(b, 2)
           d == StepUnit(c, 3)
<1>1. Shaped(a) /\ Sought(a) /\ Steady(s, a)
  BY StepUnitSteps, StepUnitSteady DEF Steps
<1> HIDE DEF a
<1>2. Shaped(b) /\ Sought(b) /\ Steady(a, b)
  BY <1>1, StepUnitSteps, StepUnitSteady DEF Steps
<1> HIDE DEF b
<1>3. Shaped(c) /\ Sought(c) /\ Steady(b, c)
  BY <1>2, StepUnitSteps, StepUnitSteady DEF Steps
<1> HIDE DEF c
<1>4. Steady(c, d)
  BY <1>3, StepUnitSteady
<1>5. Steady(s, d)
  BY <1>1, <1>2, <1>3, <1>4, SteadyOn
<1> QED BY <1>5 DEF StepDrives, a, b, c

\* pollReady is steady.
LEMMA PollReadySteady ==
  ASSUME NEW s, Shaped(s)
  PROVE  Steady(s, PollReady(s)) /\ PollReady(s).drive = s.drive
<1> DEFINE e == [u \in Drives |-> DriveReady(s, u)]
           f == {u \in Drives : e[u] # s.chip.lastReady[u]}
           p == [u \in Drives |-> IF u \notin f THEN s.chip.pending[u]
                                  ELSE IF e[u] THEN {"AI"} ELSE {"AI", "NR"}]
           q == [u \in Drives |-> s.chip.seekEnd[u] /\ u \notin f]
<1>1. PollReady(s) = s \/ PollReady(s) = [s EXCEPT !.chip = [@ EXCEPT !.lastReady = e, !.pending = p, !.seekEnd = q]]
  BY DEF PollReady
<1> HIDE DEF e, f, p, q
<1>2. CASE PollReady(s) = s
  BY <1>2, SteadySelf
<1>3. CASE PollReady(s) = [s EXCEPT !.chip = [@ EXCEPT !.lastReady = e, !.pending = p, !.seekEnd = q]]
  BY ZenonT(60), <1>3 DEF Shaped, Registers, HasTransfer, TransferRegisters, Steady, SteadyChip
<1> QED BY <1>1, <1>2, <1>3

\* Time passes steadily.
LEMMA AgedSteady ==
  ASSUME NEW s, Shaped(s)
  PROVE  Steady(s, [s EXCEPT !.chip = Aged(s.chip)])
<1> DEFINE a == IF s.chip.phase = "wait" THEN Less(s.chip.due) ELSE 0
           b == IF s.chip.unload = Forever THEN s.chip.unload ELSE Less(s.chip.unload)
           c == [u \in Drives |-> [s.chip.seek[u] EXCEPT !.due = Less(@)]]
           t == [s EXCEPT !.chip = Aged(s.chip)]
<1>1. Aged(s.chip) = [s.chip EXCEPT !.due = a, !.unload = b, !.seek = c]
  BY DEF Aged
<1>2. t.drive = s.drive /\ t.cable = s.cable /\ t.chip = [s.chip EXCEPT !.due = a, !.unload = b, !.seek = c]
  BY <1>1 DEF Shaped
<1> HIDE DEF a, b, c, t
<1> QED BY ZenonT(60), <1>2 DEF Shaped, Registers, HasTransfer, TransferRegisters, Steady, SteadyChip, t

\* A byte of the result, but for the last.
LEMMA ResultReadSteady ==
  ASSUME NEW s, Shaped(s), NEW t, t = ResultRead(s), t.chip.phase # "command"
  PROVE  Steady(s, t)
<1> DEFINE x == [s EXCEPT !.chip.resultInt = FALSE, !.chip.left = @ - 1]
<1>1. t = x
  <2>1. t = ToCommand(x) \/ t = x
    BY DEF ResultRead
  <2>2. {"chip"} \subseteq DOMAIN x /\ {"phase"} \subseteq DOMAIN x.chip
    BY DEF Shaped, Registers
  <2> HIDE DEF x
  <2>3. ToCommand(x).chip.phase = "command"
    BY <2>2 DEF ToCommand
  <2> QED BY <2>1, <2>3
<1>2. x.drive = s.drive /\ x.cable = s.cable /\ SteadyChip(s.chip, x.chip)
  BY DEF Shaped, Registers, HasTransfer, TransferRegisters, SteadyChip
<1> HIDE DEF x
<1> QED BY <1>1, <1>2 DEF Steady

\* The command g stands after K sectors and n bytes.
At(s, g, v, K, n, S) ==
  \/ K = 0 /\ n = 0 /\ Waiting(s, g, v)
  \/ Inside(s, g, v, K + 1, n, S)
  \/ n = 0 /\ K # 0 /\ Between(s, g, v, K)
  \/ n = 0 /\ Over(s, g, K) /\ \A q \in 0..(K - 1) : ~Complete(g, q)

\* What stays of a transfer while nothing moves in it.
Rests(s, t, K, n) ==
  /\ Carries(s, t) /\ (n # 0 => t.chip.buf = s.chip.buf)
  /\ (K # 0 => t.chip.phase = s.chip.phase /\ t.chip.res = s.chip.res)

\* What rests twice rests.
LEMMA RestsOn ==
  ASSUME NEW s, NEW t, NEW w, NEW K, NEW n, Rests(s, t, K, n), Rests(t, w, K, n)
  PROVE  Rests(s, w, K, n)
<1> QED BY DEF Rests, Carries

\* A transfer stands where it stood while its head does.
LEMMA AtSteady ==
  ASSUME NEW s, NEW t, NEW g, NEW v \in Drives, NEW K, NEW n, NEW S,
         At(s, g, v, K, n, S), Steady(s, t), t.drive[v].head = s.drive[v].head
  PROVE  At(t, g, v, K, n, S) /\ Rests(s, t, K, n)
<1>1. Held(s, g, v) => Held(t, g, v)
  BY DEF Steady, SteadyChip, Held, Unit
<1>2. Waiting(s, g, v) => Waiting(t, g, v)
  BY <1>1 DEF Steady, SteadyChip, Waiting
<1>3. ASSUME NEW k PROVE OnSector(s, g, v, k) => OnSector(t, g, v, k)
  BY <1>1 DEF Steady, SteadyChip, OnSector, Runs
<1>4. Inside(s, g, v, K + 1, n, S) => Inside(t, g, v, K + 1, n, S)
  BY <1>3 DEF Steady, SteadyChip, Inside
<1>5. Between(s, g, v, K) => Between(t, g, v, K)
  BY <1>3 DEF Steady, SteadyChip, Between, AtEnd
<1>6. Over(s, g, K) => Over(t, g, K)
  BY DEF Steady, SteadyChip, Over
<1>7. Rests(s, t, K, n)
  BY DEF Rests, Carries, Steady, SteadyChip
<1> QED BY <1>2, <1>4, <1>5, <1>6, <1>7 DEF At

\* A poll leaves a transfer where it stands while its head does, or begins it.
LEMMA PolledAt ==
  ASSUME NEW s, Sane(s), NEW g, Order(g), NEW v \in Drives, NEW K, NEW n, NEW S, At(s, g, v, K, n, S),
         Polled(s).drive[v].head = s.drive[v].head
  PROVE  At(Polled(s), g, v, K, n, S) /\ Rests(s, Polled(s), K, n)
<1> DEFINE a == StepDrives(s)
           b == IF a.chip.phase = "wait" /\ a.chip.due = 0 THEN BeginData(a) ELSE a
           t == PollReady(b)
<1>1. t = Polled(s)
  BY DEF Polled
<1>2. Shaped(a) /\ Sane(a) /\ Steady(s, a)
  BY StepDrivesSteps, StepDrivesSteady, ApartSane DEF Sane
<1> HIDE DEF a
<1>3. CASE a.chip.phase = "wait" /\ a.chip.due = 0
  <2>1. b = BeginData(a)
    BY <1>3
  <2>2. Goes(a, b)
    BY <1>2, <1>3, <2>1, BeginDataGoes DEF Sane, Ordered
  <2> HIDE DEF b
  <2>3. Shaped(b) /\ b.drive[v].head = a.drive[v].head
    BY <2>2 DEF Goes, Calm
  <2>4. Steady(b, t) /\ t.drive = b.drive
    BY <2>3, PollReadySteady
  <2> HIDE DEF t
  <2>5. At(a, g, v, K, n, S) /\ Rests(s, a, K, n)
    BY <1>1, <1>2, <2>3, <2>4, AtSteady
  <2>6. K = 0 /\ n = 0 /\ Waiting(a, g, v)
    BY <1>3, <2>5 DEF At, Inside, Between, OnSector, Runs, Over
  <2>7. Carries(a, b) /\ (Inside(b, g, v, 1, 0, S) \/ Over(b, g, 0))
    BY <1>2, <2>1, <2>6, BeginDataLands DEF Waiting
  <2>8. At(b, g, v, K, n, S) /\ Rests(a, b, K, n)
    BY <2>6, <2>7 DEF At, Rests
  <2>9. At(t, g, v, K, n, S) /\ Rests(b, t, K, n)
    BY <2>4, <2>8, AtSteady
  <2> QED BY <1>1, <2>5, <2>8, <2>9, RestsOn
<1>4. CASE ~(a.chip.phase = "wait" /\ a.chip.due = 0)
  <2>1. b = a
    BY <1>4
  <2> HIDE DEF b
  <2>2. Steady(a, t) /\ t.drive = a.drive
    BY <1>2, <2>1, PollReadySteady
  <2> HIDE DEF t
  <2>3. At(a, g, v, K, n, S) /\ Rests(s, a, K, n)
    BY <1>1, <1>2, <2>2, AtSteady
  <2>4. At(t, g, v, K, n, S) /\ Rests(a, t, K, n)
    BY <2>2, <2>3, AtSteady
  <2> QED BY <1>1, <2>3, <2>4, RestsOn
<1> QED BY <1>3, <1>4

\* A settled machine's heads stand still at a poll.
LEMMA SettledStays ==
  ASSUME NEW s, Sane(s), Settled(s)
  PROVE  \A u \in Drives : Polled(s).drive[u].head = s.drive[u].head
<1>1. ASSUME NEW u \in Drives PROVE StepUnit(s, u) = s
  <2>1. s.chip.seek[u] \in Seeks /\ (s.chip.seek[u].active => s.chip.seek[u].due > 0)
    BY DEF Settled, AllClear, Clear, Sane, Sought
  <2> DEFINE k == s.chip.seek[u]
             t == StepDrive(s, u)
  <2>2. t = s
    <3>1. CASE ~k.active
      BY <3>1 DEF StepDrive
    <3>2. CASE k.active
      <4>1. k.due > 0 /\ ~(k.due = 0)
        BY <2>1, <3>2 DEF Seeks
      <4> HIDE DEF k
      <4> QED BY <3>2, <4>1 DEF StepDrive, k
    <3> QED BY <3>1, <3>2
  <2> QED BY <2>2 DEF StepUnit
<1>2. \A u : StepUnit(s, u) = s
  BY <1>1 DEF StepUnit
<1>3. StepDrives(s) = s
  BY <1>2 DEF StepDrives
<1>4. Polled(s) = PollReady(s)
  BY <1>3 DEF Polled, Settled, Sane, Counters
<1> QED BY <1>4, PollReadySteady DEF Sane

\* The k-th sector asked for, on the tracks d.
SectorOf(d, g, k) == d[<<g.c, Asked(g, k)[1]>>][Asked(g, k)[2]]
\* The first K are there.
Present(d, g, K) ==
  \A q \in 1..K : /\ <<g.c, Asked(g, q)[1]>> \in Tracks
                  /\ Asked(g, q)[2] \in DOMAIN d[<<g.c, Asked(g, q)[1]>>]
\* They are in the memory, and so are n bytes of the buffer after them.
Whole(s, mm, j, K) ==
  \A q \in 1..K, i \in 1..SecLen :
    mm[Address(j.start + (q - 1) * SecLen + i - 1)] = SectorOf(s.drive[j.unit].data, j.cmd, q)[i]
Part(s, mm, j, K, n) == \A i \in 1..n : mm[Address(j.start + K * SecLen + i - 1)] = s.chip.buf[i]
\* Everything else is as it was.
Untouched(s, mm, j, K) ==
  IF j.cmd.op = "read"
  THEN /\ \A u \in Drives : s.drive[u].data = j.drive[u].data
       /\ \A a \in Addresses \ {Address(j.start + i) : i \in 0..(j.moved - 1)} : mm[a] = j.mem[a]
  ELSE /\ mm = j.mem
       /\ \A u \in Drives : \A p \in DOMAIN s.drive[u].data : \A n \in DOMAIN s.drive[u].data[p] :
            \/ s.drive[u].data[p][n] = j.drive[u].data[p][n]
            \/ u = j.unit /\ p[1] = j.cmd.c /\ \E k \in 1..K : Asked(j.cmd, k) = <<p[2], n>>
\* The byte that was taken for a sector that was not there.
Lost(s, j) ==
  IF s.chip.phase = "result" /\ j.cmd.op = "write" /\ j.moved > 0 /\ "EN" \notin s.chip.res.st1 THEN 1 ELSE 0
CounterAt(j, n) == (j.start + n) % (ByteValues * ByteValues * ByteValues)
Bytes(mm) == {mm[a] : a \in Addresses}
\* What is written to the disk stays in the memory, and what is read into it while it fits.
Fits(j) == j.cmd.op = "write" \/ j.moved <= ByteValues * ByteValues

\* A transfer that nobody disturbed, after K sectors and n bytes: where the chip, the counter,
\* the memory and the diskette are.
RightAt(s, a, mm, j, K, n) ==
  /\ j.moved = K * SecLen + n
  /\ At(s, j.cmd, j.unit, K, n, Bytes(mm)) /\ Present(s.drive[j.unit].data, j.cmd, K)
  /\ (Fits(j) => Whole(s, mm, j, K) /\ Part(s, mm, j, K, n))
  /\ Untouched(s, mm, j, K)
  /\ (~s.chip.nd => a = CounterAt(j, j.moved + Lost(s, j)))
JobRight(s, a, mm, j) == \E K \in Nat, n \in Nat : RightAt(s, a, mm, j, K, n)

JobShaped(j) ==
  /\ {"cmd", "unit", "start", "moved", "clean", "drive", "mem"} \subseteq DOMAIN j
  /\ Order(j.cmd) /\ j.unit \in Drives /\ j.start \in Nat /\ j.moved \in Nat
\* The transfer j, n bytes further.
Continues(j, k, n) ==
  /\ k.cmd = j.cmd /\ k.unit = j.unit /\ k.start = j.start /\ k.drive = j.drive /\ k.mem = j.mem
  /\ k.moved = j.moved + n

\* The constants of the addresses.
LEMMA AddressConstants ==
  /\ ByteValues \in Nat \ {0} /\ ByteValues * ByteValues \in Nat \ {0}
  /\ ByteValues * ByteValues * ByteValues \in Nat \ {0} /\ SecLen \in Nat \ {0}
<1>1. ByteValues \in Nat \ {0} /\ SecLen \in Nat \ {0}
  BY FloppyDmaAssumption, Upd765Assumption
<1> QED BY <1>1

\* Every address is one of the memory's.
LEMMA AddressIsOne ==
  ASSUME NEW x \in Nat
  PROVE  Address(x) \in Addresses
<1>1. x % (ByteValues * ByteValues) \in 0..((ByteValues * ByteValues) - 1)
  BY AddressConstants, Divided
<1> QED BY <1>1 DEF Address, Addresses

\* The i-th byte of the q-th sector comes before the K-th sector ends.
LEMMA OffsetBelow ==
  ASSUME NEW l \in Nat \ {0}, NEW K \in Nat, NEW q \in 1..K, NEW i \in 1..l
  PROVE  (q - 1) * l + i - 1 \in Nat /\ (q - 1) * l + i - 1 < K * l
<1>1. q - 1 \in Nat /\ q - 1 <= K - 1
  OBVIOUS
<1>2. (q - 1) * l <= (K - 1) * l /\ (q - 1) * l \in Nat
  BY <1>1
<1>3. (K - 1) * l = K * l - l
  OBVIOUS
<1> QED BY <1>2, <1>3

\* A byte stored does not overwrite an earlier one of as much as fits in the memory.
LEMMA StoreIsFresh ==
  ASSUME NEW x \in Nat, NEW o \in Nat, NEW m \in Nat, o < m, m < ByteValues * ByteValues
  PROVE  Address(x + o) # Address(x + m)
<1> DEFINE b == ByteValues * ByteValues
<1>1. b \in Nat \ {0}
  BY AddressConstants
<1>2. o < m /\ m < b
  OBVIOUS
<1>3. Address(x + o) = (x + o) % b /\ Address(x + m) = (x + m) % b
  BY DEF Address
<1> HIDE DEF b
<1>4. x + o \in Nat /\ x + m \in Nat /\ x + o < x + m /\ (x + m) - (x + o) < b
  BY <1>1, <1>2
<1> QED BY <1>1, <1>3, <1>4, AddressesDiffer

\* The counter counts, and shows the address of the next byte.
LEMMA CounterCounts ==
  ASSUME NEW j, JobShaped(j), NEW n \in Nat
  PROVE  /\ (CounterAt(j, n) + 1) % (ByteValues * ByteValues * ByteValues) = CounterAt(j, n + 1)
         /\ Address(CounterAt(j, n)) = Address(j.start + n)
<1> DEFINE d == ByteValues * ByteValues * ByteValues
           x == j.start + n
<1>1. ByteValues \in Nat \ {0} /\ d \in Nat \ {0} /\ x \in Nat /\ j.start \in Nat
  BY AddressConstants DEF JobShaped
<1>2. Address(CounterAt(j, n)) = Address(x)
  BY <1>1, AddressWraps DEF CounterAt, Address
<1>8. j.start + (n + 1) = x + 1 /\ j.start + n = x
  BY <1>1
<1> HIDE DEF d, x
<1>11. d \in Nat \ {0} /\ x \in Nat
  BY <1>1
<1>12. x \div d \in Nat /\ x % d \in 0..(d - 1) /\ x = d * (x \div d) + (x % d)
  BY ONLY <1>11, Divided
<1>3. x \div d \in Nat /\ x % d \in Nat /\ x = d * (x \div d) + (x % d)
  BY <1>11, <1>12
<1>4. x + 1 = d * (x \div d) + ((x % d) + 1)
  BY <1>1, <1>3
<1>5. (x % d) + 1 \in Nat
  BY <1>3
<1>6. (d * (x \div d) + ((x % d) + 1)) % d = ((x % d) + 1) % d
  BY <1>1, <1>3, <1>5, Turns
<1>7. (x + 1) % d = ((x % d) + 1) % d
  BY <1>4, <1>6
<1>9. CounterAt(j, n) = x % d /\ CounterAt(j, n + 1) = (x + 1) % d
  BY <1>8 DEF CounterAt, d
<1>10. Address(CounterAt(j, n)) = Address(j.start + n)
  BY <1>2, <1>8
<1> QED BY <1>7, <1>9, <1>10 DEF d

\* What rests leaves a transfer right, if it loses nothing.
LEMMA RestsRight ==
  ASSUME NEW s, NEW t, NEW a, NEW mm, NEW j, JobShaped(j), NEW K \in Nat, NEW n \in Nat,
         RightAt(s, a, mm, j, K, n), At(t, j.cmd, j.unit, K, n, Bytes(mm)),
         Carries(s, t), n # 0 => t.chip.buf = s.chip.buf, Lost(t, j) = Lost(s, j)
  PROVE  RightAt(t, a, mm, j, K, n)
<1>1. t.chip.nd = s.chip.nd /\ \A u \in Drives : t.drive[u].data = s.drive[u].data
  BY DEF Carries
<1>2. j.unit \in Drives
  BY DEF JobShaped
<1>3. Present(t.drive[j.unit].data, j.cmd, K)
  BY <1>1, <1>2 DEF RightAt
<1>4. Whole(s, mm, j, K) => Whole(t, mm, j, K)
  BY <1>1, <1>2 DEF Whole
<1>5. Part(s, mm, j, K, n) => Part(t, mm, j, K, n)
  <2>1. CASE n = 0
    BY <2>1 DEF Part
  <2>2. CASE n # 0
    BY <2>2 DEF Part
  <2> QED BY <2>1, <2>2
<1>6. Untouched(t, mm, j, K)
  BY <1>1 DEF RightAt, Untouched
<1> QED BY <1>1, <1>3, <1>4, <1>5, <1>6 DEF RightAt

\* Nothing is lost while nothing moves.
LEMMA RestsLosesNothing ==
  ASSUME NEW s, NEW t, NEW mm, NEW j, JobShaped(j), NEW K \in Nat, NEW n \in Nat,
         j.moved = K * SecLen + n, At(s, j.cmd, j.unit, K, n, Bytes(mm)),
         At(t, j.cmd, j.unit, K, n, Bytes(mm)), Rests(s, t, K, n)
  PROVE  Lost(t, j) = Lost(s, j)
<1>1. CASE K # 0
  BY <1>1 DEF Rests, Lost
<1>2. CASE K = 0 /\ n = 0
  <2>1. j.moved = 0
    BY <1>2, AddressConstants
  <2> QED BY <2>1 DEF Lost
<1>3. CASE K = 0 /\ n # 0
  <2>1. s.chip.phase = "exec" /\ t.chip.phase = "exec"
    BY <1>3 DEF At, Inside, OnSector, Runs
  <2> QED BY <2>1 DEF Lost
<1> QED BY <1>1, <1>2, <1>3

\* A poll leaves a transfer right while its head stands.
LEMMA PolledRight ==
  ASSUME NEW s, Sane(s), NEW a, NEW mm, NEW j, JobShaped(j), JobRight(s, a, mm, j),
         Polled(s).drive[j.unit].head = s.drive[j.unit].head
  PROVE  JobRight(Polled(s), a, mm, j)
<1> DEFINE t == Polled(s)
<1>1. PICK K \in Nat, n \in Nat : RightAt(s, a, mm, j, K, n)
  BY DEF JobRight
<1>2. Order(j.cmd) /\ j.unit \in Drives
  BY DEF JobShaped
<1>3. At(t, j.cmd, j.unit, K, n, Bytes(mm)) /\ Rests(s, t, K, n)
  BY <1>1, <1>2, PolledAt DEF RightAt
<1> HIDE DEF t
<1>4. Lost(t, j) = Lost(s, j)
  BY <1>1, <1>3, RestsLosesNothing DEF RightAt
<1>5. RightAt(t, a, mm, j, K, n)
  BY <1>1, <1>3, <1>4, RestsRight DEF Rests
<1> QED BY <1>5 DEF JobRight, t

\* So does what no transfer sees.
LEMMA SteadyRight ==
  ASSUME NEW s, NEW t, Steady(s, t), NEW a, NEW mm, NEW j, JobShaped(j), JobRight(s, a, mm, j),
         t.drive[j.unit].head = s.drive[j.unit].head
  PROVE  JobRight(t, a, mm, j)
<1>1. PICK K \in Nat, n \in Nat : RightAt(s, a, mm, j, K, n)
  BY DEF JobRight
<1>2. j.unit \in Drives
  BY DEF JobShaped
<1>3. At(t, j.cmd, j.unit, K, n, Bytes(mm)) /\ Rests(s, t, K, n)
  BY <1>1, <1>2, AtSteady DEF RightAt
<1>4. Lost(t, j) = Lost(s, j)
  BY <1>1, <1>3, RestsLosesNothing DEF RightAt
<1>5. RightAt(t, a, mm, j, K, n)
  BY <1>1, <1>3, <1>4, RestsRight DEF Rests
<1> QED BY <1>5 DEF JobRight

\* The transfer is the same when only its being undisturbed is noted.
LEMMA SameJob ==
  ASSUME NEW s, NEW a, NEW mm, NEW j, JobShaped(j), NEW k, Continues(j, k, 0), JobRight(s, a, mm, j)
  PROVE  JobRight(s, a, mm, k)
<1>1. /\ k.cmd = j.cmd /\ k.unit = j.unit /\ k.start = j.start /\ k.drive = j.drive /\ k.mem = j.mem
      /\ k.moved = j.moved
  BY DEF Continues, JobShaped
<1>2. PICK K \in Nat, n \in Nat : RightAt(s, a, mm, j, K, n)
  BY DEF JobRight
<1>3. RightAt(s, a, mm, k, K, n)
  BY <1>1, <1>2 DEF RightAt, Whole, Part, Untouched, Lost, CounterAt, Fits
<1> QED BY <1>3 DEF JobRight

\* A running transfer is inside a sector or between two.
LEMMA RunsAt ==
  ASSUME NEW s, NEW g, NEW v, NEW K, NEW n, NEW S, At(s, g, v, K, n, S), s.chip.phase = "exec"
  PROVE  Inside(s, g, v, K + 1, n, S) \/ (n = 0 /\ K # 0 /\ Between(s, g, v, K))
<1> QED BY DEF At, Waiting, Over

\* A sector gone through is the place it was asked for at.
LEMMA SectorIs ==
  ASSUME NEW s, Shaped(s), NEW g, Order(g), NEW v, NEW K \in Nat, NEW n, NEW S, Inside(s, g, v, K + 1, n, S)
  PROVE  /\ v \in Drives /\ Place(g, K + 1, s.chip.hd, s.chip.r)
         /\ Asked(g, K + 1) = <<s.chip.hd, s.chip.r>> /\ <<g.c, s.chip.hd>> \in Tracks
         /\ s.chip.r \in DOMAIN s.drive[v].data[<<g.c, s.chip.hd>>] /\ DOMAIN s.drive[v].data = Tracks
         /\ \A q \in 0..K : ~Complete(g, q)
         /\ n \in 0..(SecLen - 1)
<1>1. v \in Drives /\ s.chip.hd \in Heads /\ s.drive[v].head = g.c /\ Place(g, K + 1, s.chip.hd, s.chip.r)
  BY DEF Inside, OnSector, Runs, Held
<1>2. s.drive[v].head \in 0..(Cyls - 1) /\ Formed(s.drive[v].data)
  BY <1>1 DEF Shaped, Medium
<1>3. <<g.c, s.chip.hd>> \in Tracks
  BY <1>1, <1>2 DEF Tracks
<1>4. K + 1 \in Nat /\ (K + 1) - 1 = K
  OBVIOUS
<1> QED BY <1>1, <1>2, <1>3, <1>4, PlaceAsked DEF Inside, Formed

\* The memory mm with y at the address p.
With(mm, p, y) == [mm EXCEPT ![p] = y]

\* A byte read into the memory from inside a sector.
LEMMA ByteReadRight ==
  ASSUME NEW s, Shaped(s), NEW a, NEW mm, DOMAIN mm = Addresses, NEW j, JobShaped(j), j.cmd.op = "read",
         NEW K \in Nat, NEW n \in Nat, RightAt(s, a, mm, j, K, n),
         Inside(s, j.cmd, j.unit, K + 1, n, Bytes(mm)),
         NEW k, Continues(j, k, 1), NEW t, t = ByteOut(s),
         NEW m2, m2 = With(mm, Address(j.start + j.moved), s.chip.buf[n + 1]),
         NEW a2, ~s.chip.nd => a2 = (a + 1) % (ByteValues * ByteValues * ByteValues)
  PROVE  JobRight(t, a2, m2, k)
<1> DEFINE g == j.cmd
           v == j.unit
           x == j.start
           m == j.moved
           S == Bytes(m2)
<1>0. m2 = [mm EXCEPT ![Address(x + m)] = s.chip.buf[n + 1]]
  BY DEF With
<1>1. /\ k.cmd = g /\ k.unit = v /\ k.start = x /\ k.drive = j.drive /\ k.mem = j.mem /\ k.moved = m + 1
      /\ Order(g) /\ v \in Drives /\ x \in Nat /\ m \in Nat /\ m = K * SecLen + n
      /\ SecLen \in Nat \ {0}
  BY AddressConstants DEF Continues, JobShaped, RightAt
<1>2. Inside(s, g, v, K + 1, n, S)
  BY DEF Inside
<1>3. /\ Asked(g, K + 1) = <<s.chip.hd, s.chip.r>> /\ <<g.c, s.chip.hd>> \in Tracks
      /\ s.chip.r \in DOMAIN s.drive[v].data[<<g.c, s.chip.hd>>] /\ DOMAIN s.drive[v].data = Tracks
      /\ \A q \in 0..K : ~Complete(g, q)
      /\ n \in 0..(SecLen - 1)
  BY <1>1, <1>2, SectorIs
<1>4. /\ Carries(s, t)
      /\ n + 1 < SecLen => Inside(t, g, v, K + 1, n + 1, S) /\ t.chip.buf = s.chip.buf
      /\ n + 1 >= SecLen => Between(t, g, v, K + 1) \/ (Over(t, g, K + 1) /\ Complete(g, K + 1))
  <2> DEFINE q == K + 1
  <2>1. q \in Nat \ {0}
    OBVIOUS
  <2>2. g.op = "read" /\ Order(g) /\ Inside(s, g, v, q, n, S) /\ Shaped(s) /\ t = ByteOut(s)
    BY <1>1, <1>2
  <2> HIDE DEF g, v, S, q
  <2>3. /\ Carries(s, t)
        /\ n + 1 < SecLen => Inside(t, g, v, q, n + 1, S) /\ t.chip.buf = s.chip.buf
        /\ n + 1 >= SecLen => Between(t, g, v, q) \/ (Over(t, g, q) /\ Complete(g, q))
    BY ONLY SMTT(30), <2>1, <2>2, ReadLands
  <2> QED BY <2>3 DEF q
<1>5. s.chip.phase = "exec" /\ s.chip.buf = SectorOf(s.drive[v].data, g, K + 1)
  <2>1. SectorOf(s.drive[v].data, g, K + 1) = s.drive[v].data[<<g.c, s.chip.hd>>][s.chip.r]
    BY <1>3 DEF SectorOf
  <2> QED BY <1>2, <2>1 DEF Inside, OnSector, Runs
<1>6. \A o \in Nat : o < m /\ Fits(k) => m2[Address(x + o)] = mm[Address(x + o)]
  <2> SUFFICES ASSUME NEW o \in Nat, o < m, Fits(k)
               PROVE  m2[Address(x + o)] = mm[Address(x + o)]
    OBVIOUS
  <2>1. m < ByteValues * ByteValues
    <3> DEFINE b == ByteValues * ByteValues
    <3>1. b \in Nat /\ m + 1 <= b
      BY <1>1, AddressConstants DEF Fits
    <3> HIDE DEF b
    <3>2. m < b
      BY <1>1, <3>1
    <3> QED BY <3>2 DEF b
  <2>2. Address(x + o) # Address(x + m)
    BY <1>1, <2>1, StoreIsFresh
  <2>3. x + o \in Nat
    BY <1>1
  <2>4. Address(x + o) \in DOMAIN mm
    BY <2>3, AddressIsOne
  <2> QED BY <1>0, <2>2, <2>4
<1>7. m2[Address(x + m)] = s.chip.buf[n + 1]
  BY <1>0, <1>1, AddressIsOne
<1>8. Fits(k) => Fits(j)
  BY <1>1, AddressConstants DEF Fits
<1>9. Fits(k) => Whole(t, m2, k, K)
  <2> SUFFICES ASSUME Fits(k), NEW q \in 1..K, NEW i \in 1..SecLen
               PROVE  m2[Address(x + (q - 1) * SecLen + i - 1)] = SectorOf(t.drive[v].data, g, q)[i]
    BY <1>1 DEF Whole
  <2> DEFINE o == (q - 1) * SecLen + i - 1
  <2>1. o \in Nat /\ o < K * SecLen /\ K * SecLen <= m /\ x + (q - 1) * SecLen + i - 1 = x + o
    BY <1>1, OffsetBelow
  <2>2. mm[Address(x + (q - 1) * SecLen + i - 1)] = SectorOf(s.drive[v].data, g, q)[i]
    BY <1>8 DEF RightAt, Whole
  <2>3. o < m
    BY <1>1, <2>1
  <2> HIDE DEF o
  <2>4. m2[Address(x + o)] = mm[Address(x + o)]
    BY <1>6, <2>1, <2>3
  <2> QED BY <1>1, <1>4, <2>1, <2>2, <2>4 DEF Carries
<1>10. Fits(k) =>
         \A i \in 1..(n + 1) : m2[Address(x + K * SecLen + i - 1)] = s.chip.buf[i]
  <2> SUFFICES ASSUME Fits(k), NEW i \in 1..(n + 1)
               PROVE  m2[Address(x + K * SecLen + i - 1)] = s.chip.buf[i]
    OBVIOUS
  <2> DEFINE o == K * SecLen + i - 1
  <2>1. o \in Nat /\ x + K * SecLen + i - 1 = x + o
    BY <1>1
  <2>2. CASE i = n + 1
    <3>1. o = m
      BY <1>1, <2>2
    <3> HIDE DEF o
    <3> QED BY <1>7, <2>1, <2>2, <3>1
  <2>3. CASE i # n + 1
    <3>1. o < m /\ i \in 1..n
      BY <1>1, <2>3
    <3>2. mm[Address(x + K * SecLen + i - 1)] = s.chip.buf[i]
      BY <1>8, <3>1 DEF RightAt, Part
    <3> HIDE DEF o
    <3>3. m2[Address(x + o)] = mm[Address(x + o)]
      BY <1>6, <2>1, <3>1
    <3> QED BY <2>1, <3>2, <3>3
  <2> QED BY <2>2, <2>3
<1>11. \A u \in Drives : t.drive[u].data = s.drive[u].data
  BY <1>4 DEF Carries
<1>12. /\ \A u \in Drives : t.drive[u].data = k.drive[u].data
       /\ \A b \in Addresses \ {Address(k.start + i) : i \in 0..(k.moved - 1)} : m2[b] = k.mem[b]
  <2>1. /\ \A u \in Drives : s.drive[u].data = j.drive[u].data
        /\ \A b \in Addresses \ {Address(x + i) : i \in 0..(m - 1)} : mm[b] = j.mem[b]
    BY DEF RightAt, Untouched
  <2>2. ASSUME NEW b \in Addresses \ {Address(x + i) : i \in 0..m}
        PROVE  m2[b] = j.mem[b]
    <3>1. m \in 0..m /\ \A i \in 0..(m - 1) : i \in 0..m
      BY <1>1
    <3>2. b # Address(x + m) /\ b \in Addresses \ {Address(x + i) : i \in 0..(m - 1)}
      BY <2>2, <3>1
    <3>3. m2[b] = mm[b]
      BY <1>0, <3>2
    <3> QED BY <2>1, <3>2, <3>3
  <2>3. k.moved - 1 = m
    BY <1>1
  <2> QED BY <1>1, <1>11, <2>1, <2>2, <2>3
<1>13. t.chip.nd = s.chip.nd
  BY <1>4 DEF Carries
<1>14. ~t.chip.nd => a2 = CounterAt(k, k.moved) /\ Lost(t, k) = 0
  <2>1. Lost(s, j) = 0 /\ Lost(t, k) = 0
    BY <1>1, <1>5 DEF Lost
  <2>2. ~s.chip.nd => a = CounterAt(j, m)
    BY <1>1, <2>1 DEF RightAt
  <2>3. (CounterAt(j, m) + 1) % (ByteValues * ByteValues * ByteValues) = CounterAt(j, m + 1)
    BY <1>1, CounterCounts
  <2>4. CounterAt(k, k.moved) = CounterAt(j, m + 1)
    BY <1>1 DEF CounterAt
  <2> QED BY <1>13, <2>1, <2>2, <2>3, <2>4
<1>15. ~t.chip.nd => a2 = CounterAt(k, k.moved + Lost(t, k))
  BY <1>1, <1>14
<1>16. Present(t.drive[v].data, g, K)
  BY <1>1, <1>11 DEF RightAt, Present
<1>17. CASE n + 1 < SecLen
  <2>1. k.moved = K * SecLen + (n + 1)
    BY <1>1
  <2>2. At(t, g, v, K, n + 1, S)
    BY <1>4, <1>17 DEF At
  <2>3. Fits(k) => Part(t, m2, k, K, n + 1)
    BY <1>1, <1>4, <1>10, <1>17 DEF Part
  <2>4. Untouched(t, m2, k, K)
    BY <1>1, <1>12 DEF Untouched
  <2>5. RightAt(t, a2, m2, k, K, n + 1)
    BY <1>1, <1>9, <1>15, <1>16, <2>1, <2>2, <2>3, <2>4 DEF RightAt
  <2> QED BY <2>5 DEF JobRight
<1>18. CASE n + 1 >= SecLen
  <2>0. n + 1 = SecLen /\ K + 1 \in Nat /\ K + 1 # 0
    BY <1>1, <1>3, <1>18
  <2>1. k.moved = (K + 1) * SecLen + 0
    BY <1>1, <2>0
  <2>2. At(t, g, v, K + 1, 0, S)
    <3>1. (K + 1) - 1 = K
      OBVIOUS
    <3> QED BY <1>3, <1>4, <1>18, <2>0, <3>1 DEF At
  <2>3. Part(t, m2, k, K + 1, 0)
    BY DEF Part
  <2>4. Untouched(t, m2, k, K + 1)
    BY SMTT(30), <1>1, <1>12 DEF Untouched
  <2>5. Present(t.drive[v].data, g, K + 1)
    <3>1. \A q \in 1..(K + 1) : q \in 1..K \/ q = K + 1
      OBVIOUS
    <3> QED BY <1>1, <1>3, <1>11, <1>16, <3>1 DEF Present
  <2>6. Fits(k) => Whole(t, m2, k, K + 1)
    <3> SUFFICES ASSUME Fits(k), NEW q \in 1..(K + 1), NEW i \in 1..SecLen
                 PROVE  m2[Address(k.start + (q - 1) * SecLen + i - 1)] = SectorOf(t.drive[k.unit].data, k.cmd, q)[i]
      BY DEF Whole
    <3>1. CASE q \in 1..K
      BY <1>9, <3>1 DEF Whole
    <3>2. CASE q = K + 1
      <4>1. (q - 1) * SecLen = K * SecLen /\ i \in 1..(n + 1)
        BY <2>0, <3>2
      <4>2. m2[Address(x + K * SecLen + i - 1)] = s.chip.buf[i]
        BY <1>10, <4>1
      <4>3. SectorOf(t.drive[k.unit].data, k.cmd, q) = s.chip.buf
        BY <1>1, <1>5, <1>11, <3>2
      <4> QED BY <1>1, <4>1, <4>2, <4>3
    <3> QED BY <3>1, <3>2
  <2>7. RightAt(t, a2, m2, k, K + 1, 0)
    BY <1>1, <1>15, <2>1, <2>2, <2>3, <2>4, <2>5, <2>6 DEF RightAt
  <2> QED BY <2>0, <2>7 DEF JobRight
<1> QED BY <1>1, <1>3, <1>17, <1>18

\* A byte of the memory taken inside a sector.
LEMMA ByteWrittenRight ==
  ASSUME NEW s, Shaped(s), NEW a, NEW mm, DOMAIN mm = Addresses, NEW j, JobShaped(j), j.cmd.op = "write",
         NEW K \in Nat, NEW n \in Nat, RightAt(s, a, mm, j, K, n),
         Inside(s, j.cmd, j.unit, K + 1, n, Bytes(mm)),
         NEW b, b = mm[Address(j.start + j.moved)],
         NEW k, Continues(j, k, 1), NEW t, t = ByteIn(s, b),
         NEW a2, ~s.chip.nd => a2 = (a + 1) % (ByteValues * ByteValues * ByteValues)
  PROVE  JobRight(t, a2, mm, k)
<1> DEFINE g == j.cmd
           v == j.unit
           x == j.start
           m == j.moved
           S == Bytes(mm)
           w == Append(s.chip.buf, b)
           p == <<g.c, s.chip.hd>>
           r == s.chip.r
           d == s.drive[v].data
           e == [d EXCEPT ![p][r] = w]
<1>1. /\ k.cmd = g /\ k.unit = v /\ k.start = x /\ k.drive = j.drive /\ k.mem = j.mem /\ k.moved = m + 1
      /\ Order(g) /\ v \in Drives /\ x \in Nat /\ m \in Nat /\ m = K * SecLen + n
      /\ SecLen \in Nat \ {0}
  BY AddressConstants DEF Continues, JobShaped, RightAt
<1>2. Inside(s, g, v, K + 1, n, S) /\ b \in S
  <2>1. x + m \in Nat
    BY <1>1
  <2>2. Address(x + m) \in Addresses
    BY <2>1, AddressIsOne
  <2> QED BY <2>2 DEF Bytes
<1>3. /\ Asked(g, K + 1) = <<s.chip.hd, r>> /\ p \in Tracks /\ Place(g, K + 1, s.chip.hd, r)
      /\ r \in DOMAIN d[p] /\ DOMAIN d = Tracks
      /\ \A q \in 0..K : ~Complete(g, q)
      /\ n \in 0..(SecLen - 1)
  BY SMTT(30), <1>1, <1>2, SectorIs
<1>4. /\ t.cable = s.cable /\ t.chip.nd = s.chip.nd
      /\ n + 1 < SecLen => Inside(t, g, v, K + 1, n + 1, S) /\ Carries(s, t) /\ t.chip.buf = w
      /\ n + 1 >= SecLen =>
           /\ Between(t, g, v, K + 1) \/ (Over(t, g, K + 1) /\ Complete(g, K + 1))
           /\ \A u \in Drives : t.drive[u].data = IF u = v THEN e ELSE s.drive[u].data
  <2> DEFINE q == K + 1
  <2>1. q \in Nat \ {0}
    OBVIOUS
  <2>2. g.op = "write" /\ Order(g) /\ Inside(s, g, v, q, n, S) /\ Shaped(s) /\ t = ByteIn(s, b) /\ b \in S
    BY <1>1, <1>2
  <2> HIDE DEF g, v, S, q
  <2>3. Wrote(s, t, g, v, q, n, S, b)
    BY ONLY <2>1, <2>2, WriteLands
  <2> QED BY <2>3 DEF q, Stored, Wrote
<1>5. /\ s.chip.phase = "exec" /\ s.chip.buf \in Seq(S) /\ Len(s.chip.buf) = n
  BY <1>2 DEF Inside, OnSector, Runs
<1>6. \A i \in 1..n : w[i] = s.chip.buf[i]
  BY <1>2, <1>5
<1>7. w[n + 1] = b
  BY <1>2, <1>5
<1> HIDE DEF w
<1>8. Fits(k) /\ Fits(j)
  BY <1>1 DEF Fits
<1>9. Fits(k) =>
         \A i \in 1..(n + 1) : mm[Address(x + K * SecLen + i - 1)] = w[i]
  <2> SUFFICES ASSUME Fits(k), NEW i \in 1..(n + 1)
               PROVE  mm[Address(x + K * SecLen + i - 1)] = w[i]
    OBVIOUS
  <2>1. CASE i = n + 1
    <3>1. x + K * SecLen + i - 1 = x + m
      BY <1>1, <2>1
    <3> QED BY <1>7, <2>1, <3>1
  <2>2. CASE i # n + 1
    <3>1. i \in 1..n
      BY <1>1, <2>2
    <3>2. mm[Address(x + K * SecLen + i - 1)] = s.chip.buf[i]
      BY <1>8, <3>1 DEF RightAt, Part
    <3> QED BY <1>6, <3>1, <3>2
  <2> QED BY <2>1, <2>2
<1>10. /\ mm = k.mem
       /\ \A u \in Drives : \A y \in DOMAIN s.drive[u].data : \A z \in DOMAIN s.drive[u].data[y] :
            \/ s.drive[u].data[y][z] = k.drive[u].data[y][z]
            \/ u = v /\ y[1] = g.c /\ \E q \in 1..K : Asked(g, q) = <<y[2], z>>
  BY <1>1 DEF RightAt, Untouched
<1>11. Lost(s, j) = 0
  BY SMTT(30), <1>5 DEF Lost
<1>12. ~t.chip.nd => a2 = CounterAt(k, k.moved)
  <2>1. ~s.chip.nd => a = CounterAt(j, m)
    BY <1>1, <1>11 DEF RightAt
  <2>2. (CounterAt(j, m) + 1) % (ByteValues * ByteValues * ByteValues) = CounterAt(j, m + 1)
    BY <1>1, CounterCounts
  <2>3. CounterAt(k, k.moved) = CounterAt(j, m + 1)
    BY <1>1 DEF CounterAt
  <2> QED BY <1>4, <2>1, <2>2, <2>3
<1>13. Lost(t, k) = 0
  <2>1. CASE n + 1 < SecLen
    BY ZenonT(60), <1>4, <2>1 DEF Inside, OnSector, Runs, Lost
  <2>2. CASE n + 1 >= SecLen
    BY ZenonT(60), <1>4, <2>2 DEF Between, OnSector, Runs, Over, Lost
  <2> QED BY SMTT(30), <1>1, <2>1, <2>2
<1>14. ~t.chip.nd => a2 = CounterAt(k, k.moved + Lost(t, k))
  BY <1>1, <1>12, <1>13
<1>15. CASE n + 1 < SecLen
  <2>1. k.moved = K * SecLen + (n + 1)
    BY SMTT(30), <1>1
  <2>2. At(t, g, v, K, n + 1, S)
    BY SMTT(30), <1>4, <1>15 DEF At
  <2>3. \A u \in Drives : t.drive[u].data = s.drive[u].data
    BY SMTT(30), <1>4, <1>15 DEF Carries
  <2>4. Fits(k) => Part(t, mm, k, K, n + 1)
    BY <1>1, <1>4, <1>9, <1>15 DEF Part
  <2>5. Fits(k) => Whole(t, mm, k, K)
    BY SMTT(30), <1>1, <1>8, <2>3 DEF RightAt, Whole
  <2>6. Untouched(t, mm, k, K)
    BY <1>1, <1>10, <2>3 DEF Untouched
  <2>7. Present(t.drive[v].data, g, K)
    BY <1>1, <2>3 DEF RightAt
  <2>8. RightAt(t, a2, mm, k, K, n + 1)
    BY <1>1, <1>14, <2>1, <2>2, <2>4, <2>5, <2>6, <2>7 DEF RightAt
  <2> QED BY <2>8 DEF JobRight
<1>16. CASE n + 1 >= SecLen
  <2>0. n + 1 = SecLen /\ K + 1 \in Nat /\ K + 1 # 0
    BY <1>1, <1>3, <1>16
  <2>1. k.moved = (K + 1) * SecLen + 0
    BY SMTT(30), <1>1, <2>0
  <2>2. At(t, g, v, K + 1, 0, S)
    <3>1. (K + 1) - 1 = K
      OBVIOUS
    <3> QED BY <1>3, <1>4, <1>16, <2>0, <3>1 DEF At
  <2>3. Part(t, mm, k, K + 1, 0)
    BY SMTT(30) DEF Part
  <2>4. /\ t.drive[v].data = e /\ \A u \in Drives \ {v} : t.drive[u].data = s.drive[u].data
    BY SMTT(30), <1>1, <1>4, <1>16
  <2>5. /\ DOMAIN e = DOMAIN d /\ \A y \in DOMAIN d : DOMAIN e[y] = DOMAIN d[y]
        /\ e[p][r] = w
        /\ \A y \in DOMAIN d : \A z \in DOMAIN d[y] : y # p \/ z # r => e[y][z] = d[y][z]
    BY ZenonT(60), <1>3
  <2> HIDE DEF e
  <2>6. \A q \in 1..(K + 1) : q \in 1..K \/ q = K + 1
    OBVIOUS
  <2>7. Present(d, g, K)
    BY SMTT(30) DEF RightAt
  <2>8. Present(e, g, K + 1)
    <3>1. /\ <<g.c, Asked(g, K + 1)[1]>> = p /\ Asked(g, K + 1)[2] = r
      BY SMTT(30), <1>3
    <3> QED BY <1>3, <2>5, <2>6, <2>7, <3>1 DEF Present
  <2>9. ASSUME NEW q \in 1..K
        PROVE  SectorOf(e, g, q) = SectorOf(d, g, q)
    <3>1. q \in 1..((K + 1) - 1)
      BY <2>9
    <3>2. Asked(g, q)[1] # s.chip.hd \/ Asked(g, q)[2] # r
      BY SMTT(30), <1>1, <1>3, <3>1, PlacesDiffer
    <3>3. <<g.c, Asked(g, q)[1]>> \in DOMAIN d /\ Asked(g, q)[2] \in DOMAIN d[<<g.c, Asked(g, q)[1]>>]
      BY <1>3, <2>7 DEF Present
    <3>4. <<g.c, Asked(g, q)[1]>> # p \/ Asked(g, q)[2] # r
      BY <3>2
    <3> QED BY <2>5, <3>3, <3>4 DEF SectorOf
  <2>10. SectorOf(e, g, K + 1) = w
    BY <1>3, <2>5 DEF SectorOf
  <2>11. Fits(k) => Whole(t, mm, k, K + 1)
    <3> SUFFICES ASSUME Fits(k), NEW q \in 1..(K + 1), NEW i \in 1..SecLen
                 PROVE  mm[Address(k.start + (q - 1) * SecLen + i - 1)] = SectorOf(t.drive[k.unit].data, k.cmd, q)[i]
      BY DEF Whole
    <3>1. CASE q \in 1..K
      <4>1. mm[Address(x + (q - 1) * SecLen + i - 1)] = SectorOf(d, g, q)[i]
        BY <1>8, <3>1 DEF RightAt, Whole
      <4> QED BY <1>1, <2>4, <2>9, <3>1, <4>1
    <3>2. CASE q = K + 1
      <4>1. (q - 1) * SecLen = K * SecLen /\ i \in 1..(n + 1)
        BY <2>0, <3>2
      <4>2. mm[Address(x + K * SecLen + i - 1)] = w[i]
        BY <1>9, <4>1
      <4>3. SectorOf(t.drive[k.unit].data, k.cmd, q) = w
        BY SMTT(30), <1>1, <2>4, <2>10, <3>2
      <4> QED BY <1>1, <4>1, <4>2, <4>3
    <3> QED BY <2>6, <3>1, <3>2
  <2>12. Untouched(t, mm, k, K + 1)
    <3> SUFFICES ASSUME NEW u \in Drives, NEW y \in DOMAIN t.drive[u].data, NEW z \in DOMAIN t.drive[u].data[y]
                 PROVE  \/ t.drive[u].data[y][z] = k.drive[u].data[y][z]
                        \/ u = v /\ y[1] = g.c /\ \E q \in 1..(K + 1) : Asked(g, q) = <<y[2], z>>
      <4>1. k.cmd.op # "read" /\ mm = k.mem /\ k.cmd = g /\ k.unit = v
        BY <1>1, <1>10
      <4> HIDE DEF g, v
      <4> QED BY SMTT(30), <4>1 DEF Untouched
    <3>1. y \in DOMAIN s.drive[u].data /\ z \in DOMAIN s.drive[u].data[y]
      <4>1. CASE u = v
        BY <2>4, <2>5, <4>1
      <4>2. CASE u # v
        BY SMTT(30), <2>4, <4>2
      <4> QED BY SMTT(30), <4>1, <4>2
    <3>2. CASE u = v /\ y = p /\ z = r
      <4>1. Asked(g, K + 1) = <<y[2], z>> /\ K + 1 \in 1..(K + 1) /\ y[1] = g.c
        BY SMTT(30), <1>3, <2>0, <3>2
      <4> QED BY <3>2, <4>1
    <3>3. CASE ~(u = v /\ y = p /\ z = r)
      <4>1. t.drive[u].data[y][z] = s.drive[u].data[y][z]
        <5>1. CASE u = v
          BY <2>4, <2>5, <3>1, <3>3, <5>1
        <5>2. CASE u # v
          BY <2>4, <5>2
        <5> QED BY SMTT(30), <5>1, <5>2
      <4>2. \A q \in 1..K : q \in 1..(K + 1)
        OBVIOUS
      <4> QED BY <1>10, <3>1, <4>1, <4>2
    <3> QED BY SMTT(30), <3>2, <3>3
  <2>13. RightAt(t, a2, mm, k, K + 1, 0)
    BY <1>1, <1>14, <2>1, <2>2, <2>3, <2>4, <2>8, <2>11, <2>12 DEF RightAt
  <2> QED BY <2>0, <2>13 DEF JobRight
<1> QED BY <1>1, <1>3, <1>15, <1>16

\* A byte from between two sectors: of the next one, if there is one.
LEMMA NextRight ==
  ASSUME NEW s, Sane(s), NEW a, NEW mm, NEW j, JobShaped(j), NEW K \in Nat, RightAt(s, a, mm, j, K, 0),
         K # 0, Between(s, j.cmd, j.unit, K), NEW t, t = NextByte(s)
  PROVE  /\ Shaped(t) /\ t.chip.nd = s.chip.nd
         /\ \/ Inside(t, j.cmd, j.unit, K + 1, 0, Bytes(mm)) /\ RightAt(t, a, mm, j, K, 0)
            \/ /\ t.chip.phase = "result" /\ "EN" \notin t.chip.res.st1
               /\ \A c : (~t.chip.nd => c = CounterAt(j, j.moved + Lost(t, j))) => RightAt(t, c, mm, j, K, 0)
<1> DEFINE g == j.cmd
           v == j.unit
           S == Bytes(mm)
<1>1. Order(g) /\ v \in Drives /\ K \in Nat \ {0}
  BY DEF JobShaped
<1>2. s.chip.phase = "exec" /\ OnSector(s, g, v, K) /\ ~AtEnd(s.chip) /\ s.chip.got = g
  BY DEF Between, OnSector, Runs, Held
<1>3. Shaped(s) /\ Working(s) /\ Given(s.chip.got) /\ s.chip.got.op \in DataOps
  BY <1>2 DEF Sane, Working, Moving, Ordered
<1>4. Shaped(t)
  BY <1>2, <1>3, NextByteGoes DEF Goes, Calm, Sane, Ordered
<1>5. Carries(s, t) /\ (Inside(t, g, v, K + 1, 0, S) \/ Over(t, g, K))
  <2> HIDE DEF g, v, S
  <2>1. Order(g) /\ Between(s, g, v, K) /\ Shaped(s) /\ t = NextByte(s)
    BY <1>1, <1>3 DEF g, v
  <2> QED BY ONLY <1>1, <2>1, NextByteLands
<1>6. t.chip.nd = s.chip.nd
  BY <1>5 DEF Carries
<1>7. Lost(s, j) = 0
  BY <1>2 DEF Lost
<1>8. CASE Inside(t, g, v, K + 1, 0, S)
  <2>1. At(t, g, v, K, 0, S)
    BY <1>8 DEF At
  <2>2. Lost(t, j) = 0
    BY <1>8 DEF Lost, Inside, OnSector, Runs
  <2>3. RightAt(t, a, mm, j, K, 0)
    BY <1>5, <1>7, <2>1, <2>2, RestsRight
  <2> QED BY <1>4, <1>6, <1>8, <2>3
<1>9. CASE Over(t, g, K)
  <2>1. Place(g, K, s.chip.hd, s.chip.r)
    BY <1>2 DEF OnSector
  <2>2. (\A q \in 0..(K - 1) : ~Complete(g, q)) /\ ~Complete(g, K)
    <3> HIDE DEF g
    <3>1. (\A q \in 0..(K - 1) : ~Complete(g, q)) /\ (Complete(g, K) <=> s.chip.r = g.eot /\ ~(g.mt /\ s.chip.hd = 0))
      BY ONLY <1>1, <2>1, PlaceAsked
    <3> QED BY <1>2, <3>1 DEF AtEnd
  <2>3. t.chip.phase = "result" /\ "EN" \notin t.chip.res.st1
    BY <1>9, <2>2 DEF Over
  <2>4. At(t, g, v, K, 0, S)
    BY <1>9, <2>2 DEF At
  <2>5. ASSUME NEW c, ~t.chip.nd => c = CounterAt(j, j.moved + Lost(t, j))
        PROVE  RightAt(t, c, mm, j, K, 0)
    <3>1. Present(t.drive[v].data, g, K) /\ (Whole(s, mm, j, K) => Whole(t, mm, j, K)) /\ Untouched(t, mm, j, K)
      BY <1>1, <1>5 DEF RightAt, Carries, Whole, Untouched
    <3>2. Part(t, mm, j, K, 0)
      BY DEF Part
    <3> QED BY <2>4, <2>5, <3>1, <3>2 DEF RightAt
  <2> QED BY <1>4, <1>6, <2>3, <2>5
<1> QED BY <1>5, <1>8, <1>9

\* A byte out of the chip, to where the transfer has got.
LEMMA ReadRight ==
  ASSUME NEW s, Sane(s), s.chip.phase = "exec", NEW a, NEW mm, DOMAIN mm = Addresses,
         NEW j, JobShaped(j), j.cmd.op = "read", JobRight(s, a, mm, j), NEW t, t = ByteOut(s),
         NEW k, Continues(j, k, IF ByteAvailable(s) THEN 1 ELSE 0),
         NEW m2, m2 = IF ByteAvailable(s) THEN With(mm, Address(j.start + j.moved), ByteRead(s)) ELSE mm,
         NEW a2, ~s.chip.nd => a2 = IF ByteAvailable(s) THEN (a + 1) % (ByteValues * ByteValues * ByteValues) ELSE a
  PROVE  JobRight(t, a2, m2, k)
<1>1. PICK K \in Nat, n \in Nat : RightAt(s, a, mm, j, K, n)
  BY DEF JobRight
<1>2. Order(j.cmd) /\ Shaped(s)
  BY DEF JobShaped, Sane
<1>3. CASE Inside(s, j.cmd, j.unit, K + 1, n, Bytes(mm))
  <2>1. ByteAvailable(s) /\ ByteRead(s) = s.chip.buf[n + 1]
    BY <1>2, <1>3, InsideIsAvailable
  <2>2. Continues(j, k, 1) /\ m2 = With(mm, Address(j.start + j.moved), s.chip.buf[n + 1])
        /\ (~s.chip.nd => a2 = (a + 1) % (ByteValues * ByteValues * ByteValues))
    BY <2>1 DEF With
  <2> QED BY <1>1, <1>2, <1>3, <2>2, ByteReadRight
<1>4. CASE n = 0 /\ K # 0 /\ Between(s, j.cmd, j.unit, K)
  <2> DEFINE w == NextByte(s)
  <2>1. /\ Shaped(w) /\ w.chip.nd = s.chip.nd
        /\ \/ Inside(w, j.cmd, j.unit, K + 1, 0, Bytes(mm)) /\ RightAt(w, a, mm, j, K, 0)
           \/ /\ w.chip.phase = "result"
              /\ \A c : (~w.chip.nd => c = CounterAt(j, j.moved + Lost(w, j))) => RightAt(w, c, mm, j, K, 0)
    BY <1>1, <1>4, NextRight
  <2>2. CASE Inside(w, j.cmd, j.unit, K + 1, 0, Bytes(mm)) /\ RightAt(w, a, mm, j, K, 0)
    <3>1. NextByte(w) = w /\ ByteAvailable(w) /\ ByteRead(w) = w.chip.buf[0 + 1]
      BY <1>2, <2>2, InsideIsAvailable
    <3>2. ByteAvailable(s) /\ ByteOut(s) = ByteOut(w) /\ ByteRead(s) = ByteRead(w)
      BY <3>1 DEF ByteAvailable, ByteOut, ByteRead
    <3> HIDE DEF w
    <3>3. Continues(j, k, 1) /\ m2 = With(mm, Address(j.start + j.moved), w.chip.buf[0 + 1])
          /\ (~w.chip.nd => a2 = (a + 1) % (ByteValues * ByteValues * ByteValues)) /\ t = ByteOut(w)
      BY <2>1, <3>1, <3>2 DEF With
    <3>4. /\ DOMAIN mm = Addresses /\ JobShaped(j) /\ j.cmd.op = "read" /\ K \in Nat /\ 0 \in Nat /\ Shaped(w)
          /\ RightAt(w, a, mm, j, K, 0) /\ Inside(w, j.cmd, j.unit, K + 1, 0, Bytes(mm))
      BY <2>1, <2>2
    <3> QED BY ONLY <3>3, <3>4, ByteReadRight
  <2>3. CASE /\ w.chip.phase = "result"
             /\ \A c : (~w.chip.nd => c = CounterAt(j, j.moved + Lost(w, j))) => RightAt(w, c, mm, j, K, 0)
    <3>1. ~ByteAvailable(s) /\ t = w
      BY <2>3 DEF ByteAvailable, ByteOut
    <3> HIDE DEF w
    <3>2. Continues(j, k, 0) /\ m2 = mm /\ (~s.chip.nd => a2 = a)
      BY <3>1
    <3>3. Lost(s, j) = 0 /\ Lost(w, j) = 0
      BY <1>4 DEF Lost, Between, OnSector, Runs
    <3>4. ~w.chip.nd => a2 = CounterAt(j, j.moved + Lost(w, j))
      BY <1>1, <2>1, <3>2, <3>3 DEF RightAt
    <3>5. JobRight(w, a2, mm, j)
      BY <2>3, <3>4 DEF JobRight
    <3> QED BY <3>1, <3>2, <3>5, SameJob
  <2> QED BY <2>1, <2>2, <2>3
<1>5. At(s, j.cmd, j.unit, K, n, Bytes(mm))
  BY <1>1 DEF RightAt
<1> QED BY <1>3, <1>4, <1>5, RunsAt

\* A byte into the chip, from where the transfer has got.
LEMMA WriteRight ==
  ASSUME NEW s, Sane(s), s.chip.phase = "exec", NEW a, NEW mm, DOMAIN mm = Addresses,
         NEW j, JobShaped(j), j.cmd.op = "write", JobRight(s, a, mm, j),
         NEW b, b = mm[Address(j.start + j.moved)], NEW t, t = ByteIn(s, b),
         NEW k, Continues(j, k, IF ByteAvailable(s) THEN 1 ELSE 0),
         NEW a2, ~s.chip.nd => a2 = (a + 1) % (ByteValues * ByteValues * ByteValues)
  PROVE  JobRight(t, a2, mm, k)
<1>1. PICK K \in Nat, n \in Nat : RightAt(s, a, mm, j, K, n)
  BY DEF JobRight
<1>2. Order(j.cmd) /\ Shaped(s)
  BY DEF JobShaped, Sane
<1>3. CASE Inside(s, j.cmd, j.unit, K + 1, n, Bytes(mm))
  <2>1. ByteAvailable(s)
    BY <1>2, <1>3, InsideIsAvailable
  <2>2. Continues(j, k, 1)
    BY <2>1
  <2> QED BY <1>1, <1>2, <1>3, <2>2, ByteWrittenRight
<1>4. CASE n = 0 /\ K # 0 /\ Between(s, j.cmd, j.unit, K)
  <2> DEFINE w == NextByte(s)
  <2>1. /\ Shaped(w) /\ w.chip.nd = s.chip.nd
        /\ \/ Inside(w, j.cmd, j.unit, K + 1, 0, Bytes(mm)) /\ RightAt(w, a, mm, j, K, 0)
           \/ /\ w.chip.phase = "result" /\ "EN" \notin w.chip.res.st1
              /\ \A c : (~w.chip.nd => c = CounterAt(j, j.moved + Lost(w, j))) => RightAt(w, c, mm, j, K, 0)
    BY <1>1, <1>4, NextRight
  <2>2. CASE Inside(w, j.cmd, j.unit, K + 1, 0, Bytes(mm)) /\ RightAt(w, a, mm, j, K, 0)
    <3>1. NextByte(w) = w /\ ByteAvailable(w)
      BY <1>2, <2>2, InsideIsAvailable
    <3>2. ByteAvailable(s) /\ ByteIn(s, b) = ByteIn(w, b)
      BY <3>1 DEF ByteAvailable, ByteIn
    <3> HIDE DEF w
    <3>3. Continues(j, k, 1) /\ (~w.chip.nd => a2 = (a + 1) % (ByteValues * ByteValues * ByteValues))
          /\ t = ByteIn(w, b)
      BY <2>1, <3>2
    <3> QED BY <2>1, <2>2, <3>3, ByteWrittenRight
  <2>3. CASE /\ w.chip.phase = "result" /\ "EN" \notin w.chip.res.st1
             /\ \A c : (~w.chip.nd => c = CounterAt(j, j.moved + Lost(w, j))) => RightAt(w, c, mm, j, K, 0)
    <3>1. ~ByteAvailable(s) /\ t = w
      BY <2>3 DEF ByteAvailable, ByteIn
    <3> HIDE DEF w
    <3>2. Continues(j, k, 0)
      BY <3>1
    <3>3. j.moved \in Nat /\ j.moved > 0
      <4>1. j.moved = K * SecLen + 0 /\ K \in Nat \ {0}
        BY <1>1, <1>4 DEF RightAt
      <4>2. K * SecLen >= SecLen
        BY <4>1, AddressConstants
      <4> QED BY <4>1, <4>2, AddressConstants
    <3>4. Lost(s, j) = 0 /\ Lost(w, j) = 1
      BY <1>4, <2>3, <3>3 DEF Lost, Between, OnSector, Runs
    <3>5. ~w.chip.nd => a2 = CounterAt(j, j.moved + Lost(w, j))
      <4>1. ~s.chip.nd => a = CounterAt(j, j.moved)
        BY <1>1, <3>3, <3>4 DEF RightAt
      <4>2. (CounterAt(j, j.moved) + 1) % (ByteValues * ByteValues * ByteValues) = CounterAt(j, j.moved + 1)
        BY <3>3, CounterCounts
      <4> QED BY <2>1, <3>4, <4>1, <4>2
    <3>6. JobRight(w, a2, mm, j)
      BY <2>3, <3>5 DEF JobRight
    <3> QED BY <3>1, <3>2, <3>6, SameJob
  <2> QED BY <2>1, <2>2, <2>3
<1>5. At(s, j.cmd, j.unit, K, n, Bytes(mm))
  BY <1>1 DEF RightAt
<1> QED BY <1>3, <1>4, <1>5, RunsAt

\* Nothing comes due when registers change that no seek uses.
LEMMA SettledOn ==
  ASSUME NEW s, NEW t, Settled(s), t.chip.seek = s.chip.seek, t.chip.phase = "wait" => t.chip.due > 0
  PROVE  Settled(t)
<1> QED BY DEF Settled, AllClear, Clear

\* A read or write begins, waits for its head, or is refused.
LEMMA StartDataBegins ==
  ASSUME NEW s0, Sane(s0), Settled(s0), s0.chip.phase = "command", NEW g, Order(g), s0.chip.got = g,
         s0.chip.us = g.us, s0.chip.hd = g.hd, NEW S, NEW z, z = StartData(s0)
  PROVE  z.chip.phase = "result" \/ (Settled(z) /\ At(z, g, Unit(s0, g.us), 0, 0, S))
<1> DEFINE v == Unit(s0, g.us)
           s == [s0 EXCEPT !.chip = [@ EXCEPT !.c = g.c, !.h = g.h, !.r = g.r, !.st1 = {}, !.st2 = {},
                                         !.needNext = FALSE, !.cmStop = FALSE, !.xfer = "none"]]
           t == SelectHead(s)
           x == [t EXCEPT !.chip.st1 = {"NW"}]
           w == [t EXCEPT !.chip.loaded = g.us, !.chip.phase = "wait", !.chip.due = Hlt]
<1>1. \/ z \in {Invalid(s), EndData(t, {"AT", "NR"}), EndData(x, {"AT"})}
      \/ (g.op = "write" => ~Drive(t, g.us).wp) /\ z \in {BeginData(t), Polled(w)}
  BY DEF StartData, Writing
<1>0. v \in Drives /\ Given(g) /\ g.op \in DataOps /\ g.hd \in Heads
  <2>1. g.us \in Drives /\ g.op \in DataOps /\ Given(g) /\ g.hd \in Heads
    BY DEF Order, Given, DataOps
  <2> QED BY <2>1, UnitIsDrive DEF Sane
<1>2. /\ s.drive = s0.drive /\ s.cable = s0.cable /\ DOMAIN s = DOMAIN s0 /\ DOMAIN s.chip = DOMAIN s0.chip
      /\ s.chip.got = g /\ s.chip.us = g.us /\ s.chip.hd = g.hd
      /\ s.chip.st1 = {} /\ s.chip.cmStop = FALSE /\ s.chip.c = g.c /\ s.chip.h = g.h /\ s.chip.r = g.r
      /\ s.chip.needNext = FALSE /\ s.chip.phase = "command"
      /\ s.chip.seek = s0.chip.seek /\ s.chip.due = s0.chip.due /\ s.chip.idx = s0.chip.idx
      /\ s.chip.want = s0.chip.want
  BY ZenonT(60) DEF Sane, Shaped, Registers, HasTransfer, TransferRegisters
<1> HIDE DEF s
<1>3. Shaped(s) /\ Unit(s, s.chip.us) = v
  BY <1>2 DEF Sane, Shaped, Unit
<1>4. Shaped(t) /\ t.chip = s.chip /\ t.cable = s.cable
  BY <1>3, SelectHeadCalm DEF Calm
<1>5. t.drive = [s0.drive EXCEPT ![v].side = g.hd]
  BY <1>2, <1>3 DEF SelectHead, Shaped
<1>6. t.drive[v].side = g.hd /\ Unit(t, g.us) = v
  BY <1>0, <1>2, <1>4, <1>5 DEF Sane, Shaped, Medium, Unit
<1> HIDE DEF t
<1>7. ASSUME g.op = "write" => ~Drive(t, g.us).wp
      PROVE  Held(t, g, v)
  BY <1>0, <1>2, <1>4, <1>6, <1>7 DEF Held, Unit, Drive
<1>8. CASE z = Invalid(s)
  <2> DEFINE e == [NoResult EXCEPT !.ic = {"IC"}]
             y == [s EXCEPT !.chip.res = e]
  <2>1. DOMAIN y = DOMAIN s /\ DOMAIN y.chip = DOMAIN s.chip
    BY <1>3 DEF Shaped
  <2>2. z = Result(y, 1, FALSE)
    BY <1>8 DEF Invalid
  <2> HIDE DEF y
  <2>3. z.chip.phase = "result"
    BY ZenonT(60), <1>3, <2>1, <2>2 DEF Result, Shaped, Registers
  <2> QED BY <2>3
<1>9. CASE z = EndData(t, {"AT", "NR"})
  BY <1>4, <1>9, EndDataLands
<1>10. CASE z = EndData(x, {"AT"})
  <2>1. x.drive = t.drive /\ x.cable = t.cable /\ DOMAIN x = DOMAIN t /\ DOMAIN x.chip = DOMAIN t.chip
    BY <1>4 DEF Shaped
  <2> HIDE DEF x
  <2>2. Shaped(x)
    BY <1>4, <2>1 DEF Shaped
  <2> QED BY <1>10, <2>2, EndDataLands
<1>11. CASE (g.op = "write" => ~Drive(t, g.us).wp) /\ z = BeginData(t)
  <2>1. Inside(z, g, v, 1, 0, S) \/ Over(z, g, 0)
    <3> HIDE DEF v
    <3>1. Shaped(t) /\ Order(g) /\ Held(t, g, v) /\ ~t.chip.needNext /\ t.chip.hd = g.hd /\ t.chip.r = g.r
          /\ z = BeginData(t)
      BY <1>2, <1>4, <1>7, <1>11
    <3> QED BY ONLY <3>1, BeginDataLands
  <2>2. Goes(t, z)
    BY <1>0, <1>2, <1>4, <1>11, BeginDataGoes DEF Sane, Counters
  <2>3. z.chip.seek = s0.chip.seek /\ z.chip.phase \in {"result", "exec"}
    BY <1>2, <1>4, <2>2 DEF Goes, Calm, Underway
  <2>4. Settled(z)
    BY <2>3, SettledOn
  <2>5. At(z, g, v, 0, 0, S) \/ z.chip.phase = "result"
    BY <2>1 DEF At, Over
  <2> QED BY <2>4, <2>5
<1>12. CASE (g.op = "write" => ~Drive(t, g.us).wp) /\ z = Polled(w)
  <2>1. /\ DOMAIN w = DOMAIN t /\ DOMAIN w.chip = DOMAIN t.chip /\ w.drive = t.drive /\ w.cable = t.cable
        /\ w.chip.got = t.chip.got /\ w.chip.us = t.chip.us /\ w.chip.hd = t.chip.hd
        /\ w.chip.st1 = t.chip.st1 /\ w.chip.cmStop = t.chip.cmStop /\ w.chip.c = t.chip.c
        /\ w.chip.h = t.chip.h /\ w.chip.r = t.chip.r /\ w.chip.needNext = t.chip.needNext
        /\ w.chip.phase = "wait" /\ w.chip.due = Hlt /\ w.chip.seek = t.chip.seek
        /\ w.chip.pcn = t.chip.pcn /\ w.chip.pending = t.chip.pending /\ w.chip.seekEnd = t.chip.seekEnd
        /\ w.chip.busy = t.chip.busy /\ w.chip.idx = t.chip.idx /\ w.chip.want = t.chip.want
    BY <1>4 DEF Shaped, Registers, HasTransfer, TransferRegisters
  <2> HIDE DEF w
  <2>2. Waiting(w, g, v)
    BY ZenonT(60), <1>2, <1>4, <1>7, <1>12, <2>1 DEF Waiting, Held, Unit
  <2>3. Settled(w)
    <3>1. Hlt > 0
      BY Upd765Assumption
    <3> QED BY <1>2, <1>4, <2>1, <3>1, SettledOn
  <2>4. Sane(w)
    <3>1. Shaped(w)
      BY <1>4, <2>1 DEF Shaped
    <3>2. Sought(s)
      <4>1. s.chip.pcn = s0.chip.pcn /\ s.chip.pending = s0.chip.pending /\ s.chip.seekEnd = s0.chip.seekEnd
            /\ s.chip.busy = s0.chip.busy
        BY DEF s, Sane, Shaped, Registers, HasTransfer, TransferRegisters
      <4> QED BY <1>2, <4>1 DEF Sane, Sought
    <3>3. Sought(w)
      BY <1>4, <2>1, <3>2 DEF Sought
    <3>4. Counters(w.chip)
      BY ZenonT(60), <1>2, <1>4, <2>1, Upd765Assumption DEF Sane, Counters
    <3>5. Ordered(w.chip)
      BY <1>0, <1>2, <1>4, <2>1 DEF Ordered
    <3> QED BY <3>1, <3>3, <3>4, <3>5 DEF Sane
  <2>5. Polled(w).drive[v].head = w.drive[v].head
    BY <1>0, <2>3, <2>4, SettledStays
  <2>6. At(w, g, v, 0, 0, S)
    BY <2>2 DEF At
  <2>7. At(Polled(w), g, v, 0, 0, S)
    <3> HIDE DEF v
    <3>1. Sane(w) /\ Order(g) /\ v \in Drives
      BY <1>0, <2>4
    <3> QED BY ONLY <2>5, <2>6, <3>1, PolledAt
  <2>8. Settled(Polled(w))
    BY <2>4, PolledSettles
  <2> QED BY <1>12, <2>7, <2>8
<1> QED BY <1>1, <1>8, <1>9, <1>10, <1>11, <1>12

\* So it does when the last byte of its command is given.
LEMMA ExecuteBegins ==
  ASSUME NEW s, Sane(s), Settled(s), s.chip.phase = "command", NEW g, Order(g), s.chip.got = g,
         NEW S, NEW z, z = Execute(s)
  PROVE  z.chip.phase = "result" \/ (Settled(z) /\ At(z, g, Unit(s, g.us), 0, 0, S))
<1> DEFINE x == [s EXCEPT !.chip.us = g.us, !.chip.hd = g.hd]
<1>1. z = StartData(x)
  BY DEF Execute, Order, DataOps
<1>2. /\ x.drive = s.drive /\ x.cable = s.cable /\ DOMAIN x = DOMAIN s /\ DOMAIN x.chip = DOMAIN s.chip
      /\ x.chip.got = g /\ x.chip.us = g.us /\ x.chip.hd = g.hd /\ x.chip.phase = "command"
      /\ x.chip.seek = s.chip.seek
      /\ Alike(s, x)
  BY DEF Sane, Shaped, Registers, HasTransfer, TransferRegisters, Alike, Counters
<1> HIDE DEF x
<1>3. Ordered(x.chip)
  BY <1>2 DEF Sane, Ordered
<1>4. Sane(x) /\ Settled(x)
  BY <1>2, <1>3, AlikeKeeps, SettledOn
<1>5. Unit(x, g.us) = Unit(s, g.us)
  BY <1>2 DEF Unit
<1> QED BY <1>1, <1>2, <1>4, <1>5, StartDataBegins

\* The machine after a step.
After == [chip |-> chip', drive |-> drive', cable |-> cable']
\* The transfer in progress is right as far as it has got, unless it was disturbed.
JobOK ==
  /\ dma \in 0..(ByteValues * ByteValues * ByteValues - 1) /\ DOMAIN mem = Addresses
  /\ (job = NoJob \/ (JobShaped(job) /\ (job.clean => JobRight(Machine, dma, mem, job))))

\* The counter stays a counter.
LEMMA CounterWraps ==
  ASSUME NEW x \in Nat
  PROVE  x % (ByteValues * ByteValues * ByteValues) \in 0..(ByteValues * ByteValues * ByteValues - 1)
<1> DEFINE d == ByteValues * ByteValues * ByteValues
<1>1. d \in Nat \ {0}
  BY AddressConstants
<1> HIDE DEF d
<1>2. x % d \in 0..(d - 1)
  BY ONLY <1>1, x \in Nat, Divided
<1> QED BY <1>2 DEF d

\* A transfer goes on right if it is right once it has gone on undisturbed.
LEMMA GoesOnRight ==
  ASSUME JobOK, NEW n \in Nat, NEW disturbed, JobGoesOn(n, disturbed),
         dma' \in 0..(ByteValues * ByteValues * ByteValues - 1), DOMAIN mem' = Addresses,
         ASSUME job # NoJob, JobShaped(job), job.clean, ~disturbed, cable' = cable, chip'.phase # "command",
                drive'[job.unit].head = drive[job.unit].head, JobRight(Machine, dma, mem, job),
                NEW k, JobShaped(k), Continues(job, k, n)
         PROVE  JobRight(After, dma', mem', k)
  PROVE  JobOK'
<1>1. CASE job = NoJob \/ chip'.phase = "command"
  <2>1. job' = NoJob
    BY <1>1 DEF JobGoesOn
  <2> QED BY <2>1 DEF JobOK, NoJob
<1>2. CASE ~(job = NoJob \/ chip'.phase = "command")
  <2> DEFINE b == job.clean /\ ~disturbed /\ cable' = cable /\ drive'[job.unit].head = drive[job.unit].head
             k == [job EXCEPT !.moved = @ + n, !.clean = b]
  <2>1. job' = k
    BY <1>2 DEF JobGoesOn
  <2>2. JobShaped(job) /\ (job.clean => JobRight(Machine, dma, mem, job))
    BY <1>2 DEF JobOK
  <2>3. Continues(job, k, n) /\ (k.clean <=> b) /\ DOMAIN k = DOMAIN job
    BY <2>2 DEF JobShaped, Continues
  <2> HIDE DEF k
  <2>4. JobShaped(k)
    BY <2>2, <2>3 DEF JobShaped, Continues
  <2>5. k.clean => JobRight(After, dma', mem', k)
    BY <1>2, <2>2, <2>3, <2>4
  <2> QED BY <2>1, <2>4, <2>5 DEF JobOK, After, Machine
<1> QED BY <1>1, <1>2

\* What refresh leaves of a transfer that stands right, while the head stands.
LEMMA RefreshRight ==
  ASSUME NEW s, Sane(s), Refresh(s), NEW a, NEW mm, NEW k, JobShaped(k), JobRight(s, a, mm, k),
         drive'[k.unit].head = s.drive[k.unit].head
  PROVE  JobRight(After, a, mm, k)
<1> DEFINE t == Polled(s)
<1>1. chip' = t.chip /\ drive' = t.drive /\ cable' = t.cable
  BY DEF Refresh
<1>2. JobRight(t, a, mm, k)
  BY <1>1, PolledRight
<1> HIDE DEF t
<1>3. After.chip = t.chip /\ After.drive = t.drive /\ After.cable = t.cable
  BY <1>1 DEF After
<1>4. Steady(t, After)
  BY <1>3 DEF Steady, SteadyChip
<1> QED BY <1>2, <1>3, <1>4, SteadyRight

\* A handler polls, does its work, and refreshes: the head that stands at the end stood
\* throughout.
LEMMA HandlerRight ==
  ASSUME Sane(Machine), NEW p, p = Polled(Machine), NEW s, Sane(s), Settled(s), Refresh(s),
         \A u \in Drives : s.drive[u].head = p.drive[u].head,
         JobShaped(job), JobRight(Machine, dma, mem, job), drive'[job.unit].head = drive[job.unit].head
  PROVE  /\ Sane(p) /\ JobRight(p, dma, mem, job) /\ p.chip.nd = chip.nd
         /\ \A k, a, mm : k.unit = job.unit /\ JobShaped(k) /\ JobRight(s, a, mm, k) => JobRight(After, a, mm, k)
<1>1. job.unit \in Drives /\ Order(job.cmd) /\ Machine.drive = drive /\ Machine.chip = chip
  BY MachineHas DEF JobShaped
<1>2. drive' = Polled(s).drive
  BY DEF Refresh
<1>3. drive'[job.unit].head = s.drive[job.unit].head
  BY <1>1, <1>2, SettledStays
<1>4. p.drive[job.unit].head = Machine.drive[job.unit].head
  BY <1>1, <1>3
<1>5. JobRight(p, dma, mem, job)
  BY <1>4, PolledRight
<1>6. p.chip.nd = chip.nd
  <2>1. PICK K \in Nat, n \in Nat : RightAt(Machine, dma, mem, job, K, n)
    BY DEF JobRight
  <2>2. At(Machine, job.cmd, job.unit, K, n, Bytes(mem))
    BY <2>1 DEF RightAt
  <2>3. Rests(Machine, p, K, n)
    BY <1>1, <1>4, <2>2, PolledAt
  <2> QED BY <1>1, <2>3 DEF Rests, Carries
<1>7. \A k, a, mm : k.unit = job.unit /\ JobShaped(k) /\ JobRight(s, a, mm, k) => JobRight(After, a, mm, k)
  BY <1>3, RefreshRight
<1> QED BY <1>5, <1>6, <1>7, PolledSettles

\* A running transfer goes the way its command says, and the counter shows where it has got.
LEMMA RunsRight ==
  ASSUME NEW s, NEW a, NEW mm, NEW j, JobShaped(j), JobRight(s, a, mm, j), s.chip.phase = "exec"
  PROVE  /\ s.chip.toMem = (j.cmd.op = "read") /\ j.cmd.op \in {"read", "write"}
         /\ ~s.chip.nd => Address(a) = Address(j.start + j.moved)
<1>1. PICK K \in Nat, n \in Nat : RightAt(s, a, mm, j, K, n)
  BY DEF JobRight
<1>2. Inside(s, j.cmd, j.unit, K + 1, n, Bytes(mm)) \/ (n = 0 /\ K # 0 /\ Between(s, j.cmd, j.unit, K))
  BY <1>1, RunsAt DEF RightAt
<1>3. s.chip.toMem = (j.cmd.op = "read")
  BY <1>2 DEF Inside, Between, OnSector, Runs
<1>4. ~s.chip.nd => a = CounterAt(j, j.moved)
  <2>1. Lost(s, j) = 0 /\ j.moved \in Nat
    BY DEF Lost, JobShaped
  <2> QED BY <1>1, <2>1 DEF RightAt
<1>5. Address(CounterAt(j, j.moved)) = Address(j.start + j.moved)
  BY CounterCounts DEF JobShaped
<1> QED BY <1>3, <1>4, <1>5 DEF JobShaped, Order

\* A byte moved leaves the seeks and the heads alone.
LEMMA ByteStands ==
  ASSUME NEW p, Sane(p), Settled(p), p.chip.phase = "exec", NEW b, NEW s, s \in {ByteOut(p), ByteIn(p, b)}
  PROVE  Sane(s) /\ Settled(s) /\ \A u \in Drives : s.drive[u].head = p.drive[u].head
<1>1. Shaped(p) /\ Working(p) /\ Moving(p.chip)
  BY DEF Sane, Working, Moving, Ordered
<1>2. Goes(p, s)
  BY <1>1, ByteGoes
<1>3. Sane(s)
  BY <1>1, ByteSane
<1>4. Settled(s)
  BY <1>2, SettledOn DEF Goes, Calm, Underway
<1> QED BY <1>2, <1>3, <1>4 DEF Goes, Calm

\* A step that leaves the memory and the counter, and ends a transfer or disturbs it.
LEMMA DisturbedRight ==
  ASSUME JobOK, UNCHANGED mem, dma' \in 0..(ByteValues * ByteValues * ByteValues - 1),
         job' = NoJob \/ JobGoesOn(0, TRUE)
  PROVE  JobOK'
<1>1. CASE job' = NoJob
  BY <1>1 DEF JobOK
<1>2. CASE JobGoesOn(0, TRUE)
  BY ZenonT(60), <1>2, GoesOnRight DEF JobOK
<1> QED BY <1>1, <1>2

\* A handler that moves no byte.
LEMMA QuietRight ==
  ASSUME IInv, JobOK, NEW p, p = Polled(Machine), NEW s, Sane(s), Settled(s), Refresh(s), s.drive = p.drive,
         Steady(p, s), JobGoesOn(0, FALSE), UNCHANGED <<mem, dma>>
  PROVE  JobOK'
<1>1. ASSUME JobShaped(job), drive'[job.unit].head = drive[job.unit].head, JobRight(Machine, dma, mem, job),
             NEW k, JobShaped(k), Continues(job, k, 0)
      PROVE  JobRight(After, dma', mem', k)
  <2>1. /\ JobRight(p, dma, mem, job)
        /\ \A j, a, mm : j.unit = job.unit /\ JobShaped(j) /\ JobRight(s, a, mm, j) => JobRight(After, a, mm, j)
    BY <1>1, HandlerRight DEF IInv
  <2>2. s.drive[job.unit].head = p.drive[job.unit].head
    OBVIOUS
  <2>3. JobRight(s, dma, mem, job)
    BY <1>1, <2>1, <2>2, SteadyRight
  <2>4. JobRight(After, dma, mem, job)
    BY <1>1, <2>1, <2>3
  <2>5. JobRight(After, dma, mem, k)
    BY <1>1, <2>4, SameJob
  <2> QED BY <2>5
<1> QED BY ZenonT(60), <1>1, GoesOnRight DEF JobOK

\* A byte out of the chip, by hand or by DMA.
LEMMA ByteOutRight ==
  ASSUME IInv, JobOK, NEW p, p = Polled(Machine), chip.phase = "exec", chip.toMem, Refresh(ByteOut(p)),
         JobGoesOn(IF ByteAvailable(p) THEN 1 ELSE 0, FALSE),
         job # NoJob => mem' = IF ByteAvailable(p)
                               THEN [mem EXCEPT ![IF chip.nd THEN Address(job.start + job.moved) ELSE Address(dma)] = ByteRead(p)]
                               ELSE mem,
         DOMAIN mem' = Addresses,
         dma' \in 0..(ByteValues * ByteValues * ByteValues - 1),
         ~chip.nd => dma' = IF ByteAvailable(p) THEN (dma + 1) % (ByteValues * ByteValues * ByteValues) ELSE dma
  PROVE  JobOK'
<1> DEFINE s == ByteOut(p)
<1>1. Machine.chip = chip /\ Machine.drive = drive
  BY MachineHas
<1>2. Sane(p) /\ Settled(p) /\ p.chip.phase = "exec"
  BY <1>1, PolledSettles DEF IInv, Still
<1>3. Sane(s) /\ Settled(s) /\ \A u \in Drives : s.drive[u].head = p.drive[u].head
  BY <1>2, ByteStands
<1>4. ASSUME job # NoJob, JobShaped(job), drive'[job.unit].head = drive[job.unit].head,
             JobRight(Machine, dma, mem, job),
             NEW k, JobShaped(k), Continues(job, k, IF ByteAvailable(p) THEN 1 ELSE 0)
      PROVE  JobRight(After, dma', mem', k)
  <2>1. /\ JobRight(p, dma, mem, job) /\ p.chip.nd = chip.nd
        /\ \A j, a, mm : j.unit = job.unit /\ JobShaped(j) /\ JobRight(s, a, mm, j) => JobRight(After, a, mm, j)
    BY <1>3, <1>4, HandlerRight DEF IInv
  <2>2. job.cmd.op = "read" /\ (~chip.nd => Address(dma) = Address(job.start + job.moved))
    <3>1. JobShaped(job) /\ JobRight(Machine, dma, mem, job) /\ Machine.chip.phase = "exec" /\ Machine.chip.toMem
      BY <1>1, <1>4
    <3> QED BY ONLY ZenonT(60), <1>1, <3>1, RunsRight
  <2>3. mem' = IF ByteAvailable(p) THEN With(mem, Address(job.start + job.moved), ByteRead(p)) ELSE mem
    BY <1>4, <2>2 DEF With
  <2>4. /\ DOMAIN mem = Addresses /\ JobShaped(job) /\ Continues(job, k, IF ByteAvailable(p) THEN 1 ELSE 0)
        /\ ~p.chip.nd => dma' = IF ByteAvailable(p) THEN (dma + 1) % (ByteValues * ByteValues * ByteValues) ELSE dma
    BY <1>4, <2>1 DEF JobOK
  <2>5. JobRight(ByteOut(p), dma', mem', k)
    BY ONLY <1>2, <2>1, <2>2, <2>3, <2>4, ReadRight
  <2>6. JobShaped(k) /\ k.unit = job.unit
    BY <1>4 DEF Continues
  <2> QED BY <2>1, <2>5, <2>6
<1>5. (IF ByteAvailable(p) THEN 1 ELSE 0) \in Nat
  OBVIOUS
<1> QED BY ZenonT(60), <1>4, <1>5, GoesOnRight

\* A byte into the chip, by hand or by DMA.
LEMMA ByteInRight ==
  ASSUME IInv, JobOK, NEW p, p = Polled(Machine), chip.phase = "exec", ~chip.toMem, NEW b, Refresh(ByteIn(p, b)),
         JobGoesOn(IF ByteAvailable(p) THEN 1 ELSE 0, FALSE),
         job # NoJob => b = mem[IF chip.nd THEN Address(job.start + job.moved) ELSE Address(dma)],
         UNCHANGED mem,
         dma' \in 0..(ByteValues * ByteValues * ByteValues - 1),
         ~chip.nd => dma' = (dma + 1) % (ByteValues * ByteValues * ByteValues)
  PROVE  JobOK'
<1> DEFINE s == ByteIn(p, b)
<1>1. Machine.chip = chip /\ Machine.drive = drive
  BY MachineHas
<1>2. Sane(p) /\ Settled(p) /\ p.chip.phase = "exec"
  BY <1>1, PolledSettles DEF IInv, Still
<1>3. Sane(s) /\ Settled(s) /\ \A u \in Drives : s.drive[u].head = p.drive[u].head
  BY <1>2, ByteStands
<1>4. ASSUME job # NoJob, JobShaped(job), drive'[job.unit].head = drive[job.unit].head,
             JobRight(Machine, dma, mem, job),
             NEW k, JobShaped(k), Continues(job, k, IF ByteAvailable(p) THEN 1 ELSE 0)
      PROVE  JobRight(After, dma', mem', k)
  <2>1. /\ JobRight(p, dma, mem, job) /\ p.chip.nd = chip.nd
        /\ \A j, a, mm : j.unit = job.unit /\ JobShaped(j) /\ JobRight(s, a, mm, j) => JobRight(After, a, mm, j)
    BY <1>3, <1>4, HandlerRight DEF IInv
  <2>2. job.cmd.op = "write" /\ (~chip.nd => Address(dma) = Address(job.start + job.moved))
    BY ZenonT(60), <1>1, <1>4, RunsRight
  <2>3. b = mem[Address(job.start + job.moved)] /\ DOMAIN mem = Addresses
    BY <1>4, <2>2 DEF JobOK
  <2>4. JobRight(s, dma', mem, k)
    BY ZenonT(60), <1>2, <1>4, <2>1, <2>2, <2>3, WriteRight
  <2>5. JobShaped(k) /\ k.unit = job.unit
    BY <1>4 DEF Continues
  <2> QED BY <2>1, <2>4, <2>5
<1>5. (IF ByteAvailable(p) THEN 1 ELSE 0) \in Nat /\ DOMAIN mem' = Addresses
  BY DEF JobOK
<1> QED BY ZenonT(60), <1>4, <1>5, GoesOnRight

\* The last byte of a read or write begins the history of a transfer.
LEMMA LastByteRight ==
  ASSUME IInv, JobOK, LastByte
  PROVE  JobOK'
<1> DEFINE p == Polled(Machine)
           g == chip.got
           z == Execute(p)
           v == Unit(p, g.us)
<1>1. Machine.chip = chip /\ Machine.drive = drive /\ Machine.cable = cable
  BY MachineHas
<1>2. /\ chip.phase = "command" /\ g # NoCommand /\ Refresh(z) /\ job' = NewJob(g) /\ dma' = dma /\ mem' = mem
  BY DEF LastByte, PortCycle
<1>3. Sane(p) /\ Settled(p) /\ p.chip.phase = "command" /\ p.chip.got = g /\ p.cable = cable
  BY <1>1, <1>2, PolledSettles DEF IInv, Still
<1>4. CASE g.op \notin {"read", "write"} \/ chip'.phase \notin {"wait", "exec"}
  <2>1. job' = NoJob
    BY <1>2, <1>4 DEF NewJob
  <2> QED BY <1>2, <2>1 DEF JobOK
<1>5. CASE ~(g.op \notin {"read", "write"} \/ chip'.phase \notin {"wait", "exec"})
  <2> DEFINE k == [cmd |-> g, unit |-> Unit([cable |-> cable], g.us), start |-> dma, moved |-> 0, clean |-> TRUE,
                   drive |-> drive', mem |-> mem]
             S == Bytes(mem)
  <2>1. Order(g)
    BY <1>2, <1>3, <1>5 DEF Sane, Ordered, Order
  <2>2. job' = k
    BY <1>2, <1>5 DEF NewJob
  <2>3. v = k.unit /\ v \in Drives /\ g.us \in Drives
    <3>1. g.us \in Drives
      BY <2>1 DEF Order, Given, DataOps
    <3> QED BY <1>3, <3>1, UnitIsDrive DEF Unit, Sane
  <2>4. z.chip.phase = "result" \/ (Settled(z) /\ At(z, g, v, 0, 0, S))
    <3> HIDE DEF p, g
    <3> QED BY <1>3, <2>1, ExecuteBegins
  <2>5. Sane(z)
    BY <1>3, <2>1, ExecuteLeads DEF Order
  <2> HIDE DEF p, z
  <2>6. chip' = Polled(z).chip /\ drive' = Polled(z).drive /\ cable' = Polled(z).cable
    BY <1>2 DEF Refresh
  <2>7. z.chip.phase # "result"
    BY <1>5, <2>5, <2>6, PolledSettles DEF Still
  <2>8. Polled(z).drive[v].head = z.drive[v].head
    BY <2>3, <2>4, <2>5, <2>7, SettledStays
  <2>9. At(Polled(z), g, v, 0, 0, S)
    <3> HIDE DEF v, S, g
    <3>1. Order(g) /\ v \in Drives /\ At(z, g, v, 0, 0, S) /\ 0 \in Nat
      BY <2>1, <2>3, <2>4, <2>7
    <3> QED BY ONLY <2>5, <2>8, <3>1, PolledAt
  <2>10. Steady(Polled(z), After) /\ After.drive = drive'
    BY <2>6 DEF After, Steady, SteadyChip
  <2>11. At(After, g, v, 0, 0, S)
    <3>1. After.drive[v].head = Polled(z).drive[v].head
      BY <2>6, <2>10
    <3> HIDE DEF v, S, g
    <3> QED BY <2>3, <2>9, <2>10, <3>1, AtSteady
  <2>12. dma \in Nat /\ dma < ByteValues * ByteValues * ByteValues
    <3> DEFINE d == ByteValues * ByteValues * ByteValues
    <3>1. d \in Nat \ {0} /\ dma \in 0..(d - 1)
      BY AddressConstants DEF JobOK
    <3> HIDE DEF d
    <3> QED BY <3>1 DEF d
  <2>13. /\ k.cmd = g /\ k.start = dma /\ k.moved = 0 /\ k.drive = drive' /\ k.mem = mem
         /\ DOMAIN k = {"cmd", "unit", "start", "moved", "clean", "drive", "mem"}
    OBVIOUS
  <2>14. JobShaped(k)
    BY <2>1, <2>3, <2>12 DEF JobShaped
  <2> HIDE DEF k
  <2>15. CounterAt(k, 0) = dma
    <3> DEFINE d == ByteValues * ByteValues * ByteValues
    <3>1. d \in Nat \ {0} /\ dma \in 0..(d - 1) /\ CounterAt(k, 0) = (dma + 0) % d
      BY <2>12, <2>13, AddressConstants DEF CounterAt
    <3> HIDE DEF d
    <3>2. dma % d = dma
      <4>1. (d * 0 + dma) % d = dma
        BY <3>1, Remainder
      <4>2. d * 0 + dma = dma
        BY <3>1
      <4> QED BY <4>1, <4>2
    <3>3. dma + 0 = dma
      BY <2>12
    <3> QED BY <3>1, <3>2, <3>3
  <2>16. RightAt(After, dma, mem, k, 0, 0)
    <3>1. 0 = 0 * SecLen + 0
      BY AddressConstants
    <3>2. Lost(After, k) = 0
      BY <2>13 DEF Lost
    <3>3. Present(After.drive[k.unit].data, k.cmd, 0)
      BY DEF Present
    <3>4. Whole(After, mem, k, 0) /\ Part(After, mem, k, 0, 0)
      BY DEF Whole, Part
    <3>5. Untouched(After, mem, k, 0)
      BY <2>10, <2>13 DEF Untouched
    <3>6. k.moved + Lost(After, k) = 0
      BY <2>13, <3>2
    <3> QED BY <2>3, <2>11, <2>13, <2>15, <3>1, <3>3, <3>4, <3>5, <3>6 DEF RightAt
  <2>17. JobRight(After, dma, mem, k)
    BY <2>16 DEF JobRight
  <2> QED BY <1>2, <2>2, <2>14, <2>17 DEF JobOK, After, Machine
<1> QED BY <1>4, <1>5

\* What the guest does at the ports.
LEMMA GuestRight ==
  ASSUME IInv, JobOK, Guest
  PROVE  JobOK'
<1> DEFINE p == Polled(Machine)
<1>1. Sane(p) /\ Settled(p) /\ Still(Machine, p) /\ p.cable = cable
  BY PolledSettles, MachineHas DEF IInv
<1>2. Machine.chip = chip /\ Machine.cable = cable
  BY MachineHas
<1>3. dma \in 0..(ByteValues * ByteValues * ByteValues - 1) /\ DOMAIN mem = Addresses
  BY DEF JobOK
<1> HIDE DEF p
<1>4. CASE ReadStatus
  BY <1>1, <1>4, QuietRight, SteadySelf DEF ReadStatus, PortCycle, p
<1>5. CASE LastByte
  BY <1>5, LastByteRight
<1>6. CASE ReadResult
  <2> DEFINE s == ResultRead(p)
  <2>1. chip.phase = "result" /\ Refresh(s) /\ JobGoesOn(0, FALSE) /\ UNCHANGED <<mem, dma>>
    BY <1>6 DEF ReadResult, PortCycle, p
  <2>2. Sane(s)
    BY <1>1, ResultReadKeeps
  <2>3. /\ s.drive = p.drive /\ s.chip.seek = p.chip.seek /\ s.chip.phase \in {"command", "result"}
    <3> DEFINE x == [p EXCEPT !.chip.resultInt = FALSE, !.chip.left = @ - 1]
               y == [x EXCEPT !.chip.phase = "command", !.chip.got = NoCommand]
    <3>1. s \in {x, y}
      BY DEF ResultRead, ToCommand
    <3>2. /\ x.drive = p.drive /\ x.chip.seek = p.chip.seek /\ x.chip.phase = p.chip.phase
          /\ DOMAIN x = DOMAIN p /\ DOMAIN x.chip = DOMAIN p.chip
      BY <1>1 DEF Sane, Shaped, Registers
    <3> HIDE DEF x
    <3>3. y.drive = p.drive /\ y.chip.seek = p.chip.seek /\ y.chip.phase = "command"
      BY <1>1, <3>2 DEF Sane, Shaped, Registers
    <3>4. p.chip.phase = "result"
      BY <1>1, <1>2, <2>1 DEF Still
    <3> HIDE DEF y, s
    <3> QED BY <3>1, <3>2, <3>3, <3>4
  <2>4. CASE s.chip.phase = "command"
    <3>1. chip'.phase = "command"
      <4> HIDE DEF s
      <4>1. chip' = Polled(s).chip
        BY <2>1 DEF Refresh
      <4> QED BY <2>2, <2>4, <4>1, PolledSettles DEF Still
    <3>2. job' = NoJob
      BY <2>1, <3>1 DEF JobGoesOn
    <3> QED BY <1>3, <2>1, <3>2, DisturbedRight
  <2>5. CASE s.chip.phase # "command"
    <3>1. Steady(p, s)
      BY <1>1, <2>5, ResultReadSteady DEF Sane
    <3>2. Settled(s)
      BY <1>1, <2>3, SettledOn
    <3> HIDE DEF s
    <3> QED BY <2>1, <2>2, <2>3, <3>1, <3>2, QuietRight DEF p
  <2> QED BY <2>4, <2>5
<1>7. CASE HandRead
  <2>1. /\ chip.nd /\ chip.phase = "exec" /\ chip.toMem /\ Refresh(ByteOut(p))
        /\ JobGoesOn(IF ByteAvailable(p) THEN 1 ELSE 0, FALSE) /\ dma' = dma
        /\ mem' = IF job # NoJob /\ ByteAvailable(p)
                  THEN [mem EXCEPT ![Address(job.start + job.moved)] = ByteRead(p)] ELSE mem
    BY <1>7 DEF HandRead, PortCycle, Moving, p
  <2>2. DOMAIN mem' = Addresses
    BY <1>3, <2>1
  <2>3. job # NoJob => mem' = IF ByteAvailable(p)
          THEN [mem EXCEPT ![IF chip.nd THEN Address(job.start + job.moved) ELSE Address(dma)] = ByteRead(p)]
          ELSE mem
    BY <2>1
  <2> QED BY <1>3, <2>1, <2>2, <2>3, ByteOutRight DEF p
<1>8. CASE HandWrite
  <2> DEFINE b == mem[Address(IF job = NoJob THEN dma ELSE job.start + job.moved)]
  <2>1. /\ chip.nd /\ chip.phase = "exec" /\ ~chip.toMem /\ Refresh(ByteIn(p, b))
        /\ JobGoesOn(IF ByteAvailable(p) THEN 1 ELSE 0, FALSE) /\ dma' = dma /\ mem' = mem
    BY <1>8 DEF HandWrite, PortCycle, Moving, p
  <2>2. job # NoJob => b = mem[IF chip.nd THEN Address(job.start + job.moved) ELSE Address(dma)]
    BY <2>1
  <2> HIDE DEF b
  <2> QED BY <1>3, <2>1, <2>2, ByteInRight DEF p
<1>9. ASSUME NEW c \in rig.commands, FirstByte(c)
      PROVE  JobOK'
  BY <1>3, <1>9, DisturbedRight DEF FirstByte
<1>10. ASSUME NEW b \in 0..1, WriteDma(b)
       PROVE  JobOK'
  <2> DEFINE x == dma * ByteValues + b
  <2>1. dma' = x % (ByteValues * ByteValues * ByteValues) /\ mem' = mem /\ JobGoesOn(0, TRUE)
    BY <1>10 DEF WriteDma
  <2>2. x \in Nat
    <3>1. dma \in Nat /\ ByteValues \in Nat /\ b \in Nat
      BY <1>3, AddressConstants
    <3> QED BY <3>1
  <2> HIDE DEF x
  <2>3. dma' \in 0..(ByteValues * ByteValues * ByteValues - 1)
    BY <2>1, <2>2, CounterWraps
  <2> QED BY <2>1, <2>3, DisturbedRight
<1>11. ASSUME NEW k \in Cables, WriteSelect(k)
       PROVE  JobOK'
  <2> DEFINE x == [p EXCEPT !.cable = k]
  <2>1. Refresh(x) /\ JobGoesOn(0, k # cable) /\ UNCHANGED <<mem, dma>>
    BY <1>11 DEF WriteSelect, PortCycle, p
  <2>2. CASE k # cable
    <3>1. JobGoesOn(0, TRUE)
      BY <2>1, <2>2 DEF JobGoesOn
    <3> QED BY <1>3, <2>1, <3>1, DisturbedRight
  <2>3. CASE k = cable
    <3>1. x.drive = p.drive /\ x.chip = p.chip /\ x.cable = p.cable /\ DOMAIN x = DOMAIN p
      BY <1>1, <2>3 DEF Sane, Shaped
    <3>2. JobGoesOn(0, FALSE)
      BY <2>1, <2>3 DEF JobGoesOn
    <3> HIDE DEF x
    <3>3. Sane(x) /\ Settled(x) /\ Steady(p, x)
      <4>1. Shaped(x) /\ Sought(x)
        BY <1>1, <3>1 DEF Sane, Shaped, Sought
      <4> QED BY <1>1, <3>1, <4>1 DEF Sane, Settled, AllClear, Clear, Steady, SteadyChip
    <3> QED BY <2>1, <3>1, <3>2, <3>3, QuietRight DEF p
  <2> QED BY <2>2, <2>3
<1>12. ASSUME NEW on \in BOOLEAN, WriteMotor(on)
       PROVE  JobOK'
  BY <1>1, <1>12, QuietRight, SteadySelf DEF WriteMotor, p
<1> QED BY <1>4, <1>5, <1>6, <1>7, <1>8, <1>9, <1>10, <1>11, <1>12 DEF Guest, Cables

\* A byte by DMA.
LEMMA TransferRight ==
  ASSUME IInv, JobOK, Transfer1
  PROVE  JobOK'
<1> DEFINE p == Polled(Machine)
           d == ByteValues * ByteValues * ByteValues
<1>1. dma \in 0..(d - 1) /\ DOMAIN mem = Addresses /\ dma + 1 \in Nat
  <2>1. d \in Nat /\ dma \in 0..(d - 1) /\ DOMAIN mem = Addresses
    BY AddressConstants DEF JobOK
  <2> HIDE DEF d
  <2> QED BY <2>1
<1>2. (dma + 1) % d \in 0..(d - 1)
  BY <1>1, CounterWraps
<1> HIDE DEF p, d
<1>3. CASE TransferIn
  <2>1. /\ ~chip.nd /\ chip.phase = "exec" /\ chip.toMem /\ Refresh(ByteOut(p))
        /\ JobGoesOn(IF ByteAvailable(p) THEN 1 ELSE 0, FALSE)
        /\ mem' = IF ByteAvailable(p) THEN [mem EXCEPT ![Address(dma)] = ByteRead(p)] ELSE mem
        /\ dma' = IF ByteAvailable(p) THEN (dma + 1) % d ELSE dma
    BY <1>3 DEF TransferIn, Drq, Moving, p, d
  <2>2. DOMAIN mem' = Addresses /\ dma' \in 0..(d - 1)
    BY <1>1, <1>2, <2>1
  <2>3. job # NoJob => mem' = IF ByteAvailable(p)
          THEN [mem EXCEPT ![IF chip.nd THEN Address(job.start + job.moved) ELSE Address(dma)] = ByteRead(p)]
          ELSE mem
    BY <2>1
  <2> QED BY <2>1, <2>2, <2>3, ByteOutRight DEF p, d
<1>4. CASE TransferOut
  <2> DEFINE b == mem[Address(dma)]
  <2>1. /\ ~chip.nd /\ chip.phase = "exec" /\ ~chip.toMem /\ Refresh(ByteIn(p, b))
        /\ JobGoesOn(IF ByteAvailable(p) THEN 1 ELSE 0, FALSE)
        /\ mem' = mem /\ dma' = (dma + 1) % d
    BY <1>4 DEF TransferOut, Drq, Moving, p, d
  <2>2. job # NoJob => b = mem[IF chip.nd THEN Address(job.start + job.moved) ELSE Address(dma)]
    BY <2>1
  <2> HIDE DEF b
  <2> QED BY <1>2, <2>1, <2>2, ByteInRight DEF p, d
<1> QED BY <1>3, <1>4 DEF Transfer1

\* A handler that refreshes and does nothing before it.
LEMMA PumpRight ==
  ASSUME IInv, JobOK, NEW s, Sane(s), Refresh(s), s.drive = drive, Steady(Machine, s),
         JobGoesOn(0, FALSE), UNCHANGED <<mem, dma>>
  PROVE  JobOK'
<1>1. ASSUME JobShaped(job), drive'[job.unit].head = drive[job.unit].head, JobRight(Machine, dma, mem, job),
             NEW k, Continues(job, k, 0)
      PROVE  JobRight(After, dma', mem', k)
  <2>1. s.drive[job.unit].head = Machine.drive[job.unit].head
    BY MachineHas
  <2>2. JobRight(s, dma, mem, job)
    BY <1>1, <2>1, SteadyRight
  <2>3. JobRight(After, dma, mem, job)
    BY <1>1, <2>2, RefreshRight
  <2>4. JobRight(After, dma, mem, k)
    BY <1>1, <2>3, SameJob
  <2> QED BY <2>4
<1> QED BY ZenonT(60), <1>1, GoesOnRight DEF JobOK

\* A T-state.
LEMMA TickRight ==
  ASSUME IInv, JobOK, Tick
  PROVE  JobOK'
<1> DEFINE s == [Machine EXCEPT !.chip = Aged(@)]
<1>1. /\ IF wake = 1 THEN Refresh(s)
         ELSE chip' = s.chip /\ wake' = Less(wake) /\ UNCHANGED <<drive, cable, hold, int>>
      /\ JobGoesOn(0, FALSE) /\ UNCHANGED <<mem, dma>>
  BY DEF Tick
<1>2. Machine.chip = chip /\ Machine.drive = drive /\ Machine.cable = cable /\ Sane(Machine)
  BY MachineHas DEF IInv
<1>3. Sane(s) /\ s.drive = drive /\ s.cable = cable /\ Steady(Machine, s)
  <2> HIDE DEF s
  <2>1. s = [Machine EXCEPT !.chip = Aged(Machine.chip)]
    BY DEF s
  <2>2. Shaped(Machine)
    BY <1>2 DEF Sane
  <2>3. Older(Machine, s)
    BY <1>2, <2>1, AgedKeeps
  <2>4. Steady(Machine, s)
    BY <2>1, <2>2, AgedSteady
  <2> QED BY <1>2, <2>3, <2>4 DEF Older
<1> HIDE DEF s
<1>4. CASE wake = 1
  BY <1>1, <1>3, <1>4, PumpRight
<1>5. CASE wake # 1
  <2>1. chip' = s.chip /\ drive' = s.drive /\ cable' = s.cable
    BY <1>1, <1>3, <1>5
  <2>2. After.chip = s.chip /\ After.drive = s.drive /\ After.cable = s.cable
    BY <2>1 DEF After
  <2>3. Steady(Machine, After)
    BY <1>3, <2>2 DEF Steady, SteadyChip
  <2>4. ASSUME JobShaped(job), JobRight(Machine, dma, mem, job), NEW k, Continues(job, k, 0)
        PROVE  JobRight(After, dma', mem', k)
    <3>1. After.drive[job.unit].head = Machine.drive[job.unit].head
      BY <1>2, <1>3, <2>2
    <3>2. JobRight(After, dma, mem, job)
      BY <2>3, <2>4, <3>1, SteadyRight
    <3>3. JobRight(After, dma, mem, k)
      BY <2>4, <3>2, SameJob
    <3> QED BY <1>1, <3>3
  <2> QED BY ZenonT(60), <1>1, <2>4, GoesOnRight DEF JobOK
<1> QED BY <1>4, <1>5

\* Diskettes, RESET, POWER and time.
LEMMA WorldRight ==
  ASSUME IInv, JobOK, World
  PROVE  JobOK'
<1>1. dma \in 0..(ByteValues * ByteValues * ByteValues - 1)
  BY DEF JobOK
<1>2. CASE Tick
  BY <1>2, TickRight
<1>3. CASE Pump
  <2>1. Refresh(Machine) /\ JobGoesOn(0, FALSE) /\ UNCHANGED <<mem, dma>>
    BY <1>3 DEF Pump
  <2> QED BY <2>1, PumpRight, MachineHas, SteadySelf DEF IInv
<1>4. CASE Reset \/ PowerOn
  BY <1>1, <1>4, DisturbedRight DEF Reset, PowerOn, ResetWith
<1>5. ASSUME NEW u \in Drives, Mount(u) \/ Unmount(u)
      PROVE  JobOK'
  BY <1>1, <1>5, DisturbedRight DEF Mount, Unmount
<1> QED BY <1>2, <1>3, <1>4, <1>5 DEF World

\* Whatever is done, an undisturbed transfer is right as far as it has got.
THEOREM Transfers == Spec => []JobOK
<1>1. Init => JobOK
  <2> SUFFICES ASSUME Init
               PROVE  JobOK
    OBVIOUS
  <2>1. dma = 0 /\ mem = Blank /\ job = NoJob
    BY DEF Init
  <2>2. 0 \in 0..(ByteValues * ByteValues * ByteValues - 1)
    <3> DEFINE d == ByteValues * ByteValues * ByteValues
    <3>1. d \in Nat \ {0}
      BY AddressConstants
    <3> HIDE DEF d
    <3>2. 0 \in 0..(d - 1)
      BY <3>1
    <3> QED BY <3>2 DEF d
  <2>3. DOMAIN mem = Addresses
    BY <2>1 DEF Blank
  <2> QED BY <2>1, <2>2, <2>3 DEF JobOK
<1>2. IInv /\ JobOK /\ [Next]_vars => JobOK'
  <2> SUFFICES ASSUME IInv, JobOK, [Next]_vars
               PROVE  JobOK'
    OBVIOUS
  <2>1. CASE Guest
    BY <2>1, GuestRight
  <2>2. CASE Transfer1
    BY <2>2, TransferRight
  <2>3. CASE World
    BY <2>3, WorldRight
  <2>4. CASE UNCHANGED vars
    <3>1. chip' = chip /\ drive' = drive /\ cable' = cable /\ dma' = dma /\ mem' = mem /\ job' = job
      BY <2>4 DEF vars, wires, past
    <3>2. Machine' = Machine
      BY <3>1 DEF Machine
    <3> QED BY <3>1, <3>2 DEF JobOK
  <2> QED BY <2>1, <2>2, <2>3, <2>4 DEF Next
<1> QED BY <1>1, <1>2, Inductive, PTL DEF Spec

\* A read or write that nobody disturbed, at its result: whole sectors, the ones asked for in
\* the order asked, the disk and as much of the memory as there is agree byte for byte, nothing
\* else has changed, End of Cylinder tells whether all went through, and the counter stands
\* behind the last byte taken.
THEOREM TransfersRight == Spec => []TransferIsWhole
<1>1. JobOK => TransferIsWhole
  <2> SUFFICES ASSUME JobOK, job # NoJob, chip.phase = "result", job.clean
               PROVE  /\ job.moved % SecLen = 0 /\ \A k \in 0..(Moved - 1) : ~Complete(job.cmd, k)
                      /\ "EN" \in chip.res.st1 <=> Complete(job.cmd, Moved)
                      /\ (FitsMemory => Agrees) /\ OthersAsBefore
                      /\ ~chip.nd => dma = Counted(job.moved + IF LostOne THEN 1 ELSE 0)
    BY DEF TransferIsWhole
  <2>1. Machine.chip = chip /\ Machine.drive = drive
    BY MachineHas
  <2>2. JobShaped(job) /\ JobRight(Machine, dma, mem, job)
    BY DEF JobOK
  <2>3. PICK K \in Nat, n \in Nat : RightAt(Machine, dma, mem, job, K, n)
    BY <2>2 DEF JobRight
  <2>4. At(Machine, job.cmd, job.unit, K, n, Bytes(mem))
    BY <2>3 DEF RightAt
  <2>5. n = 0 /\ Over(Machine, job.cmd, K) /\ \A q \in 0..(K - 1) : ~Complete(job.cmd, q)
    BY <2>1, <2>4 DEF At, Waiting, Inside, Between, OnSector, Runs
  <2>6. job.moved = K * SecLen /\ job.moved % SecLen = 0 /\ Moved = K
    <3>1. job.moved = K * SecLen
      BY <2>3, <2>5, AddressConstants DEF RightAt
    <3> QED BY <3>1, AddressConstants, WholeSectors DEF Moved
  <2>7. "EN" \in chip.res.st1 <=> Complete(job.cmd, Moved)
    BY SMTT(30), <2>1, <2>5, <2>6 DEF Over
  <2>8. FitsMemory => Agrees
    <3>1. FitsMemory => Whole(Machine, mem, job, K)
      BY <2>3 DEF RightAt, FitsMemory, Fits
    <3> QED BY <2>1, <2>6, <3>1 DEF Whole, SectorOf, Agrees
  <2>9. OthersAsBefore
    <3>1. Untouched(Machine, mem, job, K)
      BY <2>3 DEF RightAt
    <3> QED BY <2>1, <2>6, <3>1 DEF Untouched, OthersAsBefore, MovedAddresses
  <2>10. ~chip.nd => dma = Counted(job.moved + IF LostOne THEN 1 ELSE 0)
    <3>1. Lost(Machine, job) = IF LostOne THEN 1 ELSE 0
      BY <2>1 DEF Lost, LostOne
    <3>2. ~chip.nd => dma = CounterAt(job, job.moved + Lost(Machine, job))
      BY <2>1, <2>3 DEF RightAt
    <3> QED BY <3>1, <3>2 DEF CounterAt, Counted
  <2> QED BY <2>5, <2>6, <2>7, <2>8, <2>9, <2>10
<1> QED BY <1>1, Transfers, PTL
=============================================================================
