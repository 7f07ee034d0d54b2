-------------------------- MODULE SerialCards_proof --------------------------
(***************************************************************************)
(* Proofs about SerialCards, for any rigs, character times and bounds.     *)
(*                                                                         *)
(* Two things keep the pin right with nobody polling.  Every handler of a  *)
(* card ends in Refresh, so a lemma about Refresh (Lands) does for all of  *)
(* them; and until the deadline Refresh leaves is due, time moves no chip  *)
(* past a moment the card listens to (Ages), so that what it announced     *)
(* stays what its registers say (Told).                                    *)
(*                                                                         *)
(* No byte is lost because what a chip holds, followed by what its line    *)
(* holds, is always the bytes after the last one the guest saw, in order   *)
(* (Streams): polls move them along, a read takes the first, an arrival    *)
(* adds the next, and a reset starts the count anew.                       *)
(***************************************************************************)
EXTENDS SerialCards, SequenceTheorems, WellFoundedInduction, TLAPS

Stages == [hold : Nat, line : Nat]
Chips1602 == [chip : {"1602"}, rdy : BOOLEAN, data : Nat, next : Nat, tx : Stages]
Chips8251 ==
  [chip : {"8251"}, rdy : BOOLEAN, data : Nat, next : {0}, tx : Stages, active : BOOLEAN,
   pend : Nat, done : Nat, expect : BOOLEAN, mode : ControlBytes, cmd : SUBSET {"ir", "rxe", "txe"}]
Chips5501 ==
  [chip : {"5501"}, real : BOOLEAN, rdy : BOOLEAN, data : Nat, next : Nat, tx : Stages, room : BOOLEAN]
PortLatches == [chip : {"latch"}, rdy : BOOLEAN, data : Nat]

\* A chip never holds two bytes: an 8251 shifts one in only while it has none to give.
OneByte(u) == u.chip = "8251" => ~(u.rdy /\ u.active)
IsChip(u) == u \in Chips1602 \cup Chips8251 \cup Chips5501 \cup PortLatches /\ OneByte(u)

Lines == [in : Seq(Nat), room : BOOLEAN, paces : BOOLEAN, paced : BOOLEAN]

\* A poll finds nothing to do.
Settled(u, l) == Polled(u, l) = u

-----------------------------------------------------------------------------
(***************************************************************************)
(* A chip and its line.                                                    *)
(***************************************************************************)
\* What a chip holds of its line is one byte or none.
LEMMA HeldIs ==
  ASSUME NEW u, IsChip(u)
  PROVE  /\ Held(u) \in Seq(Nat)
         /\ u.rdy => Held(u) = <<u.data>> /\ u.data \in Nat
         /\ ~u.rdy /\ ~(u.chip = "8251" /\ u.active) => Held(u) = <<>>
         /\ ~u.rdy /\ u.chip = "8251" /\ u.active => Held(u) = <<u.pend>> /\ u.pend \in Nat
<1>1. \A x \in Nat : <<x>> \in Seq(Nat) /\ <<x>> \o <<>> = <<x>> /\ <<>> \o <<x>> = <<x>>
  BY ConcatEmptySeq
<1>2. <<>> \in Seq(Nat) /\ <<>> \o <<>> = <<>>
  BY ConcatEmptySeq
<1>3. /\ u.rdy \in BOOLEAN /\ u.data \in Nat
      /\ u.chip = "8251" => u.active \in BOOLEAN /\ u.pend \in Nat
  BY DEF IsChip, Chips1602, Chips8251, Chips5501, PortLatches
<1>4. CASE u.rdy
  <2>1. Held(u) = <<u.data>> \o <<>>
    BY <1>4 DEF Held, IsChip, OneByte
  <2> QED BY <1>1, <1>3, <1>4, <2>1
<1>5. CASE ~u.rdy /\ u.chip = "8251" /\ u.active
  <2>1. Held(u) = <<>> \o <<u.pend>>
    BY <1>5 DEF Held
  <2> QED BY <1>1, <1>3, <1>5, <2>1
<1>6. CASE ~u.rdy /\ ~(u.chip = "8251" /\ u.active)
  <2>1. Held(u) = <<>> \o <<>>
    BY <1>6 DEF Held
  <2> QED BY <1>2, <1>6, <2>1
<1> QED
  BY <1>3, <1>4, <1>5, <1>6

\* The three things a poll can find: a whole character in the shift register, a byte to
\* take, or neither.
LEMMA PollCases ==
  ASSUME NEW u, IsChip(u), NEW l \in Lines
  PROVE  LET g == IF u.chip = "5501" THEN [u EXCEPT !.room = l.room] ELSE u IN
         /\ FrameDone(u) => /\ ~Takes(u, l) /\ ~u.rdy
                            /\ Polled(u, l) = [u EXCEPT !.rdy = TRUE, !.data = u.pend, !.active = FALSE, !.next = 0]
         /\ ~FrameDone(u) /\ Takes(u, l) => Polled(u, l) = Taken(g, l) /\ Waiting(u, l)
         /\ ~FrameDone(u) /\ ~Takes(u, l) => Polled(u, l) = g
<1>1. CASE FrameDone(u)
  <2> DEFINE f == [u EXCEPT !.rdy = TRUE, !.data = u.pend, !.active = FALSE, !.next = 0]
  <2>1. u \in Chips8251 /\ u.active /\ u.rdy \in BOOLEAN
    BY <1>1 DEF FrameDone, IsChip, Chips1602, Chips8251, Chips5501, PortLatches
  <2>2. Framed(u) = f
    BY <1>1 DEF Framed
  <2>3. f.rdy = TRUE /\ f.chip = "8251"
    BY <2>1 DEF Chips8251
  <2>4. ~Waiting(f, l)
    BY <2>3 DEF Waiting
  <2> HIDE DEF f
  <2>5. ~Takes(u, l)
    BY <2>2, <2>4 DEF Takes
  <2>6. Polled(u, l) = f
    BY <2>2, <2>3, <2>5 DEF Polled
  <2> QED BY <1>1, <2>1, <2>5, <2>6 DEF f, IsChip, OneByte, Chips8251
<1>2. CASE ~FrameDone(u)
  <2>1. Framed(u) = u
    BY <1>2 DEF Framed
  <2> QED BY <1>2, <2>1 DEF Polled, Takes
<1> QED
  BY <1>1, <1>2

\* Taking a byte: the chip has none, and the byte is the first of the line.
LEMMA Takings ==
  ASSUME NEW u, IsChip(u), NEW l \in Lines, Waiting(u, l)
  PROVE  LET t == Taken(u, l) IN
         /\ IsChip(t) /\ t.chip = u.chip
         /\ Held(u) = <<>> /\ Held(t) = <<Head(l.in)>>
         /\ u.chip # "latch" /\ ~u.rdy
         /\ u.chip = "8251" => /\ t.active /\ t.done # 0 /\ ~t.rdy
                               /\ t.cmd = u.cmd
         /\ u.chip # "8251" => t.rdy
         /\ u.chip = "5501" => t.room = u.room
<1> DEFINE t == Taken(u, l)
<1>1. Head(l.in) \in Nat /\ l.in # <<>>
  BY HeadTailProperties DEF Lines, Waiting, Readable
<1>2. CharT \in Nat \ {0}
  BY UartsAssumption
<1>3. ~u.rdy /\ u.chip # "latch" /\ (u.chip = "8251" => ~u.active)
  BY DEF Waiting
<1>4. CASE u.chip = "8251"
  <2>1. t = [u EXCEPT !.pend = Head(l.in), !.active = TRUE, !.done = CharT]
    BY <1>4 DEF Taken
  <2>2. u \in Chips8251
    BY <1>4 DEF IsChip, Chips1602, Chips8251, Chips5501, PortLatches
  <2> HIDE DEF t
  <2>3. t \in Chips8251 /\ ~t.rdy /\ t.active /\ t.done = CharT /\ t.pend = Head(l.in) /\ t.cmd = u.cmd
    BY <1>1, <1>2, <1>3, <2>1, <2>2 DEF Chips8251
  <2>4. t.chip = "8251"
    BY <2>3 DEF Chips8251
  <2>5. IsChip(t)
    BY <2>3 DEF IsChip, OneByte
  <2>6. Held(t) = <<Head(l.in)>>
    BY <2>3, <2>4, <2>5, HeldIs
  <2> QED BY <1>2, <1>3, <1>4, <2>3, <2>4, <2>5, <2>6, HeldIs DEF t
<1>5. CASE u.chip # "8251"
  <2> DEFINE n == IF u.chip = "5501" /\ ~u.real /\ ~l.paced THEN 0 ELSE CharT
  <2>1. t = [u EXCEPT !.data = Head(l.in), !.rdy = TRUE, !.next = n]
    BY <1>5 DEF Taken
  <2>2. u \in Chips1602 \/ u \in Chips5501
    BY <1>3, <1>5 DEF IsChip, Chips1602, Chips8251, Chips5501, PortLatches
  <2>3. n \in Nat
    BY <1>2
  <2> HIDE DEF t, n
  <2>4. /\ t \in Chips1602 \cup Chips5501
        /\ t.rdy /\ t.data = Head(l.in) /\ t.chip = u.chip
        /\ u.chip = "5501" => t.room = u.room
    <3>1. CASE u \in Chips1602
      BY <1>1, <2>1, <2>3, <3>1 DEF Chips1602
    <3>2. CASE u \in Chips5501
      BY <1>1, <2>1, <2>3, <3>2 DEF Chips5501
    <3> QED BY <2>2, <3>1, <3>2
  <2>5. IsChip(t)
    BY <1>5, <2>4 DEF IsChip, OneByte
  <2>6. Held(t) = <<Head(l.in)>>
    BY <2>4, <2>5, HeldIs
  <2> QED BY <1>3, <1>5, <2>4, <2>5, <2>6, HeldIs DEF t
<1> QED
  BY <1>4, <1>5

\* A poll moves a byte from the line to the chip or within the chip, and loses none; a
\* second poll finds nothing to do.
LEMMA Polls ==
  ASSUME NEW u, IsChip(u), NEW l \in Lines
  PROVE  LET p == Polled(u, l)
             d == Drained(u, l) IN
         /\ IsChip(p) /\ p.chip = u.chip /\ d \in Lines
         /\ Held(p) \o d.in = Held(u) \o l.in
         /\ Settled(p, d)
<1> DEFINE p == Polled(u, l)
           d == Drained(u, l)
           g == IF u.chip = "5501" THEN [u EXCEPT !.room = l.room] ELSE u
<1>1. CASE FrameDone(u)
  <2> DEFINE f == [u EXCEPT !.rdy = TRUE, !.data = u.pend, !.active = FALSE, !.next = 0]
  <2>1. p = f /\ d = l /\ ~u.rdy
    BY <1>1, PollCases DEF Drained
  <2>2. u \in Chips8251 /\ u.active /\ u.chip = "8251"
    BY <1>1 DEF FrameDone, IsChip, Chips1602, Chips8251, Chips5501, PortLatches
  <2>3. f \in Chips8251 /\ f.rdy /\ ~f.active /\ f.data = u.pend /\ f.chip = "8251"
    BY <2>2 DEF Chips8251
  <2> HIDE DEF f
  <2>4. IsChip(f)
    BY <2>3 DEF IsChip, OneByte
  <2>5. Held(f) = Held(u)
    BY <2>1, <2>2, <2>3, <2>4, HeldIs
  <2>6. ~Waiting(f, l) /\ ~FrameDone(f)
    BY <2>3 DEF Waiting, FrameDone
  <2>7. Settled(f, l)
    BY <2>3, <2>6 DEF Settled, Polled, Takes, Framed
  <2> QED BY <2>1, <2>2, <2>3, <2>4, <2>5, <2>7
<1>2. CASE ~FrameDone(u)
  <2>1. g.chip = u.chip /\ IsChip(g) /\ Held(g) = Held(u)
        /\ (u.chip = "5501" => g.room = l.room)
        /\ (Waiting(g, l) <=> Waiting(u, l))
        /\ ~FrameDone(g)
    <3>1. CASE u.chip # "5501"
      BY <1>2, <3>1
    <3>2. CASE u.chip = "5501"
      <4>1. u \in Chips5501
        BY <3>2 DEF IsChip, Chips1602, Chips8251, Chips5501, PortLatches
      <4>2. g = [u EXCEPT !.room = l.room] /\ l.room \in BOOLEAN
        BY <3>2 DEF Lines
      <4> HIDE DEF g
      <4>3. g \in Chips5501 /\ g.chip = "5501" /\ g.rdy = u.rdy /\ g.data = u.data /\ g.room = l.room
        BY <4>1, <4>2 DEF Chips5501
      <4>4. IsChip(g)
        BY <4>3 DEF IsChip, OneByte
      <4> QED BY <3>2, <4>3, <4>4 DEF Held, Waiting, FrameDone
    <3> QED BY <3>1, <3>2
  <2> HIDE DEF g
  <2>2. CASE Takes(u, l)
    <3>1. p = Taken(g, l) /\ Waiting(g, l)
      BY <1>2, <2>1, <2>2, PollCases DEF g
    <3>2. d = [l EXCEPT !.in = Tail(l.in)]
      BY <2>2 DEF Drained
    <3>3. l.in \in Seq(Nat) /\ l.in # <<>>
      BY <3>1 DEF Lines, Waiting, Readable
    <3>4. Head(l.in) \in Nat /\ Tail(l.in) \in Seq(Nat) /\ <<Head(l.in)>> \o Tail(l.in) = <<>> \o l.in
      <4>1. Head(l.in) \in Nat /\ Tail(l.in) \in Seq(Nat)
        BY <3>3, HeadTailProperties
      <4>2. <<Head(l.in)>> \o Tail(l.in) = l.in
        BY <3>3
      <4>3. <<>> \o l.in = l.in
        BY <3>3, ConcatEmptySeq
      <4> QED BY <4>1, <4>2, <4>3
    <3>5. d \in Lines /\ d.in = Tail(l.in) /\ d.room = l.room
      BY <3>2, <3>4 DEF Lines
    <3> HIDE DEF p, d
    <3>6. /\ IsChip(p) /\ p.chip = g.chip
          /\ Held(g) = <<>> /\ Held(p) = <<Head(l.in)>>
          /\ g.chip = "8251" => p.active /\ p.done # 0 /\ ~p.rdy
          /\ g.chip # "8251" => p.rdy
          /\ g.chip = "5501" => p.room = g.room
      BY <2>1, <3>1, Takings
    <3>7. ~FrameDone(p) /\ ~Waiting(p, d)
      BY <3>6 DEF FrameDone, Waiting
    <3>8. ~Takes(p, d)
      BY <3>7 DEF Takes, Framed
    <3>9. Settled(p, d)
      <4>1. Polled(p, d) = IF p.chip = "5501" THEN [p EXCEPT !.room = d.room] ELSE p
        BY <3>6, <3>7, <3>8, PollCases, <3>5
      <4>2. p.chip = "5501" => p \in Chips5501 /\ p.room = d.room
        BY <2>1, <3>5, <3>6 DEF IsChip, Chips1602, Chips8251, Chips5501, PortLatches
      <4>3. p.chip = "5501" => [p EXCEPT !.room = d.room] = p
        BY <4>2 DEF Chips5501
      <4> QED BY <4>1, <4>3 DEF Settled
    <3>10. Held(p) \o d.in = Held(u) \o l.in
      BY <2>1, <3>4, <3>5, <3>6
    <3> QED BY <2>1, <3>5, <3>6, <3>9, <3>10 DEF p, d
  <2>3. CASE ~Takes(u, l)
    <3>1. p = g /\ d = l
      BY <1>2, <2>3, PollCases DEF Drained, g
    <3>2. ~Takes(g, l)
      BY <1>2, <2>1, <2>3 DEF Takes, Framed, g, FrameDone
    <3>3. Settled(g, l)
      <4>1. Polled(g, l) = IF g.chip = "5501" THEN [g EXCEPT !.room = l.room] ELSE g
        BY <2>1, <3>2, PollCases
      <4>2. g.chip = "5501" => g \in Chips5501 /\ g.room = l.room
        BY <2>1 DEF IsChip, Chips1602, Chips8251, Chips5501, PortLatches
      <4>3. g.chip = "5501" => [g EXCEPT !.room = l.room] = g
        BY <4>2 DEF Chips5501
      <4> QED BY <4>1, <4>3 DEF Settled
    <3> QED BY <2>1, <3>1, <3>3
  <2> QED BY <2>2, <2>3
<1> QED
  BY <1>1, <1>2

\* Nothing else a chip does touches what it holds: the guest's bytes out, its commands,
\* and time.
LEMMA Keeps ==
  ASSUME NEW u, IsChip(u)
  PROVE  /\ u.chip # "latch" => IsChip(Sent(u)) /\ Sent(u).chip = u.chip /\ Held(Sent(u)) = Held(u)
         /\ \A b \in ControlBytes : u.chip = "8251" =>
              IsChip(Controlled(u, b)) /\ Controlled(u, b).chip = u.chip /\ Held(Controlled(u, b)) = Held(u)
<1>1. ASSUME u.chip # "latch"
      PROVE  IsChip(Sent(u)) /\ Sent(u).chip = u.chip /\ Held(Sent(u)) = Held(u)
  <2>1. CASE u.chip = "5501" /\ ~u.real
    BY <2>1 DEF Sent
  <2>2. CASE ~(u.chip = "5501" /\ ~u.real)
    <3> DEFINE t == Loaded(u.tx, IF u.chip = "1602" THEN XferT ELSE 0)
               s == [u EXCEPT !.tx = t]
    <3>1. Sent(u) = s
      BY <2>2 DEF Sent
    <3>2. u.tx \in Stages
      BY <1>1 DEF IsChip, Chips1602, Chips8251, Chips5501, PortLatches
    <3>3. t \in Stages
      <4>1. XferT \in Nat /\ CharT \in Nat
        BY UartsAssumption
      <4> QED BY <3>2, <4>1 DEF Stages, Loaded
    <3> HIDE DEF t
    <3>4. /\ s \in Chips1602 \cup Chips8251 \cup Chips5501
          /\ s.chip = u.chip /\ s.rdy = u.rdy /\ s.data = u.data
          /\ u.chip = "8251" => s.active = u.active /\ s.pend = u.pend
      <4>1. CASE u \in Chips1602
        BY <3>3, <4>1 DEF Chips1602
      <4>2. CASE u \in Chips8251
        BY <3>3, <4>2 DEF Chips8251
      <4>3. CASE u \in Chips5501
        BY <3>3, <4>3 DEF Chips5501
      <4> QED BY <1>1, <4>1, <4>2, <4>3 DEF IsChip, PortLatches
    <3> HIDE DEF s
    <3> QED BY <3>1, <3>4 DEF IsChip, OneByte, Held
  <2> QED BY <2>1, <2>2
<1>2. ASSUME u.chip = "8251", NEW b \in ControlBytes
      PROVE  IsChip(Controlled(u, b)) /\ Controlled(u, b).chip = u.chip /\ Held(Controlled(u, b)) = Held(u)
  <2>1. u \in Chips8251
    BY <1>2 DEF IsChip, Chips1602, Chips8251, Chips5501, PortLatches
  <2>2. CommandBits[b] \in SUBSET {"ir", "rxe", "txe"}
    BY DEF CommandBits, ControlBytes
  <2> DEFINE s == Controlled(u, b)
             ir == "ir" \in CommandBits[b]
  <2>3. \/ s = [u EXCEPT !.mode = b, !.expect = FALSE]
        \/ s = [u EXCEPT !.cmd = CommandBits[b], !.expect = ir]
    BY DEF Controlled
  <2>4. ir \in BOOLEAN
    OBVIOUS
  <2> HIDE DEF s, ir
  <2>5. s \in Chips8251 /\ s.chip = u.chip /\ s.rdy = u.rdy /\ s.data = u.data /\ s.active = u.active /\ s.pend = u.pend
    BY <2>1, <2>2, <2>3, <2>4, ZenonT(60) DEF Chips8251
  <2> QED BY <2>5 DEF s, IsChip, OneByte, Held
<1> QED
  BY <1>1, <1>2

\* A byte read leaves the chip, a reset empties it.
LEMMA Empties ==
  ASSUME NEW u, IsChip(u), NEW l \in Lines
  PROVE  /\ IsChip(ReadFrom(u)) /\ ReadFrom(u).chip = u.chip
         /\ Held(ReadFrom(u)) = IF u.rdy THEN <<>> ELSE Held(u)
         /\ IsChip(Fresh(u, l)) /\ Fresh(u, l).chip = u.chip
         /\ Held(Fresh(u, l)) = <<>>
<1>1. IsChip(ReadFrom(u)) /\ ReadFrom(u).chip = u.chip /\ Held(ReadFrom(u)) = IF u.rdy THEN <<>> ELSE Held(u)
  <2> DEFINE s == ReadFrom(u)
  <2>1. s = [u EXCEPT !.rdy = FALSE]
    BY DEF ReadFrom
  <2> HIDE DEF s
  <2>2. /\ s \in Chips1602 \cup Chips8251 \cup Chips5501 \cup PortLatches
        /\ s.chip = u.chip /\ ~s.rdy /\ s.data = u.data
        /\ u.chip = "8251" => s.active = u.active /\ s.pend = u.pend
    <3>1. CASE u \in Chips1602
      BY <2>1, <3>1 DEF Chips1602
    <3>2. CASE u \in Chips8251
      BY <2>1, <3>2 DEF Chips8251
    <3>3. CASE u \in Chips5501
      BY <2>1, <3>3 DEF Chips5501
    <3>4. CASE u \in PortLatches
      BY <2>1, <3>4 DEF PortLatches
    <3> QED BY <3>1, <3>2, <3>3, <3>4 DEF IsChip
  <2>3. IsChip(s)
    BY <2>2 DEF IsChip, OneByte
  <2>4. CASE u.rdy
    <3>1. ~(u.chip = "8251" /\ u.active)
      BY <2>4 DEF IsChip, OneByte
    <3> QED BY <2>2, <2>3, <2>4, <3>1, HeldIs DEF s
  <2>5. CASE ~u.rdy
    BY <2>2, <2>3, <2>5 DEF Held, s
  <2> QED BY <2>2, <2>3, <2>4, <2>5 DEF s
<1>2. IsChip(Fresh(u, l)) /\ Fresh(u, l).chip = u.chip /\ ~Fresh(u, l).rdy
      /\ (u.chip = "8251" => ~Fresh(u, l).active)
  <2>1. IdleTx \in Stages /\ l.room \in BOOLEAN
    BY DEF IdleTx, Stages, Lines
  <2>2. CASE u.chip = "1602"
    BY <2>1, <2>2 DEF Fresh, Fresh1602, IsChip, OneByte, Chips1602
  <2>3. CASE u.chip = "8251"
    BY <2>1, <2>3 DEF Fresh, Fresh8251, IsChip, OneByte, Chips8251, ControlBytes, CommandBits
  <2>4. CASE u.chip = "5501"
    <3>1. u.real \in BOOLEAN
      BY <2>4 DEF IsChip, Chips1602, Chips8251, Chips5501, PortLatches
    <3> QED BY <2>1, <2>4, <3>1 DEF Fresh, Fresh5501, IsChip, OneByte, Chips5501
  <2>5. CASE u.chip = "latch"
    BY <2>5 DEF Fresh, FreshLatch, IsChip, OneByte, PortLatches
  <2> QED BY <2>2, <2>3, <2>4, <2>5 DEF IsChip, Chips1602, Chips8251, Chips5501, PortLatches
<1>3. Held(Fresh(u, l)) = <<>>
  BY <1>2, HeldIs
<1> QED
  BY <1>1, <1>2, <1>3

\* A chip is made with nothing on it, and a poll of a line with nothing leaves it so.
LEMMA PowersOn ==
  ASSUME NEW u \in NewChips, NEW l \in Lines, l.in = <<>>, l.room
  PROVE  IsChip(u) /\ Held(u) = <<>> /\ Settled(u, l)
<1>1. IdleTx \in Stages /\ l.room = TRUE
  BY DEF IdleTx, Stages, Lines
<1>2. IsChip(u) /\ ~u.rdy /\ (u.chip = "8251" => ~u.active) /\ (u.chip = "5501" => u.room = l.room /\ u \in Chips5501)
  <2>1. CASE u = Fresh1602
    BY <1>1, <2>1 DEF Fresh1602, IsChip, OneByte, Chips1602
  <2>2. CASE u = Fresh8251
    BY <1>1, <2>2 DEF Fresh8251, IsChip, OneByte, Chips8251, ControlBytes, CommandBits
  <2>3. ASSUME NEW real \in BOOLEAN, u = Fresh5501(real, [room |-> TRUE])
        PROVE  IsChip(u) /\ ~u.rdy /\ u.chip = "5501" /\ u.room = l.room /\ u \in Chips5501
    <3>1. u = [chip |-> "5501", real |-> real, rdy |-> FALSE, data |-> 0, next |-> 0, tx |-> IdleTx, room |-> TRUE]
      BY <2>3 DEF Fresh5501
    <3> QED BY <1>1, <3>1 DEF IsChip, OneByte, Chips5501
  <2>4. CASE u = FreshLatch
    BY <2>4 DEF FreshLatch, IsChip, OneByte, PortLatches
  <2> QED BY <2>1, <2>2, <2>3, <2>4 DEF NewChips
<1>3. ~FrameDone(u) /\ ~Takes(u, l)
  BY <1>2 DEF FrameDone, Takes, Framed, Waiting, Readable
<1>4. Polled(u, l) = IF u.chip = "5501" THEN [u EXCEPT !.room = l.room] ELSE u
  BY <1>2, <1>3, PollCases
<1>5. u.chip = "5501" => [u EXCEPT !.room = l.room] = u
  BY <1>2 DEF Chips5501
<1> QED
  BY <1>2, <1>4, <1>5, HeldIs DEF Settled

\* The pump gives a parallel input the byte that waits for it.
LEMMA Latching ==
  ASSUME NEW u, IsChip(u), NEW l \in Lines
  PROVE  LET v == Latched(u, l)
             m == IF Latches(u, l) THEN [l EXCEPT !.in = Tail(l.in)] ELSE l IN
         /\ IsChip(v) /\ v.chip = u.chip /\ m \in Lines
         /\ Held(v) \o m.in = Held(u) \o l.in
<1>1. CASE ~Latches(u, l)
  BY <1>1 DEF Latched
<1>2. CASE Latches(u, l)
  <2> DEFINE v == Latched(u, l)
             m == [l EXCEPT !.in = Tail(l.in)]
  <2>1. u \in PortLatches /\ ~u.rdy /\ l.in \in Seq(Nat) /\ l.in # <<>> /\ u.chip = "latch"
    BY <1>2 DEF Latches, Readable, Lines, IsChip, Chips1602, Chips8251, Chips5501, PortLatches
  <2>2. Head(l.in) \in Nat /\ Tail(l.in) \in Seq(Nat)
    BY <2>1, HeadTailProperties
  <2>3. <<Head(l.in)>> \o Tail(l.in) = l.in
    BY <2>1
  <2>4. <<>> \o l.in = l.in
    BY <2>1, ConcatEmptySeq
  <2>5. v = [u EXCEPT !.rdy = TRUE, !.data = Head(l.in)]
    BY <1>2 DEF Latched
  <2> HIDE DEF v
  <2>6. v \in PortLatches /\ v.rdy /\ v.data = Head(l.in) /\ v.chip = "latch"
    BY <2>1, <2>2, <2>5 DEF PortLatches
  <2>7. IsChip(v) /\ Held(v) = <<Head(l.in)>>
    <3>1. IsChip(v)
      BY <2>6 DEF IsChip, OneByte
    <3> QED BY <2>6, <3>1, HeldIs
  <2>8. Held(u) = <<>>
    BY <2>1, HeldIs
  <2>9. m \in Lines /\ m.in = Tail(l.in)
    BY <2>2 DEF Lines
  <2> HIDE DEF m
  <2> QED BY <1>2, <2>1, <2>3, <2>4, <2>6, <2>7, <2>8, <2>9 DEF v, m
<1> QED
  BY <1>1, <1>2

\* Time moves a chip's moments and nothing else; and as long as none of them is the next
\* one, a poll still finds nothing to do and the transmitter says what it said.
LEMMA Ages ==
  ASSUME NEW u, IsChip(u), NEW l \in Lines
  PROVE  LET v == UartLater(u) IN
         /\ IsChip(v) /\ v.chip = u.chip /\ v.rdy = u.rdy /\ Held(v) = Held(u)
         /\ u.chip = "8251" => v.cmd = u.cmd
         /\ u.chip # "latch" => /\ u.tx.hold \in Nat /\ v.tx.hold = Sooner(u.tx.hold)
                                /\ u.tx.hold # 1 => (TxReady(v, l) <=> TxReady(u, l))
         /\ RxEdge(u, l) \subseteq Nat
         /\ \A e \in RxEdge(v, l) : e > 0 => e + 1 \in RxEdge(u, l)
         /\ Settled(u, l) /\ 1 \notin RxEdge(u, l) => Settled(v, l)
<1> DEFINE v == UartLater(u)
<1>0. \A t \in Nat : Sooner(t) \in Nat /\ (Sooner(t) > 0 => Sooner(t) + 1 = t) /\ (t # 1 => (Sooner(t) = 0 <=> t = 0))
  BY DEF Sooner
<1>1. CASE u.chip = "latch"
  <2>1. v = u
    BY <1>1 DEF UartLater
  <2>2. RxEdge(u, l) = {}
    BY <1>1 DEF RxEdge
  <2> HIDE DEF v
  <2> QED BY <1>1, <2>1, <2>2 DEF v
<1>2. CASE u.chip \in {"1602", "5501"}
  <2>1. v = [u EXCEPT !.next = Sooner(u.next), !.tx = TxLater(u.tx)]
    BY <1>2 DEF UartLater
  <2>2. u \in Chips1602 \cup Chips5501 /\ u.next \in Nat /\ u.tx \in Stages
    BY <1>2 DEF IsChip, Chips1602, Chips8251, Chips5501, PortLatches
  <2>3. TxLater(u.tx) \in Stages /\ TxLater(u.tx).hold = Sooner(u.tx.hold) /\ u.tx.hold \in Nat
    BY <1>0, <2>2 DEF TxLater, Stages
  <2> HIDE DEF v
  <2>4. /\ v \in Chips1602 \cup Chips5501
        /\ v.chip = u.chip /\ v.rdy = u.rdy /\ v.data = u.data /\ v.next = Sooner(u.next) /\ v.tx = TxLater(u.tx)
        /\ u.chip = "5501" => v.room = u.room
    <3>1. CASE u \in Chips1602
      BY <1>0, <2>1, <2>2, <2>3, <3>1 DEF Chips1602
    <3>2. CASE u \in Chips5501
      BY <1>0, <2>1, <2>2, <2>3, <3>2 DEF Chips5501
    <3> QED BY <2>2, <3>1, <3>2
  <2>5. IsChip(v) /\ Held(v) = Held(u)
    BY <1>2, <2>4 DEF IsChip, OneByte, Held
  <2>6. u.tx.hold # 1 => (TxReady(v, l) <=> TxReady(u, l))
    BY <1>0, <1>2, <2>3, <2>4 DEF TxReady, HoldEmpty
  <2>7. Waiting(v, l) <=> Waiting(u, l)
    BY <1>2, <2>4 DEF Waiting
  <2>8. RxEdge(u, l) = (IF Waiting(u, l) THEN {u.next} ELSE {}) /\ RxEdge(v, l) = (IF Waiting(u, l) THEN {v.next} ELSE {})
    BY <1>2, <2>4, <2>7 DEF RxEdge
  <2>9. ASSUME Settled(u, l), 1 \notin RxEdge(u, l)
        PROVE  Settled(v, l)
    <3>1. ~FrameDone(u) /\ ~FrameDone(v)
      BY <1>2, <2>4 DEF FrameDone
    <3>2. ~Takes(u, l)
      <4>1. SUFFICES ASSUME Takes(u, l) PROVE FALSE
        OBVIOUS
      <4> DEFINE g == IF u.chip = "5501" THEN [u EXCEPT !.room = l.room] ELSE u
      <4>2. Polled(u, l) = Taken(g, l) /\ Waiting(u, l)
        BY <3>1, <4>1, PollCases
      <4>3. g \in Chips1602 \cup Chips5501 /\ g.rdy = u.rdy /\ g.chip = u.chip
        <5>1. l.room \in BOOLEAN
          BY DEF Lines
        <5> QED BY <1>2, <2>2, <5>1 DEF Chips1602, Chips5501
      <4> HIDE DEF g
      <4>4. Waiting(g, l) /\ IsChip(g)
        BY <1>2, <4>2, <4>3 DEF Waiting, IsChip, OneByte
      <4>5. Taken(g, l).rdy
        BY <1>2, <4>3, <4>4, Takings
      <4> QED BY <2>9, <4>2, <4>5 DEF Settled, Waiting
    <3>3. Waiting(u, l) => u.next # 0 /\ ~l.paces /\ u.next # 1
      BY <1>2, <2>8, <2>9, <3>1, <3>2 DEF Takes, Framed
    <3>4. ~Takes(v, l)
      BY <1>0, <1>2, <2>2, <2>4, <2>7, <3>1, <3>3 DEF Takes, Framed
    <3>5. u.chip = "5501" => u.room = l.room
      <4>1. Polled(u, l) = IF u.chip = "5501" THEN [u EXCEPT !.room = l.room] ELSE u
        BY <3>1, <3>2, PollCases
      <4> QED BY <2>2, <2>9, <4>1 DEF Settled, Chips1602, Chips5501
    <3>6. Polled(v, l) = IF v.chip = "5501" THEN [v EXCEPT !.room = l.room] ELSE v
      BY <2>5, <3>1, <3>4, PollCases
    <3>7. v.chip = "5501" => v \in Chips5501 /\ v.room = l.room
      BY <1>2, <2>4, <3>5 DEF Chips1602, Chips5501
    <3>8. v.chip = "5501" => [v EXCEPT !.room = l.room] = v
      BY <3>7 DEF Chips5501
    <3> QED BY <3>6, <3>8 DEF Settled
  <2> QED BY <1>0, <1>2, <2>2, <2>3, <2>4, <2>5, <2>6, <2>8, <2>9 DEF v
<1>3. CASE u.chip = "8251"
  <2>0. u \in Chips8251 /\ u.tx \in Stages /\ u.done \in Nat /\ u.next = 0
    BY <1>3 DEF IsChip, Chips1602, Chips8251, Chips5501, PortLatches
  <2>1. v = [u EXCEPT !.next = Sooner(u.next), !.tx = TxLater(u.tx), !.done = Sooner(u.done)]
    BY <1>3, <2>0 DEF UartLater, Chips8251
  <2>3. TxLater(u.tx) \in Stages /\ TxLater(u.tx).hold = Sooner(u.tx.hold) /\ u.tx.hold \in Nat /\ Sooner(u.next) = 0
    BY <1>0, <2>0 DEF TxLater, Stages, Sooner
  <2> HIDE DEF v
  <2>4. /\ v \in Chips8251
        /\ v.chip = u.chip /\ v.rdy = u.rdy /\ v.data = u.data /\ v.tx = TxLater(u.tx)
        /\ v.active = u.active /\ v.pend = u.pend /\ v.done = Sooner(u.done) /\ v.cmd = u.cmd
    BY <1>0, <2>0, <2>1, <2>3 DEF Chips8251
  <2>5. IsChip(v) /\ Held(v) = Held(u)
    BY <1>3, <2>4 DEF IsChip, OneByte, Held
  <2>6. u.tx.hold # 1 => (TxReady(v, l) <=> TxReady(u, l))
    BY <1>0, <1>3, <2>3, <2>4 DEF TxReady, HoldEmpty
  <2>7. Waiting(v, l) <=> Waiting(u, l)
    BY <1>3, <2>4 DEF Waiting
  <2>8. RxEdge(u, l) = (IF u.active THEN {u.done} ELSE {}) /\ RxEdge(v, l) = (IF u.active THEN {v.done} ELSE {})
    BY <1>3, <2>4 DEF RxEdge
  <2>9. ASSUME Settled(u, l), 1 \notin RxEdge(u, l)
        PROVE  Settled(v, l)
    <3>1. ~FrameDone(u)
      <4>1. SUFFICES ASSUME FrameDone(u) PROVE FALSE
        OBVIOUS
      <4>2. /\ ~u.rdy
            /\ Polled(u, l) = [u EXCEPT !.rdy = TRUE, !.data = u.pend, !.active = FALSE, !.next = 0]
        BY <4>1, PollCases, ZenonT(60)
      <4> QED BY <2>0, <2>9, <4>2 DEF Settled, Chips8251
    <3>2. ~Takes(u, l)
      <4>1. SUFFICES ASSUME Takes(u, l) PROVE FALSE
        OBVIOUS
      <4>2. Polled(u, l) = Taken(u, l) /\ Waiting(u, l)
        BY <1>3, <3>1, <4>1, PollCases
      <4>3. Taken(u, l).active
        BY <1>3, <4>2, Takings
      <4> QED BY <1>3, <2>9, <4>2, <4>3 DEF Settled, Waiting
    <3>3. ~Waiting(u, l)
      BY <2>0, <3>1, <3>2 DEF Takes, Framed
    <3>4. u.active => u.done # 0 /\ u.done # 1
      BY <1>3, <2>8, <2>9, <3>1 DEF FrameDone
    <3>5. ~FrameDone(v) /\ ~Takes(v, l)
      BY <1>0, <2>0, <2>4, <2>7, <3>3, <3>4 DEF FrameDone, Takes, Framed
    <3> QED BY <1>3, <2>4, <2>5, <3>5, PollCases DEF Settled
  <2> QED BY <1>0, <1>3, <2>0, <2>3, <2>4, <2>5, <2>6, <2>8, <2>9 DEF v
<1> QED
  BY <1>1, <1>2, <1>3 DEF IsChip, Chips1602, Chips8251, Chips5501, PortLatches
-----------------------------------------------------------------------------
(***************************************************************************)
(* The bytes of a channel are numbered: the n that follow byte s.          *)
(***************************************************************************)
Run(s, n) == [i \in 1 .. n |-> s + i]

\* The first of them is the next number, and the rest follow it.
LEMMA RunStarts ==
  ASSUME NEW s \in Nat, NEW n \in Nat, NEW x \in Nat, NEW q \in Seq(Nat), <<x>> \o q = Run(s, n)
  PROVE  n > 0 /\ x = s + 1 /\ q = Run(s + 1, n - 1)
<1>1. <<x>> \in Seq(Nat) /\ Len(<<x>>) = 1 /\ <<x>>[1] = x
  OBVIOUS
<1>2. /\ Len(<<x>> \o q) = 1 + Len(q)
      /\ \A i \in 1 .. 1 + Len(q) : (<<x>> \o q)[i] = IF i <= 1 THEN <<x>>[i] ELSE q[i - 1]
  BY <1>1, ConcatProperties
<1>3. Run(s, n) \in Seq(Nat) /\ Len(Run(s, n)) = n /\ \A i \in 1 .. n : Run(s, n)[i] = s + i
  BY DEF Run
<1>4. Len(q) \in Nat /\ n = 1 + Len(q)
  BY <1>2, <1>3, LenProperties
<1>5. x = s + 1
  BY <1>1, <1>2, <1>3, <1>4
<1>6. \A i \in 1 .. Len(q) : q[i] = (s + 1) + i
  <2>1. TAKE i \in 1 .. Len(q)
  <2>2. (<<x>> \o q)[i + 1] = q[i]
    BY <1>2, <1>4
  <2> QED BY <1>3, <1>4, <2>2
<1>7. q = Run(s + 1, n - 1)
  <2>1. Run(s + 1, n - 1) \in Seq(Nat) /\ Len(Run(s + 1, n - 1)) = n - 1
        /\ \A i \in 1 .. n - 1 : Run(s + 1, n - 1)[i] = (s + 1) + i
    BY <1>4 DEF Run
  <2> QED BY <1>4, <1>6, <2>1, SeqEqual, SMTT(30)
<1> QED
  BY <1>4, <1>5, <1>7

\* One more at the end.
LEMMA RunGrows ==
  ASSUME NEW s \in Nat, NEW n \in Nat, NEW h \in Seq(Nat), NEW q \in Seq(Nat), h \o q = Run(s, n)
  PROVE  h \o Append(q, s + n + 1) = Run(s, n + 1)
<1> DEFINE e == s + n + 1
           r == Append(q, e)
<1>0. e \in Nat
  OBVIOUS
<1> HIDE DEF e
<1>1. /\ r \in Seq(Nat) /\ Len(r) = Len(q) + 1
      /\ \A i \in 1 .. Len(q) : r[i] = q[i]
      /\ r[Len(q) + 1] = e
  BY <1>0, AppendProperties
<1> HIDE DEF r
<1>2. Len(h) \in Nat /\ Len(q) \in Nat
  BY LenProperties
<1>3. /\ h \o q \in Seq(Nat) /\ Len(h \o q) = Len(h) + Len(q)
      /\ \A i \in 1 .. Len(h) + Len(q) : (h \o q)[i] = IF i <= Len(h) THEN h[i] ELSE q[i - Len(h)]
  BY ConcatProperties
<1>4. /\ h \o r \in Seq(Nat) /\ Len(h \o r) = Len(h) + Len(r)
      /\ \A i \in 1 .. Len(h) + Len(r) : (h \o r)[i] = IF i <= Len(h) THEN h[i] ELSE r[i - Len(h)]
  BY <1>1, ConcatProperties
<1>5. Len(h) + Len(q) = n /\ \A i \in 1 .. n : Run(s, n)[i] = s + i
  BY <1>3 DEF Run
<1>6. Run(s, n + 1) \in Seq(Nat) /\ Len(Run(s, n + 1)) = n + 1 /\ \A i \in 1 .. n + 1 : Run(s, n + 1)[i] = s + i
  BY DEF Run
<1>7. \A i \in 1 .. n + 1 : (h \o r)[i] = s + i
  <2>1. TAKE i \in 1 .. n + 1
  <2>2. CASE i <= Len(h)
    BY <1>2, <1>3, <1>4, <1>1, <1>5, <2>2
  <2>3. CASE i > Len(h) /\ i <= n
    <3>1. i - Len(h) \in 1 .. Len(q)
      BY <1>2, <1>5, <2>3
    <3>2. r[i - Len(h)] = q[i - Len(h)]
      BY <1>1, <3>1
    <3>0. i \in 1 .. Len(h) + Len(r) /\ i \in 1 .. Len(h) + Len(q) /\ ~(i <= Len(h))
      BY <1>1, <1>2, <1>5, <2>3, SMTT(30)
    <3>3. (h \o r)[i] = r[i - Len(h)]
      BY <1>4, <3>0
    <3>4. (h \o q)[i] = q[i - Len(h)]
      BY <1>3, <3>0
    <3>5. Run(s, n)[i] = s + i
      BY <1>5, <2>3
    <3> QED BY <3>2, <3>3, <3>4, <3>5
  <2>4. CASE i = n + 1
    <3>1. i - Len(h) = Len(q) + 1 /\ ~(i <= Len(h)) /\ i \in 1 .. Len(h) + Len(r)
      BY <1>1, <1>2, <1>5, <2>4
    <3>2. (h \o r)[i] = r[Len(q) + 1]
      BY <1>4, <3>1
    <3>3. e = s + i
      BY <2>4 DEF e
    <3>4. r[Len(q) + 1] = e
      BY <1>1
    <3> QED BY <3>2, <3>3, <3>4
  <2>5. i <= Len(h) \/ (i > Len(h) /\ i <= n) \/ i = n + 1
    BY <1>2
  <2> QED BY <2>2, <2>3, <2>4, <2>5
<1> QED
  <2>1. Len(h \o r) = n + 1
    BY <1>1, <1>2, <1>4, <1>5
  <2>2. \A i \in 1 .. Len(h \o r) : (h \o r)[i] = Run(s, n + 1)[i]
    BY <1>6, <1>7, <2>1
  <2>3. h \o r = Run(s, n + 1)
    <3> DEFINE a == h \o r
               b == Run(s, n + 1)
    <3>1. a \in Seq(Nat) /\ b \in Seq(Nat) /\ Len(a) = Len(b) /\ \A i \in 1 .. Len(a) : a[i] = b[i]
      BY <1>4, <1>6, <2>1, <2>2
    <3> HIDE DEF a, b
    <3>2. a = b
      BY <3>1, SeqEqual
    <3> QED BY <3>2 DEF a, b
  <2> QED BY <2>3 DEF r, e

\* What a chip and its line still owe the guest, and that it follows byte s of come.
Unread(u, l) == Held(u) \o l.in
Follows(s, come, q) == s # Unknown => s \in 0 .. come /\ q = Run(s, come - s)

\* A read by a polled chip.
LEMMA ReadFollows ==
  ASSUME NEW u, IsChip(u), NEW l \in Lines, NEW come \in Nat, NEW s \in Nat \cup {Unknown},
         Follows(s, come, Unread(u, l))
  PROVE  LET t == IF u.rdy /\ s # Unknown THEN u.data ELSE s IN
         t \in Nat \cup {Unknown} /\ Follows(t, come, Unread(ReadFrom(u), l))
<1>1. CASE ~u.rdy
  BY <1>1, Empties DEF Unread
<1>2. CASE s = Unknown
  BY <1>2 DEF Follows
<1>3. CASE u.rdy /\ s # Unknown
  <2>1. Held(u) = <<u.data>> /\ u.data \in Nat /\ l.in \in Seq(Nat)
    BY <1>3, HeldIs DEF Lines
  <2>2. s \in Nat /\ come - s \in Nat /\ <<u.data>> \o l.in = Run(s, come - s)
    BY <1>3, <2>1 DEF Follows, Unread
  <2>3. come - s > 0 /\ u.data = s + 1 /\ l.in = Run(s + 1, (come - s) - 1)
    BY <2>1, <2>2, RunStarts
  <2>4. (come - s) - 1 = come - (s + 1) /\ s + 1 \in 0 .. come
    BY <2>2, <2>3
  <2>5. Unread(ReadFrom(u), l) = l.in
    BY <1>3, <2>1, Empties, ConcatEmptySeq DEF Unread
  <2> QED BY <1>3, <2>1, <2>3, <2>4, <2>5 DEF Follows
<1> QED
  BY <1>1, <1>2, <1>3

\* A reset of the chip.
LEMMA ResetFollows ==
  ASSUME NEW u, IsChip(u), NEW l \in Lines, NEW come \in Nat, NEW s \in Nat \cup {Unknown},
         Follows(s, come, Unread(u, l))
  PROVE  LET t == IF s # Unknown /\ Held(u) # <<>> THEN Last(Held(u)) ELSE s IN
         t \in Nat \cup {Unknown} /\ Follows(t, come, Unread(Fresh(u, l), l))
<1>0. l.in \in Seq(Nat) /\ Unread(Fresh(u, l), l) = l.in
  <2>1. l.in \in Seq(Nat)
    BY DEF Lines
  <2> QED BY <2>1, Empties, ConcatEmptySeq DEF Unread
<1>1. CASE Held(u) = <<>>
  <2>1. Unread(u, l) = l.in
    BY <1>0, <1>1, ConcatEmptySeq DEF Unread
  <2> QED BY <1>0, <1>1, <2>1
<1>2. CASE s = Unknown
  BY <1>2 DEF Follows
<1>3. CASE s # Unknown /\ Held(u) # <<>>
  <2>1. PICK x \in Nat : Held(u) = <<x>>
    <3>1. u.rdy \/ (u.chip = "8251" /\ u.active)
      BY <1>3, HeldIs
    <3> QED BY <3>1, HeldIs
  <2>2. Last(Held(u)) = x
    BY <2>1 DEF Last
  <2>3. s \in Nat /\ come - s \in Nat /\ <<x>> \o l.in = Run(s, come - s)
    BY <1>3, <2>1 DEF Follows, Unread
  <2>4. come - s > 0 /\ x = s + 1 /\ l.in = Run(s + 1, (come - s) - 1)
    BY <1>0, <2>3, RunStarts
  <2>5. (come - s) - 1 = come - (s + 1) /\ s + 1 \in 0 .. come
    BY <2>3, <2>4
  <2> QED BY <1>0, <1>3, <2>2, <2>4, <2>5 DEF Follows
<1> QED
  BY <1>1, <1>2, <1>3

\* A byte that comes is the next one.
LEMMA ArrivalFollows ==
  ASSUME NEW u, IsChip(u), NEW l \in Lines, NEW come \in Nat, NEW s \in Nat \cup {Unknown},
         Follows(s, come, Unread(u, l))
  PROVE  LET m == [l EXCEPT !.in = Append(l.in, come + 1)] IN
         m \in Lines /\ Follows(s, come + 1, Unread(u, m))
<1> DEFINE m == [l EXCEPT !.in = Append(l.in, come + 1)]
<1>1. l.in \in Seq(Nat) /\ Append(l.in, come + 1) \in Seq(Nat)
  BY AppendProperties DEF Lines
<1>2. m \in Lines /\ m.in = Append(l.in, come + 1)
  BY <1>1 DEF Lines
<1> HIDE DEF m
<1>3. ASSUME s # Unknown
      PROVE  s \in 0 .. come + 1 /\ Unread(u, m) = Run(s, (come + 1) - s)
  <2>1. s \in Nat /\ come - s \in Nat /\ Held(u) \o l.in = Run(s, come - s)
    BY <1>3 DEF Follows, Unread
  <2>2. Held(u) \o Append(l.in, s + (come - s) + 1) = Run(s, (come - s) + 1)
    BY <1>1, <2>1, HeldIs, RunGrows, ZenonT(60)
  <2>3. s + (come - s) + 1 = come + 1 /\ (come - s) + 1 = (come + 1) - s /\ s \in 0 .. come + 1
    BY <1>3, <2>1 DEF Follows
  <2> QED BY <1>2, <2>2, <2>3 DEF Unread
<1> QED
  BY <1>2, <1>3 DEF Follows, m
-----------------------------------------------------------------------------
(***************************************************************************)
(* The card.                                                               *)
(***************************************************************************)
CardOK(r, c) ==
  /\ DOMAIN c = {"u", "on", "jump", "tick", "tc", "armed"}
  /\ DOMAIN c.u = DOMAIN r.chips
  /\ \A ch \in DOMAIN r.chips : IsChip(c.u[ch]) /\ c.u[ch].chip = r.chips[ch].chip
  /\ DOMAIN c.jump \subseteq Sources(r)

\* The type invariant, of every card but the PMMI.
CardTypes ==
  /\ CardOK(rig, card) /\ (saved.on => CardOK(rig, saved.card))
  /\ line \in [Chans -> Lines]
  /\ seen \in [Chans -> Nat \cup {Unknown}]
  /\ left \in [bytes : [Chans -> Nat], calls : Nat, saves : Nat, line : Int]
  /\ \A ch \in Chans : left.bytes[ch] <= rig.bounds.bytes[ch]

\* The wires are what the registers ask for, no watched chip has anything to be told of, and
\* the deadline is no later than the first moment that could change either.
Told ==
  /\ pin = Asks(card, line, vi2)
  /\ \A x \in Watched(card) : x[2] = "rx" => Settled(card.u[x[1]], line[x[1]])
  /\ \A e \in Edges(card, line) : e > 0 => wake \in 1 .. e

\* Each channel owes the guest the bytes after the last it has seen.
Come(ch) == rig.bounds.bytes[ch] - left.bytes[ch]
Streams == \A ch \in Chans : Follows(seen[ch], Come(ch), Unread(card.u[ch], line[ch]))

IInv == rig \in Rigs /\ (Plain => CardTypes /\ (~Due => Told) /\ Streams)

\* The card stays the card it is.
LEMMA SameRig ==
  ASSUME rig' = rig
  PROVE  /\ Chans' = Chans /\ (Plain' <=> Plain)
         /\ Asks(card, line, vi2)' = Asks(card', line', vi2')
         /\ Watched(card)' = Watched(card')
         /\ Edges(card, line)' = Edges(card', line')
<1>1. Chans' = Chans /\ (Plain' <=> Plain)
  BY DEF Chans, Plain
<1>2. Asks(card, line, vi2)' = Asks(card', line', vi2')
  BY DEF Asks, Requests, Enabled
<1>3. Watched(card)' = Watched(card')
  BY DEF Watched, Enabled
<1>4. Edges(card, line)' = Edges(card', line')
  BY <1>3 DEF Edges
<1> QED
  BY <1>1, <1>2, <1>3, <1>4

\* A nonempty set of numbers has a first one.
LEMMA FirstOf ==
  ASSUME NEW S, S \subseteq Nat, S # {}
  PROVE  Min(S) \in S /\ \A y \in S : Min(S) <= y
<1> DEFINE R == OpToRel(<, Nat)
<1>1. PICK x \in S : \A y \in S : <<y, x>> \notin R
  <2> HIDE DEF R
  <2>1. IsWellFoundedOn(R, Nat)
    BY NatLessThanWellFounded DEF R
  <2> QED
    BY <2>1, WFMin
<1>2. \A y \in S : ~(y < x)
  BY <1>1 DEF OpToRel
<1>3. \A y \in S : x <= y
  BY <1>2
<1> QED
  BY <1>3 DEF Min

\* The deadline is armed no later than any moment that is ahead.
LEMMA NextEdgeIsFirst ==
  ASSUME NEW edges, edges \subseteq Nat
  PROVE  \A e \in edges : e > 0 => NextEdge(edges) \in 1 .. e
<1>1. SUFFICES ASSUME NEW e \in edges, e > 0 PROVE NextEdge(edges) \in 1 .. e
  OBVIOUS
<1> DEFINE ahead == {t \in edges : t > 0}
<1>2. ahead \subseteq Nat /\ e \in ahead
  BY <1>1
<1>3. NextEdge(edges) = Min(ahead)
  BY <1>2 DEF NextEdge
<1>4. Min(ahead) \in ahead /\ Min(ahead) <= e
  <2> HIDE DEF ahead
  <2> QED BY <1>2, FirstOf
<1>5. Min(ahead) \in Nat /\ Min(ahead) > 0 /\ e \in Nat
  BY <1>2, <1>4
<1> HIDE DEF ahead
<1> QED
  BY <1>3, <1>4, <1>5

\* What is watched is there, and its moments are numbers.
LEMMA WatchedChips ==
  ASSUME rig \in Rigs, NEW c, CardOK(rig, c), NEW l \in [Chans -> Lines]
  PROVE  /\ \A x \in Watched(c) : /\ x[1] \in Chans /\ x[2] \in {"rx", "tx"}
                                  /\ IsChip(c.u[x[1]]) /\ l[x[1]] \in Lines
                                  /\ x[2] = "tx" => c.u[x[1]].chip # "latch"
         /\ Edges(c, l) \subseteq Nat
<1>1. Built(rig)
  BY RigsAssumption
<1>2. Watched(c) \subseteq Sources(rig)
  BY <1>1 DEF Watched, Built, CardOK
<1>3. ASSUME NEW x \in Watched(c)
      PROVE  /\ x[1] \in Chans /\ x[2] \in {"rx", "tx"}
             /\ IsChip(c.u[x[1]]) /\ l[x[1]] \in Lines
             /\ x[2] = "tx" => c.u[x[1]].chip # "latch"
  <2>1. x[1] \in Chans /\ x[2] \in {"rx", "tx"} /\ (x[2] = "tx" => rig.chips[x[1]].chip # "latch")
    BY <1>2 DEF Sources, Chans
  <2> QED BY <2>1 DEF CardOK, Chans
<1>4. ASSUME NEW x \in Watched(c)
      PROVE  (IF x[2] = "rx" THEN RxEdge(c.u[x[1]], l[x[1]]) ELSE {c.u[x[1]].tx.hold}) \subseteq Nat
  BY <1>3, Ages, ZenonT(60)
<1>5. Edges(c, l) \subseteq Nat
  BY <1>4 DEF Edges
<1> QED
  BY <1>3, <1>5

\* Where every handler ends: the bytes are where they were, told of, and the pin and the
\* deadline are right.
LEMMA Lands ==
  ASSUME rig \in Rigs, rig' = rig, NEW c, CardOK(rig, c), NEW l \in [Chans -> Lines], Refresh(c, l)
  PROVE  /\ CardOK(rig, card') /\ line' \in [Chans -> Lines]
         /\ \A ch \in Chans : Unread(card'.u[ch], line'[ch]) = Unread(c.u[ch], l[ch])
         /\ Told'
<1>1. \A ch \in Chans : IsChip(c.u[ch]) /\ c.u[ch].chip = rig.chips[ch].chip /\ l[ch] \in Lines
  BY DEF CardOK, Chans
<1>2. /\ card' = [c EXCEPT !.u = [ch \in Chans |-> Polled(c.u[ch], l[ch])]]
      /\ line' = [ch \in Chans |-> Drained(c.u[ch], l[ch])]
      /\ pin' = Asks(card', line', vi2')
      /\ wake' = NextEdge(Edges(card', line'))
  BY DEF Refresh, Announce
<1>3. DOMAIN card' = DOMAIN c /\ card'.u = [ch \in Chans |-> Polled(c.u[ch], l[ch])] /\ card'.jump = c.jump
  BY <1>2 DEF CardOK
<1>4. \A ch \in Chans :
        /\ IsChip(card'.u[ch]) /\ card'.u[ch].chip = rig.chips[ch].chip /\ line'[ch] \in Lines
        /\ Unread(card'.u[ch], line'[ch]) = Unread(c.u[ch], l[ch])
        /\ Settled(card'.u[ch], line'[ch])
  <2>1. TAKE ch \in Chans
  <2>2. card'.u[ch] = Polled(c.u[ch], l[ch]) /\ line'[ch] = Drained(c.u[ch], l[ch])
    BY <1>2, <1>3
  <2> DEFINE u == c.u[ch]
             k == l[ch]
  <2>3. IsChip(u) /\ k \in Lines /\ u.chip = rig.chips[ch].chip
    BY <1>1
  <2> HIDE DEF u, k
  <2>4. /\ IsChip(Polled(u, k)) /\ Polled(u, k).chip = u.chip /\ Drained(u, k) \in Lines
        /\ Unread(Polled(u, k), Drained(u, k)) = Unread(u, k)
        /\ Settled(Polled(u, k), Drained(u, k))
    BY <2>3, Polls DEF Unread
  <2> QED BY <2>2, <2>3, <2>4 DEF u, k
<1>5. CardOK(rig, card')
  BY <1>3, <1>4 DEF CardOK, Chans
<1>6. line' \in [Chans -> Lines]
  BY <1>2, <1>4
<1>7. Told'
  <2>1. pin' = Asks(card, line, vi2)'
    BY <1>2, SameRig
  <2>2. \A x \in Watched(card') : x[2] = "rx" => Settled(card'.u[x[1]], line'[x[1]])
    BY <1>4, <1>5, <1>6, WatchedChips
  <2>3. \A e \in Edges(card', line') : e > 0 => wake' \in 1 .. e
    BY <1>2, <1>5, <1>6, WatchedChips, NextEdgeIsFirst
  <2> QED BY <2>1, <2>2, <2>3, SameRig DEF Told
<1> QED
  BY <1>4, <1>5, <1>6, <1>7

\* A handler that gives Refresh a well-formed card whose bytes follow what has been seen
\* keeps the invariant.
LEMMA Handles ==
  ASSUME IInv, Plain, rig' = rig, NEW c, CardOK(rig, c), NEW l \in [Chans -> Lines], Refresh(c, l),
         saved'.on => CardOK(rig, saved'.card),
         seen' \in [Chans -> Nat \cup {Unknown}],
         left' \in [bytes : [Chans -> Nat], calls : Nat, saves : Nat, line : Int],
         \A ch \in Chans : /\ left'.bytes[ch] <= rig.bounds.bytes[ch]
                           /\ Follows(seen'[ch], rig.bounds.bytes[ch] - left'.bytes[ch], Unread(c.u[ch], l[ch]))
  PROVE  IInv'
<1>1. /\ CardOK(rig, card') /\ line' \in [Chans -> Lines] /\ Told'
      /\ \A ch \in Chans : Unread(card'.u[ch], line'[ch]) = Unread(c.u[ch], l[ch])
  BY Lands DEF IInv
<1>2. Chans' = Chans /\ (Plain' <=> Plain)
  BY SameRig
<1>3. CardTypes'
  BY <1>1, <1>2 DEF CardTypes
<1>4. Streams'
  BY <1>1, <1>2 DEF Streams, Come
<1> QED
  BY <1>1, <1>2, <1>3, <1>4 DEF IInv
-----------------------------------------------------------------------------
(***************************************************************************)
(* Every step keeps the invariant.                                         *)
(***************************************************************************)
\* A card comes out of its constructor with empty chips and lines, and is polled.
LEMMA InitIInv == Init => IInv
<1> SUFFICES ASSUME Init PROVE IInv
  OBVIOUS
<1>1. rig \in Rigs /\ Built(rig)
  BY RigsAssumption DEF Init
<1>2. line = [ch \in Chans |-> NewLine(rig, ch)] /\ \A ch \in Chans : line[ch] \in Lines /\ line[ch].in = <<>> /\ line[ch].room
  BY DEF Init, NewLine, Lines
<1>3. \A ch \in Chans : card.u[ch] = rig.chips[ch] /\ rig.chips[ch] \in NewChips
  BY <1>1 DEF Init, NewCard, Built, Chans
<1>4. \A ch \in Chans : IsChip(card.u[ch]) /\ Held(card.u[ch]) = <<>> /\ Settled(card.u[ch], line[ch])
  BY <1>2, <1>3, PowersOn
<1>5. CardOK(rig, card)
  <2>1. DOMAIN card = {"u", "on", "jump", "tick", "tc", "armed"} /\ card.u = rig.chips /\ card.jump = rig.jump
    BY DEF Init, NewCard
  <2> QED BY <1>1, <1>3, <1>4, <2>1 DEF CardOK, Chans, Built
<1>6. CardTypes
  <2>1. line \in [Chans -> Lines] /\ seen \in [Chans -> Nat \cup {Unknown}] /\ ~saved.on
    BY <1>2 DEF Init
  <2>2. left = rig.bounds
    BY DEF Init
  <2>3. left \in [bytes : [Chans -> Nat], calls : Nat, saves : Nat, line : Int]
    BY <1>1, <2>2 DEF Built, Chans
  <2> QED BY <1>5, <2>1, <2>2, <2>3 DEF CardTypes
<1>7. Told
  <2>1. pin = Asks(card, line, vi2) /\ wake = NextEdge(Edges(card, line))
    BY DEF Init
  <2>2. \A x \in Watched(card) : x[2] = "rx" => Settled(card.u[x[1]], line[x[1]])
    BY <1>1, <1>4, <1>5, <1>6, WatchedChips DEF CardTypes
  <2>3. \A e \in Edges(card, line) : e > 0 => wake \in 1 .. e
    BY <1>1, <1>5, <1>6, <2>1, WatchedChips, NextEdgeIsFirst DEF CardTypes
  <2> QED BY <2>1, <2>2, <2>3 DEF Told
<1>8. Streams
  <2>1. SUFFICES ASSUME NEW ch \in Chans
        PROVE  Follows(seen[ch], Come(ch), Unread(card.u[ch], line[ch]))
    BY DEF Streams
  <2>2. rig.bounds.bytes[ch] \in Nat /\ left = rig.bounds /\ seen[ch] = 0
    BY <1>1 DEF Init, Built, Chans
  <2>3. Come(ch) = 0
    BY <2>2 DEF Come
  <2>4. Unread(card.u[ch], line[ch]) = <<>>
    BY <1>2, <1>4, ConcatEmptySeq DEF Unread
  <2>5. Run(0, 0) = <<>>
    BY DEF Run
  <2> QED BY <2>2, <2>3, <2>4, <2>5 DEF Follows
<1> QED
  BY <1>1, <1>6, <1>7, <1>8 DEF IInv

\* One chip of the card changed.
LEMMA ChipChanges ==
  ASSUME NEW r, NEW c, CardOK(r, c), NEW ch \in DOMAIN r.chips, NEW v, IsChip(v), v.chip = c.u[ch].chip
  PROVE  LET d == [c EXCEPT !.u[ch] = v] IN
         /\ CardOK(r, d)
         /\ \A k \in DOMAIN r.chips : d.u[k] = IF k = ch THEN v ELSE c.u[k]
<1> DEFINE d == [c EXCEPT !.u[ch] = v]
<1>1. DOMAIN d = DOMAIN c /\ d.u = [c.u EXCEPT ![ch] = v] /\ d.jump = c.jump
  BY DEF CardOK
<1>2. DOMAIN d.u = DOMAIN r.chips /\ \A k \in DOMAIN r.chips : d.u[k] = IF k = ch THEN v ELSE c.u[k]
  BY <1>1 DEF CardOK
<1> HIDE DEF d
<1>3. CardOK(r, d)
  BY <1>1, <1>2 DEF CardOK
<1> QED
  BY <1>2, <1>3 DEF d

\* What the invariant says of one channel.
LEMMA OfChannel ==
  ASSUME IInv, Plain, NEW ch \in Chans
  PROVE  /\ IsChip(card.u[ch]) /\ card.u[ch].chip = rig.chips[ch].chip /\ line[ch] \in Lines
         /\ seen[ch] \in Nat \cup {Unknown} /\ Come(ch) \in Nat
         /\ Follows(seen[ch], Come(ch), Unread(card.u[ch], line[ch]))
<1>1. rig.bounds.bytes[ch] \in Nat
  BY RigsAssumption DEF IInv, Built, Chans
<1>2. left.bytes[ch] \in Nat /\ left.bytes[ch] <= rig.bounds.bytes[ch]
  BY DEF IInv, CardTypes
<1> QED
  BY <1>1, <1>2 DEF IInv, CardTypes, CardOK, Chans, Streams, Come

\* IN of a data port: the chip gives up the byte it holds, and the guest has seen it.
LEMMA ReadDataKeeps ==
  ASSUME IInv, Plain, NEW ch \in Chans, ReadData(ch)
  PROVE  IInv'
<1> DEFINE u == Polled(card.u[ch], line[ch])
           d == Drained(card.u[ch], line[ch])
           c == [card EXCEPT !.u[ch] = ReadFrom(u)]
           l == [line EXCEPT ![ch] = d]
<1>1. /\ seen' = IF u.rdy /\ seen[ch] # Unknown THEN [seen EXCEPT ![ch] = u.data] ELSE seen
      /\ rig' = rig /\ saved' = saved /\ left' = left
      /\ Refresh(c, l)
  BY DEF ReadData
<1>2. IsChip(u) /\ u.chip = card.u[ch].chip /\ d \in Lines /\ Unread(u, d) = Unread(card.u[ch], line[ch])
  BY OfChannel, Polls DEF Unread
<1>3. CardOK(rig, card) /\ line \in [Chans -> Lines] /\ seen \in [Chans -> Nat \cup {Unknown}]
  BY DEF IInv, CardTypes
<1>4. IsChip(ReadFrom(u)) /\ ReadFrom(u).chip = card.u[ch].chip
  <2> HIDE DEF u
  <2> QED BY <1>2, Empties
<1> HIDE DEF u, d
<1>5. CardOK(rig, c) /\ \A k \in Chans : c.u[k] = IF k = ch THEN ReadFrom(u) ELSE card.u[k]
  BY <1>3, <1>4, ChipChanges DEF Chans
<1>6. l \in [Chans -> Lines] /\ \A k \in Chans : l[k] = IF k = ch THEN d ELSE line[k]
  BY <1>2, <1>3
<1> DEFINE t == IF u.rdy /\ seen[ch] # Unknown THEN u.data ELSE seen[ch]
<1>7. t \in Nat \cup {Unknown} /\ Follows(t, Come(ch), Unread(ReadFrom(u), d))
  BY <1>2, OfChannel, ReadFollows
<1>8. \A k \in Chans : seen'[k] = IF k = ch THEN t ELSE seen[k]
  BY <1>1, <1>3
<1>9. seen' \in [Chans -> Nat \cup {Unknown}]
  <2>1. CASE u.rdy /\ seen[ch] # Unknown
    BY <1>1, <1>3, <1>7, <2>1
  <2>2. CASE ~(u.rdy /\ seen[ch] # Unknown)
    BY <1>1, <1>3, <2>2
  <2> QED BY <2>1, <2>2
<1> HIDE DEF c, l, t
<1>10. ASSUME NEW k \in Chans
       PROVE  /\ left'.bytes[k] <= rig.bounds.bytes[k]
              /\ Follows(seen'[k], rig.bounds.bytes[k] - left'.bytes[k], Unread(c.u[k], l[k]))
  <2>1. left.bytes[k] <= rig.bounds.bytes[k]
    BY DEF IInv, CardTypes
  <2>2. CASE k = ch
    BY <1>1, <1>5, <1>6, <1>7, <1>8, <2>1, <2>2 DEF Come
  <2>3. CASE k # ch
    BY <1>1, <1>5, <1>6, <1>8, <2>1, <2>3, OfChannel DEF Come
  <2> QED BY <2>2, <2>3
<1>11. /\ saved'.on => CardOK(rig, saved'.card)
       /\ left' \in [bytes : [Chans -> Nat], calls : Nat, saves : Nat, line : Int]
  BY <1>1 DEF IInv, CardTypes
<1> QED
  BY <1>1, <1>5, <1>6, <1>9, <1>10, <1>11, Handles

\* A handler that leaves the bytes alone, and what has been seen of them.
LEMMA KeepsBytes ==
  ASSUME IInv, Plain, rig' = rig, seen' = seen, left' = left, saved' = saved,
         NEW c, CardOK(rig, c), NEW l \in [Chans -> Lines], Refresh(c, l),
         \A ch \in Chans : Unread(c.u[ch], l[ch]) = Unread(card.u[ch], line[ch])
  PROVE  IInv'
<1>1. /\ saved.on => CardOK(rig, saved.card)
      /\ seen \in [Chans -> Nat \cup {Unknown}]
      /\ left \in [bytes : [Chans -> Nat], calls : Nat, saves : Nat, line : Int]
  BY DEF IInv, CardTypes
<1>2. \A ch \in Chans : /\ left.bytes[ch] <= rig.bounds.bytes[ch]
                        /\ Follows(seen[ch], rig.bounds.bytes[ch] - left.bytes[ch], Unread(c.u[ch], l[ch]))
  BY OfChannel DEF IInv, CardTypes, Come
<1> QED
  BY <1>1, <1>2, Handles

\* A handler that touches no chip before it polls them.
LEMMA KeepsChips ==
  ASSUME IInv, Plain, rig' = rig, seen' = seen, left' = left, saved' = saved,
         NEW c, DOMAIN c = DOMAIN card, c.u = card.u, DOMAIN c.jump \subseteq Sources(rig), Refresh(c, line)
  PROVE  IInv'
<1>1. CardOK(rig, card) /\ line \in [Chans -> Lines]
  BY DEF IInv, CardTypes
<1>2. CardOK(rig, c)
  BY <1>1 DEF CardOK
<1> QED
  BY <1>1, <1>2, KeepsBytes

\* Reads of the status and the clock, the enables and the CTC, a moved jumper, the deadline:
\* what they change is a register or a jumper.
LEMMA RegistersKeep ==
  ASSUME IInv, Plain,
         \/ ReadStatus \/ ReadClock \/ Deadline
         \/ \E on \in SUBSET DOMAIN card.jump : WriteEnables(on)
         \/ \E word \in SUBSET {"tc", "arm"} : WriteCtc(word)
         \/ \E jump \in rig.jumps : Rejumper(jump)
  PROVE  IInv'
<1>0. /\ CardOK(rig, card) /\ DOMAIN card = {"u", "on", "jump", "tick", "tc", "armed"}
      /\ DOMAIN card.jump \subseteq Sources(rig)
  BY DEF IInv, CardTypes, CardOK
<1>1. CASE ReadStatus \/ Deadline
  <2>1. Refresh(card, line) /\ rig' = rig /\ seen' = seen /\ left' = left /\ saved' = saved
    BY <1>1 DEF ReadStatus, Deadline
  <2> QED BY <1>0, <2>1, KeepsChips
<1>2. CASE ReadClock
  <2> DEFINE c == [card EXCEPT !.tick = FALSE]
  <2>1. Refresh(c, line) /\ rig' = rig /\ seen' = seen /\ left' = left /\ saved' = saved
    BY <1>2 DEF ReadClock
  <2>2. DOMAIN c = DOMAIN card /\ c.u = card.u /\ c.jump = card.jump
    BY <1>0
  <2> HIDE DEF c
  <2> QED BY <1>0, <2>1, <2>2, KeepsChips
<1>3. ASSUME NEW on \in SUBSET DOMAIN card.jump, WriteEnables(on)
      PROVE  IInv'
  <2> DEFINE c == [card EXCEPT !.on = on]
  <2>1. Refresh(c, line) /\ rig' = rig /\ seen' = seen /\ left' = left /\ saved' = saved
    BY <1>3 DEF WriteEnables
  <2>2. DOMAIN c = DOMAIN card /\ c.u = card.u /\ c.jump = card.jump
    BY <1>0
  <2> HIDE DEF c
  <2> QED BY <1>0, <2>1, <2>2, KeepsChips
<1>4. ASSUME NEW word \in SUBSET {"tc", "arm"}, WriteCtc(word)
      PROVE  IInv'
  <2> DEFINE c == CASE card.tc -> [card EXCEPT !.tc = FALSE]
                    [] ~card.tc /\ word = {} -> card
                    [] OTHER -> [card EXCEPT !.tc = "tc" \in word, !.armed = "arm" \in word]
  <2>1. Refresh(c, line) /\ rig' = rig /\ seen' = seen /\ left' = left /\ saved' = saved
    BY <1>4 DEF WriteCtc
  <2>2. DOMAIN c = DOMAIN card /\ c.u = card.u /\ c.jump = card.jump
    <3>1. \/ c = [card EXCEPT !.tc = FALSE]
          \/ c = card
          \/ c = [card EXCEPT !.tc = "tc" \in word, !.armed = "arm" \in word]
      OBVIOUS
    <3> HIDE DEF c
    <3> QED BY <1>0, <3>1
  <2> HIDE DEF c
  <2> QED BY <1>0, <2>1, <2>2, KeepsChips
<1>5. ASSUME NEW jump \in rig.jumps, Rejumper(jump)
      PROVE  IInv'
  <2> DEFINE c == [card EXCEPT !.jump = jump]
  <2>1. Refresh(c, line) /\ rig' = rig /\ seen' = seen /\ left' = left /\ saved' = saved
    BY <1>5 DEF Rejumper
  <2>2. DOMAIN c = DOMAIN card /\ c.u = card.u /\ c.jump = jump
    BY <1>0
  <2>3. DOMAIN jump \subseteq Sources(rig)
    BY RigsAssumption DEF IInv, Built
  <2> HIDE DEF c
  <2> QED BY <1>0, <2>1, <2>2, <2>3, KeepsChips
<1> QED
  BY <1>1, <1>2, <1>3, <1>4, <1>5

\* A byte to send and a command go to one chip, which keeps what it holds.
LEMMA WritesKeep ==
  ASSUME IInv, Plain, NEW ch \in Chans,
         WriteData(ch) \/ \E b \in rig.control : WriteControl(ch, b)
  PROVE  IInv'
<1>0. /\ CardOK(rig, card) /\ line \in [Chans -> Lines]
      /\ IsChip(card.u[ch]) /\ line[ch] \in Lines
  BY OfChannel DEF IInv, CardTypes
<1>1. ASSUME NEW v, IsChip(v), v.chip = card.u[ch].chip, Held(v) = Held(card.u[ch]),
             NEW room \in BOOLEAN,
             NEW l, l = [line EXCEPT ![ch].room = room] \/ l = line,
             rig' = rig, seen' = seen, left' = left, saved' = saved,
             Refresh([card EXCEPT !.u[ch] = v], l)
      PROVE  IInv'
  <2> DEFINE c == [card EXCEPT !.u[ch] = v]
  <2>1. CardOK(rig, c) /\ \A k \in Chans : c.u[k] = IF k = ch THEN v ELSE card.u[k]
    BY <1>0, <1>1, ChipChanges DEF Chans
  <2>2. l \in [Chans -> Lines] /\ \A k \in Chans : l[k].in = line[k].in
    BY <1>0, <1>1, ZenonT(60) DEF Lines
  <2> HIDE DEF c
  <2>3. \A k \in Chans : Unread(c.u[k], l[k]) = Unread(card.u[k], line[k])
    BY <1>1, <2>1, <2>2 DEF Unread
  <2> QED BY <1>1, <2>1, <2>2, <2>3, KeepsBytes DEF c
<1>2. CASE WriteData(ch)
  <2>1. CASE card.u[ch].chip = "latch"
    <3>1. Refresh(card, line) /\ rig' = rig /\ seen' = seen /\ left' = left /\ saved' = saved
      BY <1>2, <2>1 DEF WriteData
    <3> QED BY <1>0, <3>1, KeepsChips DEF CardOK
  <2>2. CASE card.u[ch].chip # "latch"
    <3>1. PICK room \in {line[ch].room, FALSE} :
             Refresh([card EXCEPT !.u[ch] = Sent(card.u[ch])], [line EXCEPT ![ch].room = room])
      BY <1>2, <2>2 DEF WriteData
    <3>2. rig' = rig /\ seen' = seen /\ left' = left /\ saved' = saved
      BY <1>2 DEF WriteData
    <3>3. room \in BOOLEAN
      BY <1>0 DEF Lines
    <3> DEFINE v == Sent(card.u[ch])
               l == [line EXCEPT ![ch].room = room]
    <3>4. IsChip(v) /\ v.chip = card.u[ch].chip /\ Held(v) = Held(card.u[ch])
      BY <1>0, <2>2, Keeps
    <3>5. Refresh([card EXCEPT !.u[ch] = v], l) /\ l = [line EXCEPT ![ch].room = room]
      BY <3>1
    <3> HIDE DEF v, l
    <3> QED BY <1>1, <3>2, <3>3, <3>4, <3>5
  <2> QED BY <2>1, <2>2
<1>3. ASSUME NEW b \in rig.control, WriteControl(ch, b)
      PROVE  IInv'
  <2>1. b \in ControlBytes
    BY RigsAssumption DEF IInv, Built
  <2> DEFINE v == Controlled(card.u[ch], b)
  <2>2. /\ Refresh([card EXCEPT !.u[ch] = v], line) /\ card.u[ch].chip = "8251"
        /\ rig' = rig /\ seen' = seen /\ left' = left /\ saved' = saved
    BY <1>3 DEF WriteControl
  <2>3. IsChip(v) /\ v.chip = card.u[ch].chip /\ Held(v) = Held(card.u[ch])
    BY <1>0, <2>1, <2>2, Keeps
  <2> HIDE DEF v
  <2> QED BY <1>1, <2>2, <2>3
<1> QED
  BY <1>2, <1>3

\* The chips that are emptied, one or all of them.
LEMMA Thrown ==
  ASSUME IInv, Plain, NEW chs, chs \subseteq Chans, NEW c, CardOK(rig, c),
         \A ch \in Chans : c.u[ch] = IF ch \in chs THEN Fresh(card.u[ch], line[ch]) ELSE card.u[ch],
         rig' = rig, seen' = ThrownAway(chs), left' = left, saved' = saved, Refresh(c, line)
  PROVE  IInv'
<1>1. /\ line \in [Chans -> Lines]
      /\ saved'.on => CardOK(rig, saved'.card)
      /\ left' \in [bytes : [Chans -> Nat], calls : Nat, saves : Nat, line : Int]
  BY DEF IInv, CardTypes
<1>2. ASSUME NEW ch \in Chans
      PROVE  /\ seen'[ch] \in Nat \cup {Unknown}
             /\ left'.bytes[ch] <= rig.bounds.bytes[ch]
             /\ Follows(seen'[ch], rig.bounds.bytes[ch] - left'.bytes[ch], Unread(c.u[ch], line[ch]))
  <2>1. /\ IsChip(card.u[ch]) /\ line[ch] \in Lines
        /\ seen[ch] \in Nat \cup {Unknown} /\ Come(ch) \in Nat
        /\ Follows(seen[ch], Come(ch), Unread(card.u[ch], line[ch]))
    BY OfChannel
  <2>2. left.bytes[ch] <= rig.bounds.bytes[ch]
    BY DEF IInv, CardTypes
  <2>3. CASE ch \in chs
    <3> DEFINE t == IF seen[ch] # Unknown /\ Held(card.u[ch]) # <<>> THEN Last(Held(card.u[ch])) ELSE seen[ch]
    <3>1. seen'[ch] = t
      BY <2>3 DEF ThrownAway
    <3>2. t \in Nat \cup {Unknown} /\ Follows(t, Come(ch), Unread(Fresh(card.u[ch], line[ch]), line[ch]))
      BY <2>1, ResetFollows
    <3> HIDE DEF t
    <3> QED BY <2>2, <2>3, <3>1, <3>2 DEF Come
  <2>4. CASE ch \notin chs
    <3>1. seen'[ch] = seen[ch]
      BY <2>4 DEF ThrownAway
    <3> QED BY <2>1, <2>2, <2>4, <3>1 DEF Come
  <2> QED BY <2>3, <2>4
<1>3. seen' \in [Chans -> Nat \cup {Unknown}]
  <2>1. seen' = [ch \in Chans |-> seen'[ch]]
    BY DEF ThrownAway
  <2> QED BY <1>2, <2>1
<1> QED
  BY <1>1, <1>2, <1>3, Handles

\* The resets, of a chip by a command or of all of them by RESET or POWER: what the
\* chips held is gone, and the guest counts from what is still on the lines.
LEMMA ResetsKeep ==
  ASSUME IInv, Plain,
         \/ \E ch \in Chans : ResetChip(ch)
         \/ \E power \in BOOLEAN : Reset(power)
  PROVE  IInv'
<1>0. CardOK(rig, card) /\ \A ch \in Chans : IsChip(card.u[ch]) /\ line[ch] \in Lines
  BY OfChannel DEF IInv, CardTypes
<1>1. ASSUME NEW ch \in Chans, ResetChip(ch)
      PROVE  IInv'
  <2> DEFINE v == Fresh(card.u[ch], line[ch])
             c == [card EXCEPT !.u[ch] = v]
  <2>1. Refresh(c, line) /\ rig' = rig /\ seen' = ThrownAway({ch}) /\ left' = left /\ saved' = saved
    BY <1>1 DEF ResetChip
  <2>2. IsChip(v) /\ v.chip = card.u[ch].chip
    BY <1>0, Empties
  <2> HIDE DEF v
  <2>3. CardOK(rig, c) /\ \A k \in Chans : c.u[k] = IF k = ch THEN v ELSE card.u[k]
    BY <1>0, <2>2, ChipChanges DEF Chans
  <2> HIDE DEF c
  <2>4. \A k \in Chans : c.u[k] = IF k \in {ch} THEN Fresh(card.u[k], line[k]) ELSE card.u[k]
    BY <2>3 DEF v
  <2> QED BY <2>1, <2>3, <2>4, Thrown
<1>2. ASSUME NEW power \in BOOLEAN, Reset(power)
      PROVE  IInv'
  <2>0. rig' = rig /\ left' = left /\ saved' = saved /\ modem' = modem /\ vi2' = vi2
    BY <1>2 DEF Reset
  <2>1. CASE power \/ rig.resets
    <3> DEFINE us == [ch \in Chans |-> Fresh(card.u[ch], line[ch])]
               c == [card EXCEPT !.u = us, !.on = {}, !.tick = FALSE]
    <3>1. seen' = ThrownAway(Chans) /\ Refresh(c, line)
      BY <1>2, <2>1 DEF Reset
    <3>2. \A ch \in Chans : IsChip(us[ch]) /\ us[ch].chip = card.u[ch].chip /\ us[ch] = Fresh(card.u[ch], line[ch])
      BY <1>0, Empties
    <3>3. DOMAIN us = Chans
      OBVIOUS
    <3> HIDE DEF us
    <3>4. DOMAIN c = DOMAIN card /\ c.u = us /\ c.jump = card.jump
      BY <1>0 DEF CardOK
    <3> HIDE DEF c
    <3>5. CardOK(rig, c)
      BY <1>0, <3>2, <3>3, <3>4 DEF CardOK, Chans
    <3> QED BY <2>0, <3>1, <3>2, <3>4, <3>5, Thrown
  <2>2. CASE ~(power \/ rig.resets) /\ rig.card = "sbc"
    <3>1. seen' = seen /\ Refresh(card, line)
      BY <1>2, <2>2 DEF Reset
    <3> QED BY <1>0, <2>0, <3>1, KeepsChips DEF CardOK
  <2>3. CASE ~(power \/ rig.resets) /\ rig.card # "sbc"
    <3>1. seen' = seen /\ UNCHANGED <<card, line, pin, wake>>
      BY <1>2, <2>3 DEF Reset
    <3> QED BY <2>0, <3>1 DEF IInv, CardTypes, Told, Streams, Plain, Chans, Due, Come, Watched, Enabled, Edges, Asks, Requests
  <2> QED BY <2>1, <2>2, <2>3
<1> QED
  BY <1>1, <1>2

\* The pump's look at the lines m, which have brought what the bounds let them.
LEMMA PumpsKeep ==
  ASSUME IInv, Plain, rig' = rig, seen' = seen, saved' = saved, NEW m \in [Chans -> Lines], PumpLines(m),
         left' \in [bytes : [Chans -> Nat], calls : Nat, saves : Nat, line : Int],
         \A ch \in Chans : /\ left'.bytes[ch] <= rig.bounds.bytes[ch]
                           /\ Follows(seen[ch], rig.bounds.bytes[ch] - left'.bytes[ch], Unread(card.u[ch], m[ch]))
  PROVE  IInv'
<1> DEFINE us == [ch \in Chans |-> Latched(card.u[ch], m[ch])]
           c == [card EXCEPT !.u = us]
           l == [ch \in Chans |-> IF Latches(card.u[ch], m[ch]) THEN [m[ch] EXCEPT !.in = Tail(m[ch].in)] ELSE m[ch]]
<1>1. Refresh(c, l)
  BY DEF PumpLines
<1>2. CardOK(rig, card) /\ \A ch \in Chans : IsChip(card.u[ch]) /\ m[ch] \in Lines
  BY OfChannel DEF IInv, CardTypes
<1>3. ASSUME NEW ch \in Chans
      PROVE  /\ IsChip(us[ch]) /\ us[ch].chip = card.u[ch].chip /\ l[ch] \in Lines
             /\ Unread(us[ch], l[ch]) = Unread(card.u[ch], m[ch])
  <2> DEFINE u == card.u[ch]
             k == m[ch]
  <2>1. us[ch] = Latched(u, k) /\ l[ch] = IF Latches(u, k) THEN [k EXCEPT !.in = Tail(k.in)] ELSE k
    OBVIOUS
  <2>2. IsChip(u) /\ k \in Lines
    BY <1>2
  <2> HIDE DEF u, k, us, l
  <2>3. /\ IsChip(us[ch]) /\ us[ch].chip = u.chip /\ l[ch] \in Lines
        /\ Held(us[ch]) \o l[ch].in = Held(u) \o k.in
    BY <2>1, <2>2, Latching
  <2> QED BY <2>3 DEF Unread, u, k
<1>4. DOMAIN us = Chans /\ l \in [Chans -> Lines]
  BY <1>3
<1> HIDE DEF us, l
<1>5. DOMAIN c = DOMAIN card /\ c.u = us /\ c.jump = card.jump
  BY <1>2 DEF CardOK
<1> HIDE DEF c
<1>6. CardOK(rig, c)
  BY <1>2, <1>3, <1>4, <1>5 DEF CardOK, Chans
<1>7. /\ saved'.on => CardOK(rig, saved'.card)
      /\ seen' \in [Chans -> Nat \cup {Unknown}]
  BY DEF IInv, CardTypes
<1>8. \A ch \in Chans :
        /\ left'.bytes[ch] <= rig.bounds.bytes[ch]
        /\ Follows(seen'[ch], rig.bounds.bytes[ch] - left'.bytes[ch], Unread(c.u[ch], l[ch]))
  BY <1>3, <1>5
<1> QED
  BY <1>1, <1>4, <1>6, <1>7, <1>8, Handles

\* The host's bytes come onto the lines, and the card looks at them.
LEMMA PumpKeeps ==
  ASSUME IInv, Plain, Pump
  PROVE  IInv'
<1>0. /\ rig' = rig /\ seen' = seen /\ saved' = saved
      /\ line \in [Chans -> Lines]
      /\ left \in [bytes : [Chans -> Nat], calls : Nat, saves : Nat, line : Int]
  BY DEF Pump, IInv, CardTypes
<1>1. ASSUME NEW ch \in Chans
      PROVE  /\ left.bytes[ch] <= rig.bounds.bytes[ch]
             /\ line[ch] \in Lines /\ IsChip(card.u[ch])
             /\ Follows(seen[ch], rig.bounds.bytes[ch] - left.bytes[ch], Unread(card.u[ch], line[ch]))
             /\ rig.bounds.bytes[ch] \in Nat /\ left.bytes[ch] \in Nat
  <2>1. rig.bounds.bytes[ch] \in Nat
    BY RigsAssumption DEF IInv, Built, Chans
  <2> QED BY <2>1, OfChannel DEF IInv, CardTypes, Come
<1>2. CASE left' = left /\ PumpLines(line)
  BY <1>0, <1>1, <1>2, PumpsKeep
<1>3. ASSUME NEW ch \in Chans, left' = left, PumpLines([line EXCEPT ![ch].room = ~@])
      PROVE  IInv'
  <2> DEFINE m == [line EXCEPT ![ch].room = ~@]
  <2>1. m \in [Chans -> Lines] /\ \A k \in Chans : m[k].in = line[k].in
    BY <1>0 DEF Lines
  <2>2. PumpLines(m)
    BY <1>3
  <2> HIDE DEF m
  <2>3. \A k \in Chans : Unread(card.u[k], m[k]) = Unread(card.u[k], line[k])
    BY <2>1 DEF Unread
  <2> QED BY <1>0, <1>1, <1>3, <2>1, <2>2, <2>3, PumpsKeep
<1>4. ASSUME NEW ch \in Chans, left.bytes[ch] > 0,
             left' = [left EXCEPT !.bytes[ch] = @ - 1],
             PumpLines([line EXCEPT ![ch].in = Append(@, rig.bounds.bytes[ch] - left'.bytes[ch])])
      PROVE  IInv'
  <2> DEFINE come == rig.bounds.bytes[ch] - left.bytes[ch]
             n == [line[ch] EXCEPT !.in = Append(line[ch].in, come + 1)]
             m == [line EXCEPT ![ch] = n]
  <2>1. /\ left' \in [bytes : [Chans -> Nat], calls : Nat, saves : Nat, line : Int]
        /\ \A k \in Chans : left'.bytes[k] = IF k = ch THEN left.bytes[ch] - 1 ELSE left.bytes[k]
    <3> DEFINE b == [left.bytes EXCEPT ![ch] = left.bytes[ch] - 1]
    <3>1. left' = [left EXCEPT !.bytes = b]
      BY <1>0, <1>4
    <3>2. left.bytes \in [Chans -> Nat] /\ left.bytes[ch] - 1 \in Nat
      BY <1>0, <1>1, <1>4
    <3>3. b \in [Chans -> Nat] /\ \A k \in Chans : b[k] = IF k = ch THEN left.bytes[ch] - 1 ELSE left.bytes[k]
      BY <3>2
    <3> HIDE DEF b
    <3> QED BY <1>0, <3>1, <3>3
  <2>2. rig.bounds.bytes[ch] - left'.bytes[ch] = come + 1 /\ come \in Nat
    BY <1>1, <1>4, <2>1
  <2>3. PumpLines(m)
    <3>1. PumpLines([line EXCEPT ![ch].in = Append(@, come + 1)])
      BY <1>4, <2>2
    <3>2. [line EXCEPT ![ch].in = Append(@, come + 1)] = m
      BY <1>0
    <3> QED BY <3>1, <3>2
  <2>4. seen[ch] \in Nat \cup {Unknown}
    BY OfChannel
  <2>5. n \in Lines /\ Follows(seen[ch], come + 1, Unread(card.u[ch], n))
    <3> DEFINE l == line[ch]
               u == card.u[ch]
    <3>1. l \in Lines /\ IsChip(u) /\ Follows(seen[ch], come, Unread(u, l)) /\ n = [l EXCEPT !.in = Append(l.in, come + 1)]
      BY <1>1
    <3> HIDE DEF l, u, come, n
    <3> QED BY <2>2, <2>4, <3>1, ArrivalFollows DEF u
  <2> HIDE DEF n, come
  <2>6. m \in [Chans -> Lines] /\ \A k \in Chans : m[k] = IF k = ch THEN n ELSE line[k]
    BY <1>0, <2>5
  <2> HIDE DEF m
  <2>7. ASSUME NEW k \in Chans
        PROVE  /\ left'.bytes[k] <= rig.bounds.bytes[k]
               /\ Follows(seen[k], rig.bounds.bytes[k] - left'.bytes[k], Unread(card.u[k], m[k]))
    <3>1. CASE k = ch
      <4>1. left'.bytes[k] <= rig.bounds.bytes[k]
        BY <1>1, <2>1, <3>1
      <4> QED BY <2>2, <2>5, <2>6, <3>1, <4>1
    <3>2. CASE k # ch
      BY <1>1, <2>1, <2>6, <3>2
    <3> QED BY <3>1, <3>2
  <2> QED BY <1>0, <2>1, <2>3, <2>6, <2>7, PumpsKeep
<1> QED
  BY <1>2, <1>3, <1>4 DEF Pump

\* The ticker and the other card's VI2 are announced; a snapshot changes nothing.
LEMMA AnnouncementsKeep ==
  ASSUME IInv, Plain, Tick \/ ViMoves \/ Save
  PROVE  IInv'
<1>0. /\ CardTypes /\ (~Due => Told) /\ Streams /\ rig \in Rigs
  BY DEF IInv
<1>1. CASE Tick
  <2>1. /\ rig' = rig /\ line' = line /\ wake' = wake /\ saved' = saved /\ seen' = seen /\ left' = left
        /\ card' = [card EXCEPT !.tick = TRUE] /\ pin' = Asks(card', line', vi2') /\ ~Due
    BY <1>1 DEF Tick, Announce
  <2>2. DOMAIN card' = DOMAIN card /\ card'.u = card.u /\ card'.jump = card.jump /\ card'.on = card.on /\ card'.armed = card.armed
    BY <1>0, <2>1 DEF CardTypes, CardOK
  <2>3. CardTypes' /\ Streams'
    BY <1>0, <2>1, <2>2, SameRig DEF CardTypes, CardOK, Streams, Come
  <2>4. Watched(card') = Watched(card)
    BY <2>2 DEF Watched, Enabled
  <2>5. Edges(card', line') = Edges(card, line)
    BY <2>1, <2>2, <2>4 DEF Edges
  <2>6. Told'
    BY <1>0, <2>1, <2>2, <2>4, <2>5, SameRig DEF Told
  <2> QED BY <1>0, <2>1, <2>3, <2>6 DEF IInv
<1>2. CASE ViMoves
  <2>1. /\ rig' = rig /\ line' = line /\ wake' = wake /\ saved' = saved /\ seen' = seen /\ left' = left
        /\ card' = card /\ pin' = Asks(card', line', vi2')
    BY <1>2 DEF ViMoves, Announce
  <2>2. CardTypes' /\ Streams'
    BY <1>0, <2>1, SameRig DEF CardTypes, Streams, Come
  <2>3. Watched(card') = Watched(card) /\ Edges(card', line') = Edges(card, line)
    BY <2>1
  <2>4. ~Due => Told'
    BY <1>0, <2>1, <2>3, SameRig DEF Told
  <2>5. Due' <=> Due
    BY <2>1 DEF Due
  <2> QED BY <1>0, <2>1, <2>2, <2>4, <2>5 DEF IInv
<1>3. CASE Save
  <2>1. /\ rig' = rig /\ line' = line /\ wake' = wake /\ seen' = seen /\ card' = card /\ pin' = pin /\ vi2' = vi2
        /\ saved' = [on |-> TRUE, card |-> card]
        /\ left.saves > 0 /\ left' = [left EXCEPT !.saves = @ - 1] /\ ~Due
    BY <1>3 DEF Save
  <2>2. /\ left' \in [bytes : [Chans -> Nat], calls : Nat, saves : Nat, line : Int]
        /\ left'.bytes = left.bytes
    BY <1>0, <2>1 DEF CardTypes
  <2>3. CardTypes' /\ Streams'
    BY <1>0, <2>1, <2>2, SameRig DEF CardTypes, Streams, Come
  <2>4. Told'
    BY <1>0, <2>1, SameRig DEF Told
  <2> QED BY <1>0, <2>1, <2>3, <2>4 DEF IInv
<1> QED
  BY <1>1, <1>2, <1>3

\* A RESTORE: another card's chips and registers on this one's lines; what it holds of them
\* follows nothing.
LEMMA RestoreKeeps ==
  ASSUME IInv, Plain, Restore
  PROVE  IInv'
<1> DEFINE c == [saved.card EXCEPT !.jump = card.jump]
<1>1. /\ rig' = rig /\ saved' = saved /\ left' = left /\ seen' = [ch \in Chans |-> Unknown]
      /\ saved.on /\ Refresh(c, line)
  BY DEF Restore
<1>2. CardOK(rig, saved.card) /\ CardOK(rig, card) /\ line \in [Chans -> Lines]
  BY <1>1 DEF IInv, CardTypes
<1>3. DOMAIN c = DOMAIN saved.card /\ c.u = saved.card.u /\ c.jump = card.jump
  BY <1>2 DEF CardOK
<1> HIDE DEF c
<1>4. CardOK(rig, c)
  BY <1>2, <1>3 DEF CardOK
<1>5. seen' \in [Chans -> Nat \cup {Unknown}] /\ \A ch \in Chans : seen'[ch] = Unknown
  BY <1>1
<1>6. /\ left' \in [bytes : [Chans -> Nat], calls : Nat, saves : Nat, line : Int]
      /\ \A ch \in Chans : left'.bytes[ch] <= rig.bounds.bytes[ch]
      /\ saved'.on => CardOK(rig, saved'.card)
  BY <1>1 DEF IInv, CardTypes
<1>7. \A ch \in Chans : Follows(seen'[ch], rig.bounds.bytes[ch] - left'.bytes[ch], Unread(c.u[ch], line[ch]))
  BY <1>5 DEF Follows
<1> QED
  BY <1>1, <1>2, <1>4, <1>5, <1>6, <1>7, Handles

\* Time: until the deadline is due no watched chip has anything new, and no register that
\* drives the pin has changed what it asks.
LEMMA PassKeeps ==
  ASSUME IInv, Plain, Pass
  PROVE  IInv'
<1>0. CardTypes /\ Told /\ Streams /\ rig \in Rigs
  BY DEF IInv, Pass
<1> DEFINE us == [ch \in Chans |-> UartLater(card.u[ch])]
<1>1. /\ card' = [card EXCEPT !.u = us] /\ wake' = TimerLater(wake)
      /\ rig' = rig /\ line' = line /\ pin' = pin /\ vi2' = vi2 /\ saved' = saved /\ seen' = seen /\ left' = left
  BY DEF Pass
<1>2. CardOK(rig, card) /\ line \in [Chans -> Lines]
  BY <1>0 DEF CardTypes
<1>3. /\ DOMAIN card' = DOMAIN card /\ card'.u = us
      /\ card'.jump = card.jump /\ card'.on = card.on /\ card'.armed = card.armed
      /\ card'.tick = card.tick
  BY <1>1, <1>2 DEF CardOK
<1>4. \A ch \in Chans : us[ch] = UartLater(card.u[ch]) /\ IsChip(card.u[ch]) /\ line[ch] \in Lines
  BY <1>2 DEF CardOK, Chans
<1>4a. DOMAIN us = Chans
  OBVIOUS
<1> HIDE DEF us
<1>5. \A ch \in Chans :
        /\ IsChip(us[ch]) /\ us[ch].chip = card.u[ch].chip /\ us[ch].rdy = card.u[ch].rdy
        /\ Held(us[ch]) = Held(card.u[ch])
        /\ card.u[ch].chip = "8251" => us[ch].cmd = card.u[ch].cmd
        /\ TxEnabled(us[ch]) <=> TxEnabled(card.u[ch])
  BY <1>4, Ages DEF TxEnabled
<1>6. CardTypes' /\ Streams'
  <2>1. CardOK(rig, card')
    BY <1>2, <1>3, <1>4a, <1>5 DEF CardOK, Chans
  <2>2. CardTypes'
    BY <1>0, <1>1, <2>1, SameRig DEF CardTypes
  <2>3. \A ch \in Chans : Unread(card'.u[ch], line'[ch]) = Unread(card.u[ch], line[ch])
    BY <1>1, <1>3, <1>5 DEF Unread
  <2>4. Streams'
    BY <1>0, <1>1, <2>3, SameRig DEF Streams, Come
  <2> QED BY <2>2, <2>4
<1>7. Watched(card') = Watched(card)
  <2>1. \A x \in DOMAIN card.jump : x[1] \in Chans
    BY <1>2 DEF CardOK, Sources, Chans
  <2> QED BY <1>3, <1>5, <2>1 DEF Watched, Enabled
<1>8. ASSUME ~Due'
      PROVE  Told'
  <2>1. \A e \in Edges(card, line) : e > 0 => wake \in 1 .. e /\ e # 1
    <3>1. SUFFICES ASSUME NEW e \in Edges(card, line), e > 0 PROVE wake \in 1 .. e /\ e # 1
      OBVIOUS
    <3>2. e \in Nat /\ wake \in 1 .. e
      BY <1>0, <1>2, <3>1, WatchedChips DEF Told
    <3>3. wake # 1
      BY <1>1, <1>8 DEF Due, TimerLater
    <3> QED BY <3>2, <3>3
  <2>2. ASSUME NEW x \in Watched(card)
        PROVE  /\ x[1] \in Chans /\ x[2] \in {"rx", "tx"}
               /\ x[2] = "rx" => 1 \notin RxEdge(card.u[x[1]], line[x[1]])
               /\ x[2] = "tx" => card.u[x[1]].chip # "latch" /\ card.u[x[1]].tx.hold # 1
    <3>1. x[1] \in Chans /\ x[2] \in {"rx", "tx"} /\ (x[2] = "tx" => card.u[x[1]].chip # "latch")
      BY <1>0, <1>2, WatchedChips
    <3>2. x[2] = "rx" => RxEdge(card.u[x[1]], line[x[1]]) \subseteq Edges(card, line)
      BY DEF Edges
    <3>3. x[2] = "tx" => card.u[x[1]].tx.hold \in Edges(card, line)
      BY DEF Edges
    <3> QED BY <2>1, <3>1, <3>2, <3>3
  <2>3. \A x \in Watched(card') : x[2] = "rx" => Settled(card'.u[x[1]], line'[x[1]])
    <3>1. SUFFICES ASSUME NEW x \in Watched(card), x[2] = "rx"
          PROVE  Settled(us[x[1]], line[x[1]])
      BY <1>1, <1>3, <1>7
    <3>2. x[1] \in Chans /\ 1 \notin RxEdge(card.u[x[1]], line[x[1]]) /\ Settled(card.u[x[1]], line[x[1]])
      BY <1>0, <2>2, <3>1 DEF Told
    <3> QED BY <1>4, <3>2, Ages
  <2>4. \A e \in Edges(card', line') : e > 0 => wake' \in 1 .. e
    <3>1. SUFFICES ASSUME NEW e \in Edges(card', line'), e > 0 PROVE wake' \in 1 .. e
      OBVIOUS
    <3>2. PICK x \in Watched(card) :
            e \in IF x[2] = "rx" THEN RxEdge(us[x[1]], line[x[1]]) ELSE {us[x[1]].tx.hold}
      BY <1>1, <1>3, <1>7, <3>1 DEF Edges
    <3>3. CASE x[2] = "rx"
      <4>1. e + 1 \in RxEdge(card.u[x[1]], line[x[1]]) /\ RxEdge(card.u[x[1]], line[x[1]]) \subseteq Nat
        BY <1>4, <2>2, <3>1, <3>2, <3>3, Ages
      <4>2. e + 1 \in Edges(card, line)
        BY <3>3, <4>1 DEF Edges
      <4>3. e \in Nat
        <5>1. us[x[1]] = UartLater(card.u[x[1]]) /\ IsChip(us[x[1]]) /\ line[x[1]] \in Lines
          BY <1>4, <1>5, <2>2
        <5> QED BY <3>2, <3>3, <5>1, Ages
      <4>4. wake \in 1 .. e + 1
        BY <2>1, <4>2, <4>3
      <4>5. wake' = wake - 1 /\ wake' # 0
        BY <1>1, <1>8, <4>3, <4>4 DEF Due, TimerLater
      <4> QED BY <4>3, <4>4, <4>5
    <3>4. CASE x[2] = "tx"
      <4>1. e = Sooner(card.u[x[1]].tx.hold) /\ card.u[x[1]].tx.hold \in Nat
        BY <1>4, <2>2, <3>2, <3>4, Ages
      <4>2. card.u[x[1]].tx.hold = e + 1 /\ e \in Nat
        BY <3>1, <4>1 DEF Sooner
      <4>3. e + 1 \in Edges(card, line)
        BY <3>4, <4>2 DEF Edges
      <4>4. wake \in 1 .. e + 1
        BY <2>1, <4>2, <4>3
      <4>5. wake' = wake - 1 /\ wake' # 0
        BY <1>1, <1>8, <4>2, <4>4 DEF Due, TimerLater
      <4> QED BY <4>2, <4>4, <4>5
    <3> QED BY <2>2, <3>3, <3>4
  <2>5. Asks(card', line', vi2') = Asks(card, line, vi2)
    <3>1. ASSUME NEW x \in DOMAIN card.jump
          PROVE  Requests(card', line, x) <=> Requests(card, line, x)
      <4>1. x[1] \in Chans /\ x[2] \in {"rx", "tx"}
        BY <1>2 DEF CardOK, Sources, Chans
      <4>2. Enabled(card', x) <=> Enabled(card, x)
        BY <1>3 DEF Enabled
      <4>3. us[x[1]].rdy = card.u[x[1]].rdy /\ (TxEnabled(us[x[1]]) <=> TxEnabled(card.u[x[1]]))
        BY <1>5, <4>1
      <4>4. CASE x[2] = "rx"
        BY <1>3, <4>2, <4>3, <4>4 DEF Requests
      <4>5. CASE x[2] = "tx" /\ Enabled(card, x) /\ TxEnabled(card.u[x[1]])
        <5>1. x \in Watched(card)
          BY <4>5 DEF Watched
        <5>2. TxReady(us[x[1]], line[x[1]]) <=> TxReady(card.u[x[1]], line[x[1]])
          BY <1>4, <2>2, <4>1, <4>5, <5>1, Ages
        <5> QED BY <1>3, <4>2, <4>3, <4>5, <5>2 DEF Requests
      <4>6. CASE x[2] = "tx" /\ ~(Enabled(card, x) /\ TxEnabled(card.u[x[1]]))
        BY <1>3, <4>2, <4>3, <4>6 DEF Requests
      <4> QED BY <4>1, <4>4, <4>5, <4>6
    <3> QED BY <1>1, <1>3, <3>1 DEF Asks
  <2> QED BY <1>0, <1>1, <2>3, <2>4, <2>5, SameRig DEF Told
<1> QED
  BY <1>0, <1>1, <1>6, <1>8, SameRig DEF IInv

\* The steps of the PMMI are not this card's, and this card's are no PMMI's.
LEMMA StepIInv == IInv /\ [Next]_vars => IInv'
<1> SUFFICES ASSUME IInv, [Next]_vars PROVE IInv'
  OBVIOUS
<1>0. rig \in Rigs
  BY DEF IInv
<1>1. CASE UNCHANGED vars
  BY <1>1 DEF vars, IInv, CardTypes, Told, Streams, Plain, Chans, Due, Come, Watched, Enabled, Edges, Asks, Requests
<1>2. CASE Next /\ ~Plain
  <2>1. rig' = rig
    BY <1>2 DEF Next, Guest, Outside, ReadStatus, ReadClock, ReadData, WriteData, ResetChip, WriteControl,
          WriteEnables, WriteCtc, PmmiRead, PmmiWrite, Out0, Out3, Control, Reset, Pump, Tick, ViMoves, Save,
          Restore, Rejumper, PmmiReset, PmmiSave, PmmiRestore, PmmiPump, CallerCalls, FarEndSends,
          FarEndHangsUp, FarEnd, Pass, Deadline, PmmiDeadline
  <2>2. ~Plain'
    BY <1>2, <2>1, SameRig
  <2> QED BY <1>0, <2>1, <2>2 DEF IInv
<1>3. CASE Next /\ Plain
  <2>1. CASE Guest
    <3>1. \/ ReadStatus \/ ReadClock
          \/ \E ch \in Chans : ReadData(ch) \/ WriteData(ch) \/ ResetChip(ch) \/ \E b \in rig.control : WriteControl(ch, b)
          \/ \E on \in SUBSET DOMAIN card.jump : WriteEnables(on)
          \/ \E word \in SUBSET {"tc", "arm"} : WriteCtc(word)
      BY <1>3, <2>1 DEF Guest, PmmiRead, PmmiWrite, Out0, Out3, Control
    <3> QED BY <1>3, <3>1, RegistersKeep, ReadDataKeeps, WritesKeep, ResetsKeep
  <2>2. CASE Outside
    <3>1. \/ \E power \in BOOLEAN : Reset(power)
          \/ Pump \/ Tick \/ ViMoves \/ Save \/ Restore
          \/ \E jump \in rig.jumps : Rejumper(jump)
      BY <1>3, <2>2 DEF Outside, PmmiReset, PmmiSave, PmmiRestore, PmmiPump, CallerCalls, FarEndSends, FarEndHangsUp
    <3> QED BY <1>3, <3>1, ResetsKeep, PumpKeeps, AnnouncementsKeep, RestoreKeeps, RegistersKeep
  <2>3. CASE Pass
    BY <1>3, <2>3, PassKeeps
  <2>4. CASE Deadline
    BY <1>3, <2>4, RegistersKeep
  <2>5. ~PmmiDeadline
    BY <1>3 DEF PmmiDeadline
  <2> QED BY <1>3, <2>1, <2>2, <2>3, <2>4, <2>5 DEF Next
<1> QED
  BY <1>1, <1>2, <1>3

\* The inductive invariant, of every behaviour.
LEMMA SpecIInv == Spec => []IInv
<1>1. Init => IInv
  BY InitIInv
<1>2. IInv /\ [Next]_vars => IInv'
  BY StepIInv
<1> QED
  BY <1>1, <1>2, PTL DEF Spec

\* Types, for any rigs: every card but the PMMI has chips of the kinds its constructor made,
\* their moments and deadline are numbers, and an 8251 never holds two bytes at once
\* (intel8251.cpp, com1602.cpp, tms5501.cpp).
THEOREM CardTypeCorrect == Spec => [](Plain => CardTypes)
<1>1. IInv => (Plain => CardTypes)
  BY DEF IInv
<1> QED
  BY <1>1, SpecIInv, PTL

\* Pin 73 and the VI lines of a serial card are what its registers ask for at every T-state
\* at which its deadline is not being served, for any rigs, straps and character times:
\* the one deadline it arms is never later than a moment one of its chips could want a pin
\* moved.
THEOREM PinRight == Spec => []PinIsHonest
<1>1. IInv => PinIsHonest
  BY DEF IInv, Told, Settled, PinIsHonest
<1> QED
  BY <1>1, SpecIInv, PTL

\* No byte that reaches a card's line is lost, comes twice or comes out of turn, on any of the
\* cards but the PMMI and whatever order of reads, resets, commands, jumpers, snapshots and
\* looks at the host there is: the chips and their lines hold what follows the last byte seen.
THEOREM BytesRight == Spec => []NoByteLost
<1>1. IInv => NoByteLost
  <2>1. SUFFICES ASSUME IInv, Plain, NEW ch \in Chans, seen[ch] # Unknown
        PROVE  Held(card.u[ch]) \o line[ch].in = Run(seen[ch], Come(ch) - seen[ch])
    BY DEF NoByteLost, Run, Come
  <2> QED BY <2>1 DEF IInv, Streams, Follows, Unread
<1> QED
  BY <1>1, SpecIInv, PTL
=============================================================================
