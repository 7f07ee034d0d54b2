-------------------------- MODULE SerialPort_proof --------------------------
(***************************************************************************)
(* Proofs about SerialPort, for any cards, channels and character times.   *)
(*                                                                         *)
(* Every operation ends in Refresh, so what a look does to one channel is  *)
(* stated once (Looks), and what a refresh does to the card once           *)
(* (Refreshes).  The inductive invariant adds to the properties what they  *)
(* rest on: the deadline is no later than any moment the pin could move    *)
(* (Driven), the three deadlines add up to the characters waiting (Stages) *)
(* and an unacknowledged loss is still latched, with its acknowledgement   *)
(* not begun before it was shown (Latched).                                *)
(***************************************************************************)
EXTENDS SerialPort, WellFoundedInduction, TLAPS

Owings == {"none", "loss", "told"}

\* A moment at which chip c could move the pin, as far as it knows.
Armed(c) ==
  {w \in {c.hold} : ~c.reset /\ w > 0 /\ c.tie /\ c.cts /\ c.room} \cup
  {w \in {c.rx} : ~c.reset /\ w > 0 /\ c.rie /\ ~c.rdrf /\ ~c.lost /\ ~c.idle}

Driven ==
  /\ pin <=> \E ch \in straps.jumpered : Irq(chip[ch])
  /\ \A ch \in Channels : chip[ch].rie => ~Overdue(chip[ch])
  /\ \A ch \in Channels : \A w \in Armed(chip[ch]) : 0 < wake /\ wake <= w

\* The deadlines of a chip are the time the characters of its line still take.
Adds(c, l) ==
  /\ c.start = l.delay
  /\ c.shift = l.shifting + l.delay + l.waiting * CharT
  /\ c.hold = IF l.waiting = 0 THEN 0 ELSE c.shift - CharT
  /\ l.waiting = 0 => l.delay = 0
  /\ l.waiting > 0 => (l.delay > 0 <=> l.shifting = 0)
Stages == \A ch \in Channels : Adds(chip[ch], line[ch])

Latch(c, o) ==
  /\ o # "none" => c.dcd /\ c.dcdIrq /\ ~c.follow
  /\ o = "loss" => ~c.read
Latched == \A ch \in Channels : Latch(chip[ch], owed[ch])

IInv == TypeOK /\ Driven /\ Stages /\ Latched

-----------------------------------------------------------------------------
\* The times of the card in the slot.
LEMMA Strapped ==
  ASSUME straps \in Cards
  PROVE  /\ CharT \in Nat \ {0} /\ BitT \in Nat
         /\ straps.jumpered \subseteq Channels
         /\ MaxTyped \in Nat /\ MaxWaiting \in Nat
BY SerialPortAssumption DEF CharT, BitT, Channels

\* The levels of the pins are the chip's to keep.
LEMMA Pins ==
  ASSUME NEW c \in Chips, NEW lost \in BOOLEAN, NEW dcd \in BOOLEAN, NEW cts \in BOOLEAN,
         NEW room \in BOOLEAN
  PROVE  [c EXCEPT !.lost = lost, !.dcd = dcd, !.cts = cts, !.room = room] \in Chips
BY DEF Chips

\* Sampling the pins: a loss is latched and nothing forgotten, and the transmitter is not
\* touched.
LEMMA Samples ==
  ASSUME NEW c \in Chips, NEW h \in Lines
  PROVE  LET d == Sampled(c, h) IN
           /\ d \in Chips
           /\ d.lost <=> ~h.carrier
           /\ d.hold = c.hold /\ d.shift = c.shift /\ d.start = c.start
           /\ ~h.carrier /\ ~c.lost => d.dcd /\ d.dcdIrq /\ ~d.follow /\ ~d.read
           /\ ~(~h.carrier /\ ~c.lost) /\ ~c.follow =>
                /\ ~d.follow /\ (d.dcd <=> c.dcd) /\ (d.dcdIrq <=> c.dcdIrq)
                /\ d.read <=> c.read
<1>1. h.carrier \in BOOLEAN /\ h.cts \in BOOLEAN /\ h.room \in BOOLEAN
  BY DEF Lines
<1> DEFINE e == IF ~h.carrier /\ ~c.lost THEN Loss(c) ELSE c
           lv == ~h.carrier
           dv == IF e.follow THEN ~h.carrier ELSE e.dcd
           d == Sampled(c, h)
<1>2. e \in Chips
  <2>1. Loss(c) \in Chips
    BY DEF Loss, Chips
  <2> QED BY <2>1
<1>3. dv \in BOOLEAN /\ lv \in BOOLEAN
  BY <1>1, <1>2 DEF Chips
<1>4. d = [e EXCEPT !.lost = lv, !.dcd = dv, !.cts = h.cts, !.room = h.room]
  BY DEF Sampled
<1>5. d \in Chips
  <2> HIDE DEF d, e, lv, dv
  <2> QED BY <1>1, <1>2, <1>3, <1>4, Pins
<1>6. d.hold = c.hold /\ d.shift = c.shift /\ d.start = c.start
  BY DEF Sampled, Loss, Chips
<1>7. d.lost <=> ~h.carrier
  BY <1>1 DEF Sampled, Loss, Chips
<1>8. ~h.carrier /\ ~c.lost => d.dcd /\ d.dcdIrq /\ ~d.follow /\ ~d.read
  BY <1>1 DEF Sampled, Loss, Chips
<1>9. ~(~h.carrier /\ ~c.lost) /\ ~c.follow =>
        /\ ~d.follow /\ (d.dcd <=> c.dcd) /\ (d.dcdIrq <=> c.dcdIrq)
        /\ d.read <=> c.read
  BY <1>1 DEF Sampled, Chips
<1> QED
  BY <1>5, <1>6, <1>7, <1>8, <1>9

\* Taking the character that has arrived: it is the receiver's alone, no arrived character
\* is left behind, and what could move the pin is among the edges the card is told of.
LEMMA Polls ==
  ASSUME straps \in Cards, NEW c \in Chips, NEW h \in Lines
  PROVE  LET p == Polled(c, h)
             d == Sampled(c, h) IN
           /\ p \in Chips /\ Taken(c, h) \in Lines
           /\ p.hold = d.hold /\ p.shift = d.shift /\ p.start = d.start
           /\ (p.lost <=> d.lost) /\ (p.follow <=> d.follow)
           /\ (p.dcd <=> d.dcd) /\ (p.dcdIrq <=> d.dcdIrq) /\ (p.read <=> d.read)
           /\ ~Overdue(p)
           /\ Armed(p) \subseteq Edges(p, Taken(c, h))
<1> DEFINE d == Sampled(c, h)
           p == Polled(c, h)
           t == Taken(c, h)
<1>0. CharT \in Nat \ {0} /\ MaxTyped \in Nat
  BY Strapped
<1>1. h.carrier \in BOOLEAN /\ h.typed \in 0..MaxTyped
  BY DEF Lines
<1>2. d \in Chips /\ (d.lost <=> ~h.carrier)
  BY Samples
<1>3. CASE ~h.carrier \/ d.reset \/ d.rdrf
  <2>1. p = d /\ t = h
    BY <1>3 DEF Polled, Taken, Takes
  <2> HIDE DEF d, p, t
  <2>2. ~Overdue(d)
    BY <1>2, <1>3 DEF Overdue
  <2>3. Armed(d) \subseteq Edges(d, h)
    BY <1>2, <1>3 DEF Armed, Edges
  <2> QED
    BY <1>2, <2>1, <2>2, <2>3 DEF p, t, d
<1>4. CASE h.carrier /\ ~d.reset /\ ~d.rdrf /\ Takes(d, h)
  <2>1. p = [d EXCEPT !.idle = FALSE, !.rdrf = TRUE, !.rx = CharT]
    BY <1>4 DEF Polled
  <2>2. t = [h EXCEPT !.typed = @ - 1] /\ h.typed > 0
    BY <1>4 DEF Taken, Takes
  <2> HIDE DEF d, p, t
  <2>3. t \in Lines
    BY <1>0, <2>2 DEF Lines
  <2>4. p \in Chips
    BY <1>0, <1>2, <2>1 DEF Chips
  <2>5. /\ p.hold = d.hold /\ p.shift = d.shift /\ p.start = d.start
        /\ p.rdrf /\ p.reset = d.reset /\ p.tie = d.tie /\ p.cts = d.cts /\ p.room = d.room
    BY <1>2, <2>1 DEF Chips
  <2>6. /\ (p.lost <=> d.lost) /\ (p.follow <=> d.follow)
        /\ (p.dcd <=> d.dcd) /\ (p.dcdIrq <=> d.dcdIrq) /\ (p.read <=> d.read)
    BY <1>2, <2>1 DEF Chips
  <2>7. ~Overdue(p)
    BY <2>5 DEF Overdue
  <2>8. Armed(p) \subseteq Edges(p, t)
    BY <2>5 DEF Armed, Edges
  <2> QED
    BY <2>3, <2>4, <2>5, <2>6, <2>7, <2>8 DEF p, d, t
<1>5. CASE h.carrier /\ ~d.reset /\ ~d.rdrf /\ ~Takes(d, h) /\ h.typed = 0
  <2>1. p = [d EXCEPT !.idle = TRUE] /\ t = h
    BY <1>5 DEF Polled, Taken
  <2> HIDE DEF d, p, t
  <2>2. p \in Chips
    BY <1>2, <2>1 DEF Chips
  <2>3. /\ p.hold = d.hold /\ p.shift = d.shift /\ p.start = d.start /\ p.idle
    BY <1>2, <2>1 DEF Chips
  <2>4. /\ (p.lost <=> d.lost) /\ (p.follow <=> d.follow)
        /\ (p.dcd <=> d.dcd) /\ (p.dcdIrq <=> d.dcdIrq) /\ (p.read <=> d.read)
    BY <1>2, <2>1 DEF Chips
  <2>5. ~Overdue(p)
    BY <2>3 DEF Overdue
  <2>6. Armed(p) \subseteq Edges(p, t)
    BY <2>3 DEF Armed, Edges
  <2> QED
    BY <2>1, <2>2, <2>3, <2>4, <2>5, <2>6 DEF p, d, t
<1>6. CASE h.carrier /\ ~d.reset /\ ~d.rdrf /\ ~Takes(d, h) /\ h.typed # 0
  <2>0. h.typed > 0
    BY <1>0, <1>1, <1>6
  <2>1. p = Shifting(d) /\ t = h
    BY <1>6 DEF Polled, Taken
  <2>2. Shifting(d).rx # 0
    BY <1>6, <2>0 DEF Takes
  <2> HIDE DEF d, p, t
  <2>3. p \in Chips
    <3>1. [d EXCEPT !.idle = FALSE, !.rx = CharT] \in Chips
      BY <1>0, <1>2 DEF Chips
    <3> QED
      BY <1>2, <2>1, <3>1 DEF Shifting
  <2>4. /\ p.hold = d.hold /\ p.shift = d.shift /\ p.start = d.start
        /\ p.rx > 0
    BY <1>0, <1>2, <2>1, <2>2, <2>3 DEF Shifting, Chips
  <2>5. /\ (p.lost <=> d.lost) /\ (p.follow <=> d.follow)
        /\ (p.dcd <=> d.dcd) /\ (p.dcdIrq <=> d.dcdIrq) /\ (p.read <=> d.read)
    BY <1>2, <2>1 DEF Shifting, Chips
  <2>6. ~Overdue(p)
    BY <2>4 DEF Overdue
  <2>7. Armed(p) \subseteq Edges(p, t)
    BY <1>6, <2>0, <2>1 DEF Armed, Edges
  <2> QED
    BY <2>1, <2>3, <2>4, <2>5, <2>6, <2>7 DEF p, d, t
<1> QED
  BY <1>3, <1>4, <1>5, <1>6

\* What a look makes of a channel, and of what its guest is owed.
LEMMA Looks ==
  ASSUME straps \in Cards, NEW ch \in Channels, NEW s,
         s.c \in Chips, s.h \in Line(ch), s.o \in Owings
  PROVE  LET p == Poll(s) IN
           /\ p.c \in Chips /\ p.h \in Line(ch) /\ p.o \in Owings
           /\ p.c.hold = s.c.hold /\ p.c.shift = s.c.shift /\ p.c.start = s.c.start
           /\ ~Overdue(p.c)
           /\ Armed(p.c) \subseteq Edges(p.c, p.h)
           /\ Latch(s.c, s.o) => Latch(p.c, p.o)
<1> DEFINE p == Poll(s)
           d == Sampled(s.c, s.h)
           lost == ~s.h.carrier /\ ~s.c.lost
<1>1. s.h \in Lines
  BY DEF Line
<1>2. p.c = Polled(s.c, s.h) /\ p.h = Taken(s.c, s.h) /\ p.o = IF lost THEN "loss" ELSE s.o
  BY DEF Poll
<1>3. /\ d.hold = s.c.hold /\ d.shift = s.c.shift /\ d.start = s.c.start
      /\ lost => d.dcd /\ d.dcdIrq /\ ~d.follow /\ ~d.read
      /\ ~lost /\ ~s.c.follow =>
           /\ ~d.follow /\ (d.dcd <=> s.c.dcd) /\ (d.dcdIrq <=> s.c.dcdIrq)
           /\ d.read <=> s.c.read
  BY <1>1, Samples
<1>4. /\ p.c \in Chips /\ p.h \in Lines
      /\ p.c.hold = d.hold /\ p.c.shift = d.shift /\ p.c.start = d.start
      /\ (p.c.lost <=> d.lost) /\ (p.c.follow <=> d.follow)
      /\ (p.c.dcd <=> d.dcd) /\ (p.c.dcdIrq <=> d.dcdIrq) /\ (p.c.read <=> d.read)
      /\ ~Overdue(p.c)
      /\ Armed(p.c) \subseteq Edges(p.c, p.h)
  <2> HIDE DEF p, d
  <2> QED
    BY <1>1, <1>2, Polls DEF d
<1> HIDE DEF p, d, lost
<1>5. p.h \in Line(ch)
  <2>1. p.h = s.h \/ p.h = [s.h EXCEPT !.typed = @ - 1]
    BY <1>2 DEF Taken
  <2> QED
    BY <1>1, <1>4, <2>1 DEF Line, Lines
<1>6. p.o \in Owings
  BY <1>2 DEF Owings
<1>7. Latch(s.c, s.o) => Latch(p.c, p.o)
  <2>1. CASE lost
    BY <1>2, <1>3, <1>4, <2>1 DEF Latch
  <2>2. CASE ~lost
    BY <1>2, <1>3, <1>4, <2>2 DEF Latch
  <2> QED
    BY <2>1, <2>2
<1> QED
  BY <1>3, <1>4, <1>5, <1>6, <1>7 DEF p

\* The earliest of some moments is one of them, and no later than any.
LEMMA Earliest ==
  ASSUME NEW S \in SUBSET Nat, S # {}
  PROVE  Min(S) \in S /\ \A w \in S : Min(S) <= w
<1> DEFINE R == OpToRel(<, Nat)
<1>1. PICK m \in S : \A w \in S : <<w, m>> \notin R
  <2> HIDE DEF R
  <2>1. IsWellFoundedOn(R, Nat)
    BY NatLessThanWellFounded DEF R
  <2> QED
    BY <2>1, WFMin
<1>2. \A w \in S : ~(w < m)
  BY <1>1 DEF OpToRel
<1> HIDE DEF R
<1>3. \A w \in S : m <= w
  BY <1>2
<1> QED
  BY <1>3 DEF Min

\* What refresh() makes of the card.
LEMMA Refreshes ==
  ASSUME straps \in Cards, straps' = straps, NEW state, Refresh(state),
         \A ch \in Channels :
           state[ch].c \in Chips /\ state[ch].h \in Line(ch) /\ state[ch].o \in Owings
  PROVE  /\ chip' \in [Channels -> Chips] /\ pin' \in BOOLEAN /\ wake' \in Nat
         /\ owed' \in [Channels -> Owings] /\ far' \in [Channels -> Lines]
         /\ \A ch \in Channels : far'[ch] \in Line(ch)
         /\ \A ch \in Channels :
              /\ chip'[ch].hold = state[ch].c.hold
              /\ chip'[ch].shift = state[ch].c.shift
              /\ chip'[ch].start = state[ch].c.start
         /\ \A ch \in Channels :
              Latch(state[ch].c, state[ch].o) => Latch(chip'[ch], owed'[ch])
         /\ Driven'
<1> DEFINE polled == [ch \in Channels |-> Poll(state[ch])]
           edges == UNION {Edges(polled[ch].c, polled[ch].h) : ch \in Channels}
<1>1. /\ chip' = [ch \in Channels |-> polled[ch].c]
      /\ pin' = \E ch \in straps.jumpered : Irq(polled[ch].c)
      /\ wake' = IF edges = {} THEN 0 ELSE Min(edges)
      /\ owed' = [ch \in Channels |-> polled[ch].o]
      /\ far' = [ch \in Channels |-> polled[ch].h]
  BY DEF Refresh
<1>2. \A ch \in Channels :
        /\ polled[ch].c \in Chips /\ polled[ch].h \in Line(ch) /\ polled[ch].o \in Owings
        /\ polled[ch].c.hold = state[ch].c.hold
        /\ polled[ch].c.shift = state[ch].c.shift
        /\ polled[ch].c.start = state[ch].c.start
        /\ ~Overdue(polled[ch].c)
        /\ Armed(polled[ch].c) \subseteq Edges(polled[ch].c, polled[ch].h)
        /\ Latch(state[ch].c, state[ch].o) => Latch(polled[ch].c, polled[ch].o)
  BY Looks
<1> HIDE DEF polled
<1>3. edges \subseteq Nat \ {0}
  <2> SUFFICES ASSUME NEW ch \in Channels, NEW w \in Edges(polled[ch].c, polled[ch].h)
               PROVE  w \in Nat \ {0}
    OBVIOUS
  <2>1. polled[ch].c.hold \in Nat /\ polled[ch].c.rx \in Nat
    BY <1>2 DEF Chips
  <2> QED
    BY <2>1 DEF Edges
<1>4. wake' \in Nat /\ \A w \in edges : 0 < wake' /\ wake' <= w
  <2>1. CASE edges = {}
    BY <1>1, <2>1
  <2>2. CASE edges # {}
    <3> HIDE DEF edges
    <3>1. Min(edges) \in edges /\ \A w \in edges : Min(edges) <= w
      BY <1>3, <2>2, Earliest
    <3>2. wake' = Min(edges)
      BY <1>1, <2>2 DEF edges
    <3>3. wake' \in edges /\ \A w \in edges : wake' <= w
      BY <3>1, <3>2
    <3>4. wake' \in Nat \ {0}
      BY <1>3, <3>3
    <3> QED
      BY <3>3, <3>4
  <2> QED
    BY <2>1, <2>2
<1>5. straps.jumpered \subseteq Channels
  BY Strapped
<1>6. chip' \in [Channels -> Chips] /\ owed' \in [Channels -> Owings] /\ pin' \in BOOLEAN
  BY <1>1, <1>2
<1>7. \A ch \in Channels : chip'[ch] = polled[ch].c /\ owed'[ch] = polled[ch].o /\ far'[ch] = polled[ch].h
  BY <1>1
<1>8. far' \in [Channels -> Lines]
  BY <1>1, <1>2 DEF Line
<1>9. Driven'
  <2>1. (pin <=> \E ch \in straps.jumpered : Irq(chip[ch]))'
    BY <1>1, <1>5, <1>7
  <2>2. \A ch \in Channels' : ~Overdue(chip'[ch])
    BY <1>2, <1>7 DEF Channels
  <2>3. \A ch \in Channels' : \A w \in Armed(chip'[ch]) : w \in edges
    BY <1>2, <1>7 DEF Channels
  <2> QED
    BY <1>4, <2>1, <2>2, <2>3 DEF Driven, Channels, Overdue, Armed, Irq, Tdre
<1> QED
  BY <1>2, <1>4, <1>6, <1>7, <1>8, <1>9

-----------------------------------------------------------------------------
(***************************************************************************)
(* The transmitter.                                                        *)
(***************************************************************************)
Registers == [waiting : 0..MaxWaiting, delay : 0..BitT, shifting : 0..CharT]

\* One character more, and one less, of the time that some take.
LEMMA Times ==
  ASSUME NEW w \in Nat, NEW t \in Nat
  PROVE  /\ w * t \in Nat
         /\ (w + 1) * t = w * t + t
         /\ w > 0 => (w - 1) * t = w * t - t /\ w * t >= t
<1>1. w * t \in Nat /\ (w + 1) * t = w * t + t /\ (w - 1) * t = w * t - t
  BY SMTT(30)
<1>2. w > 0 => (w - 1) * t \in Nat
  BY SMTT(30)
<1> QED
  BY <1>1, <1>2

\* A character is waiting just when the holding register is not free, and one is shifting
\* just when the line is not idle.
LEMMA Agrees ==
  ASSUME straps \in Cards, NEW c \in Chips, NEW l \in Registers, Adds(c, l)
  PROVE  /\ c.hold = 0 <=> l.waiting = 0
         /\ LineIdle(c) <=> l.shifting = 0
<1>0. CharT \in Nat \ {0} /\ BitT \in Nat /\ MaxWaiting \in Nat
  BY Strapped
<1>1. l.waiting \in Nat /\ l.delay \in Nat /\ l.shifting \in Nat
  BY <1>0 DEF Registers
<1> DEFINE time == l.waiting * CharT
<1>2. time \in Nat /\ (l.waiting = 0 => time = 0) /\ (l.waiting > 0 => time >= CharT)
  BY <1>0, <1>1, Times
<1>3. /\ c.start = l.delay /\ c.shift = l.shifting + l.delay + time
      /\ c.hold = IF l.waiting = 0 THEN 0 ELSE c.shift - CharT
      /\ l.waiting = 0 => l.delay = 0
      /\ l.waiting > 0 => (l.delay > 0 <=> l.shifting = 0)
  BY DEF Adds
<1> HIDE DEF time
<1> QED
  BY <1>0, <1>1, <1>2, <1>3 DEF LineIdle

\* A character loaded into the three deadlines is one written to the two registers.
LEMMA Writes ==
  ASSUME straps \in Cards, NEW c \in Chips, NEW l \in Registers, Adds(c, l),
         l.waiting < MaxWaiting
  PROVE  /\ Loaded(c) \in Chips /\ Written(l) \in Registers
         /\ Adds(Loaded(c), Written(l))
         /\ \A o : Latch(c, o) => Latch(Loaded(c), o)
<1>0. CharT \in Nat \ {0} /\ BitT \in Nat /\ MaxWaiting \in Nat
  BY Strapped
<1>1. /\ l.waiting \in Nat /\ l.delay \in Nat /\ l.shifting \in Nat
      /\ c.hold \in Nat /\ c.shift \in Nat /\ c.start \in Nat
  BY <1>0 DEF Registers, Chips
<1> DEFINE time == l.waiting * CharT
           begins == IF c.shift = 0 THEN BitT ELSE c.shift
           start == IF c.shift = 0 THEN begins ELSE c.start
<1>2. /\ time \in Nat /\ (l.waiting = 0 => time = 0) /\ (l.waiting > 0 => time >= CharT)
      /\ (l.waiting + 1) * CharT = time + CharT
  BY <1>0, <1>1, Times
<1>3. /\ c.start = l.delay /\ c.shift = l.shifting + l.delay + time
      /\ c.hold = IF l.waiting = 0 THEN 0 ELSE c.shift - CharT
      /\ l.waiting = 0 => l.delay = 0
      /\ l.waiting > 0 => (l.delay > 0 <=> l.shifting = 0)
  BY DEF Adds
<1>4. Loaded(c) = [c EXCEPT !.start = start, !.hold = begins, !.shift = begins + CharT]
  BY DEF Loaded
<1>5. begins \in Nat /\ start \in Nat /\ begins + CharT \in Nat
  BY <1>0, <1>1
<1> HIDE DEF begins, start, time
<1>6. /\ Loaded(c) \in Chips
      /\ Loaded(c).start = start /\ Loaded(c).hold = begins /\ Loaded(c).shift = begins + CharT
  BY <1>4, <1>5 DEF Chips
<1>7. \A o : Latch(c, o) => Latch(Loaded(c), o)
  BY <1>4 DEF Latch, Chips
<1>8. CASE l.waiting > 0 \/ l.shifting > 0
  <2>1. Written(l) = [l EXCEPT !.waiting = @ + 1]
    BY <1>8 DEF Written
  <2>2. /\ Written(l) \in Registers /\ Written(l).waiting = l.waiting + 1
        /\ Written(l).delay = l.delay /\ Written(l).shifting = l.shifting
    BY <1>0, <1>1, <2>1 DEF Registers
  <2>3. c.shift > 0 /\ begins = c.shift /\ start = c.start
    BY <1>0, <1>1, <1>2, <1>3, <1>8 DEF begins, start
  <2>4. Adds(Loaded(c), Written(l))
    BY <1>0, <1>1, <1>2, <1>3, <1>6, <1>8, <2>2, <2>3 DEF Adds
  <2> QED
    BY <1>6, <1>7, <2>2, <2>4
<1>9. CASE ~(l.waiting > 0 \/ l.shifting > 0)
  <2>1. l.waiting = 0 /\ l.shifting = 0 /\ l.delay = 0 /\ begins = BitT /\ start = BitT
    BY <1>1, <1>2, <1>3, <1>9 DEF begins, start
  <2>2. Written(l) = IF BitT = 0 THEN [l EXCEPT !.shifting = CharT]
                     ELSE [l EXCEPT !.waiting = 1, !.delay = BitT]
    BY <1>9 DEF Written
  <2>3. /\ Written(l) \in Registers
        /\ Written(l).delay = BitT
        /\ Written(l).waiting = IF BitT = 0 THEN 0 ELSE 1
        /\ Written(l).shifting = IF BitT = 0 THEN CharT ELSE 0
    <3>1. CASE BitT = 0
      <4>1. Written(l) = [l EXCEPT !.shifting = CharT]
        BY <2>2, <3>1
      <4> QED
        BY <1>0, <1>1, <2>1, <3>1, <4>1 DEF Registers
    <3>2. CASE BitT # 0
      <4>1. Written(l) = [l EXCEPT !.waiting = 1, !.delay = BitT]
        BY <2>2, <3>2
      <4>2. 1 \in 0..MaxWaiting /\ BitT \in 0..BitT
        BY <1>0, <1>1
      <4> QED
        BY <2>1, <3>2, <4>1, <4>2 DEF Registers
    <3> QED
      BY <3>1, <3>2
  <2>4. Adds(Loaded(c), Written(l))
    BY <1>0, <1>1, <1>6, <2>1, <2>3 DEF Adds
  <2> QED
    BY <1>6, <1>7, <2>3, <2>4
<1> QED
  BY <1>8, <1>9

\* A T-state of the three deadlines is one of the two registers.
LEMMA Ticks ==
  ASSUME straps \in Cards, NEW c \in Chips, NEW l \in Registers, Adds(c, l)
  PROVE  /\ Aged(c) \in Chips /\ Clocked(l) \in Registers
         /\ Adds(Aged(c), Clocked(l))
         /\ \A o : Latch(c, o) => Latch(Aged(c), o)
<1>0. CharT \in Nat \ {0} /\ BitT \in Nat /\ MaxWaiting \in Nat
  BY Strapped
<1>1. /\ l.waiting \in Nat /\ l.delay \in Nat /\ l.shifting \in Nat
      /\ c.hold \in Nat /\ c.shift \in Nat /\ c.start \in Nat /\ c.rx \in Nat
  BY <1>0 DEF Registers, Chips
<1> DEFINE time == l.waiting * CharT
           n == [l EXCEPT !.delay = Earlier(@), !.shifting = Earlier(@)]
<1>2. /\ time \in Nat /\ (l.waiting = 0 => time = 0) /\ (l.waiting > 0 => time >= CharT)
      /\ l.waiting > 0 => (l.waiting - 1) * CharT = time - CharT
  BY <1>0, <1>1, Times
<1>3. /\ c.start = l.delay /\ c.shift = l.shifting + l.delay + time
      /\ c.hold = IF l.waiting = 0 THEN 0 ELSE c.shift - CharT
      /\ l.waiting = 0 => l.delay = 0
      /\ l.waiting > 0 => (l.delay > 0 <=> l.shifting = 0)
  BY DEF Adds
<1>4. \A m \in Nat : Earlier(m) \in Nat
  BY DEF Earlier
<1>5. /\ Aged(c) \in Chips
      /\ Aged(c).start = Earlier(c.start) /\ Aged(c).hold = Earlier(c.hold)
      /\ Aged(c).shift = Earlier(c.shift)
  BY <1>1, <1>4 DEF Aged, Chips
<1>6. \A o : Latch(c, o) => Latch(Aged(c), o)
  BY DEF Latch, Aged, Chips
<1>7. /\ n \in Registers /\ n.waiting = l.waiting
      /\ n.delay = Earlier(l.delay) /\ n.shifting = Earlier(l.shifting)
  <2>1. Earlier(l.delay) \in 0..BitT /\ Earlier(l.shifting) \in 0..CharT
    BY <1>0, <1>1 DEF Registers, Earlier
  <2> QED
    BY <2>1 DEF Registers
<1>8. Clocked(l) = IF n.waiting > 0 /\ n.delay = 0 /\ n.shifting = 0 THEN Begun(n) ELSE n
  BY DEF Clocked
<1> HIDE DEF time, n
<1>9. CASE n.waiting > 0 /\ n.delay = 0 /\ n.shifting = 0
  <2>1. Clocked(l) = [waiting |-> l.waiting - 1, delay |-> 0, shifting |-> CharT]
    BY <1>7, <1>8, <1>9 DEF Begun
  <2>2. Clocked(l) \in Registers
    BY <1>0, <1>1, <1>7, <1>9, <2>1 DEF Registers
  <2>3. l.delay + l.shifting = 1 /\ l.waiting > 0
    BY <1>1, <1>3, <1>7, <1>9 DEF Earlier
  <2>4. Aged(c).start = 0 /\ Aged(c).shift = time
        /\ Aged(c).hold = time - CharT
    BY <1>0, <1>1, <1>2, <1>3, <1>5, <2>3 DEF Earlier
  <2>5. Adds(Aged(c), Clocked(l))
    BY <1>0, <1>1, <1>2, <2>1, <2>3, <2>4 DEF Adds
  <2> QED
    BY <1>5, <1>6, <2>2, <2>5
<1>10. CASE ~(n.waiting > 0 /\ n.delay = 0 /\ n.shifting = 0)
  <2>1. Clocked(l) = n /\ n.waiting * CharT = time
    BY <1>7, <1>8, <1>10 DEF time
  <2>2. /\ Aged(c).start = n.delay
        /\ Aged(c).shift = n.shifting + n.delay + time
        /\ Aged(c).hold = IF n.waiting = 0 THEN 0 ELSE Aged(c).shift - CharT
        /\ n.waiting = 0 => n.delay = 0
        /\ n.waiting > 0 => (n.delay > 0 <=> n.shifting = 0)
    <3>1. CASE l.waiting = 0
      BY <1>0, <1>1, <1>2, <1>3, <1>5, <1>7, <3>1 DEF Earlier
    <3>2. CASE l.waiting > 0
      <4>1. l.shifting + l.delay > 1
        BY <1>1, <1>3, <1>7, <1>10, <3>2 DEF Earlier
      <4> QED
        BY <1>0, <1>1, <1>2, <1>3, <1>5, <1>7, <3>2, <4>1 DEF Earlier
    <3> QED
      BY <1>1, <3>1, <3>2
  <2>3. Adds(Aged(c), Clocked(l))
    BY <2>1, <2>2 DEF Adds
  <2> QED
    BY <1>5, <1>6, <1>7, <2>1, <2>3
<1> QED
  BY <1>9, <1>10

-----------------------------------------------------------------------------
(***************************************************************************)
(* The steps.                                                              *)
(***************************************************************************)
\* A channel as an operation leaves it, before the look that ends the operation.
Sound(ch, s, l) ==
  /\ s.c \in Chips /\ s.h \in Line(ch) /\ s.o \in Owings
  /\ l \in Registers /\ Adds(s.c, l) /\ Latch(s.c, s.o)

\* An operation that leaves every channel sound, and ends in a look, keeps the invariant.
LEMMA Operates ==
  ASSUME straps \in Cards, straps' = straps, NEW state, Refresh(state),
         line' \in [Channels -> Registers],
         \A ch \in Channels : Sound(ch, state[ch], line'[ch])
  PROVE  IInv'
<1>1. \A ch \in Channels :
        state[ch].c \in Chips /\ state[ch].h \in Line(ch) /\ state[ch].o \in Owings
  BY DEF Sound
<1>2. /\ chip' \in [Channels -> Chips] /\ pin' \in BOOLEAN /\ wake' \in Nat
      /\ owed' \in [Channels -> Owings] /\ far' \in [Channels -> Lines]
      /\ \A ch \in Channels : far'[ch] \in Line(ch)
      /\ \A ch \in Channels :
           /\ chip'[ch].hold = state[ch].c.hold
           /\ chip'[ch].shift = state[ch].c.shift
           /\ chip'[ch].start = state[ch].c.start
      /\ \A ch \in Channels :
           Latch(state[ch].c, state[ch].o) => Latch(chip'[ch], owed'[ch])
      /\ Driven'
  BY <1>1, Refreshes
<1>3. TypeOK'
  BY <1>2 DEF TypeOK, Channels, Line, Registers, BitT, CharT, Owings
<1>4. Stages'
  BY <1>2 DEF Stages, Sound, Adds, Channels, CharT
<1>5. Latched'
  BY <1>2 DEF Latched, Sound, Channels, Latch
<1> QED
  BY <1>2, <1>3, <1>4, <1>5 DEF IInv

\* What the invariant says of one channel.
LEMMA Each ==
  ASSUME IInv, NEW ch \in Channels
  PROVE  /\ straps \in Cards
         /\ Now(ch).c = chip[ch] /\ Now(ch).h = far[ch] /\ Now(ch).o = owed[ch]
         /\ chip[ch] \in Chips /\ far[ch] \in Line(ch) /\ far[ch] \in Lines
         /\ owed[ch] \in Owings /\ line[ch] \in Registers
         /\ Adds(chip[ch], line[ch]) /\ Latch(chip[ch], owed[ch])
         /\ Sound(ch, Now(ch), line[ch])
BY DEF IInv, TypeOK, Stages, Latched, Now, Sound, Registers, Owings, Line

\* So does an operation on one channel.
LEMMA Touches ==
  ASSUME IInv, straps' = straps, NEW ch \in Channels, NEW s, Channel(ch, s), NEW l,
         line' = [line EXCEPT ![ch] = l], Sound(ch, s, l)
  PROVE  IInv'
<1> DEFINE state == [[x \in Channels |-> Now(x)] EXCEPT ![ch] = s]
<1>1. Refresh(state)
  BY DEF Channel
<1>2. line \in [Channels -> Registers] /\ l \in Registers
  BY DEF IInv, TypeOK, Registers, Sound
<1>3. line' \in [Channels -> Registers]
  BY <1>2
<1>4. \A x \in Channels : Sound(x, state[x], line'[x])
  <2> SUFFICES ASSUME NEW x \in Channels
               PROVE  Sound(x, state[x], line'[x])
    OBVIOUS
  <2>1. CASE x = ch
    <3>1. state[x] = s /\ line'[x] = l
      BY <1>2, <2>1
    <3> QED
      BY <2>1, <3>1
  <2>2. CASE x # ch
    <3>1. state[x] = Now(x) /\ line'[x] = line[x]
      BY <1>2, <2>2
    <3> QED
      BY <3>1, Each
  <2> QED
    BY <2>1, <2>2
<1>5. straps \in Cards
  BY Each
<1> HIDE DEF state
<1> QED
  BY <1>1, <1>3, <1>4, <1>5, Operates

\* One channel's transmitter is where it was when its deadlines are.
LEMMA SameTimes ==
  ASSUME NEW c, NEW d, NEW l, Adds(c, l),
         d.hold = c.hold, d.shift = c.shift, d.start = c.start
  PROVE  Adds(d, l)
BY DEF Adds

\* A status shows the loss, and begins its acknowledgement.
LEMMA StatusKeeps ==
  ASSUME IInv, NEW ch \in Channels, ReadStatus(ch)
  PROVE  IInv'
<1> DEFINE p == Poll(Now(ch))
           s == [c |-> [p.c EXCEPT !.read = p.c.dcd \/ @], h |-> p.h,
                 o |-> IF p.c.dcd /\ p.o = "loss" THEN "told" ELSE p.o]
<1>1. Channel(ch, s) /\ straps' = straps /\ line' = line
  BY DEF ReadStatus
<1>2. /\ straps \in Cards /\ Sound(ch, Now(ch), line[ch])
      /\ line[ch] \in Registers
  BY Each
<1>3. /\ p.c \in Chips /\ p.h \in Line(ch) /\ p.o \in Owings
      /\ p.c.hold = Now(ch).c.hold /\ p.c.shift = Now(ch).c.shift /\ p.c.start = Now(ch).c.start
      /\ Latch(p.c, p.o)
  BY <1>2, Looks DEF Sound
<1> HIDE DEF p
<1>4. s.c \in Chips
  <2>1. (p.c.dcd \/ p.c.read) \in BOOLEAN
    OBVIOUS
  <2>2. \A b \in BOOLEAN : [p.c EXCEPT !.read = b] \in Chips
    BY <1>3 DEF Chips
  <2> QED
    BY <2>1, <2>2
<1>5. /\ s.c.hold = Now(ch).c.hold /\ s.c.shift = Now(ch).c.shift /\ s.c.start = Now(ch).c.start
  BY <1>3 DEF Chips
<1>6. Adds(s.c, line[ch])
  BY <1>2, <1>5, SameTimes DEF Sound
<1>7. s.h \in Line(ch) /\ s.o \in Owings
  BY <1>3 DEF Owings
<1>8. Latch(s.c, s.o)
  BY <1>3 DEF Latch, Chips, Owings
<1>9. line' = [line EXCEPT ![ch] = line[ch]]
  BY <1>1 DEF IInv, TypeOK
<1> HIDE DEF s
<1> QED
  BY <1>1, <1>2, <1>4, <1>6, <1>7, <1>8, <1>9, Touches DEF Sound

\* The data acknowledges only a loss that was shown.
LEMMA DataKeeps ==
  ASSUME IInv, NEW ch \in Channels, ReadData(ch)
  PROVE  IInv'
<1> DEFINE p == Poll(Now(ch))
           a == Acknowledged(p.c)
           s == [c |-> [a EXCEPT !.rdrf = FALSE], h |-> p.h,
                 o |-> IF p.o = "told" THEN "none" ELSE p.o]
<1>1. Channel(ch, s) /\ straps' = straps /\ line' = line
  BY DEF ReadData
<1>2. /\ straps \in Cards /\ Sound(ch, Now(ch), line[ch])
      /\ line[ch] \in Registers
  BY Each
<1>3. /\ p.c \in Chips /\ p.h \in Line(ch) /\ p.o \in Owings
      /\ p.c.hold = Now(ch).c.hold /\ p.c.shift = Now(ch).c.shift /\ p.c.start = Now(ch).c.start
      /\ Latch(p.c, p.o)
  BY <1>2, Looks DEF Sound
<1> HIDE DEF p
<1>4. /\ a \in Chips
      /\ a.hold = p.c.hold /\ a.shift = p.c.shift /\ a.start = p.c.start
      /\ ~p.c.read => a = p.c
  <2>1. CASE p.c.read /\ p.c.dcd
    <3>1. a = [p.c EXCEPT !.dcdIrq = FALSE, !.read = FALSE, !.follow = TRUE, !.dcd = p.c.lost]
      BY <2>1 DEF Acknowledged
    <3> HIDE DEF a
    <3> QED
      BY <1>3, <2>1, <3>1 DEF Chips
  <2>2. CASE ~(p.c.read /\ p.c.dcd)
    BY <1>3, <2>2 DEF Acknowledged
  <2> QED
    BY <2>1, <2>2
<1> HIDE DEF a
<1>5. /\ s.c \in Chips
      /\ s.c.hold = Now(ch).c.hold /\ s.c.shift = Now(ch).c.shift /\ s.c.start = Now(ch).c.start
  BY <1>3, <1>4 DEF Chips
<1>6. Adds(s.c, line[ch])
  BY <1>2, <1>5, SameTimes DEF Sound
<1>7. s.h \in Line(ch) /\ s.o \in Owings
  BY <1>3 DEF Owings
<1>8. Latch(s.c, s.o)
  <2>1. CASE p.o = "loss"
    BY <1>3, <1>4, <2>1 DEF Latch, Chips
  <2>2. CASE p.o # "loss"
    BY <1>3, <2>2 DEF Latch, Owings
  <2> QED
    BY <2>1, <2>2
<1>9. line' = [line EXCEPT ![ch] = line[ch]]
  BY <1>1 DEF IInv, TypeOK
<1> HIDE DEF s
<1> QED
  BY <1>1, <1>2, <1>5, <1>6, <1>7, <1>8, <1>9, Touches DEF Sound

\* A chip initialized, and its line quiet.
LEMMA Resets ==
  ASSUME straps \in Cards, NEW ch \in Channels, NEW c \in Chips, NEW h \in Line(ch)
  PROVE  Sound(ch, [c |-> Initialized(c, h), h |-> h, o |-> "none"], Quiet)
<1>0. CharT \in Nat \ {0} /\ BitT \in Nat /\ MaxWaiting \in Nat
  BY Strapped
<1>1. h.carrier \in BOOLEAN /\ h.cts \in BOOLEAN /\ h.room \in BOOLEAN
  BY DEF Line, Lines
<1> DEFINE away == ~h.carrier
           s == [c |-> Initialized(c, h), h |-> h, o |-> "none"]
<1>2. away \in BOOLEAN
  OBVIOUS
<1>3. Initialized(c, h) =
        [c EXCEPT !.rdrf = FALSE, !.idle = TRUE, !.rx = 0, !.hold = 0, !.shift = 0, !.start = 0,
                  !.dcdIrq = FALSE, !.read = FALSE, !.follow = TRUE,
                  !.lost = away, !.dcd = away, !.cts = h.cts, !.room = h.room]
  BY DEF Initialized
<1> HIDE DEF away
<1>4. /\ Initialized(c, h) \in Chips
      /\ Initialized(c, h).hold = 0 /\ Initialized(c, h).shift = 0 /\ Initialized(c, h).start = 0
  <2>1. Initialized(c, h) \in Chips
    <3> DEFINE b == [c EXCEPT !.rdrf = FALSE, !.idle = TRUE, !.rx = 0, !.hold = 0, !.shift = 0,
                              !.start = 0, !.dcdIrq = FALSE, !.read = FALSE, !.follow = TRUE]
    <3>1. b \in Chips
      BY DEF Chips
    <3>2. Initialized(c, h) =
            [b EXCEPT !.lost = away, !.dcd = away, !.cts = h.cts, !.room = h.room]
      BY <1>3 DEF Chips
    <3> HIDE DEF b
    <3> QED
      BY <1>1, <1>2, <3>1, <3>2, Pins
  <2>2. Initialized(c, h).hold = 0 /\ Initialized(c, h).shift = 0 /\ Initialized(c, h).start = 0
    BY <1>3 DEF Chips
  <2> QED
    BY <2>1, <2>2
<1>5. Quiet \in Registers /\ Adds(Initialized(c, h), Quiet)
  BY <1>0, <1>4 DEF Quiet, Registers, Adds
<1>6. Latch(s.c, s.o) /\ s.o \in Owings
  BY DEF Latch, Owings
<1> QED
  BY <1>4, <1>5, <1>6 DEF Sound

\* A control word: a master reset, or the interrupt enables.
LEMMA ControlKeeps ==
  ASSUME IInv, NEW ch \in Channels, NEW reset \in BOOLEAN, NEW rie \in BOOLEAN,
         NEW tie \in BOOLEAN, WriteControl(ch, reset, rie, tie)
  PROVE  IInv'
<1> DEFINE c == [chip[ch] EXCEPT !.reset = reset, !.rie = rie, !.tie = tie]
<1>1. /\ straps \in Cards /\ chip[ch] \in Chips /\ far[ch] \in Line(ch) /\ owed[ch] \in Owings
      /\ line[ch] \in Registers /\ Adds(chip[ch], line[ch]) /\ Latch(chip[ch], owed[ch])
  BY Each
<1>2. /\ c \in Chips
      /\ c.hold = chip[ch].hold /\ c.shift = chip[ch].shift /\ c.start = chip[ch].start
  BY <1>1 DEF Chips
<1>3. Adds(c, line[ch])
  BY <1>1, <1>2, SameTimes
<1>4. Latch(c, owed[ch])
  BY <1>1 DEF Latch, Chips
<1>5. CASE reset
  <2> DEFINE s == [c |-> Initialized(c, far[ch]), h |-> far[ch], o |-> "none"]
  <2>1. Channel(ch, s) /\ line' = [line EXCEPT ![ch] = Quiet] /\ straps' = straps
    BY <1>5 DEF WriteControl
  <2> HIDE DEF c
  <2>2. Sound(ch, s, Quiet)
    BY <1>1, <1>2, Resets
  <2> HIDE DEF s
  <2> QED
    BY <2>1, <2>2, Touches
<1>6. CASE ~reset
  <2> DEFINE s == [c |-> c, h |-> far[ch], o |-> owed[ch]]
  <2>1. Channel(ch, s) /\ line' = line /\ straps' = straps
    BY <1>6 DEF WriteControl
  <2> HIDE DEF c
  <2>2. Sound(ch, s, line[ch])
    BY <1>1, <1>2, <1>3, <1>4 DEF Sound
  <2>3. line' = [line EXCEPT ![ch] = line[ch]]
    BY <2>1 DEF IInv, TypeOK
  <2> HIDE DEF s
  <2> QED
    BY <2>1, <2>2, <2>3, Touches
<1> QED
  BY <1>5, <1>6

\* A character for the line.
LEMMA CharacterKeeps ==
  ASSUME IInv, NEW ch \in Channels, WriteData(ch)
  PROVE  IInv'
<1> DEFINE s == [c |-> Loaded(chip[ch]), h |-> far[ch], o |-> owed[ch]]
<1>1. /\ straps \in Cards /\ chip[ch] \in Chips /\ far[ch] \in Line(ch) /\ owed[ch] \in Owings
      /\ line[ch] \in Registers /\ Adds(chip[ch], line[ch]) /\ Latch(chip[ch], owed[ch])
      /\ line \in [Channels -> Registers]
  BY Each DEF IInv, TypeOK, Registers
<1>2. /\ line[ch].waiting < MaxWaiting /\ Channel(ch, s) /\ straps' = straps
      /\ line' = [line EXCEPT ![ch] = Written(line[ch])]
  BY DEF WriteData
<1>3. /\ Loaded(chip[ch]) \in Chips /\ Written(line[ch]) \in Registers
      /\ Adds(Loaded(chip[ch]), Written(line[ch]))
      /\ Latch(Loaded(chip[ch]), owed[ch])
  BY <1>1, <1>2, Writes
<1>4. Sound(ch, s, Written(line[ch]))
  BY <1>1, <1>3 DEF Sound
<1> HIDE DEF s
<1> QED
  BY <1>2, <1>4, Touches

\* Another endpoint: neither the latch nor the transmitter sees it.
LEMMA ConnectKeeps ==
  ASSUME IInv, NEW ch \in Channels, NEW h \in Line(ch), Connect(ch, h)
  PROVE  IInv'
<1> DEFINE lost == ~h.carrier
           c == [chip[ch] EXCEPT !.lost = lost, !.cts = h.cts, !.room = h.room]
           s == [c |-> c, h |-> h, o |-> owed[ch]]
<1>1. /\ straps \in Cards /\ chip[ch] \in Chips /\ owed[ch] \in Owings
      /\ line[ch] \in Registers /\ Adds(chip[ch], line[ch]) /\ Latch(chip[ch], owed[ch])
  BY Each
<1>2. lost \in BOOLEAN /\ h.cts \in BOOLEAN /\ h.room \in BOOLEAN
  BY DEF Line, Lines
<1>3. Channel(ch, s) /\ line' = line /\ straps' = straps
  BY DEF Connect
<1> HIDE DEF lost
<1>4. /\ c \in Chips
      /\ c.hold = chip[ch].hold /\ c.shift = chip[ch].shift /\ c.start = chip[ch].start
  BY <1>1, <1>2 DEF Chips
<1>5. Adds(c, line[ch])
  BY <1>1, <1>4, SameTimes
<1>6. Latch(c, owed[ch])
  BY <1>1 DEF Latch, Chips
<1> HIDE DEF c
<1>7. Sound(ch, s, line[ch])
  BY <1>1, <1>4, <1>5, <1>6 DEF Sound
<1>8. line' = [line EXCEPT ![ch] = line[ch]]
  BY <1>3 DEF IInv, TypeOK
<1> HIDE DEF s
<1> QED
  BY <1>3, <1>7, <1>8, Touches

\* The whole card: its power, its pump, and a snapshot of it.
LEMMA CardKeeps ==
  ASSUME IInv, Power \/ Pump \/ Restore
  PROVE  IInv'
<1>1. /\ straps \in Cards /\ line \in [Channels -> Registers]
      /\ \A ch \in Channels :
           /\ chip[ch] \in Chips /\ far[ch] \in Line(ch) /\ owed[ch] \in Owings
           /\ line[ch] \in Registers /\ Adds(chip[ch], line[ch]) /\ Latch(chip[ch], owed[ch])
           /\ Sound(ch, Now(ch), line[ch])
  BY Each DEF IInv, TypeOK, Registers
<1>2. CASE Power
  <2> DEFINE off(ch) == [chip[ch] EXCEPT !.reset = FALSE, !.rie = FALSE, !.tie = FALSE]
             state == [ch \in Channels |->
                         [c |-> Initialized(off(ch), far[ch]), h |-> far[ch], o |-> "none"]]
  <2>1. /\ Refresh(state) /\ straps' = straps
        /\ line' = [ch \in Channels |-> Quiet]
    BY <1>2 DEF Power
  <2>2. \A ch \in Channels : off(ch) \in Chips
    BY <1>1 DEF Chips
  <2> HIDE DEF off
  <2>3. \A ch \in Channels : Sound(ch, state[ch], Quiet)
    BY <1>1, <2>2, Resets
  <2>4. \A ch \in Channels : line'[ch] = Quiet /\ Quiet \in Registers
    BY <2>1, <2>3 DEF Sound
  <2>5. line' \in [Channels -> Registers]
    BY <2>1, <2>4
  <2> HIDE DEF state
  <2> QED
    BY <1>1, <2>1, <2>3, <2>4, <2>5, Operates
<1>3. CASE Pump
  <2> DEFINE state == [ch \in Channels |-> Now(ch)]
  <2>1. Refresh(state) /\ straps' = straps /\ line' = line
    BY <1>3 DEF Pump
  <2>2. \A ch \in Channels : Sound(ch, state[ch], line'[ch])
    BY <1>1, <2>1
  <2> HIDE DEF state
  <2> QED
    BY <1>1, <2>1, <2>2, Operates
<1>4. CASE Restore
  <2> DEFINE c(ch) == [chip[ch] EXCEPT !.idle = TRUE]
             state == [ch \in Channels |-> [c |-> c(ch), h |-> far[ch], o |-> owed[ch]]]
  <2>1. Refresh(state) /\ straps' = straps /\ line' = line
    BY <1>4 DEF Restore
  <2>2. \A ch \in Channels :
          /\ c(ch) \in Chips /\ Latch(c(ch), owed[ch])
          /\ c(ch).hold = chip[ch].hold /\ c(ch).shift = chip[ch].shift
          /\ c(ch).start = chip[ch].start
    BY <1>1 DEF Chips, Latch
  <2> HIDE DEF c
  <2>3. \A ch \in Channels : Adds(c(ch), line[ch])
    BY <1>1, <2>2, SameTimes
  <2>4. \A ch \in Channels : Sound(ch, state[ch], line'[ch])
    BY <1>1, <2>1, <2>2, <2>3 DEF Sound
  <2> HIDE DEF state
  <2> QED
    BY <1>1, <2>1, <2>4, Operates
<1> QED
  BY <1>2, <1>3, <1>4

\* A T-state with no deadline due moves no pin, and brings every deadline as much nearer.
LEMMA Ages ==
  ASSUME NEW c \in Chips, wake \in Nat, wake # 1,
         c.rie => ~Overdue(c), \A w \in Armed(c) : 0 < wake /\ wake <= w
  PROVE  LET a == Aged(c) IN
           /\ Irq(a) <=> Irq(c)
           /\ a.rie => ~Overdue(a)
           /\ \A w \in Armed(a) : 0 < Earlier(wake) /\ Earlier(wake) <= w
<1> DEFINE a == Aged(c)
<1>1. c.hold \in Nat /\ c.rx \in Nat
  BY DEF Chips
<1>2. a.hold = Earlier(c.hold) /\ a.rx = Earlier(c.rx)
  BY DEF Aged, Chips
<1>3. /\ a.reset = c.reset /\ a.rie = c.rie /\ a.tie = c.tie /\ a.cts = c.cts /\ a.room = c.room
      /\ a.rdrf = c.rdrf /\ a.lost = c.lost /\ a.idle = c.idle /\ a.dcdIrq = c.dcdIrq
  BY DEF Aged, Chips
<1> HIDE DEF a
<1>4. Irq(a) <=> Irq(c)
  <2>1. c.tie => (Tdre(a) <=> Tdre(c))
    BY <1>1, <1>2, <1>3 DEF Tdre, Armed, Earlier
  <2> QED
    BY <1>3, <2>1 DEF Irq
<1>5. a.rie => ~Overdue(a)
  BY <1>1, <1>2, <1>3 DEF Overdue, Armed, Earlier
<1>6. \A w \in Armed(a) : 0 < Earlier(wake) /\ Earlier(wake) <= w
  BY <1>1, <1>2, <1>3 DEF Armed, Earlier
<1> QED
  BY <1>4, <1>5, <1>6 DEF a

\* One T-state.  When the deadline is due the card looks; when it is not, nothing that
\* could move the pin has come due.
LEMMA TickKeeps ==
  ASSUME IInv, Tick
  PROVE  IInv'
<1> DEFINE aged == [ch \in Channels |-> [c |-> Aged(chip[ch]), h |-> far[ch], o |-> owed[ch]]]
<1>1. /\ straps \in Cards /\ wake \in Nat
      /\ \A ch \in Channels :
           /\ chip[ch] \in Chips /\ far[ch] \in Line(ch) /\ owed[ch] \in Owings
           /\ line[ch] \in Registers /\ Adds(chip[ch], line[ch]) /\ Latch(chip[ch], owed[ch])
  BY Each DEF IInv, TypeOK
<1>2. line' = [ch \in Channels |-> Clocked(line[ch])] /\ straps' = straps
  BY DEF Tick
<1>3. \A ch \in Channels :
        /\ Aged(chip[ch]) \in Chips /\ Clocked(line[ch]) \in Registers
        /\ Adds(Aged(chip[ch]), Clocked(line[ch])) /\ Latch(Aged(chip[ch]), owed[ch])
  BY <1>1, Ticks
<1>4. line' \in [Channels -> Registers] /\ \A ch \in Channels : line'[ch] = Clocked(line[ch])
  BY <1>2, <1>3
<1>5. CASE wake = 1
  <2>1. Refresh(aged)
    BY <1>5 DEF Tick
  <2>2. \A ch \in Channels : Sound(ch, aged[ch], line'[ch])
    BY <1>1, <1>3, <1>4 DEF Sound
  <2> HIDE DEF aged
  <2> QED
    BY <1>1, <1>2, <1>4, <2>1, <2>2, Operates
<1>6. CASE wake # 1
  <2>1. /\ chip' = [ch \in Channels |-> Aged(chip[ch])]
        /\ wake' = Earlier(wake)
        /\ UNCHANGED <<straps, far, pin, owed>>
    BY <1>6 DEF Tick
  <2>2. TypeOK'
    BY <1>1, <1>3, <1>4, <2>1
       DEF IInv, TypeOK, Channels, Line, Registers, BitT, CharT, Owings, Earlier
  <2>3. \A ch \in Channels : chip'[ch] = Aged(chip[ch])
    BY <2>1
  <2>4. Stages'
    BY <1>3, <1>4, <2>1, <2>3 DEF Stages, Adds, Channels, CharT
  <2>5. Latched'
    BY <1>3, <2>1, <2>3 DEF Latched, Latch, Channels
  <2>6. Driven'
    <3>1. /\ pin <=> \E ch \in straps.jumpered : Irq(chip[ch])
          /\ \A ch \in Channels : chip[ch].rie => ~Overdue(chip[ch])
          /\ \A ch \in Channels : \A w \in Armed(chip[ch]) : 0 < wake /\ wake <= w
      BY DEF IInv, Driven
    <3>2. \A ch \in Channels :
            /\ Irq(Aged(chip[ch])) <=> Irq(chip[ch])
            /\ Aged(chip[ch]).rie => ~Overdue(Aged(chip[ch]))
            /\ \A w \in Armed(Aged(chip[ch])) : 0 < Earlier(wake) /\ Earlier(wake) <= w
      BY <1>1, <1>6, <3>1, Ages
    <3>3. straps.jumpered \subseteq Channels
      BY <1>1, Strapped
    <3>4. (pin <=> \E ch \in straps.jumpered : Irq(chip[ch]))'
      <4>1. pin' = pin /\ straps' = straps
        BY <2>1
      <4>2. \A ch \in straps.jumpered : Irq(chip'[ch]) <=> Irq(chip[ch])
        BY <2>3, <3>2, <3>3
      <4>3. pin <=> \E ch \in straps.jumpered : Irq(chip'[ch])
        BY <3>1, <4>2
      <4> QED
        BY <4>1, <4>3 DEF Irq, Tdre
    <3>5. (\A ch \in Channels : chip[ch].rie => ~Overdue(chip[ch]))'
      BY <2>1, <2>3, <3>2 DEF Channels, Overdue
    <3>6. (\A ch \in Channels : \A w \in Armed(chip[ch]) : 0 < wake /\ wake <= w)'
      BY <2>1, <2>3, <3>2 DEF Channels, Armed
    <3> QED
      BY <3>4, <3>5, <3>6 DEF Driven
  <2> QED
    BY <2>2, <2>4, <2>5, <2>6 DEF IInv
<1> QED
  BY <1>5, <1>6

\* A pin of the far end, or a key: the card has not looked.
LEMMA FarKeeps ==
  ASSUME IInv, NEW ch \in Channels, FarMoves(ch)
  PROVE  IInv'
<1>1. PICK h \in Line(ch) : far' = [far EXCEPT ![ch] = h]
  BY DEF FarMoves
<1>2. UNCHANGED <<straps, chip, pin, wake, line, owed>>
  BY DEF FarMoves
<1>3. \A x \in Channels : far[x] \in Line(x)
  BY DEF IInv, TypeOK
<1>4. far' \in [Channels -> Lines] /\ \A x \in Channels : far'[x] \in Line(x)
  BY <1>1, <1>3 DEF IInv, TypeOK, Line
<1>5. TypeOK'
  BY <1>2, <1>4 DEF IInv, TypeOK, Channels, Line, BitT, CharT
<1>6. Driven' /\ Stages' /\ Latched'
  BY <1>2 DEF IInv, Driven, Stages, Latched, Channels, Adds, CharT, Latch, Armed, Overdue, Irq, Tdre
<1> QED
  BY <1>5, <1>6 DEF IInv

\* The inductive invariant holds at first,
LEMMA StartsSound == Init => IInv
<1> SUFFICES ASSUME Init PROVE IInv
  OBVIOUS
<1>0. straps \in Cards
  BY DEF Init
<1>1. CharT \in Nat \ {0} /\ BitT \in Nat /\ MaxTyped \in Nat /\ MaxWaiting \in Nat
      /\ straps.jumpered \subseteq Channels
  BY <1>0, Strapped
<1>2. /\ \A ch \in Channels : far[ch] = Open /\ chip[ch] = Off /\ line[ch] = Quiet /\ owed[ch] = "none"
      /\ pin = FALSE /\ wake = 0
  BY DEF Init
<1>3. Off \in Chips
  BY DEF Off, Chips
<1>4. Quiet \in Registers
  BY <1>1 DEF Quiet, Registers
<1>5. \A ch \in Channels : Open \in Line(ch)
  BY <1>1 DEF Open, Line, Lines
<1>6. TypeOK
  <2>1. far \in [Channels -> Lines]
    BY <1>5 DEF Init, Line
  <2>2. chip \in [Channels -> Chips] /\ line \in [Channels -> Registers]
    BY <1>3, <1>4 DEF Init
  <2>3. owed \in [Channels -> {"none", "loss", "told"}]
    BY DEF Init
  <2>4. pin \in BOOLEAN /\ wake \in Nat
    BY <1>2
  <2> QED
    BY <1>0, <1>2, <1>5, <2>1, <2>2, <2>3, <2>4 DEF TypeOK, Registers
<1>7. Adds(Off, Quiet) /\ Latch(Off, "none") /\ Armed(Off) = {} /\ ~Overdue(Off) /\ ~Irq(Off)
  BY <1>1 DEF Adds, Off, Quiet, Latch, Armed, Overdue, Irq, Tdre
<1>8. Driven
  BY <1>1, <1>2, <1>7 DEF Driven
<1>9. Stages /\ Latched
  BY <1>2, <1>7 DEF Stages, Latched
<1> QED
  BY <1>6, <1>8, <1>9 DEF IInv

\* is kept by every step,
LEMMA StepKeeps == IInv /\ [Next]_vars => IInv'
<1> SUFFICES ASSUME IInv, [Next]_vars PROVE IInv'
  OBVIOUS
<1>1. ASSUME NEW ch \in Channels,
             ReadStatus(ch) \/ ReadData(ch) \/ WriteData(ch) \/ FarMoves(ch)
      PROVE  IInv'
  BY <1>1, StatusKeeps, DataKeeps, CharacterKeeps, FarKeeps
<1>2. ASSUME NEW ch \in Channels, NEW reset \in BOOLEAN, NEW rie \in BOOLEAN, NEW tie \in BOOLEAN,
             WriteControl(ch, reset, rie, tie)
      PROVE  IInv'
  BY <1>2, ControlKeeps
<1>3. ASSUME NEW ch \in Channels, NEW h \in Line(ch), Connect(ch, h)
      PROVE  IInv'
  BY <1>3, ConnectKeeps
<1>4. CASE Power \/ Pump \/ Restore
  BY <1>4, CardKeeps
<1>5. CASE Tick
  BY <1>5, TickKeeps
<1>6. CASE UNCHANGED vars
  BY <1>6 DEF vars, IInv, TypeOK, Driven, Stages, Latched, Channels, Line, BitT, CharT,
              Adds, Latch, Armed, Overdue, Irq, Tdre
<1> QED
  BY <1>1, <1>2, <1>3, <1>4, <1>5, <1>6 DEF Next

\* and so holds always.
LEMMA Inductive == Spec => []IInv
BY StartsSound, StepKeeps, PTL DEF Spec
-----------------------------------------------------------------------------
\* The kinds of things, for any card.
THEOREM TypeCorrect == Spec => []TypeOK
<1>1. IInv => TypeOK
  BY DEF IInv
<1> QED
  BY <1>1, Inductive, PTL

\* Nobody asks the card, and pin 73 is right at every T-state: the deadline is never later
\* than a moment at which a chip could want it moved.
THEOREM PinHonest == Spec => []PinIsHonest
<1>1. IInv => PinIsHonest
  <2> SUFFICES ASSUME IInv PROVE PinIsHonest
    OBVIOUS
  <2>1. straps.jumpered \subseteq Channels
    BY Strapped DEF IInv, TypeOK
  <2> QED
    BY <2>1 DEF IInv, Driven, PinIsHonest
<1> QED
  BY <1>1, Inductive, PTL

\* The three deadlines of TwoStageTx are the 6850's two registers, for any character time
\* and transfer delay, and for any number of characters written ahead.
THEOREM TwoStages == Spec => []TxIsTwoStages
<1>1. IInv => TxIsTwoStages
  <2> SUFFICES ASSUME IInv, NEW ch \in Channels
               PROVE  /\ chip[ch].hold = 0 <=> line[ch].waiting = 0
                      /\ LineIdle(chip[ch]) <=> line[ch].shifting = 0
    BY DEF TxIsTwoStages
  <2> QED
    BY Each, Agrees
<1> QED
  BY <1>1, Inductive, PTL

\* A loss of carrier is acknowledged only by a guest that was shown it.
THEOREM LossRemembered == Spec => []LossIsRemembered
<1>1. IInv => LossIsRemembered
  BY DEF IInv, Latched, Latch, LossIsRemembered
<1> QED
  BY <1>1, Inductive, PTL
=============================================================================
