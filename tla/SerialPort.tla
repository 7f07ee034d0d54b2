----------------------------- MODULE SerialPort -----------------------------
(***************************************************************************)
(* The serial section of a card: MC6850s that share one deadline.          *)
(*                                                                         *)
(* A chip never polls.  Whatever moves it ends in refresh(): every chip    *)
(* looks at its line, the card drives pin 73, and one deadline is set for  *)
(* the next moment the pin could move with nobody touching the card.  The  *)
(* outside world moves at any time and is heard at the next look.          *)
(*                                                                         *)
(* A deadline is only ever compared with the clock, so each is kept as the *)
(* time left until it, 0 when it has passed.                               *)
(***************************************************************************)
EXTENDS Integers, Sequences, FiniteSets, FiniteSetsExt

CONSTANTS
  Cards,      \* the cards looked at, and how they are strapped
  MaxTyped,   \* a bound: characters waiting on the host's side
  MaxWaiting  \* a bound: characters the guest writes ahead of the line

\* channels: its 6850s; jumpered: those whose IRQ reaches pin 73; wired: those whose /DCD
\* and /CTS reach the connector; charT and bitT: a character and a bit time, of the baud
\* jumper and the word format the guest always programs; full, a bound: those whose
\* endpoint may be unable to take a character.
ASSUME SerialPortAssumption ==
  /\ \A card \in Cards :
       /\ IsFiniteSet(card.channels)
       /\ {card.jumpered, card.wired, card.full} \subseteq SUBSET card.channels
       /\ card.charT \in Nat \ {0} /\ card.bitT \in Nat
  /\ MaxTyped \in Nat /\ MaxWaiting \in Nat

VARIABLES
  straps,     \* the card, of Cards
  far,        \* far[ch]: the line as the straps show it to the chip, [carrier, cts, room, typed]
  chip,       \* chip[ch]: Mc6850
  pin,        \* the card pulls pin 73
  wake,       \* the time left to the card's deadline, 0 when it has none
  line,       \* history: the transmitter's two registers, [waiting, delay, shifting]
  owed        \* history: owed[ch], a carrier loss the guest has not acknowledged

vars == <<straps, far, chip, pin, wake, line, owed>>

Channels == straps.channels
CharT == straps.charT
BitT == straps.bitT

Lines == [carrier : BOOLEAN, cts : BOOLEAN, room : BOOLEAN, typed : 0..MaxTyped]

\* A grounded pin never asks the far end.
Line(ch) ==
  {h \in Lines : (ch \in straps.wired \/ (h.carrier /\ h.cts)) /\ (ch \in straps.full \/ h.room)}

\* reset, rie and tie are the control register's; rx, hold, shift and start are times left:
\* to rxNextAt_ and TwoStageTx's holdFreeAt_, lineFreeAt_ and idleUntil_.  Nothing ever sets
\* ovrn_: the line waits for the receiver.
Chips == [reset : BOOLEAN, rie : BOOLEAN, tie : BOOLEAN,
          rdrf : BOOLEAN, idle : BOOLEAN, rx : Nat,
          hold : Nat, shift : Nat, start : Nat,
          dcd : BOOLEAN, dcdIrq : BOOLEAN, read : BOOLEAN, lost : BOOLEAN, follow : BOOLEAN,
          cts : BOOLEAN, room : BOOLEAN]
-----------------------------------------------------------------------------
(***************************************************************************)
(* One 6850.                                                               *)
(***************************************************************************)
Tdre(c) == ~c.reset /\ c.hold = 0 /\ c.cts /\ c.room

Irq(c) == (c.rie /\ (c.rdrf \/ c.dcdIrq)) \/ (c.tie /\ Tdre(c))

\* sampleDcd: the loss is latched, and empties the receiver.
LossMutant(c) ==
  [c EXCEPT !.dcd = TRUE, !.dcdIrq = TRUE, !.follow = FALSE, !.rdrf = FALSE, !.idle = TRUE]
Loss(c) ==
  [c EXCEPT !.dcd = TRUE, !.dcdIrq = TRUE, !.follow = FALSE, !.read = FALSE,
            !.rdrf = FALSE, !.idle = TRUE]

Sampled(c, h) ==
  LET d == IF ~h.carrier /\ ~c.lost THEN Loss(c) ELSE c IN
    [d EXCEPT !.lost = ~h.carrier, !.dcd = IF d.follow THEN ~h.carrier ELSE @,
              !.cts = h.cts, !.room = h.room]

\* The character that began when the line was quiet takes its whole time from now.
Shifting(c) == IF c.idle THEN [c EXCEPT !.idle = FALSE, !.rx = CharT] ELSE c

Takes(c, h) ==
  /\ h.carrier /\ ~c.reset /\ ~c.rdrf /\ h.typed > 0
  /\ Shifting(c).rx = 0

\* poll(): sample the pins, then take the character that has arrived.
Polled(c, h) ==
  LET s == Sampled(c, h) IN
    IF ~h.carrier \/ s.reset \/ s.rdrf THEN s
    ELSE IF Takes(s, h) THEN [s EXCEPT !.idle = FALSE, !.rdrf = TRUE, !.rx = CharT]
    ELSE IF h.typed = 0 THEN [s EXCEPT !.idle = TRUE]
    ELSE Shifting(s)

Taken(c, h) == IF Takes(Sampled(c, h), h) THEN [h EXCEPT !.typed = @ - 1] ELSE h

\* resetAction, in which the control register is not touched.
Initialized(c, h) ==
  [c EXCEPT !.rdrf = FALSE, !.idle = TRUE, !.rx = 0, !.hold = 0, !.shift = 0, !.start = 0,
            !.dcdIrq = FALSE, !.read = FALSE, !.follow = TRUE,
            !.lost = ~h.carrier, !.dcd = ~h.carrier, !.cts = h.cts, !.room = h.room]

\* TwoStageTx::load
LoadedMutant(c) ==
  LET begins == IF c.hold = 0 THEN BitT ELSE c.shift IN
    [c EXCEPT !.start = IF c.shift = 0 THEN begins ELSE @, !.hold = begins, !.shift = begins + CharT]
Loaded(c) ==
  LET begins == IF c.shift = 0 THEN BitT ELSE c.shift IN
    [c EXCEPT !.start = IF c.shift = 0 THEN begins ELSE @, !.hold = begins, !.shift = begins + CharT]

LineIdle(c) == c.shift = 0 \/ c.start > 0

\* nextEdge: the moments, from now, at which the pin could move by itself.
EdgesMutant(c, h) ==
  IF c.reset THEN {}
  ELSE {w \in {c.shift} : w > 0 /\ c.tie /\ c.cts /\ c.room} \cup
       {w \in {c.rx} : w > 0 /\ c.rie /\ ~c.rdrf /\ h.carrier /\ h.typed > 0}
Edges(c, h) ==
  IF c.reset THEN {}
  ELSE {w \in {c.hold} : w > 0 /\ c.tie /\ c.cts /\ c.room} \cup
       {w \in {c.rx} : w > 0 /\ c.rie /\ ~c.rdrf /\ h.carrier /\ h.typed > 0}

Earlier(n) == IF n > 0 THEN n - 1 ELSE 0
Aged(c) == [c EXCEPT !.rx = Earlier(@), !.hold = Earlier(@), !.shift = Earlier(@), !.start = Earlier(@)]
-----------------------------------------------------------------------------
(***************************************************************************)
(* The card.                                                               *)
(***************************************************************************)
\* A channel at a look: its chip, its line as the chip sees it, and what it is owed.
Now(ch) == [c |-> chip[ch], h |-> far[ch], o |-> owed[ch]]

Poll(s) == [c |-> Polled(s.c, s.h), h |-> Taken(s.c, s.h),
            o |-> IF ~s.h.carrier /\ ~s.c.lost THEN "loss" ELSE s.o]

\* refresh(), from the channels as the operation left them.
Refresh(state) ==
  LET polled == [ch \in Channels |-> Poll(state[ch])]
      edges == UNION {Edges(polled[ch].c, polled[ch].h) : ch \in Channels}
  IN /\ chip' = [ch \in Channels |-> polled[ch].c]
     /\ pin' = \E ch \in straps.jumpered : Irq(polled[ch].c)
     /\ wake' = IF edges = {} THEN 0 ELSE Min(edges)
     /\ owed' = [ch \in Channels |-> polled[ch].o]
     /\ far' = [ch \in Channels |-> polled[ch].h]

Channel(ch, s) == Refresh([[x \in Channels |-> Now(x)] EXCEPT ![ch] = s])

ReadStatus(ch) ==
  /\ LET s == Poll(Now(ch)) IN
       Channel(ch, [c |-> [s.c EXCEPT !.read = s.c.dcd \/ @], h |-> s.h,
                    o |-> IF s.c.dcd /\ s.o = "loss" THEN "told" ELSE s.o])
  /\ UNCHANGED <<straps, line>>

\* The second step of the acknowledgement, after a status that showed the loss.
Acknowledged(c) ==
  IF c.read /\ c.dcd THEN [c EXCEPT !.dcdIrq = FALSE, !.read = FALSE, !.follow = TRUE, !.dcd = c.lost]
  ELSE c

ReadData(ch) ==
  /\ LET s == Poll(Now(ch)) IN
       Channel(ch, [c |-> [Acknowledged(s.c) EXCEPT !.rdrf = FALSE], h |-> s.h,
                    o |-> IF s.o = "told" THEN "none" ELSE s.o])
  /\ UNCHANGED <<straps, line>>

Quiet == [waiting |-> 0, delay |-> 0, shifting |-> 0]

WriteControl(ch, reset, rie, tie) ==
  LET c == [chip[ch] EXCEPT !.reset = reset, !.rie = rie, !.tie = tie] IN
    IF reset
    THEN /\ Channel(ch, [c |-> Initialized(c, far[ch]), h |-> far[ch], o |-> "none"])
         /\ line' = [line EXCEPT ![ch] = Quiet]
         /\ UNCHANGED straps
    ELSE /\ Channel(ch, [c |-> c, h |-> far[ch], o |-> owed[ch]])
         /\ UNCHANGED <<straps, line>>

\* The two registers: an idle line takes the character after the transfer delay, a busy
\* one when it has finished with the last.
Begun(l) == [waiting |-> l.waiting - 1, delay |-> 0, shifting |-> CharT]
Written(l) ==
  IF l.waiting > 0 \/ l.shifting > 0 THEN [l EXCEPT !.waiting = @ + 1]
  ELSE IF BitT = 0 THEN [l EXCEPT !.shifting = CharT]
  ELSE [l EXCEPT !.waiting = 1, !.delay = BitT]
Clocked(l) ==
  LET n == [l EXCEPT !.delay = Earlier(@), !.shifting = Earlier(@)] IN
    IF n.waiting > 0 /\ n.delay = 0 /\ n.shifting = 0 THEN Begun(n) ELSE n

WriteData(ch) ==
  /\ line[ch].waiting < MaxWaiting
  /\ Channel(ch, [c |-> Loaded(chip[ch]), h |-> far[ch], o |-> owed[ch]])
  /\ line' = [line EXCEPT ![ch] = Written(@)]
  /\ UNCHANGED straps

\* POC: a 6850 has no reset pin, so a bus reset only drives the pin again.
Power ==
  /\ Refresh([ch \in Channels |->
       [c |-> Initialized([chip[ch] EXCEPT !.reset = FALSE, !.rie = FALSE, !.tie = FALSE], far[ch]),
        h |-> far[ch], o |-> "none"]])
  /\ line' = [ch \in Channels |-> Quiet]
  /\ UNCHANGED straps

\* pump(), and a bus reset.
Pump == Refresh([ch \in Channels |-> Now(ch)]) /\ UNCHANGED <<straps, line>>

\* A snapshot of this moment comes back: the queue is emptied, and rxIdle_ is not in it.
Restore ==
  /\ Refresh([ch \in Channels |->
       [c |-> [chip[ch] EXCEPT !.idle = TRUE], h |-> far[ch], o |-> owed[ch]]])
  /\ UNCHANGED <<straps, line>>

\* CONNECT plugs in another endpoint, whose levels are not an edge.
Connect(ch, h) ==
  /\ Channel(ch, [c |-> [chip[ch] EXCEPT !.lost = ~h.carrier, !.cts = h.cts, !.room = h.room],
                  h |-> h, o |-> owed[ch]])
  /\ UNCHANGED <<straps, line>>

\* A pin of the far end moves or a character is typed, and nobody looks.
FarMoves(ch) ==
  /\ \E h \in Line(ch) :
       /\ h \in {[far[ch] EXCEPT !.carrier = ~@], [far[ch] EXCEPT !.cts = ~@],
                [far[ch] EXCEPT !.room = ~@], [far[ch] EXCEPT !.typed = @ + 1]}
       /\ far' = [far EXCEPT ![ch] = h]
  /\ UNCHANGED <<straps, chip, pin, wake, line, owed>>

\* One T-state; the deadline fires at its moment.
Tick ==
  /\ LET aged == [ch \in Channels |-> [c |-> Aged(chip[ch]), h |-> far[ch], o |-> owed[ch]]] IN
       IF wake = 1 THEN Refresh(aged)
       ELSE /\ chip' = [ch \in Channels |-> aged[ch].c]
            /\ wake' = Earlier(wake)
            /\ UNCHANGED <<far, pin, owed>>
  /\ line' = [ch \in Channels |-> Clocked(line[ch])]
  /\ UNCHANGED straps

Off == [reset |-> FALSE, rie |-> FALSE, tie |-> FALSE, rdrf |-> FALSE, idle |-> TRUE,
        rx |-> 0, hold |-> 0, shift |-> 0, start |-> 0,
        dcd |-> FALSE, dcdIrq |-> FALSE, read |-> FALSE, lost |-> FALSE, follow |-> TRUE,
        cts |-> TRUE, room |-> TRUE]
Open == [carrier |-> TRUE, cts |-> TRUE, room |-> TRUE, typed |-> 0]

Init ==
  /\ straps \in Cards
  /\ far = [ch \in Channels |-> Open]
  /\ chip = [ch \in Channels |-> Off]
  /\ pin = FALSE /\ wake = 0
  /\ line = [ch \in Channels |-> Quiet]
  /\ owed = [ch \in Channels |-> "none"]

Next ==
  \/ \E ch \in Channels :
       \/ ReadStatus(ch) \/ ReadData(ch) \/ WriteData(ch) \/ FarMoves(ch)
       \/ \E reset, rie, tie \in BOOLEAN : WriteControl(ch, reset, rie, tie)
       \/ \E h \in Line(ch) : Connect(ch, h)
  \/ Pump \/ Power \/ Restore \/ Tick

Spec == Init /\ [][Next]_vars
-----------------------------------------------------------------------------
\* The kinds of things; no more characters are taken than were typed, and no time left
\* is ever negative.
TypeOK ==
  /\ straps \in Cards
  /\ far \in [Channels -> Lines] /\ \A ch \in Channels : far[ch] \in Line(ch)
  /\ chip \in [Channels -> Chips] /\ pin \in BOOLEAN /\ wake \in Nat
  /\ line \in [Channels -> [waiting : 0..MaxWaiting, delay : 0..BitT, shifting : 0..CharT]]
  /\ owed \in [Channels -> {"none", "loss", "told"}]

\* A character that has had its time and was not taken.
Overdue(c) == ~c.reset /\ ~c.lost /\ ~c.rdrf /\ ~c.idle /\ c.rx = 0

\* Nobody asks the card: what it drives on pin 73 is, at every T-state, what its chips
\* are asking for, with every character that has arrived since the line was looked at.
PinIsHonest ==
  pin <=> \E ch \in straps.jumpered : Irq(chip[ch]) \/ (chip[ch].rie /\ Overdue(chip[ch]))

\* Three deadlines are a holding register in front of a shift register: TDRE is set just
\* when nothing waits, and the line is idle just when nothing shifts.
TxIsTwoStages ==
  \A ch \in Channels :
    /\ chip[ch].hold = 0 <=> line[ch].waiting = 0
    /\ LineIdle(chip[ch]) <=> line[ch].shifting = 0

\* A loss of carrier shows, and interrupts, until the guest has read a status that shows
\* it and then the data: whatever the pin does meanwhile, lost again included.
LossIsRemembered ==
  \A ch \in Channels : owed[ch] # "none" => chip[ch].dcd /\ chip[ch].dcdIrq
=============================================================================
