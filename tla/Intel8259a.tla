----------------------------- MODULE Intel8259a -----------------------------
(***************************************************************************)
(* The 8259A interrupt controller, as the operations a card calls on it.   *)
(*                                                                         *)
(* The request lines are an argument, as in the code: the chip keeps the   *)
(* in-service register, the mask, the edge latch and the order of          *)
(* priority, and computes the rest.  A controller is a record and every    *)
(* operation an operator from one to the next.                             *)
(*                                                                         *)
(* Not here: the bytes of the CALL beyond the level they name, poll mode   *)
(* and automatic end of interrupt (the code has neither), and 8086 mode    *)
(* (no processor of the program reads its vector).                         *)
(***************************************************************************)
EXTENDS Integers

CONSTANT IRs  \* the request lines, eight on the chip

ASSUME IRsAssumption == IRs \in Nat \ {0}

Levels == 0..(IRs - 1)
NoLevel == -1
DefaultIr == IRs - 1

\* step is initStep_: the initialization command word expected next, 0 for none.
Controllers ==
  [ltim : BOOLEAN, sngl : BOOLEAN, ic4 : BOOLEAN, step : {0, 2, 3, 4},
   imr : SUBSET Levels, isr : SUBSET Levels, edge : SUBSET Levels, pins : SUBSET Levels,
   lowPri : Levels, readIsr : BOOLEAN, smm : BOOLEAN]

PoweredPic ==
  [ltim |-> FALSE, sngl |-> FALSE, ic4 |-> FALSE, step |-> 0,
   imr |-> Levels, isr |-> {}, edge |-> {}, pins |-> Levels,
   lowPri |-> IRs - 1, readIsr |-> FALSE, smm |-> FALSE]
-----------------------------------------------------------------------------
(***************************************************************************)
(* Priority.                                                               *)
(***************************************************************************)
Irr(p, live) == IF p.ltim THEN live ELSE p.edge \cap live
Requests(p, live) == Irr(p, live) \ p.imr

\* The place of a level in the order of priority, 0 the highest.
Rank(p, l) == (l + IRs - p.lowPri - 1) % IRs
Highest(p, S) ==
  IF S = {} THEN NoLevel ELSE CHOOSE l \in S : \A m \in S : Rank(p, l) <= Rank(p, m)

HighestIsr(p) == Highest(p, p.isr)

\* A level in service holds back itself and those below it, unless special mask
\* mode has let go of it.
Blocking(p) == {l \in p.isr : ~(p.smm /\ l \in p.imr)}

WinnerMutant(p, live) == Highest(p, Requests(p, live) \ Blocking(p))
Winner(p, live) ==
  LET first == Highest(p, Blocking(p) \cup Requests(p, live)) IN
    IF first \in Blocking(p) THEN NoLevel ELSE first

IntOut(p, live) == Winner(p, live) # NoLevel
-----------------------------------------------------------------------------
(***************************************************************************)
(* What the card and the guest do to it.                                   *)
(***************************************************************************)
SenseEdges(p, live) == [p EXCEPT !.edge = @ \cup (live \ p.pins), !.pins = live]

\* An acknowledge that finds no request is told the default level, and marks nothing.
Acknowledged(p, live) ==
  LET w == Winner(p, live) IN
    IF w = NoLevel THEN p
    ELSE [p EXCEPT !.isr = @ \cup {w}, !.edge = IF p.ltim THEN @ ELSE @ \ {w}]
AcknowledgedLevel(p, live) == IF IntOut(p, live) THEN Winner(p, live) ELSE DefaultIr

\* Command words.  Those written with A0 low:
Icw1(ltim, sngl, ic4) == [word |-> "icw1", ltim |-> ltim, sngl |-> sngl, ic4 |-> ic4]
Ocw2(command, level) == [word |-> "ocw2", command |-> command, level |-> level]
Ocw3(ris, smm) == [word |-> "ocw3", ris |-> ris, smm |-> smm]
\* and those written with A0 high, which are the set of lines they mask when they are OCW1:
Data(lines) == [word |-> "data", lines |-> lines]

Rotations == {"rotate_eoi", "rotate_specific", "set_priority"}
CommandWords ==
  [word : {"icw1"}, ltim : BOOLEAN, sngl : BOOLEAN, ic4 : BOOLEAN]
    \cup [word : {"ocw2"}, command : {"eoi", "specific_eoi"} \cup Rotations, level : Levels]
    \cup [word : {"ocw3"}, ris : {"keep", "irr", "isr"}, smm : {"keep", "on", "off"}]
    \cup [word : {"data"}, lines : SUBSET Levels]

Initialized(p, w) ==
  [p EXCEPT !.ltim = w.ltim, !.sngl = w.sngl, !.ic4 = w.ic4, !.step = 2,
            !.imr = {}, !.isr = {}, !.edge = {}, !.pins = Levels,
            !.lowPri = IRs - 1, !.readIsr = FALSE, !.smm = FALSE]

\* An end of interrupt takes a level out of service; a rotation makes it the lowest.
Ended(p, w) ==
  LET l == IF w.command \in {"eoi", "rotate_eoi"} THEN HighestIsr(p) ELSE w.level
      ends == w.command \in {"eoi", "rotate_eoi", "specific_eoi", "rotate_specific"}
      turns == w.command \in Rotations IN
    [p EXCEPT !.isr = IF ends THEN @ \ {l} ELSE @,
              !.lowPri = IF turns /\ l # NoLevel THEN l ELSE @]

\* OCW3 changes only what its enable bits say, "keep" where one is not set.
Selected(p, w) ==
  [p EXCEPT !.readIsr = IF w.ris = "keep" THEN @ ELSE w.ris = "isr",
            !.smm = IF w.smm = "keep" THEN @ ELSE w.smm = "on"]

\* A data word is the initialization word that is due, or the mask.
DataWritten(p, w) ==
  CASE p.step = 2 -> [p EXCEPT !.step = IF ~p.sngl THEN 3 ELSE IF p.ic4 THEN 4 ELSE 0]
    [] p.step = 3 -> [p EXCEPT !.step = IF p.ic4 THEN 4 ELSE 0]
    [] p.step = 4 -> [p EXCEPT !.step = 0]
    [] OTHER -> [p EXCEPT !.imr = w.lines]

PicWritten(p, w) ==
  CASE w.word = "icw1" -> Initialized(p, w)
    [] w.word = "ocw2" -> Ended(p, w)
    [] w.word = "ocw3" -> Selected(p, w)
    [] w.word = "data" -> DataWritten(p, w)

PicRead(p, a0, live) == IF a0 THEN p.imr ELSE IF p.readIsr THEN p.isr ELSE Irr(p, live)
=============================================================================
