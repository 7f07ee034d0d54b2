-------------------------------- MODULE Uarts --------------------------------
(***************************************************************************)
(* The serial chips of the cards that have no 6850, as operators on a chip *)
(* u and the line it is on: the 1602 family, the 8251 and the 5501.        *)
(*                                                                         *)
(* A character takes CharT to come or to go.  The 1602 and the 5501 hand   *)
(* over a character at once and then wait its time; the 8251 holds it in   *)
(* its shift register for that time first.  All transmit through two       *)
(* stages, a holding register that moves into the shift register.  A latch *)
(* is a parallel input, which poll() leaves alone.                         *)
(*                                                                         *)
(* Moments are what is left of them, 0 when past.  A byte is known by its  *)
(* number on its line.  Not here: parity, framing and rates, break, the    *)
(* end of a character, the auto-baud pin, the 5501's timers.               *)
(***************************************************************************)
EXTENDS Integers, Sequences

CONSTANTS CharT,   \* of a character
          XferT    \* a 1602's, from the holding to the shift register: a sixteenth of a bit

ASSUME UartsAssumption == {CharT, XferT} \subseteq Nat \ {0}

\* A line: the bytes there to be read, room for one more, whether it keeps its own time.
Readable(l) == l.in # <<>>

IdleTx == [hold |-> 0, line |-> 0]

\* TwoStageTx::load
Loaded(tx, xfer) ==
  LET start == IF tx.line = 0 THEN xfer ELSE tx.line
  IN  [hold |-> start, line |-> start + CharT]
HoldEmpty(tx) == tx.hold = 0

Sooner(t) == IF t > 0 THEN t - 1 ELSE 0
TxLater(tx) == [hold |-> Sooner(tx.hold), line |-> Sooner(tx.line)]
-----------------------------------------------------------------------------
(***************************************************************************)
(* Receiving.                                                              *)
(***************************************************************************)
\* The frame in the shift register is whole (8251).
FrameDone(u) == u.chip = "8251" /\ u.active /\ u.done = 0
Framed(u) ==
  IF FrameDone(u)
  THEN [u EXCEPT !.rdy = TRUE, !.data = u.pend, !.active = FALSE, !.next = 0]
  ELSE u

WaitingMutant(u, l) == Readable(l) /\ u.chip # "latch" /\ (u.chip = "8251" => "rxe" \in u.cmd)

\* A byte is there for a chip that has nowhere to be but ready for it: rxWaiting().
Waiting(u, l) ==
  /\ ~u.rdy /\ Readable(l) /\ u.chip # "latch"
  /\ u.chip = "8251" => ~u.active /\ "rxe" \in u.cmd

\* poll() takes a byte from the line.
Takes(u, l) ==
  LET f == Framed(u)
  IN  /\ Waiting(f, l)
      /\ f.next = 0 \/ (f.chip # "8251" /\ l.paces)

Taken(u, l) ==
  IF u.chip = "8251" THEN [u EXCEPT !.pend = Head(l.in), !.active = TRUE, !.done = CharT]
  ELSE [u EXCEPT !.data = Head(l.in), !.rdy = TRUE,
                 !.next = IF u.chip = "5501" /\ ~u.real /\ ~l.paced THEN 0 ELSE CharT]

\* poll(); the 5501 samples its pins with it.
Polled(u, l) ==
  LET f == Framed(u)
      g == IF f.chip = "5501" THEN [f EXCEPT !.room = l.room] ELSE f
  IN  IF Takes(u, l) THEN Taken(g, l) ELSE g

Drained(u, l) == IF Takes(u, l) THEN [l EXCEPT !.in = Tail(l.in)] ELSE l

\* readData(), by a chip that has been polled.
ReadFrom(u) == [u EXCEPT !.rdy = FALSE]
-----------------------------------------------------------------------------
(***************************************************************************)
(* Transmitting, and the control ports.                                    *)
(***************************************************************************)
\* writeData(); a 5501 at rate = full takes no time.
Sent(u) ==
  IF u.chip = "5501" /\ ~u.real THEN u
  ELSE [u EXCEPT !.tx = Loaded(u.tx, IF u.chip = "1602" THEN XferT ELSE 0)]

\* txBufferEmpty, txReady, tbe
TxReady(u, l) ==
  /\ HoldEmpty(u.tx)
  /\ u.chip = "8251" => l.room
  /\ u.chip = "5501" => u.room

\* The bytes a guest gives an 8251's control port, as a command.
CommandBits ==
  [b00 |-> {}, b40 |-> {"ir"}, b4E |-> {"ir", "rxe"}, b27 |-> {"txe", "rxe"}, b01 |-> {"txe"}]
ControlBytes == DOMAIN CommandBits

\* Intel8251::writeControl: a mode after a reset, commands from then on.
Controlled(u, b) ==
  IF u.expect THEN [u EXCEPT !.mode = b, !.expect = FALSE]
  ELSE [u EXCEPT !.cmd = CommandBits[b], !.expect = "ir" \in CommandBits[b]]

\* 1602 masterReset, 8251 powerOn, 5501 resetAction.
Fresh1602 == [chip |-> "1602", rdy |-> FALSE, data |-> 0, next |-> 0, tx |-> IdleTx]
Fresh8251 ==
  [chip |-> "8251", rdy |-> FALSE, data |-> 0, next |-> 0, tx |-> IdleTx,
   active |-> FALSE, pend |-> 0, done |-> 0, expect |-> TRUE, mode |-> "b4E", cmd |-> {}]
Fresh5501(real, l) ==
  [chip |-> "5501", real |-> real, rdy |-> FALSE, data |-> 0, next |-> 0, tx |-> IdleTx, room |-> l.room]
FreshLatch == [chip |-> "latch", rdy |-> FALSE, data |-> 0]
Fresh(u, l) ==
  CASE u.chip = "1602" -> Fresh1602
    [] u.chip = "8251" -> Fresh8251
    [] u.chip = "5501" -> Fresh5501(u.real, l)
    [] u.chip = "latch" -> FreshLatch

\* The chips as a card makes them, on a line with room.
NewChips ==
  {Fresh1602, Fresh8251, FreshLatch} \cup {Fresh5501(real, [room |-> TRUE]) : real \in BOOLEAN}

\* What the chip holds of its line, first to last.
Held(u) ==
  (IF u.rdy THEN <<u.data>> ELSE <<>>)
    \o (IF u.chip = "8251" THEN IF u.active THEN <<u.pend>> ELSE <<>> ELSE <<>>)

UartLater(u) ==
  IF u.chip = "latch" THEN u ELSE
  LET v == [u EXCEPT !.next = Sooner(u.next), !.tx = TxLater(u.tx)]
  IN  IF u.chip = "8251" THEN [v EXCEPT !.done = Sooner(u.done)] ELSE v
=============================================================================
