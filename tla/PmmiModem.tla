------------------------------- MODULE PmmiModem -------------------------------
(***************************************************************************)
(* The PMMI MM-103: a phone line m (ModemLine), which has a listener and   *)
(* at most one connection, and the card's modem r, which answers, dials    *)
(* and hangs up as the guest's switch-hook, ring and DTR bits move, and    *)
(* times the handshake with one deadline.                                  *)
(*                                                                         *)
(* A call is known by its number, and so are the bytes it brings.  Not     *)
(* here: what the guest sends, the Telnet codec, the rate generator and    *)
(* its pulses, plain endpoints in the modem's place.                       *)
(***************************************************************************)
EXTENDS Integers, Sequences

CONSTANTS
  AnswerCts, OriginateCts,   \* from carrier to Clear To Send
  ApReset,                   \* from the loss of carrier to Answer Phone's release
  HsTimeout,                 \* a handshake that does not come to carrier
  RingOn, RingOff            \* a ring's burst and its silence

ASSUME PmmiAssumption ==
  {AnswerCts, OriginateCts, ApReset, HsTimeout, RingOn, RingOff} \subseteq Nat \ {0}

Off == -1   \* a timer that is not running; one that is 0 has come due
Running(t) == t # Off
-----------------------------------------------------------------------------
(***************************************************************************)
(* The far ends and the line (host/modemline.cpp on platform/socket.h).    *)
(* m.calling   the callers the listener has not been asked for yet         *)
(* m.conn      the connection: its call, how far it is, the bytes the      *)
(*             kernel holds, whether the far end has gone                  *)
(***************************************************************************)
NoConn == [state |-> "none", call |-> 0, bytes |-> <<>>, gone |-> FALSE]
Call(n) == [state |-> "up", call |-> n, bytes |-> <<>>, gone |-> FALSE]
Dialled(n) == [Call(n) EXCEPT !.state = "connecting"]

OnHook(m) == [m EXCEPT !.conn = NoConn, !.ringing = FALSE, !.offHook = FALSE,
                       !.dialing = FALSE, !.rx = <<>>]
FreshLine == [calling |-> <<>>, conn |-> NoConn, ringing |-> FALSE, offHook |-> FALSE,
              dialing |-> FALSE, rx |-> <<>>]

Established(m) == m.conn.state = "up"
Connecting(m) == m.dialing /\ m.conn # NoConn /\ ~Established(m)
Carrier(m) == m.offHook /\ ~m.ringing /\ Established(m)

Accepted(m) ==
  IF m.conn = NoConn /\ m.calling # <<>>
  THEN [m EXCEPT !.conn = Head(m.calling), !.calling = Tail(m.calling),
                 !.ringing = TRUE, !.dialing = FALSE]
  ELSE m

\* A caller who gave up before the answer: nothing left to read, and gone.
GivenUp(m) ==
  IF ~m.offHook /\ m.conn.gone /\ m.conn.bytes = <<>> THEN [m EXCEPT !.conn.state = "closed"] ELSE m

\* The bytes of a call that is up; the end of them closes it.
Drawn(m) ==
  IF m.offHook /\ Established(m)
  THEN [m EXCEPT !.rx = @ \o m.conn.bytes, !.conn.bytes = <<>>,
                 !.conn.state = IF m.conn.gone THEN "closed" ELSE @]
  ELSE m

Hearing(m) == IF m.dialing /\ Established(m) THEN [m EXCEPT !.dialing = FALSE] ELSE m
Cleared(m) ==
  IF m.conn.state = "closed" THEN [m EXCEPT !.conn = NoConn, !.ringing = FALSE, !.dialing = FALSE]
  ELSE m

\* ModemLine::pump
Pumped(m) ==
  LET a == Accepted(m) IN IF a.conn = NoConn THEN a ELSE Cleared(Drawn(Hearing(GivenUp(a))))

\* dial, answer, goOnHook.  A dial that fails at once has no number.
NoCall == 0
Dialing(m, n) ==
  IF m.conn # NoConn \/ n = NoCall THEN m
  ELSE [m EXCEPT !.conn = Dialled(n), !.offHook = TRUE, !.dialing = TRUE, !.ringing = FALSE]
Answered(m) == IF m.ringing THEN [m EXCEPT !.ringing = FALSE, !.offHook = TRUE] ELSE m
HungUp(m) == IF m.offHook THEN OnHook(m) ELSE m
-----------------------------------------------------------------------------
(***************************************************************************)
(* The card.  Its two output ports, and the modem behind them.             *)
(***************************************************************************)
ResetModem(r) == [r EXCEPT !.ap = FALSE, !.orig = TRUE, !.cts = Off, !.apReset = Off, !.hs = Off,
                           !.wasCarrier = FALSE, !.wasRinging = FALSE, !.ring = 0]
FreshCard == [sh |-> FALSE, ri |-> FALSE, dtr |-> FALSE, st |-> FALSE, looped |-> FALSE,
              ap |-> FALSE, orig |-> TRUE, cts |-> Off, apReset |-> Off, hs |-> Off,
              wasCarrier |-> FALSE, wasRinging |-> FALSE, ring |-> 0]

\* updateSelfTest: DTR with ST low puts a loopback in the line's place.
Looped(r) == r.dtr /\ ~r.st
ModemActive(r) == ~r.looped

LatchAp(r) == IF (r.sh \/ r.ri) /\ r.dtr THEN [r EXCEPT !.ap = TRUE] ELSE r

\* A call may be placed, from an idle line.
CanPlace(m) == ~m.ringing /\ ~Connecting(m) /\ ~Carrier(m)
Place(s, n) == [m |-> Dialing(s.m, n), r |-> [s.r EXCEPT !.orig = TRUE]]

\* decodeControl0: an answer on the edge of RI, a call on that of SH.
Control0(s, sh, ri, n) ==
  LET riRose == ri /\ ~s.r.ri
      shRose == sh /\ ~s.r.sh
      a == [s EXCEPT !.r.sh = sh, !.r.ri = ri]
      b == IF riRose /\ a.r.dtr /\ a.m.ringing
           THEN [m |-> Answered(a.m), r |-> [a.r EXCEPT !.orig = FALSE]] ELSE a
      c == IF shRose /\ b.r.dtr /\ ~b.r.ri /\ CanPlace(b.m) THEN Place(b, n) ELSE b
  IN  IF ModemActive(a.r) THEN [c EXCEPT !.r = LatchAp(c.r)] ELSE a

DtrFellMutant(s) == [s EXCEPT !.r.ap = FALSE, !.r.cts = Off, !.r.apReset = Off, !.r.hs = Off]
DtrFell(s) ==
  [m |-> HungUp(s.m), r |-> [s.r EXCEPT !.ap = FALSE, !.cts = Off, !.apReset = Off, !.hs = Off]]

\* updateSelfTest and decodeControl3: DTR's edges.
Control3(s, dtr, st, n) ==
  LET rose == dtr /\ ~s.r.dtr
      fell == ~dtr /\ s.r.dtr
      a == [s EXCEPT !.r.dtr = dtr, !.r.st = st, !.r.looped = dtr /\ ~st]
      b == IF rose /\ a.r.sh /\ CanPlace(a.m) THEN Place(a, n)
           ELSE IF fell THEN DtrFell(a) ELSE a
  IN  IF ModemActive(a.r) THEN [b EXCEPT !.r = LatchAp(b.r)] ELSE a
-----------------------------------------------------------------------------
(***************************************************************************)
(* refreshModem, in its order: carrier, ring, what is due, the handshake.  *)
(***************************************************************************)
CarrierEdge(s) ==
  LET car == Carrier(s.m)
      r == [s.r EXCEPT !.wasCarrier = car]
  IN  [s EXCEPT !.r =
         IF car /\ ~s.r.wasCarrier
         THEN [r EXCEPT !.cts = IF r.orig THEN OriginateCts ELSE AnswerCts, !.hs = Off]
         ELSE IF ~car /\ s.r.wasCarrier
         THEN [r EXCEPT !.cts = Off, !.apReset = IF r.ap THEN ApReset ELSE @]
         ELSE r]

RingEdge(s) ==
  [s EXCEPT !.r.wasRinging = s.m.ringing,
            !.r.ring = IF s.m.ringing /\ s.r.wasRinging THEN @ ELSE 0]

ApDue(s) == IF s.r.apReset = 0 THEN [s EXCEPT !.r.ap = FALSE, !.r.apReset = Off] ELSE s

TimesOutMutant(s) == s
TimesOut(s) ==
  IF s.r.hs = 0
  THEN [m |-> OnHook(s.m), r |-> [s.r EXCEPT !.ap = FALSE, !.hs = Off, !.cts = Off]]
  ELSE s

\* car is the carrier of the top of refreshModem.
Handshake(s, car) ==
  [s EXCEPT !.r.hs =
     IF s.r.ap /\ ~car /\ ~Running(s.r.cts) THEN IF Running(@) THEN @ ELSE HsTimeout
     ELSE IF car THEN Off ELSE @]

RefreshedModem(s) ==
  IF ModemActive(s.r) THEN Handshake(TimesOut(ApDue(RingEdge(CarrierEdge(s)))), Carrier(s.m)) ELSE s

\* The deadline's edges.  rng is the ring of the top of refreshModem.
NextRing(r) == IF r.ring < RingOn THEN RingOn - r.ring ELSE RingOn + RingOff - r.ring
ModemEdges(r) ==
  IF ModemActive(r)
  THEN {t \in {r.cts, r.apReset, r.hs} : t > 0} \cup (IF r.wasRinging THEN {NextRing(r)} ELSE {})
  ELSE {}

RingLater(r) == IF r.wasRinging THEN (r.ring + 1) % (RingOn + RingOff) ELSE 0
TimerLater(t) == IF t > 0 THEN t - 1 ELSE t
ModemLater(r) ==
  [r EXCEPT !.cts = TimerLater(@), !.apReset = TimerLater(@), !.hs = TimerLater(@), !.ring = RingLater(r)]

\* The status bits of IN BA+2 that come from the line.
ClearToSend(s) == s.r.cts = 0 /\ Carrier(s.m)
=============================================================================
