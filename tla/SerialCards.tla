----------------------------- MODULE SerialCards -----------------------------
(***************************************************************************)
(* A card with serial chips of module Uarts between a guest and the lines  *)
(* its channels are connected to:                                          *)
(*   io4            two 1602s and parallel inputs, interrupts by jumpers   *)
(*   interfacer1    two 1602s, interrupts enabled by a latch and straps    *)
(*   bitstreamer2   three 8251s and a clock, interrupts behind a mask      *)
(*   sbc            an 8251 that triggers a CTC, with line VI2             *)
(*   zcb, bitstreamer   an 8251, polled                                    *)
(*   fdc            the 5501 of a Cromemco disk controller, polled         *)
(*   pmmi           a 1602 behind the modem of module PmmiModem            *)
(* Every handler ends in refresh(): the chips are polled, the card's pin   *)
(* is announced, and one deadline is armed for the first edge that could   *)
(* move it.  A rig is a card, with its jumpers and what there is around it.*)
(***************************************************************************)
EXTENDS Uarts, PmmiModem, FiniteSetsExt, SequencesExt, TLC

CONSTANT Rigs

\* What a jumper or a strap can be about: a channel that has a chip, and a transmitter only
\* where the chip is no latch.  And a rig as the configuration makes one, its chips new.
Sources(r) == {x \in (DOMAIN r.chips) \X {"rx", "tx"} : x[2] = "tx" => r.chips[x[1]].chip # "latch"}
Built(r) ==
  /\ r.chips \in [DOMAIN r.chips -> NewChips]
  /\ \A j \in {r.jump} \cup r.jumps : DOMAIN j \subseteq Sources(r)
  /\ r.always \subseteq Sources(r) /\ r.control \subseteq ControlBytes
  /\ r.paces \cup r.paced \subseteq DOMAIN r.chips
  /\ r.bounds \in [bytes : [DOMAIN r.chips -> Nat], calls : Nat, saves : Nat, line : Int]
ASSUME RigsAssumption == \A r \in Rigs : Built(r)

VARIABLES
  rig,
  card,     \* u: the chips; on: the bits of its enable registers; jump: its jumpers;
            \* tick: its clock's latch; tc, armed: of channel 1 of its CTC
  line,     \* by channel, what is to be read, and whether there is room to send
  modem,    \* the PMMI's line and registers
  pin,      \* the wires the bus holds up for the card
  vi2,      \* another card holds VI2
  wake,     \* to the card's deadline
  saved,    \* a snapshot
  seen,     \* by channel, the last byte read or thrown away; Unknown after a RESTORE
  left      \* bounds: bytes to come, calls, snapshots (and how far a chip is written ahead)
vars == <<rig, card, line, modem, pin, vi2, wake, saved, seen, left>>

Chans == DOMAIN rig.chips
Unknown == -1
Due == wake = 0
-----------------------------------------------------------------------------
(***************************************************************************)
(* What a card c asks of the bus and of the clock.                         *)
(***************************************************************************)
\* The enables a register holds, for the cards that have such a register.
Enabled(c, x) ==
  CASE rig.card = "interfacer1" -> (x \in c.on) # (x \in rig.straps)
    [] rig.card = "bitstreamer2" -> x \in c.on
    [] rig.card = "sbc" -> c.armed
    [] OTHER -> TRUE

TxEnabled(u) == u.chip = "8251" => "txe" \in u.cmd

Requests(c, l, x) ==
  /\ Enabled(c, x)
  /\ IF x[2] = "rx" THEN c.u[x[1]].rdy ELSE TxEnabled(c.u[x[1]]) /\ TxReady(c.u[x[1]], l[x[1]])

\* assertsInt() and assertsVi()
Asks(c, l, v2) ==
  {c.jump[x] : x \in {y \in DOMAIN c.jump : Requests(c, l, y)}}
    \cup (IF c.tick THEN {rig.clock} ELSE {})
    \cup (IF rig.card = "sbc" /\ c.armed /\ v2 THEN {"int"} ELSE {})

\* The requests nextEdge() looks ahead for, and the moments it considers.
Watched(c) ==
  rig.always \cup {x \in DOMAIN c.jump : Enabled(c, x) /\ (x[2] = "tx" => TxEnabled(c.u[x[1]]))}

RxEdge(u, l) ==
  CASE u.chip = "8251" -> IF u.active THEN {u.done} ELSE {}
    [] u.chip = "latch" -> {}
    [] OTHER -> IF Waiting(u, l) THEN {u.next} ELSE {}
Edges(c, l) ==
  UNION {IF x[2] = "rx" THEN RxEdge(c.u[x[1]], l[x[1]]) ELSE {c.u[x[1]].tx.hold} : x \in Watched(c)}

NextEdge(edges) == LET ahead == {t \in edges : t > 0} IN IF ahead = {} THEN Off ELSE Min(ahead)

\* Only intChanged(): what is asked for now.
Announce == pin' = Asks(card', line', vi2')

RefreshMutant(c, l) ==
  /\ card' = [c EXCEPT !.u = [ch \in Chans |-> Polled(c.u[ch], l[ch])]]
  /\ line' = [ch \in Chans |-> Drained(c.u[ch], l[ch])]
  /\ Announce
  /\ wake' = NextEdge(Edges(c, l))

\* refresh()
Refresh(c, l) ==
  /\ card' = [c EXCEPT !.u = [ch \in Chans |-> Polled(c.u[ch], l[ch])]]
  /\ line' = [ch \in Chans |-> Drained(c.u[ch], l[ch])]
  /\ Announce
  /\ wake' = NextEdge(Edges(card', line'))

Plain == rig.card # "pmmi"
-----------------------------------------------------------------------------
(***************************************************************************)
(* Init: every card powered.                                               *)
(***************************************************************************)
NewLine(r, ch) == [in |-> <<>>, room |-> TRUE, paces |-> ch \in r.paces, paced |-> ch \in r.paced]
NewCard(r) ==
  [u |-> r.chips, on |-> {}, jump |-> r.jump, tick |-> FALSE, tc |-> FALSE, armed |-> FALSE]

Init ==
  /\ rig \in Rigs
  /\ card = NewCard(rig)
  /\ line = [ch \in Chans |-> NewLine(rig, ch)]
  /\ modem = [m |-> FreshLine, r |-> FreshCard]
  /\ vi2 = FALSE
  /\ pin = Asks(card, line, vi2)
  /\ wake = NextEdge(Edges(card, line))
  /\ saved = [on |-> FALSE]
  /\ seen = [ch \in Chans |-> 0]
  /\ left = rig.bounds
-----------------------------------------------------------------------------
(***************************************************************************)
(* The guest, between deadlines.                                           *)
(***************************************************************************)
\* A read polls the chip of its port, then takes the byte it holds.
ReadData(ch) ==
  LET u == Polled(card.u[ch], line[ch])
  IN  /\ ~Due /\ Plain
      /\ seen' = IF u.rdy /\ seen[ch] # Unknown THEN [seen EXCEPT ![ch] = u.data] ELSE seen
      /\ UNCHANGED <<rig, modem, vi2, saved, left>>
      /\ Refresh([card EXCEPT !.u[ch] = ReadFrom(u)], [line EXCEPT ![ch] = Drained(card.u[ch], line[ch])])

ReadStatus ==
  /\ ~Due /\ Plain
  /\ UNCHANGED <<rig, modem, vi2, saved, seen, left>>
  /\ Refresh(card, line)

\* The write may be what fills the line up.
WriteData(ch) ==
  /\ ~Due /\ Plain
  /\ UNCHANGED <<rig, modem, vi2, saved, seen, left>>
  /\ \/ card.u[ch].chip = "latch" /\ Refresh(card, line)
     \/ /\ card.u[ch].chip # "latch" /\ card.u[ch].tx.line <= rig.bounds.line
        /\ \E room \in {line[ch].room, FALSE} :
             Refresh([card EXCEPT !.u[ch] = Sent(card.u[ch])], [line EXCEPT ![ch].room = room])

WriteControl(ch, b) ==
  /\ ~Due /\ card.u[ch].chip = "8251"
  /\ UNCHANGED <<rig, modem, vi2, saved, seen, left>>
  /\ Refresh([card EXCEPT !.u[ch] = Controlled(card.u[ch], b)], line)

\* The bytes a chip is emptied of are seen no more.
ThrownAway(chs) ==
  [ch \in Chans |->
     IF ch \in chs /\ seen[ch] # Unknown /\ Held(card.u[ch]) # <<>> THEN Last(Held(card.u[ch])) ELSE seen[ch]]

\* A 5501's reset command.
ResetChip(ch) ==
  /\ ~Due /\ card.u[ch].chip = "5501"
  /\ seen' = ThrownAway({ch})
  /\ UNCHANGED <<rig, modem, vi2, saved, left>>
  /\ Refresh([card EXCEPT !.u[ch] = Fresh(card.u[ch], line[ch])], line)

\* The Interfacer 1 has a latch a channel, the Bitstreamer II one mask.
WriteEnables(on) ==
  /\ ~Due /\ rig.card \in {"interfacer1", "bitstreamer2"}
  /\ rig.card = "interfacer1" =>
       \E ch \in Chans : \A x \in DOMAIN card.jump : x[1] # ch => (x \in on <=> x \in card.on)
  /\ UNCHANGED <<rig, modem, vi2, saved, seen, left>>
  /\ Refresh([card EXCEPT !.on = on], line)

ReadClock ==
  /\ ~Due /\ rig.card = "bitstreamer2"
  /\ UNCHANGED <<rig, modem, vi2, saved, seen, left>>
  /\ Refresh([card EXCEPT !.tick = FALSE], line)

\* Ctc::writePort of channel 1: a time constant, a vector, or a control word.
WriteCtc(word) ==
  /\ ~Due /\ rig.card = "sbc"
  /\ UNCHANGED <<rig, modem, vi2, saved, seen, left>>
  /\ Refresh(CASE card.tc -> [card EXCEPT !.tc = FALSE]
               [] ~card.tc /\ word = {} -> card
               [] OTHER -> [card EXCEPT !.tc = "tc" \in word, !.armed = "arm" \in word],
             line)
-----------------------------------------------------------------------------
(***************************************************************************)
(* What else moves a card: resets, the pump, the clock, the operator.      *)
(***************************************************************************)
\* RESET leaves the chips of some cards alone; nothing resets a CTC.
Reset(power) ==
  /\ ~Due /\ Plain
  /\ UNCHANGED <<rig, modem, vi2, saved, left>>
  /\ IF power \/ rig.resets
     THEN /\ seen' = ThrownAway(Chans)
          /\ Refresh([card EXCEPT !.u = [ch \in Chans |-> Fresh(card.u[ch], line[ch])],
                                  !.on = {}, !.tick = FALSE], line)
     ELSE /\ UNCHANGED seen
          /\ IF rig.card = "sbc" THEN Refresh(card, line) ELSE UNCHANGED <<card, line, pin, wake>>

\* A parallel input takes a byte at the pump, and only there.
Latches(u, l) == u.chip = "latch" /\ ~u.rdy /\ Readable(l)
Latched(u, l) == IF Latches(u, l) THEN [u EXCEPT !.rdy = TRUE, !.data = Head(l.in)] ELSE u

PumpLines(l) ==
  Refresh([card EXCEPT !.u = [ch \in Chans |-> Latched(card.u[ch], l[ch])]],
          [ch \in Chans |-> IF Latches(card.u[ch], l[ch]) THEN [l[ch] EXCEPT !.in = Tail(l[ch].in)] ELSE l[ch]])

\* The host's turn: bytes have come, or there is room or none.
Pump ==
  /\ ~Due /\ Plain
  /\ UNCHANGED <<rig, modem, vi2, saved, seen>>
  /\ \/ UNCHANGED left /\ PumpLines(line)
     \/ \E ch \in Chans :
          \/ /\ left.bytes[ch] > 0
             /\ left' = [left EXCEPT !.bytes[ch] = @ - 1]
             /\ PumpLines([line EXCEPT ![ch].in = Append(@, rig.bounds.bytes[ch] - left'.bytes[ch])])
          \/ /\ UNCHANGED left
             /\ PumpLines([line EXCEPT ![ch].room = ~@])

\* The Bitstreamer II's ticker; another card and VI2, which the SBC watches.
Tick ==
  /\ ~Due /\ rig.card = "bitstreamer2" /\ rig.clock # "none"
  /\ card' = [card EXCEPT !.tick = TRUE]
  /\ UNCHANGED <<rig, line, modem, vi2, wake, saved, seen, left>>
  /\ Announce

ViMoves ==
  /\ rig.card = "sbc"
  /\ vi2' = ~vi2
  /\ UNCHANGED <<rig, card, line, modem, wake, saved, seen, left>>
  /\ Announce

\* SET moves a jumper: configChanged().
Rejumper(jump) ==
  /\ ~Due
  /\ UNCHANGED <<rig, modem, vi2, saved, seen, left>>
  /\ Refresh([card EXCEPT !.jump = jump], line)

Save ==
  /\ ~Due /\ Plain /\ left.saves > 0
  /\ left' = [left EXCEPT !.saves = @ - 1]
  /\ saved' = [on |-> TRUE, card |-> card]
  /\ UNCHANGED <<rig, card, line, modem, pin, vi2, wake, seen>>

\* The lines and the jumpers are the machine's, not the snapshot's.
Restore ==
  /\ Plain /\ saved.on
  /\ seen' = [ch \in Chans |-> Unknown]
  /\ UNCHANGED <<rig, modem, vi2, saved, left>>
  /\ Refresh([saved.card EXCEPT !.jump = card.jump], line)

Pass ==
  /\ ~Due
  /\ card' = [card EXCEPT !.u = [ch \in Chans |-> UartLater(card.u[ch])]]
  /\ modem' = [modem EXCEPT !.r = ModemLater(@)]
  /\ wake' = TimerLater(wake)
  /\ UNCHANGED <<rig, line, pin, vi2, saved, seen, left>>

Deadline ==
  /\ Due /\ Plain
  /\ UNCHANGED <<rig, modem, vi2, saved, seen, left>>
  /\ Refresh(card, line)
-----------------------------------------------------------------------------
(***************************************************************************)
(* The PMMI: its reads and writes only poll; its deadline is the modem's.  *)
(* The chip is on the phone line or, in self-test, on a loopback.          *)
(***************************************************************************)
HeardLine ==
  [line["a"] EXCEPT !.in = IF modem.r.looped THEN @ ELSE IF modem.m.offHook THEN modem.m.rx ELSE <<>>]

PmmiRead(data) ==
  LET u == Polled(card.u["a"], HeardLine)
      took == Takes(card.u["a"], HeardLine)
  IN  /\ ~Due /\ ~Plain
      /\ card' = [card EXCEPT !.u["a"] = IF data THEN ReadFrom(u) ELSE u]
      /\ line' = IF took /\ modem.r.looped THEN [line EXCEPT !["a"].in = Tail(@)] ELSE line
      /\ modem' = IF took /\ ~modem.r.looped THEN [modem EXCEPT !.m.rx = Tail(@)] ELSE modem
      /\ UNCHANGED <<rig, pin, vi2, wake, saved, seen, left>>

\* In self-test what is written comes back.
PmmiWrite ==
  /\ ~Due /\ ~Plain /\ card.u["a"].tx.line <= rig.bounds.line
  /\ card' = [card EXCEPT !.u["a"] = Sent(@)]
  /\ IF modem.r.looped
     THEN /\ Len(line["a"].in) < rig.bounds.bytes["a"]
          /\ line' = [line EXCEPT !["a"].in = Append(@, NoCall)]
     ELSE UNCHANGED line
  /\ UNCHANGED <<rig, modem, pin, vi2, wake, saved, seen, left>>

\* refreshModem() with its deadline; the loopback goes with the self-test.
ModemRefresh(s) ==
  /\ modem' = RefreshedModem(s)
  /\ line' = IF s.r.looped THEN line ELSE [line EXCEPT !["a"].in = <<>>]
  /\ wake' = NextEdge(ModemEdges(modem'.r))

NextCall == rig.bounds.calls - left.calls + 1
Numbers == {NoCall} \cup (IF left.calls > 0 THEN {NextCall} ELSE {})
CountCalls(s) == left' = IF s.m.conn.call = NextCall THEN [left EXCEPT !.calls = @ - 1] ELSE left

Control(s) ==
  /\ ~Due /\ ~Plain
  /\ CountCalls(s)
  /\ UNCHANGED <<rig, card, pin, vi2, saved, seen>>
  /\ ModemRefresh(s)
Out0(sh, ri) == \E n \in Numbers : Control(Control0(modem, sh, ri, n))
Out3(dtr, st) == \E n \in Numbers : Control(Control3(modem, dtr, st, n))

PmmiReset ==
  /\ ~Due /\ ~Plain
  /\ card' = [card EXCEPT !.u["a"] = Fresh1602]
  /\ UNCHANGED <<rig, pin, vi2, saved, seen, left>>
  /\ ModemRefresh([m |-> OnHook(modem.m), r |-> FreshCard])

\* A RESTORE brings the chip and the three registers; the call is lost.
PmmiSave ==
  /\ ~Due /\ ~Plain /\ left.saves > 0
  /\ left' = [left EXCEPT !.saves = @ - 1]
  /\ saved' = [on |-> TRUE, card |-> card, r |-> [k \in {"sh", "ri", "dtr", "st"} |-> modem.r[k]]]
  /\ UNCHANGED <<rig, card, line, modem, pin, vi2, wake, seen>>
PmmiRestore ==
  LET r == [k \in DOMAIN FreshCard |-> IF k \in DOMAIN saved.r THEN saved.r[k] ELSE FreshCard[k]]
  IN  /\ ~Plain /\ saved.on
      /\ card' = saved.card
      /\ UNCHANGED <<rig, pin, vi2, saved, seen, left>>
      /\ ModemRefresh([m |-> OnHook(modem.m), r |-> [r EXCEPT !.looped = Looped(r)]])

\* u_.pump() pumps the stream the chip is on; a dialled call may have been answered or refused.
PmmiPump ==
  /\ ~Due /\ ~Plain
  /\ UNCHANGED <<rig, card, pin, vi2, saved, seen, left>>
  /\ \E answer \in {"connecting", "up", "closed"} :
       ModemRefresh(IF ModemActive(modem.r)
                    THEN [modem EXCEPT !.m = Pumped(IF @.conn.state = "connecting"
                                                    THEN [@ EXCEPT !.conn.state = answer] ELSE @)]
                    ELSE modem)

PmmiDeadline ==
  /\ Due /\ ~Plain
  /\ UNCHANGED <<rig, card, pin, vi2, saved, seen, left>>
  /\ ModemRefresh(modem)

\* The far ends: a caller; bytes and the end of a call, answered or waiting.
FarEnd(m) ==
  /\ modem' = [modem EXCEPT !.m = m]
  /\ UNCHANGED <<rig, card, line, pin, vi2, wake, saved, seen>>
CallerCalls ==
  /\ ~Plain /\ left.calls > 0
  /\ left' = [left EXCEPT !.calls = @ - 1]
  /\ FarEnd([modem.m EXCEPT !.calling = Append(@, Call(NextCall))])
FarEndSends ==
  /\ ~Plain /\ left.bytes["a"] > 0
  /\ modem.m.conn.state = "up" /\ ~modem.m.conn.gone
  /\ left' = [left EXCEPT !.bytes["a"] = @ - 1]
  /\ FarEnd([modem.m EXCEPT !.conn.bytes = Append(@, modem.m.conn.call)])
FarEndHangsUp ==
  /\ ~Plain /\ modem.m.conn.state = "up" /\ ~modem.m.conn.gone
  /\ UNCHANGED left
  /\ FarEnd([modem.m EXCEPT !.conn.gone = TRUE])
-----------------------------------------------------------------------------
Guest ==
  \/ ReadStatus \/ ReadClock
  \/ \E ch \in Chans :
       \/ ReadData(ch) \/ WriteData(ch) \/ ResetChip(ch)
       \/ \E b \in rig.control : WriteControl(ch, b)
  \/ \E on \in SUBSET DOMAIN card.jump : WriteEnables(on)
  \/ \E word \in SUBSET {"tc", "arm"} : WriteCtc(word)
  \/ \E data \in BOOLEAN : PmmiRead(data)
  \/ PmmiWrite
  \/ \E x, y \in BOOLEAN : Out0(x, y) \/ Out3(x, y)

Outside ==
  \/ \E power \in BOOLEAN : Reset(power)
  \/ Pump \/ Tick \/ ViMoves \/ Save \/ Restore
  \/ \E jump \in rig.jumps : Rejumper(jump)
  \/ PmmiReset \/ PmmiSave \/ PmmiRestore \/ PmmiPump
  \/ CallerCalls \/ FarEndSends \/ FarEndHangsUp

Next == Guest \/ Outside \/ Pass \/ Deadline \/ PmmiDeadline

\* The emulated clock goes on and fires what is due; nobody has to do anything else.
Spec ==
  /\ Init /\ [][Next]_vars
  /\ WF_vars(Pass) /\ WF_vars(Deadline) /\ WF_vars(PmmiDeadline)
-----------------------------------------------------------------------------
(***************************************************************************)
(* Properties.                                                             *)
(***************************************************************************)
\* Whatever card, jumper, mask, strap or snapshot: when no deadline is due the bus holds up
\* exactly the wires the registers ask for at that T-state, and no chip whose interrupt is
\* watched has a byte, or the end of one, it has not been told of.
PinIsHonest ==
  (~Due /\ Plain) =>
    /\ pin = Asks(card, line, vi2)
    /\ \A x \in Watched(card) : x[2] = "rx" => Polled(card.u[x[1]], line[x[1]]) = card.u[x[1]]

\* A UART loses, repeats or swaps no byte of its line: what it holds and what is still to
\* come follows what the guest has read or a reset has thrown away.
NoByteLost ==
  Plain => \A ch \in Chans : seen[ch] # Unknown =>
    LET come == rig.bounds.bytes[ch] - left.bytes[ch]
    IN  Held(card.u[ch]) \o line[ch].in = [i \in 1 .. come - seen[ch] |-> seen[ch] + i]

\* Nobody holds a dead line.  With DTR down the modem is on the hook, and a call there is
\* can only be ringing; and one that has seized the line comes to carrier, or its timers
\* release it.  (Self-test stops the timers.)
NobodyHoldsADeadLine ==
  /\ [](~Plain /\ ~modem.r.dtr => /\ ~modem.m.offHook
                                  /\ modem.m.conn # NoConn => modem.m.ringing)
  /\ (modem.r.ap /\ ~Carrier(modem.m)) ~> (~modem.r.ap \/ Carrier(modem.m) \/ modem.r.looped)
=============================================================================
