--------------------------- MODULE InterruptChain ---------------------------
(***************************************************************************)
(* From a line that wants service to the instruction a processor executes: *)
(* the CompuPro System Support 1, whose slave 8259A watches a timer and a  *)
(* serial channel and requests through its master, the bus's acknowledge   *)
(* cycles, and the acceptance of the 8080, the 8085's INTR and the Z80.    *)
(*                                                                         *)
(* Every handler of the card ends in refresh(): both controllers sample    *)
(* their lines, pin 73 is announced, and one deadline is armed for the     *)
(* next moment a line can move by itself.  The timer counts the bus's own  *)
(* clock, of which a tick is several T-states (the paced BusClock).        *)
(*                                                                         *)
(* An instruction is one step.  Between two of them time passes and the    *)
(* world moves.  Not here: the calendar and the math chip, the vector      *)
(* bytes, IM 2 (one acknowledge cycle, for other cards), vetoes (RunLoop). *)
(***************************************************************************)
EXTENDS Intel8259a, Intel8253, Sequences, FiniteSets

CONSTANTS
  Counters,  \* the timer's counters, three on the card
  TimerIr,   \* TimerIr[n]: the slave's line that counter n drives
  TxIr, RxIr,\* the slave's lines from the serial channel
  TPerTick,  \* T-states of the processor in a tick of pin 49
  CharT,     \* T-states of a character
  Rigs       \* the machines looked at

CascadeIr == IRs - 1
ViLines == 0..(IRs - 2)

\* The words that give up that the newest handler has the highest priority.
Unnests(w) ==
  \/ w.word = "ocw2" /\ w.command \in {"set_priority", "rotate_specific"}
  \/ w.word = "ocw3" /\ w.smm = "on"

\* A rig: start, the controllers as its guest has programmed them; toMaster and toSlave, what
\* it writes to them from then on; modes, the <<rl, mode>> it gives the timer, and counts, the bytes; code,
\* the instructions it has besides its port accesses ("ei", "di", "hlt"); vi, the VI
\* lines other cards pull; int and ownVi, where the channel's own interrupt is jumpered (pin 73,
\* a VI line or neither); rival, another card on pin 73: "none", "bare" (no vector), or one that
\* claims the acknowledge from a slot in "front" of this card or "behind" it; serial, the
\* channel is in use; resets, the operator's button is used.
ASSUME InterruptChainAssumption ==
  /\ IRs > 1 /\ IsFiniteSet(Counters) /\ TimerIr \in [Counters -> Levels]
  /\ {TxIr, RxIr} \subseteq Levels
  /\ TPerTick \in Nat \ {0} /\ CharT \in Nat \ {0}
  /\ \A r \in Rigs :
       /\ r.start \in Controllers /\ r.toMaster \cup r.toSlave \subseteq CommandWords
       /\ r.vi \cup r.ownVi \subseteq ViLines /\ r.int \in BOOLEAN
       /\ r.modes \subseteq {"lsb", "msb", "both"} \X (0..5) /\ r.counts \subseteq 0..(ByteSize - 1)
       /\ r.rival \in {"none", "bare", "front", "behind"}
       /\ r.nested => r.start.isr = {} /\ ~r.start.smm
                      /\ \A w \in r.toMaster \cup r.toSlave : ~Unnests(w)

VARIABLES
  system,     \* the machine, of Rigs
  master, slave,  \* the controllers
  timer,   \* timer[n]
  phase,   \* T-states into the tick
  rx,      \* the channel's RxRDY
  frame,   \* T-states until the character coming in is complete, 0 for none
  tx,      \* [hold, shift]: T-states until its holding register and its line are free
  vi,      \* the VI lines other cards pull
  rival,   \* the other card pulls pin 73
  pin,     \* this card pulls pin 73: the wire it announced
  wake,    \* T-states until the card's deadline, 0 for none
  processor,     \* the processor: [ie, ei, halted]
  order,   \* history: by controller, the pairs of levels in service of which the second is no older
  risen,   \* history: the slave's lines that rose unmasked and are still high
  frozen   \* history: frozen[n], what a latched count must read, and what has been read

clocks == <<timer, phase, frame, tx>>
outside == <<vi, rival>>
past == <<order, risen, frozen>>
chainVars == <<system, master, slave, clocks, rx, outside, pin, wake, processor, past>>

NoCall == [pic |-> "none", level |-> NoLevel]
NothingFrozen == [want |-> NoByte, low |-> NoByte]
-----------------------------------------------------------------------------
(***************************************************************************)
(* The wires, live.                                                        *)
(***************************************************************************)
SlaveLive ==
  {TimerIr[n] : n \in {m \in Counters : Out(timer[m])}} \cup
  {l \in {TxIr} : system.serial /\ tx.hold = 0} \cup {l \in {RxIr} : rx}

AssertsVi == {l \in system.ownVi : rx}

MasterLines(s, lines) == vi \cup AssertsVi \cup {l \in {CascadeIr} : IntOut(s, lines)}
MasterLive == MasterLines(slave, SlaveLive)

PullsInt(m, lines) == IntOut(m, lines) \/ (rx /\ system.int)
AssertsInt == PullsInt(master, MasterLive)

\* Bus::intPending, the wire-OR of what was announced.
IntPending == pin \/ rival

\* nextEdge: the serial channel's moments, and those of the counters the slave listens to.
TicksAway(k) == k * TPerTick - phase
Heard == {n \in Counters : TimerIr[n] \notin slave.imr /\ NextOut(timer[n]) > 0}
EdgesMutant == {w \in {frame, tx.hold} : w > 0}
Edges == {w \in {frame, tx.hold} : w > 0} \cup {TicksAway(NextOut(timer[n])) : n \in Heard}
NextEdge == IF Edges = {} THEN 0 ELSE CHOOSE w \in Edges : \A v \in Edges : w <= v

\* The lines of the slave that rose unmasked, and are high, unacknowledged and not forgotten.
Risen(lines, forgotten) ==
  risen' = ((risen \ forgotten) \cup (lines \ (SlaveLive \cup slave'.imr))) \cap lines

\* refresh(), where m and s are the controllers as the handler leaves them.
Refreshed(m, s, forgotten) ==
  \E toSlave \in {SlaveLive'} :
    /\ slave' = SenseEdges(s, toSlave)
    /\ \E toMaster \in {MasterLines(slave, toSlave)'} :
         /\ master' = SenseEdges(m, toMaster)
         /\ pin' = PullsInt(master, toMaster)'
    /\ wake' = NextEdge'
    /\ Risen(toSlave, forgotten)
-----------------------------------------------------------------------------
(***************************************************************************)
(* The acknowledge: Bus::intAck and Ss1Board::intAckByte, one cycle each.  *)
(* a is the state of the acknowledge: the controllers, intaByte_, the call *)
(* intaAddr_ stands for, and the bytes that were driven.                   *)
(***************************************************************************)
ClaimsMutant(a) == IntOut(a.master, MasterLines(a.slave, SlaveLive))
Claims(a) == a.byte # 0 \/ IntOut(a.master, MasterLines(a.slave, SlaveLive))

FirstByte(a) ==
  LET lines == MasterLines(a.slave, SlaveLive)
      l == AcknowledgedLevel(a.master, lines)
      cascaded == l = CascadeIr IN
    [a EXCEPT !.master = Acknowledged(@, lines),
              !.slave = IF cascaded THEN Acknowledged(@, SlaveLive) ELSE @,
              !.byte = 1,
              !.call = IF cascaded
                       THEN [pic |-> "slave", level |-> AcknowledgedLevel(a.slave, SlaveLive)]
                       ELSE [pic |-> "master", level |-> l],
              !.driven = Append(@, "CALL")]

IntAckByte(a) ==
  CASE a.byte = 0 -> FirstByte(a)
    [] a.byte = 1 -> [a EXCEPT !.byte = 2, !.driven = Append(@, "low")]
    [] a.byte = 2 -> [a EXCEPT !.byte = 0, !.driven = Append(@, "high")]

\* The card in the lowest slot that claims the cycle drives it; nobody, and it floats.
AckCycle(a) ==
  IF rival /\ system.rival = "front" THEN [a EXCEPT !.driven = Append(@, "RST")]
  ELSE IF Claims(a) THEN IntAckByte(a)
  ELSE IF rival /\ system.rival = "behind" THEN [a EXCEPT !.driven = Append(@, "RST")]
  ELSE [a EXCEPT !.driven = Append(@, "FF")]

\* What the processor executes: the byte of its opcode cycle, and the operands of a CALL.
Acknowledge ==
  LET a == AckCycle([master |-> master, slave |-> slave, byte |-> 0, call |-> NoCall,
                     driven |-> <<>>]) IN
    IF a.driven = <<"CALL">> THEN AckCycle(AckCycle(a)) ELSE a

\* Somebody who drives no vector pulls the pin.
BareRequest == (rival /\ system.rival = "bare") \/ (rx /\ system.int)
RequestedCall(call) ==
  IF call.pic = "slave" THEN call.level \in Requests(slave, SlaveLive)
                        ELSE call.level \in Requests(master, MasterLive)
-----------------------------------------------------------------------------
(***************************************************************************)
(* The processor, one step at a time: pin 73, then the next instruction;   *)
(* halted, it lets the time pass.                                          *)
(***************************************************************************)
Accepts == processor.ie /\ IntPending
Runs == ~Accepts /\ ~processor.halted

\* EI takes effect at the end of the instruction after it.
EndOfInstruction(c, eiWasPending) ==
  IF eiWasPending THEN [c EXCEPT !.ie = TRUE, !.ei = FALSE] ELSE c
StepEnds(c) == processor' = EndOfInstruction(c, processor.ei)

\* A level that goes into service is newer than those that are.
Behind(rel, p, l) == rel \cup ((p.isr \cup {l}) \X {l})

\* intChanged, and no refresh, follows the first byte.
AcceptInterrupt ==
  /\ Accepts
  /\ UNCHANGED <<system, clocks, rx, outside, wake, frozen>>
  /\ \E a \in {Acknowledge} :
       /\ master' = a.master /\ slave' = a.slave /\ pin' = AssertsInt'
       /\ order' = [master |-> IF a.master = master THEN order.master
                               ELSE Behind(order.master, master, Winner(master, MasterLive)),
                    slave |-> IF a.slave = slave THEN order.slave
                              ELSE Behind(order.slave, slave, Winner(slave, SlaveLive))]
       /\ risen' = IF a.call.pic = "slave" THEN risen \ {a.call.level} ELSE risen
  /\ processor' = [processor EXCEPT !.ie = FALSE, !.ei = FALSE, !.halted = FALSE]

\* An instruction of the processor's own.  code: what it does, "nop" among them.
Executed(code) ==
  CASE code = "ei" -> [processor EXCEPT !.ei = TRUE]
    [] code = "di" -> [processor EXCEPT !.ie = FALSE, !.ei = FALSE]
    [] code = "hlt" -> [processor EXCEPT !.halted = TRUE]
    [] OTHER -> processor
Execute(code) ==
  /\ Runs /\ code \in system.code \cup {"nop"}
  /\ IF code = "ei" THEN processor' = Executed(code) ELSE StepEnds(Executed(code))
  /\ UNCHANGED <<system, master, slave, clocks, rx, outside, pin, wake, order, risen, frozen>>

\* An IN or an OUT to the card.
PortCycle == Runs /\ StepEnds(processor) /\ UNCHANGED <<system, outside>>
-----------------------------------------------------------------------------
(***************************************************************************)
(* The guest at the card's ports.                                          *)
(***************************************************************************)
InService(rel, p) == rel \cap (p.isr \X p.isr)

WriteMaster(w) ==
  /\ w \in system.toMaster /\ PortCycle
  /\ UNCHANGED <<clocks, rx, frozen>>
  /\ Refreshed(PicWritten(master, w), slave, {})
  /\ order' = [order EXCEPT !.master = InService(@, master')]

WriteSlave(w) ==
  /\ w \in system.toSlave /\ PortCycle
  /\ UNCHANGED <<clocks, rx, frozen>>
  /\ Refreshed(master, PicWritten(slave, w), IF w.word = "icw1" THEN Levels ELSE {})
  /\ order' = [order EXCEPT !.slave = InService(@, slave')]

SetCounter(n, c) == timer' = [timer EXCEPT ![n] = c]

ProgramCounter(n, m) ==
  /\ m \in system.modes /\ PortCycle
  /\ SetCounter(n, Programmed(timer[n], m[1], m[2]))
  /\ frozen' = [frozen EXCEPT ![n] = NothingFrozen]
  /\ UNCHANGED <<phase, frame, tx, rx, order>>
  /\ Refreshed(master, slave, {})

LoadCounter(n, b) ==
  /\ b \in system.counts /\ PortCycle
  /\ SetCounter(n, CountWritten(timer[n], b))
  /\ frozen' = [frozen EXCEPT ![n] = NothingFrozen]
  /\ UNCHANGED <<phase, frame, tx, rx, order>>
  /\ Refreshed(master, slave, {})

LatchCounter(n) ==
  /\ system.modes # {} /\ PortCycle
  /\ SetCounter(n, Latched(timer[n]))
  /\ frozen' = [frozen EXCEPT ![n] =
                  IF timer[n].rl = "both" THEN [want |-> LiveCount(timer[n]) % Modulus, low |-> NoByte]
                  ELSE NothingFrozen]
  /\ UNCHANGED <<phase, frame, tx, rx, order>>
  /\ Refreshed(master, slave, {})

\* Reading a counter refreshes nothing.
ReadCounter(n) ==
  /\ system.modes # {} /\ PortCycle
  /\ SetCounter(n, CounterRead(timer[n]))
  /\ frozen' = [frozen EXCEPT ![n] = IF @.want # NoByte /\ @.low = NoByte
                                     THEN [@ EXCEPT !.low = ByteRead(timer[n])]
                                     ELSE NothingFrozen]
  /\ UNCHANGED <<master, slave, phase, frame, tx, rx, pin, wake, order, risen>>

ReadSerial ==
  /\ rx /\ PortCycle /\ rx' = FALSE
  /\ UNCHANGED <<clocks, order, frozen>>
  /\ Refreshed(master, slave, {})

\* TwoStageTx::load without a start delay, by a guest that waits for TxRDY.
WriteSerial ==
  /\ system.serial /\ tx.hold = 0 /\ PortCycle
  /\ tx' = [hold |-> tx.shift, shift |-> tx.shift + CharT]
  /\ UNCHANGED <<timer, phase, frame, rx, order, frozen>>
  /\ Refreshed(master, slave, {})
-----------------------------------------------------------------------------
(***************************************************************************)
(* Time and the world.                                                     *)
(***************************************************************************)
Less(t) == IF t > 0 THEN t - 1 ELSE 0

\* A T-state.  The deadline, when it is due, refreshes the card.
Tick ==
  /\ phase' = (phase + 1) % TPerTick
  /\ timer' = IF phase' = 0 THEN [n \in Counters |-> Later(timer[n])] ELSE timer
  /\ frame' = Less(frame) /\ rx' = (rx \/ (frame = 1 /\ wake = 1))
  /\ tx' = [hold |-> Less(tx.hold), shift |-> Less(tx.shift)]
  /\ UNCHANGED <<system, outside, processor, order, frozen>>
  /\ IF wake = 1 THEN Refreshed(master, slave, {})
     ELSE wake' = Less(wake) /\ UNCHANGED <<master, slave, pin>> /\ Risen(SlaveLive', {})

\* pump() finds a character on the line, and the receiver begins it.
CharacterBegins ==
  /\ system.serial /\ frame = 0 /\ ~rx
  /\ frame' = CharT
  /\ UNCHANGED <<system, timer, phase, tx, rx, outside, processor, order, frozen>>
  /\ Refreshed(master, slave, {})

\* Another card moves a VI line: the bus has this one look at its pin, and no more.
ViMoves(l) ==
  /\ l \in system.vi
  /\ vi' = IF l \in vi THEN vi \ {l} ELSE vi \cup {l}
  /\ UNCHANGED <<system, master, slave, clocks, rx, rival, wake, processor, order, risen, frozen>>
  /\ pin' = AssertsInt'

RivalMoves ==
  /\ system.rival # "none" /\ rival' = ~rival
  /\ UNCHANGED <<system, master, slave, clocks, rx, vi, pin, wake, processor, past>>

\* RESET clears the processor and leaves the controllers, the timer and the channel.
CpuReset == [ie |-> FALSE, ei |-> FALSE, halted |-> FALSE]
Reset ==
  /\ system.resets
  /\ processor' = CpuReset
  /\ UNCHANGED <<system, clocks, rx, outside, order, frozen>>
  /\ Refreshed(master, slave, {})

IdleTx == [hold |-> 0, shift |-> 0]
PowerOn ==
  /\ system.resets
  /\ processor' = CpuReset
  /\ timer' = [n \in Counters |-> PoweredCounter]
  /\ rx' = FALSE /\ frame' = 0 /\ tx' = IdleTx
  /\ order' = [master |-> {}, slave |-> {}]
  /\ frozen' = [n \in Counters |-> NothingFrozen]
  /\ UNCHANGED <<system, phase, outside>>
  /\ Refreshed(PoweredPic, PoweredPic, Levels)
-----------------------------------------------------------------------------
ChainInit ==
  /\ system \in Rigs
  /\ timer = [n \in Counters |-> PoweredCounter] /\ phase = 0
  /\ rx = FALSE /\ frame = 0 /\ tx = IdleTx
  /\ vi = {} /\ rival = FALSE
  /\ slave = SenseEdges(system.start, SlaveLive) /\ master = SenseEdges(system.start, MasterLive)
  /\ pin = AssertsInt /\ wake = 0
  /\ processor = CpuReset
  /\ order = [master |-> {}, slave |-> {}] /\ risen = {}
  /\ frozen = [n \in Counters |-> NothingFrozen]

World ==
  \/ Tick \/ CharacterBegins \/ RivalMoves \/ Reset \/ PowerOn
  \/ \E l \in ViLines : ViMoves(l)

Ports ==
  \/ \E w \in system.toMaster : WriteMaster(w)
  \/ \E w \in system.toSlave : WriteSlave(w)
  \/ \E n \in Counters : \/ \E m \in system.modes : ProgramCounter(n, m)
                         \/ \E b \in system.counts : LoadCounter(n, b)
                         \/ LatchCounter(n) \/ ReadCounter(n)
  \/ ReadSerial \/ WriteSerial

Steps ==
  \/ AcceptInterrupt
  \/ \E code \in system.code \cup {"nop"} : Execute(code)

ChainNext == World \/ Ports \/ Steps
ChainSpec == ChainInit /\ [][ChainNext]_chainVars
-----------------------------------------------------------------------------
(***************************************************************************)
(* What is to hold.                                                        *)
(***************************************************************************)
TypeOK ==
  /\ system \in Rigs /\ master \in Controllers /\ slave \in Controllers
  /\ timer \in [Counters -> CounterStates] /\ phase \in 0..(TPerTick - 1)
  /\ rx \in BOOLEAN /\ frame \in 0..CharT /\ tx \in [hold : 0..CharT, shift : 0..(2 * CharT)]
  /\ vi \subseteq ViLines /\ rival \in BOOLEAN /\ pin \in BOOLEAN /\ wake \in Nat
  /\ processor \in [ie : BOOLEAN, ei : BOOLEAN, halted : BOOLEAN]
  /\ risen \subseteq Levels

\* At every T-state the wire the card announced is what its chips ask for, through both
\* controllers: no OUT of a listened-to counter, no end of a character and no mask moves a
\* request without refresh() or a deadline for it.  (Bus::verifyInt aborts otherwise.)
PinIsHonest == pin = AssertsInt

\* The levels in service are those acknowledged and not ended, and the one of highest
\* priority, which is the one a non-specific end of interrupt takes out of service, is the
\* newest: handlers that nest end in the right order, also while priorities rotate.
\* (Setting the priority, special mask mode and a rotation of a chosen level are how a
\* guest gives that up: a rig that uses them is not nested.)
EndsNewest(p, rel) ==
  /\ p.isr = {l \in Levels : <<l, l>> \in rel}
  /\ \A l \in p.isr : <<l, HighestIsr(p)>> \in rel
NewestEndsFirst ==
  system.nested => EndsNewest(master, order.master) /\ EndsNewest(slave, order.slave)

\* An accepted interrupt is one that was asked for: the processor executes a whole CALL to
\* a level that requests, unmasked, in the controller the CALL names, or another card's
\* vector, or RST 7 where somebody pulls pin 73 without one.  The controllers' default
\* level and a floating bus never stand in for a request that went away.
NoPhantom ==
  Accepts =>
    LET a == Acknowledge IN
      CASE a.driven[1] = "CALL" -> /\ a.driven = <<"CALL", "low", "high">> /\ a.byte = 0
                                   /\ RequestedCall(a.call)
        [] a.driven[1] = "RST" -> rival
        [] OTHER -> BareRequest

\* Handlers end newest first, and none runs that nobody asked for.
ServiceIsMeant == NewestEndsFirst /\ NoPhantom

\* A line of the slave that rises while it is unmasked is latched, whether or not anybody
\* touches the card, until it falls, is acknowledged or the guest programs the chip anew.
RiseIsLatched == risen \subseteq slave.edge

\* The two bytes a guest reads after a latch command are those of the count at the command,
\* whatever time passes between the reads.
CountIsOneMoment ==
  [][\A n \in Counters :
       /\ frozen[n].want # NoByte /\ timer[n].rl = "both" /\ timer'[n] # timer[n]
       /\ frozen'[n] = NothingFrozen /\ frozen[n].low # NoByte
       => ByteRead(timer[n]) * ByteSize + frozen[n].low = frozen[n].want]_<<timer, frozen>>
=============================================================================
