------------------------------ MODULE RunLoop ------------------------------
(***************************************************************************)
(* The debugger's run loop: one 8080 instruction after another, and at     *)
(* each boundary the clock, the DMA grants and the reasons to stop.        *)
(*                                                                         *)
(* An instruction is a sequence of bus cycles.  A cycle breakpoint is      *)
(* asked before each of them and unwinds the instruction by an exception;  *)
(* the registers are put back from the snapshot of the boundary, and a     *)
(* one-shot lets the instruction through when the operator resumes.  RUN   *)
(* drives the loop in slices, STEP one instruction at a time, and ^C may   *)
(* land anywhere in either.                                                *)
(*                                                                         *)
(* Not here: registers other than PC and the pair hl, trace actions and    *)
(* hit counts, wait states, and the wall clock.                            *)
(***************************************************************************)
EXTENDS Integers, Sequences, FiniteSets

CONSTANT Guests   \* a guest, its machine and its operator: see the fields below

VARIABLE rig       \* the guest this behaviour is about

Prog == rig.prog              \* Prog[pc]: [cycles, does, next, to], see FromMemory
Breaks == rig.breaks          \* Breaks[id]: [kind, at, cond, hl]
Pc0 == rig.pc0                \* where the processor starts
Entries == rig.entries        \* where the operator sends it
Cards == rig.cards            \* the DMA cards in slot order
Burst == rig.burst            \* bytes in a DMA burst
Target == rig.target          \* Target[d]: the cell card d writes
Arms == rig.arms              \* Arms[port]: the deadlines an OUT to the port arms
RxPort == "rx"                \* reading it takes the byte, and the request falls
VoidPorts == rig.void         \* ports no card decodes
HasDeck == rig.deck           \* is there a cassette deck?
AckDrops == rig.ackDrops      \* does an acknowledge take the request (an 8259A) or not (a bare line)?
Vector == rig.vector          \* where an acknowledged request goes
Rst7 == rig.rst7              \* where an acknowledge that finds no request goes
SliceSteps == rig.slice       \* instructions in a slice of RUN
StepMax == rig.steps          \* the longest STEP n
Toggles == rig.toggles        \* a bound: the breakpoints the operator sets and clears
Gestures == rig.gestures      \* a bound: the cards the operator switches, and the other things
                              \* it does ("run", "step", "ctrl-c", "poke", "examine", "reset", "rewind")

Pcs == DOMAIN Prog
Ids == DOMAIN Breaks
DmaCards == {Cards[i] : i \in DOMAIN Cards}
Deadlines == {"uart"} \cup DmaCards

ASSUME RunLoopAssumption ==
  \A g \in Guests :
    /\ g.burst \in Nat \ {0} /\ g.slice \in Nat \ {0} /\ g.steps \in Nat \ {0}
    /\ DOMAIN g.breaks \subseteq Nat \ {0} /\ g.toggles \subseteq DOMAIN g.breaks
    /\ {g.pc0, g.vector, g.rst7} \cup g.entries \subseteq DOMAIN g.prog
    /\ \A pc \in DOMAIN g.prog : {g.prog[pc].next} \cup g.prog[pc].to \subseteq DOMAIN g.prog

VARIABLES
  cpu,      \* [pc, hl, ie, ei, halted, intf]
  mem,
  line,     \* Bus::intPending
  due,      \* the deadlines in the clock's queue
  left,     \* left[d]: the bytes card d still asks the bus for
  enabled,  \* enabled[d]
  tape,     \* [at, was]: is the deck at its mark; wasAtStop_
  on,       \* the enabled breakpoints
  cmd,      \* the operator's command and how many STEPs it has to go
  phase,    \* where the loop is
  flight,   \* the instruction in flight and the cycles it has still to run
  slot,     \* slot->regs: the registers at the boundary
  turn,     \* the slot serviceDma is at
  steps,    \* RunResult::steps
  skip,     \* skipArmed_ and resumeCyclePc_
  hit,      \* cycleHit_
  pend,     \* pendingCond_
  warned,   \* warnedIoRead_ and warnedIoWrite_
  voidHalt, \* unclaimedHalt_
  stop,     \* g_stopRequest
  why,      \* RunResult::why, bp
  seen      \* a history of the command, for the properties

vars == <<cpu, mem, line, due, left, enabled, tape, on, cmd, phase, flight, slot,
          turn, steps, skip, hit, pend, warned, voidHalt, stop, why, seen>>

NoCmd == [verb |-> "none", rounds |-> 0]
NoFlight == [cycles |-> <<>>, does |-> "none", to |-> {}, ei |-> FALSE]
Because(reason, bp) == [reason |-> reason, bp |-> bp]
GoesOn == Because("none", 0)
Asleep == [pc |-> Pc0, hl |-> "junk", ie |-> FALSE, ei |-> FALSE, halted |-> FALSE, intf |-> FALSE]

(***************************************************************************)
(* seen.verb   the command                                                 *)
(* seen.start  what the instruction in flight first began with             *)
(* seen.ports  the port cycles it has run, over all its attempts           *)
(* seen.vetoed where the last stop was a veto, while nothing has retired   *)
(* seen.after  instructions retired since ^C (at most 2), -1 before it     *)
(* seen.void   the guest met an unclaimed port                             *)
(* seen.mark   the deck reached its mark                                   *)
(* seen.dma    a DMA cycle met a breakpoint                                *)
(***************************************************************************)
NoPc == "nowhere"
Unseen == [verb |-> "none", start |-> [cpu |-> {}, mem |-> {}, flight |-> NoFlight], ports |-> 0,
           vetoed |-> NoPc, after |-> -1, void |-> FALSE, mark |-> FALSE, dma |-> FALSE]
-----------------------------------------------------------------------------
(***************************************************************************)
(* Instructions.                                                           *)
(***************************************************************************)
Cycle(type, at, reg) == [type |-> type, at |-> at, reg |-> reg]

\* The fetch moves the PC to next; the other cycles follow.  A jump or a branch
\* goes to one of to, and everything else stays where the cycles left the PC.
FromMemory(pc, ei) ==
  [cycles |-> <<Cycle("MemRead", pc, "opcode")>> \o Prog[pc].cycles,
   does |-> Prog[pc].does, to |-> Prog[pc].to, ei |-> ei]

\* An RST from the bus: the PC does not move, and is pushed.
FromBus ==
  [cycles |-> <<Cycle("IntAck", "vector", "none"), Cycle("MemWrite", "s1", "pc"),
                Cycle("MemWrite", "s0", "pc")>>,
   does |-> "plain", to |-> {}, ei |-> FALSE]

CpuAfter(c, a, m) ==
  CASE a.reg = "opcode" -> [c EXCEPT !.pc = Prog[c.pc].next]
    [] a.type = "MemRead" /\ a.reg # "opcode" -> [c EXCEPT ![a.reg] = m[a.at]]
    [] OTHER -> c
MemAfter(c, a, m) == IF a.type = "MemWrite" THEN [m EXCEPT ![a.at] = c[a.reg]] ELSE m

\* The end of Cpu8080::step: EI one instruction late, DI, HLT.
Retired(c, f) ==
  [c EXCEPT !.ie = (f.does # "ei" /\ f.ei) \/ (c.ie /\ f.does # "di"),
            !.ei = f.does = "ei" \/ (c.ei /\ ~f.ei /\ f.does # "di"),
            !.halted = f.does = "hlt",
            !.intf = FALSE]
-----------------------------------------------------------------------------
(***************************************************************************)
(* Breakpoints: Debugger::matchCycleBreak and the tests of a boundary.     *)
(***************************************************************************)
Min(S) == CHOOSE x \in S : \A y \in S : x <= y

Matching(a) == {b \in on : Breaks[b].kind = a.type /\ a.at \in Breaks[b].at}
Stopping(a) == {b \in Matching(a) : Breaks[b].cond = "none"}
FirstHit(a) == IF Stopping(a) = {} THEN hit ELSE IF hit # 0 THEN hit ELSE Min(Stopping(a))

TapeWatched == \E b \in on : Breaks[b].kind = "TapeStop"
TapeEdge == TapeWatched /\ tape.at /\ ~tape.was

\* The condition of a cycle breakpoint is about the registers before the
\* instruction (IF) or after it (LOADS).
Met(b) == Breaks[b].hl = (IF Breaks[b].cond = "after" THEN cpu.hl ELSE slot.hl)

PcHits == {b \in on : /\ Breaks[b].kind = "Pc" /\ cpu.pc \in Breaks[b].at
                      /\ Breaks[b].cond = "none" \/ cpu.hl = Breaks[b].hl}
CondHits == {b \in pend \cap on : Met(b)}

\* Debugger::haltIsFinal, with the 8080's haltCanEnd.
HaltIsFinalMutant == FALSE
HaltIsFinal == cpu.halted /\ ~(cpu.ie /\ (line \/ due # {}))

\* The reasons to stop, in the order Debugger::run asks them.
StopTests ==
  <<[is |-> hit # 0, because |-> Because("Breakpoint", hit)],
    [is |-> voidHalt, because |-> Because("Unclaimed", 0)],
    [is |-> TapeEdge, because |-> Because("TapeStop", 0)],
    [is |-> CondHits # {}, because |-> Because("Breakpoint", IF CondHits = {} THEN 0 ELSE Min(CondHits))],
    [is |-> PcHits # {}, because |-> Because("Breakpoint", IF PcHits = {} THEN 0 ELSE Min(PcHits))],
    [is |-> cpu.halted /\ due = {} /\ HaltIsFinal, because |-> Because("Halted", 0)],
    [is |-> stop, because |-> Because("StopRequested", 0)],
    [is |-> steps >= (IF cmd.verb = "run" THEN SliceSteps ELSE 1), because |-> Because("Steps", 0)]>>

Verdict ==
  LET given == {i \in DOMAIN StopTests : StopTests[i].is}
  IN  IF given = {} THEN GoesOn ELSE StopTests[Min(given)].because
-----------------------------------------------------------------------------
Init ==
  /\ rig \in Guests
  /\ cpu = Asleep
  /\ mem = rig.mem
  /\ line = FALSE /\ due = {} /\ left = [d \in DmaCards |-> 0]
  /\ enabled = [d \in DmaCards |-> TRUE]
  /\ tape = [at |-> FALSE, was |-> FALSE]
  /\ on \in {Ids, Ids \ Toggles}
  /\ cmd = NoCmd /\ phase = "prompt" /\ flight = NoFlight /\ slot = Asleep
  /\ turn = 1 /\ steps = 0
  /\ skip = [armed |-> FALSE, pc |-> NoPc]
  /\ hit = 0 /\ pend = {}
  /\ warned = {} /\ voidHalt = FALSE
  /\ stop = FALSE /\ why = GoesOn
  /\ seen = Unseen
-----------------------------------------------------------------------------
machine == <<cpu, mem>>
world   == <<line, due, left, tape>>
unclaimed == <<warned, voidHalt>>
panel   == <<enabled, on>>
boundary == <<slot, skip, pend>>

(***************************************************************************)
(* The operator, at the prompt.                                            *)
(***************************************************************************)
Command(verb, rounds) ==
  /\ phase = "prompt"
  /\ ~HaltIsFinal   \* Monitor::refuseHalted
  /\ cmd' = [verb |-> verb, rounds |-> rounds]
  /\ phase' = IF verb = "run" THEN "between" ELSE "entering"
  /\ why' = GoesOn
  /\ seen' = [Unseen EXCEPT !.verb = verb, !.start = seen.start, !.ports = seen.ports,
                            !.vetoed = seen.vetoed]
  /\ UNCHANGED <<machine, world, panel, boundary, flight, turn, steps, hit>>

\* Bus::resetUnclaimedWarnings
ForgivenMutant == [ports |-> {}, halt |-> voidHalt]
Forgiven == [ports |-> {}, halt |-> FALSE]

\* Monitor::runMachine
Run ==
  /\ "run" \in Gestures /\ Command("run", 0)
  /\ warned' = Forgiven.ports /\ voidHalt' = Forgiven.halt
  /\ stop' = FALSE

\* STEP n
Step(n) == "step" \in Gestures /\ Command("step", n) /\ UNCHANGED <<unclaimed, stop>>

\* The cards' part of a cycle: a byte taken, a request acknowledged, a deadline
\* armed; Bus::reportUnclaimed, once per port and direction, under HALT.
Drive(a) ==
  LET noBoard == a.type \in {"IoRead", "IoWrite"} /\ a.at \in VoidPorts
      first == noBoard /\ <<a.type, a.at>> \notin warned
  IN  /\ line' = (line /\ ~(a.type = "IoRead" /\ a.at = RxPort) /\ ~(a.type = "IntAck" /\ AckDrops))
      /\ due' = IF a.type = "IoWrite" /\ a.at \in DOMAIN Arms THEN due \cup Arms[a.at] ELSE due
      /\ warned' = IF first THEN warned \cup {<<a.type, a.at>>} ELSE warned
      /\ voidHalt' = (voidHalt \/ first)

\* IN and OUT at the prompt are real cycles.
Poke(type, port) ==
  /\ phase = "prompt" /\ "poke" \in Gestures
  /\ Drive(Cycle(type, port, "none"))
  /\ UNCHANGED <<machine, left, tape, panel, cmd, phase, boundary, flight, turn, steps, hit,
                 stop, why, seen>>

\* EXAMINE, SET REG and RESET move the processor under the loop.
Moved(c) ==
  /\ phase = "prompt"
  /\ cpu' = c
  /\ seen' = [seen EXCEPT !.start.flight = NoFlight]
  /\ UNCHANGED <<mem, tape, panel, unclaimed, cmd, phase, boundary, flight, turn, steps, hit,
                 stop, why>>
SetPc(pc) ==
  "examine" \in Gestures /\ ~cpu.halted /\ pc # cpu.pc /\ Moved([cpu EXCEPT !.pc = pc]) /\ UNCHANGED <<line, due, left>>
Reset ==
  /\ "reset" \in Gestures
  /\ Moved([cpu EXCEPT !.pc = Pc0, !.ie = FALSE, !.ei = FALSE, !.halted = FALSE, !.intf = FALSE])
  /\ line' = FALSE /\ due' = {} /\ left' = [d \in DmaCards |-> 0]

\* BREAK and NOBREAK, SET of a card's enabled, REWIND.
Switch ==
  /\ phase = "prompt"
  /\ \/ /\ \E b \in Toggles : on' = (on \ {b}) \cup ({b} \ on)
        /\ UNCHANGED <<enabled, tape>>
     \/ /\ \E d \in DmaCards \cap Gestures : enabled' = [enabled EXCEPT ![d] = ~enabled[d]]
        /\ UNCHANGED <<on, tape>>
     \/ /\ "rewind" \in Gestures /\ tape.at /\ tape' = [tape EXCEPT !.at = FALSE]
        /\ UNCHANGED <<on, enabled>>
  /\ UNCHANGED <<machine, line, due, left, unclaimed, cmd, phase, boundary, flight, turn, steps,
                 hit, stop, why, seen>>

\* ^C while a guard is installed: the handler sets the flag and nothing else.
CtrlC ==
  /\ phase # "prompt" /\ ~stop /\ "ctrl-c" \in Gestures
  /\ stop' = TRUE
  /\ seen' = [seen EXCEPT !.after = 0]
  /\ UNCHANGED <<machine, world, panel, unclaimed, cmd, phase, boundary, flight, turn, steps, hit,
                 why>>
-----------------------------------------------------------------------------
(***************************************************************************)
(* Debugger::run, and the slices around it.                                *)
(***************************************************************************)
End(reason) == phase' = "prompt" /\ cmd' = NoCmd /\ why' = Because(reason, 0)

\* What Debugger::run leaves behind that its next entry starts afresh.
RunLeaves == hit' = 0 /\ steps' = 0 /\ pend' = {} /\ slot' = Asleep

\* The top of runMachine's loop: a ^C from between two slices.
Slice ==
  /\ phase = "between"
  /\ \/ stop /\ End("StopRequested")
     \/ ~stop /\ phase' = "entering" /\ UNCHANGED <<cmd, why>>
  /\ UNCHANGED <<machine, world, panel, unclaimed, boundary, flight, turn, steps, hit, stop, seen>>

KeptSkipMutant(s) == s
KeptSkip(s) == [s EXCEPT !.armed = s.armed /\ cpu.pc = s.pc]

\* RUN clears the stop flag once, and its slices keep it; STEP's runs clear it.
PendingMutant == FALSE
Pending == stop /\ cmd.verb = "run"

Enter ==
  /\ phase = "entering"
  /\ skip' = KeptSkip(skip)
  /\ stop' = Pending
  /\ hit' = 0 /\ steps' = 0
  /\ tape' = IF TapeWatched THEN [tape EXCEPT !.was = tape.at] ELSE tape
  /\ phase' = "boundary"
  /\ UNCHANGED <<machine, line, due, left, panel, unclaimed, cmd, flight, slot, turn, pend, why,
                 seen>>

\* The processor takes the interrupt; the fetch that follows is an acknowledge.
Acknowledging == [cpu EXCEPT !.ie = FALSE, !.ei = FALSE, !.halted = FALSE, !.intf = TRUE]

\* An instruction begins: the interrupt is taken, or the next one is fetched.
Begin ==
  LET taken == cpu.ie /\ line
      c == IF taken THEN Acknowledging ELSE cpu
      f == IF c.intf THEN [FromBus EXCEPT !.ei = c.ei] ELSE FromMemory(c.pc, c.ei)
      again == seen.vetoed = cpu.pc /\ seen.start.flight = f
  IN  /\ phase = "boundary" /\ (taken \/ ~cpu.halted)
      /\ slot' = cpu /\ pend' = {}
      /\ cpu' = c /\ flight' = f
      /\ phase' = "cycle"
      /\ seen' = IF again THEN seen
                 ELSE [seen EXCEPT !.start = [cpu |-> c, mem |-> mem, flight |-> f], !.ports = 0]
      /\ UNCHANGED <<mem, world, panel, unclaimed, cmd, turn, steps, skip, hit, stop, why>>

Counted(s) == [s EXCEPT !.start = Unseen.start, !.ports = 0, !.vetoed = NoPc,
                        !.after = IF @ < 0 THEN @ ELSE IF @ > 1 THEN 2 ELSE @ + 1]

\* HLT: four T-states go by.
IdleTick ==
  /\ phase = "boundary" /\ cpu.halted /\ ~(cpu.ie /\ line)
  /\ slot' = cpu /\ pend' = {}
  /\ skip' = [skip EXCEPT !.armed = FALSE]
  /\ steps' = steps + 1
  /\ phase' = "advance"
  /\ seen' = Counted(seen)
  /\ UNCHANGED <<machine, world, panel, unclaimed, cmd, flight, turn, hit, stop, why>>

Next1 == Head(flight.cycles)
Vetoed == Next1.type # "IntAck" /\ ~skip.armed /\ Stopping(Next1) # {}

\* The registers() the core lists: not the halt, EI's delay or the acknowledge.
RestoredMutant == [cpu EXCEPT !.hl = slot.hl, !.ie = slot.ie]
Restored == [slot EXCEPT !.halted = cpu.halted, !.ei = cpu.ei, !.intf = cpu.intf]

\* CycleBreakBefore
Veto ==
  /\ phase = "cycle" /\ flight.cycles # <<>> /\ Vetoed
  /\ hit' = FirstHit(Next1)
  /\ cpu' = Restored
  /\ skip' = [armed |-> TRUE, pc |-> slot.pc]
  /\ flight' = NoFlight
  /\ phase' = "after" /\ why' = Because("Breakpoint", hit')
  /\ seen' = [seen EXCEPT !.vetoed = slot.pc]
  /\ UNCHANGED <<mem, world, panel, unclaimed, cmd, slot, turn, steps, pend, stop>>

RunCycle ==
  /\ phase = "cycle" /\ flight.cycles # <<>> /\ ~Vetoed
  /\ cpu' = CpuAfter(cpu, Next1, mem)
  /\ mem' = MemAfter(cpu, Next1, mem)
  /\ Drive(Next1)
  /\ pend' = IF skip.armed THEN pend ELSE pend \cup (Matching(Next1) \ Stopping(Next1))
  /\ flight' = [flight EXCEPT !.cycles = Tail(flight.cycles),
                              !.to = IF Next1.type = "IntAck" THEN {IF line THEN Vector ELSE Rst7} ELSE @]
  /\ seen' = [seen EXCEPT !.ports = @ + IF Next1.type \in {"IoRead", "IoWrite"} THEN 1 ELSE 0,
                          !.void = @ \/ (Next1.type \in {"IoRead", "IoWrite"} /\ Next1.at \in VoidPorts)]
  /\ UNCHANGED <<left, tape, panel, cmd, phase, slot, turn, steps, skip, hit, stop, why>>

Rearmed(s) == [s EXCEPT !.armed = FALSE]

Retire ==
  /\ phase = "cycle" /\ flight.cycles = <<>>
  /\ \E pc \in IF flight.to = {} THEN {cpu.pc} ELSE flight.to :
       cpu' = [Retired(cpu, flight) EXCEPT !.pc = pc]
  /\ skip' = Rearmed(skip)
  /\ steps' = steps + 1
  /\ flight' = NoFlight
  /\ phase' = "advance"
  /\ seen' = Counted(seen)
  /\ UNCHANGED <<mem, world, panel, unclaimed, cmd, slot, turn, hit, pend, stop, why>>
-----------------------------------------------------------------------------
(***************************************************************************)
(* The boundary: the clock advances, the bus is granted, the run may stop. *)
(***************************************************************************)
Waiting == phase \in {"advance", "dma"}

\* Clock::advance, of the instruction or of a granted cycle: a deadline fires.
Fire(d) ==
  /\ Waiting /\ d \in due
  /\ due' = due \ {d}
  /\ line' = (line \/ d = "uart")
  /\ left' = IF d \in DmaCards THEN [left EXCEPT ![d] = Burst] ELSE left
  /\ UNCHANGED <<machine, tape, panel, unclaimed, cmd, phase, boundary, flight, turn, steps, hit,
                 stop, why, seen>>

\* The byte the deck gave was the last before its mark.
TapeArrives ==
  /\ phase = "advance" /\ HasDeck /\ ~tape.at
  /\ tape' = [tape EXCEPT !.at = TRUE]
  /\ seen' = [seen EXCEPT !.mark = TRUE]
  /\ UNCHANGED <<machine, line, due, left, panel, unclaimed, cmd, phase, boundary, flight, turn,
                 steps, hit, stop, why>>

\* Debugger::serviceDma: one integer test, or a walk over the slots.
HoldPending == \E d \in DmaCards : enabled[d] /\ left[d] > 0

Arbitrate ==
  /\ phase = "advance"
  /\ phase' = IF HoldPending THEN "dma" ELSE "checks"
  /\ turn' = 1
  /\ UNCHANGED <<machine, world, panel, unclaimed, cmd, boundary, flight, steps, hit, stop, why, seen>>

DmaHit(a) == FirstHit(a)

Asking == IF turn \in DOMAIN Cards THEN left[Cards[turn]] > 0 ELSE FALSE

Grant ==
  /\ phase = "dma" /\ Asking
  /\ LET d == Cards[turn]
         a == Cycle("MemWrite", Target[d], "none")
     IN  /\ left' = [left EXCEPT ![d] = @ - 1]
         /\ mem' = [mem EXCEPT ![a.at] = "byte"]
         /\ hit' = DmaHit(a)
         /\ seen' = [seen EXCEPT !.dma = @ \/ Stopping(a) # {}]
  /\ UNCHANGED <<cpu, line, due, tape, panel, unclaimed, cmd, phase, boundary, flight, turn, steps,
                 stop, why>>

NextCard ==
  /\ phase = "dma" /\ ~Asking
  /\ turn' = IF turn \in DOMAIN Cards THEN turn + 1 ELSE 1
  /\ phase' = IF turn \in DOMAIN Cards THEN "dma" ELSE "checks"
  /\ UNCHANGED <<machine, world, panel, unclaimed, cmd, boundary, flight, steps, hit, stop, why, seen>>

\* A test that is reached takes its latch; the ones behind it keep theirs.
Check ==
  /\ phase = "checks"
  /\ why' = Verdict
  /\ phase' = IF Verdict = GoesOn THEN "boundary" ELSE "after"
  /\ voidHalt' = (voidHalt /\ hit # 0)
  /\ tape' = IF TapeWatched /\ hit = 0 /\ ~voidHalt THEN [tape EXCEPT !.was = tape.at] ELSE tape
  /\ UNCHANGED <<machine, line, due, left, panel, warned, cmd, boundary, flight, turn, steps, hit,
                 stop, seen>>

\* Machine::pump between two slices: a byte from the host, or from the deck.
Pump ==
  /\ line' \in {line, TRUE}
  /\ \E at \in {tape.at, HasDeck} :
       /\ tape' = [tape EXCEPT !.at = at \/ tape.at]
       /\ seen' = [seen EXCEPT !.mark = @ \/ (at /\ ~tape.at)]

\* ATTN, seen after the pump, is the reason whatever the slice said.
AfterSlice ==
  /\ phase = "after" /\ cmd.verb = "run"
  /\ Pump
  /\ \/ End("Attn")
     \/ why.reason # "Steps" /\ phase' = "prompt" /\ cmd' = NoCmd /\ UNCHANGED why
     \/ why.reason = "Steps" /\ phase' = "between" /\ UNCHANGED <<cmd, why>>
  /\ RunLeaves
  /\ UNCHANGED <<machine, due, left, panel, unclaimed, skip, flight, turn, stop>>

AfterStep ==
  /\ phase = "after" /\ cmd.verb = "step"
  /\ IF why.reason = "Steps" /\ cmd.rounds > 1
     THEN /\ phase' = "entering" /\ cmd' = [cmd EXCEPT !.rounds = @ - 1]
          /\ UNCHANGED <<line, tape, seen>>
     ELSE phase' = "prompt" /\ cmd' = NoCmd /\ Pump
  /\ RunLeaves
  /\ UNCHANGED <<machine, due, left, panel, unclaimed, skip, flight, turn, stop, why>>

AtPrompt ==
  \/ Run \/ \E n \in 1..StepMax : Step(n)
  \/ \E port \in VoidPorts \cup {RxPort} : Poke("IoRead", port)
  \/ \E port \in DOMAIN Arms : Poke("IoWrite", port)
  \/ \E pc \in Entries : SetPc(pc)
  \/ Reset \/ Switch

Loop ==
  \/ Slice \/ Enter \/ Begin \/ IdleTick \/ Veto \/ RunCycle \/ Retire
  \/ Arbitrate \/ Grant \/ NextCard \/ Check \/ AfterSlice \/ AfterStep

Next ==
  /\ AtPrompt \/ CtrlC \/ TapeArrives \/ (\E d \in Deadlines : Fire(d)) \/ Loop
  /\ UNCHANGED rig

\* The loop runs while it is not at the prompt, and a deadline that is still in
\* the queue at boundary after boundary is reached by the T-states that pass.
AnyDeadline == {"uart"} \cup UNION {{g.cards[i] : i \in DOMAIN g.cards} : g \in Guests}
Fairness == WF_vars(Loop) /\ \A d \in AnyDeadline : SF_vars(Fire(d))

Spec == Init /\ [][Next]_<<rig, vars>> /\ Fairness
-----------------------------------------------------------------------------
Phases == {"prompt", "between", "entering", "boundary", "cycle", "advance", "dma", "checks", "after"}

\* The loop's own state: an instruction is in flight only inside one, a halted
\* processor runs none, and a one-shot is armed only after a stop that put the
\* processor back on an instruction.
TypeOK ==
  /\ phase \in Phases
  /\ phase = "prompt" <=> cmd = NoCmd
  /\ flight # NoFlight <=> phase = "cycle"
  /\ phase = "cycle" => ~cpu.halted
  /\ DOMAIN mem = DOMAIN rig.mem
  /\ \A d \in DmaCards : left[d] \in 0..Burst
  /\ due \subseteq Deadlines /\ on \subseteq Ids /\ pend \subseteq Ids
  /\ hit \in Ids \cup {0}
  /\ turn \in 1..(Len(Cards) + 1)
  /\ steps \in 0..SliceSteps
  /\ skip.armed => skip.pc \in Pcs

\* What the instruction does when nothing stops it, from where it first began.
Whole[n \in Nat] ==
  IF n = 0 THEN [cpu |-> seen.start.cpu, mem |-> seen.start.mem]
  ELSE LET before == Whole[n - 1]
           a == seen.start.flight.cycles[n]
       IN  [cpu |-> CpuAfter(before.cpu, a, before.mem), mem |-> MemAfter(before.cpu, a, before.mem)]

Retiring == phase = "cycle" /\ flight.cycles = <<>>
PortCycles(f) == Cardinality({i \in DOMAIN f.cycles : f.cycles[i].type \in {"IoRead", "IoWrite"}})

\* A breakpoint inside an instruction costs the guest nothing: stopped and resumed,
\* in whatever order breakpoints are set and cleared in between, it ends with the
\* registers, memory and port accesses of one undisturbed run; and unless the operator
\* moved the PC, it is where the processor goes on from.
WholeInstruction ==
  [][/\ Retiring /\ phase' = "advance" =>
          LET f == seen.start.flight
              w == Whole[Len(f.cycles)]
          IN  /\ mem' = w.mem
              /\ cpu' = [Retired(w.cpu, f) EXCEPT !.pc = cpu'.pc]
              /\ cpu'.pc \in (IF flight.to = {} THEN {w.cpu.pc} ELSE flight.to)
              /\ seen.ports = PortCycles(f)
     /\ phase = "boundary" /\ phase' = "cycle" /\ seen.vetoed # NoPc
          /\ seen.start.flight # NoFlight => slot'.pc = seen.vetoed]_vars

\* A cycle a breakpoint names is let through only on the way out of that stop, and
\* resuming never stops on the same instruction again before something retired.
BreakTrapsOnce ==
  [][/\ phase = "cycle" /\ flight.cycles # <<>> /\ flight' # flight
     /\ Stopping(Next1) # {} /\ Next1.type # "IntAck"
     => (seen.vetoed = slot.pc <=> phase' = "cycle")]_vars

\* A ^C in a RUN is heard before two more instructions are over, wherever between the
\* slices it lands.  A DMA card has no instruction to stop before: where its cycle meets a
\* breakpoint, no other instruction begins.
StopIsHeard ==
  /\ seen.verb = "run" => seen.after <= 1
  /\ phase = "boundary" => ~seen.dma

\* What a RUN says it stopped for happened in that RUN, and to the guest.
StopsAreTrue ==
  seen.verb = "run" =>
    /\ why.reason = "Unclaimed" => seen.void
    /\ why.reason = "TapeStop" => seen.mark
    /\ why.reason = "StopRequested" => seen.after >= 0
    /\ why.reason = "Halted" /\ phase = "after" => due = {} /\ HaltIsFinal

\* A HLT in a RUN ends: an interrupt takes the processor out of it, or the RUN is over.
HaltEnds == cpu.halted /\ cmd.verb = "run" ~> ~cpu.halted \/ phase = "prompt"

\* A run stops when it is told to, and what it says it stopped for is so.
StopsAreHonest == StopIsHeard /\ StopsAreTrue
\* An instruction is done whole or not at all, and a breakpoint traps it once.
InstructionsAreWhole == WholeInstruction /\ BreakTrapsOnce

=============================================================================
