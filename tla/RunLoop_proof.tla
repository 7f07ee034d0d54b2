---------------------------- MODULE RunLoop_proof ----------------------------
(***************************************************************************)
(* Proofs about RunLoop, for every guest, machine and operator.            *)
(*                                                                         *)
(* What a run says it stopped for is so because each latch behind a reason *)
(* has a witness in the history of this command: the stop flag and ^C      *)
(* (Asked), the hit and the DMA cycle (Caught), the halt of an unclaimed   *)
(* port (Missing), the edge of the deck (Marked).                          *)
(***************************************************************************)
EXTENDS RunLoop, WellFoundedInduction, TLAPS

Fields == {"verb", "start", "ports", "vetoed", "after", "void", "mark", "dma"}

Kept ==
  /\ rig \in Guests
  /\ phase \in Phases
  /\ on \subseteq Ids
  /\ cmd \in [verb : {"none", "run", "step"}, rounds : Int]
  /\ tape \in [at : BOOLEAN, was : BOOLEAN]
  /\ DOMAIN seen = Fields
  /\ seen.after \in {-1, 0, 1, 2}

\* The flag is up from ^C on, and until the run is told the guest gets one instruction.
Asked ==
  /\ phase # "prompt" => cmd.verb = seen.verb
  /\ phase # "prompt" /\ seen.verb = "run" => (stop <=> seen.after # -1)
  /\ seen.verb = "run" /\ phase \in {"entering", "boundary", "cycle"} => seen.after \in {-1, 0}
  /\ seen.verb = "run" => seen.after \in {-1, 0, 1}
  /\ seen.verb = "run" /\ why.reason = "StopRequested" => seen.after # -1

\* A DMA cycle that met a breakpoint is the reason of the next stop, and there is one.
Caught ==
  seen.dma =>
    /\ phase \in {"dma", "checks", "after", "prompt"}
    /\ phase \in {"dma", "checks"} => hit # 0
    /\ phase = "after" => why.reason # "Steps"

Missing ==
  seen.verb = "run" =>
    /\ phase # "prompt" /\ voidHalt => seen.void
    /\ why.reason = "Unclaimed" => seen.void

Marked ==
  seen.verb = "run" =>
    /\ phase \notin {"prompt", "between", "entering"} /\ TapeEdge => seen.mark
    /\ why.reason = "TapeStop" => seen.mark

Halted ==
  seen.verb = "run" /\ why.reason = "Halted" /\ phase = "after" => due = {} /\ HaltIsFinal

IInv == Kept /\ Asked /\ Caught /\ Missing /\ Marked /\ Halted
-----------------------------------------------------------------------------
(***************************************************************************)
(* The reasons to stop, in their order.                                    *)
(***************************************************************************)
LEMMA MinIsFirst ==
  ASSUME NEW S, S \subseteq Nat, S # {}
  PROVE  Min(S) \in S /\ \A y \in S : Min(S) <= y
<1> DEFINE R == OpToRel(<, Nat)
<1>1. PICK x \in S : \A y \in S : <<y, x>> \notin R
  <2> HIDE DEF R
  <2>1. IsWellFoundedOn(R, Nat)
    BY NatLessThanWellFounded DEF R
  <2> QED
    BY <2>1, WFMin
<1>2. \A y \in S : ~(y < x)
  BY <1>1 DEF OpToRel
<1>3. \A y \in S : x <= y
  BY <1>2
<1> QED
  BY <1>3 DEF Min

\* The verdict is the reason of a test that holds, or the run goes on and none does;
\* a hit is asked about before everything else.
LEMMA VerdictHolds ==
  /\ Verdict = GoesOn =>
       ~voidHalt /\ hit = 0 /\ ~stop /\ ~TapeEdge
  /\ Verdict.reason = "Unclaimed" => voidHalt
  /\ Verdict.reason = "TapeStop" => TapeEdge
  /\ Verdict.reason = "Halted" => due = {} /\ HaltIsFinal
  /\ Verdict.reason = "StopRequested" => stop
  /\ Verdict.reason = "Steps" => hit = 0
<1> DEFINE given == {i \in DOMAIN StopTests : StopTests[i].is}
<1>1. DOMAIN StopTests = 1..8
  BY DEF StopTests
<1>2. /\ StopTests[1].is <=> hit # 0
      /\ StopTests[2].is <=> voidHalt
      /\ StopTests[3].is <=> TapeEdge
      /\ StopTests[6].is => due = {} /\ HaltIsFinal
      /\ StopTests[7].is <=> stop
  BY DEF StopTests
<1>5. /\ StopTests[1].because.reason = "Breakpoint"
      /\ StopTests[2].because.reason = "Unclaimed"
      /\ StopTests[3].because.reason = "TapeStop"
      /\ StopTests[4].because.reason = "Breakpoint"
      /\ StopTests[5].because.reason = "Breakpoint"
      /\ StopTests[6].because.reason = "Halted"
      /\ StopTests[7].because.reason = "StopRequested"
      /\ StopTests[8].because.reason = "Steps"
  BY DEF StopTests, Because
<1>3. CASE given = {}
  <2>1. Verdict = GoesOn /\ Verdict.reason = "none"
    BY <1>3 DEF Verdict, GoesOn, Because
  <2>2. ~StopTests[1].is /\ ~StopTests[2].is /\ ~StopTests[3].is /\ ~StopTests[7].is
    BY <1>1, <1>3
  <2>3. hit = 0 /\ ~voidHalt /\ ~TapeEdge /\ ~stop
    BY <1>2, <2>2
  <2> QED
    BY <2>1, <2>3
<1>4. CASE given # {}
  <2>1. given \subseteq Nat
    BY <1>1
  <2>2. Min(given) \in given /\ \A y \in given : Min(given) <= y
    BY <1>4, <2>1, MinIsFirst
  <2>3. Verdict = StopTests[Min(given)].because
    BY <1>4 DEF Verdict
  <2>4. GoesOn.reason = "none"
    BY DEF GoesOn, Because
  <2>5. Min(given) \in 1..8 /\ StopTests[Min(given)].is
    BY <1>1, <2>2
  <2>6. hit # 0 => Min(given) = 1
    <3>1. hit # 0 => 1 \in given
      BY <1>1, <1>2
    <3>2. hit # 0 => Min(given) <= 1
      BY <2>2, <3>1
    <3> HIDE DEF given
    <3> QED
      BY <2>5, <3>2
  <2> HIDE DEF given
  <2>7. PICK i \in 1..8 : /\ Verdict = StopTests[i].because /\ StopTests[i].is
                          /\ hit # 0 => i = 1
    BY <2>3, <2>5, <2>6
  <2> HIDE <2>2, <2>3, <2>5, <2>6
  <2>8. CASE i \in {1, 4, 5}
    BY <1>2, <1>5, <2>4, <2>7, <2>8
  <2>9. CASE i = 2
    BY <1>2, <1>5, <2>4, <2>7, <2>9
  <2>10. CASE i = 3
    BY <1>2, <1>5, <2>4, <2>7, <2>10
  <2>11. CASE i = 6
    BY <1>2, <1>5, <2>4, <2>7, <2>11
  <2>12. CASE i = 7
    BY <1>2, <1>5, <2>4, <2>7, <2>12
  <2>13. CASE i = 8
    BY <1>2, <1>5, <2>4, <2>7, <2>13
  <2> QED
    BY <2>8, <2>9, <2>10, <2>11, <2>12, <2>13
<1> QED
  BY <1>3, <1>4
-----------------------------------------------------------------------------
\* Where a breakpoint stops there is a first one.
LEMMA Hits ==
  ASSUME rig \in Guests, on \subseteq Ids, NEW a
  PROVE  Stopping(a) # {} => FirstHit(a) # 0
<1>1. Ids \subseteq Nat \ {0}
  BY RunLoopAssumption DEF Ids, Breaks
<1>2. Stopping(a) \subseteq Nat \ {0}
  BY <1>1 DEF Stopping, Matching
<1>3. ASSUME Stopping(a) # {}
      PROVE  Min(Stopping(a)) # 0
  BY <1>2, <1>3, MinIsFirst
<1> QED
  BY <1>3 DEF FirstHit

\* An instruction that is over is one more since ^C, and no reason to stop.
LEMMA CountedFacts ==
  ASSUME DOMAIN seen = Fields, seen.after \in {-1, 0, 1, 2}
  PROVE  /\ DOMAIN Counted(seen) = Fields
         /\ Counted(seen).verb = seen.verb /\ Counted(seen).void = seen.void
         /\ Counted(seen).mark = seen.mark /\ Counted(seen).dma = seen.dma
         /\ Counted(seen).after \in {-1, 0, 1, 2}
         /\ Counted(seen).after = -1 <=> seen.after = -1
         /\ seen.after \in {-1, 0} => Counted(seen).after \in {-1, 0, 1}
<1> DEFINE a == IF seen.after < 0 THEN seen.after ELSE IF seen.after > 1 THEN 2 ELSE seen.after + 1
<1>1. /\ DOMAIN Counted(seen) = Fields
      /\ Counted(seen).verb = seen.verb /\ Counted(seen).void = seen.void
      /\ Counted(seen).mark = seen.mark /\ Counted(seen).dma = seen.dma
      /\ Counted(seen).after = a
  BY DEF Counted, Fields
<1>2. a \in {-1, 0, 1, 2} /\ (a = -1 <=> seen.after = -1) /\ (seen.after \in {-1, 0} => a \in {-1, 0, 1})
  OBVIOUS
<1> QED
  BY <1>1, <1>2

(***************************************************************************)
(* Types.                                                                  *)
(***************************************************************************)
LEMMA KeptKept ==
  ASSUME Kept, Next
  PROVE  Kept'
<1>1. rig' \in Guests
  BY DEF Kept, Next
<1>2. phase' \in Phases
  <2> USE DEF Phases
  <2>1. CASE UNCHANGED phase
    BY <2>1 DEF Kept
  <2>2. CASE Run \/ \E n \in 1..StepMax : Step(n)
    BY <2>2 DEF Run, Step, Command
  <2>3. CASE Slice \/ Enter \/ Begin \/ IdleTick \/ Veto
    BY <2>3 DEF Slice, End, Enter, Begin, IdleTick, Veto, Kept
  <2>4. CASE Retire \/ Arbitrate \/ NextCard \/ Check
    BY <2>4 DEF Retire, Arbitrate, NextCard, Check, Kept
  <2>5. CASE AfterSlice \/ AfterStep
    BY <2>5 DEF AfterSlice, End, AfterStep, Kept
  <2> QED
    BY <2>1, <2>2, <2>3, <2>4, <2>5
       DEF Next, AtPrompt, Loop, Poke, SetPc, Moved, Reset, Switch, CtrlC, TapeArrives, Fire,
           RunCycle, Grant
<1>3. on' \subseteq Ids'
  <2>1. Ids' = Ids /\ Toggles \subseteq Ids
    BY RunLoopAssumption DEF Kept, Next, Ids, Breaks, Toggles
  <2>2. CASE Switch
    BY <2>1, <2>2 DEF Switch, Kept
  <2>3. CASE UNCHANGED on
    BY <2>1, <2>3 DEF Kept
  <2> QED
    BY <2>2, <2>3
       DEF Next, AtPrompt, Loop, panel, Run, Step, Command, Poke, SetPc, Moved, Reset, CtrlC,
           TapeArrives, Fire, Slice, Enter, Begin, IdleTick, Veto, RunCycle, Retire, Arbitrate,
           Grant, NextCard, Check, AfterSlice, AfterStep
<1>4. cmd' \in [verb : {"none", "run", "step"}, rounds : Int]
  <2>1. CASE Run \/ \E n \in 1..StepMax : Step(n)
    BY <2>1 DEF Run, Step, Command
  <2>2. CASE Slice \/ AfterSlice \/ AfterStep
    BY <2>2 DEF Slice, AfterSlice, AfterStep, End, NoCmd, Kept
  <2>3. CASE UNCHANGED cmd
    BY <2>3 DEF Kept
  <2> QED
    BY <2>1, <2>2, <2>3
       DEF Next, AtPrompt, Loop, Poke, SetPc, Moved, Reset, Switch, CtrlC, TapeArrives, Fire, Enter,
           Begin, IdleTick, Veto, RunCycle, Retire, Arbitrate, Grant, NextCard, Check
<1>5. tape' \in [at : BOOLEAN, was : BOOLEAN]
  <2>1. CASE Switch \/ Enter \/ TapeArrives \/ Check
    BY <2>1 DEF Switch, Enter, TapeArrives, Check, Kept
  <2>2. CASE AfterSlice \/ AfterStep
    <3>1. tape' = tape \/ \E at : tape' = [tape EXCEPT !.at = at \/ tape.at]
      BY <2>2 DEF AfterSlice, AfterStep, Pump
    <3> QED
      BY <3>1 DEF Kept
  <2>3. CASE UNCHANGED tape
    BY <2>3 DEF Kept
  <2> QED
    BY <2>1, <2>2, <2>3
       DEF Next, AtPrompt, Loop, world, Run, Step, Command, Poke, SetPc, Moved, Reset, CtrlC, Fire,
           Slice, Begin, IdleTick, Veto, RunCycle, Retire, Arbitrate, Grant, NextCard
<1>6. DOMAIN seen' = Fields /\ seen'.after \in {-1, 0, 1, 2}
  <2>1. CASE Run \/ \E n \in 1..StepMax : Step(n)
    BY <2>1 DEF Run, Step, Command, Unseen, Fields
  <2>2. CASE CtrlC \/ TapeArrives \/ Begin \/ Veto \/ RunCycle \/ Grant
    BY <2>2 DEF CtrlC, TapeArrives, Begin, Veto, RunCycle, Grant, Kept, Fields
  <2>3. CASE (\E pc \in Entries : SetPc(pc)) \/ Reset
    BY <2>3 DEF SetPc, Reset, Moved, Kept, Fields
  <2>4. CASE IdleTick \/ Retire
    BY <2>4, CountedFacts DEF IdleTick, Retire, Kept
  <2>5. CASE AfterSlice \/ AfterStep
    <3>1. seen' = seen \/ \E m : seen' = [seen EXCEPT !.mark = m]
      BY <2>5 DEF AfterSlice, AfterStep, Pump
    <3> QED
      BY <3>1 DEF Kept, Fields
  <2>6. CASE UNCHANGED seen
    BY <2>6 DEF Kept
  <2> QED
    BY <2>1, <2>2, <2>3, <2>4, <2>5, <2>6
       DEF Next, AtPrompt, Loop, Poke, Switch, Fire, Slice, Enter, Arbitrate, NextCard, Check
<1> QED
  BY <1>1, <1>2, <1>3, <1>4, <1>5, <1>6 DEF Kept
-----------------------------------------------------------------------------
(***************************************************************************)
(* The stop flag.                                                          *)
(***************************************************************************)
\* What a command starts from.
LEMMA CommandFacts ==
  ASSUME NEW verb, NEW rounds, Command(verb, rounds)
  PROVE  /\ cmd'.verb = verb /\ seen'.verb = verb /\ seen'.after = -1
         /\ seen'.dma = FALSE /\ why'.reason = "none"
         /\ phase' = IF verb = "run" THEN "between" ELSE "entering"
BY DEF Command, Unseen, GoesOn, Because

\* Until a run is told of ^C the guest gets one instruction at the most.
LEMMA AskedKept ==
  ASSUME Kept, Asked, Next
  PROVE  Asked'
<1>1. CASE Run
  BY <1>1, CommandFacts DEF Run, Asked
<1>2. CASE \E n \in 1..StepMax : Step(n)
  <2>1. cmd'.verb = "step" /\ seen'.verb = "step"
    BY <1>2, CommandFacts DEF Step
  <2> QED
    BY <2>1 DEF Asked
<1>3. CASE (\E pc \in Entries : SetPc(pc)) \/ Reset
  <2>1. /\ phase = "prompt" /\ phase' = phase /\ why' = why
        /\ seen'.verb = seen.verb /\ seen'.after = seen.after
    BY <1>3 DEF SetPc, Reset, Moved, Kept, Fields
  <2> QED
    BY <2>1 DEF Asked
<1>4. CASE CtrlC
  <2>1. /\ phase # "prompt" /\ phase' = phase /\ why' = why /\ cmd' = cmd
        /\ stop' = TRUE /\ seen'.verb = seen.verb /\ seen'.after = 0
    BY <1>4 DEF CtrlC, Kept, Fields
  <2> QED
    BY <2>1 DEF Asked
<1>5. CASE TapeArrives \/ RunCycle \/ Grant
  <2>1. /\ phase' = phase /\ why' = why /\ cmd' = cmd /\ stop' = stop
        /\ seen'.verb = seen.verb /\ seen'.after = seen.after
    BY <1>5 DEF TapeArrives, RunCycle, Grant, Kept, Fields
  <2> QED
    BY <2>1 DEF Asked
<1>6. CASE Slice
  <2>1. /\ seen' = seen /\ stop' = stop /\ phase = "between"
        /\ \/ stop /\ phase' = "prompt" /\ why'.reason = "StopRequested"
           \/ ~stop /\ phase' = "entering" /\ cmd' = cmd /\ why' = why
    BY <1>6 DEF Slice, End, Because
  <2> QED
    BY <2>1 DEF Asked
<1>7. CASE Enter
  <2>1. /\ seen' = seen /\ stop' = (stop /\ cmd.verb = "run") /\ phase = "entering"
        /\ phase' = "boundary" /\ cmd' = cmd /\ why' = why
    BY <1>7 DEF Enter, Pending
  <2> QED
    BY <2>1 DEF Asked
<1>8. CASE Begin
  <2>1. /\ stop' = stop /\ phase = "boundary" /\ phase' = "cycle" /\ cmd' = cmd /\ why' = why
        /\ seen'.verb = seen.verb /\ seen'.after = seen.after
    BY <1>8 DEF Begin, Kept, Fields
  <2> QED
    BY <2>1 DEF Asked
<1>9. CASE IdleTick \/ Retire
  <2>1. /\ stop' = stop /\ phase \in {"boundary", "cycle"} /\ phase' = "advance" /\ cmd' = cmd
        /\ why' = why /\ seen' = Counted(seen)
    BY <1>9 DEF IdleTick, Retire
  <2> QED
    BY <2>1, CountedFacts DEF Asked, Kept
<1>10. CASE Veto
  <2>1. /\ stop' = stop /\ phase = "cycle" /\ phase' = "after" /\ cmd' = cmd
        /\ why'.reason = "Breakpoint" /\ seen'.verb = seen.verb /\ seen'.after = seen.after
    BY <1>10 DEF Veto, Kept, Fields, Because
  <2> QED
    BY <2>1 DEF Asked
<1>11. CASE Arbitrate \/ NextCard
  <2>1. /\ stop' = stop /\ phase \in {"advance", "dma"} /\ phase' \in {"dma", "checks"}
        /\ cmd' = cmd /\ why' = why /\ seen' = seen
    BY <1>11 DEF Arbitrate, NextCard
  <2> QED
    BY <2>1 DEF Asked
<1>12. CASE Check
  <2>1. /\ stop' = stop /\ phase = "checks" /\ cmd' = cmd /\ why' = Verdict /\ seen' = seen
        /\ phase' = IF Verdict = GoesOn THEN "boundary" ELSE "after"
    BY <1>12 DEF Check
  <2>2. /\ Verdict = GoesOn => ~stop
        /\ Verdict.reason = "StopRequested" => stop
    BY VerdictHolds
  <2>3. phase' = "boundary" \/ phase' = "after"
    BY <2>1
  <2>4. phase' = "boundary" => ~stop
    BY <2>1, <2>2
  <2> QED
    BY <2>1, <2>2, <2>3, <2>4 DEF Asked
<1>13. CASE AfterSlice
  <2>1. /\ stop' = stop /\ phase = "after"
        /\ \/ phase' = "prompt" /\ (why' = why \/ why'.reason = "Attn")
           \/ phase' = "between" /\ cmd' = cmd /\ why' = why
    BY <1>13 DEF AfterSlice, End, Because
  <2>2. seen'.verb = seen.verb /\ seen'.after = seen.after
    <3>1. seen' = seen \/ \E m : seen' = [seen EXCEPT !.mark = m]
      BY <1>13 DEF AfterSlice, Pump
    <3> QED
      BY <3>1 DEF Kept, Fields
  <2> HIDE <1>13
  <2> QED
    BY <2>1, <2>2 DEF Asked
<1>14. CASE AfterStep
  <2>1. seen' = seen \/ \E m : seen' = [seen EXCEPT !.mark = m]
    BY <1>14 DEF AfterStep, Pump
  <2>2. seen'.verb = seen.verb
    BY <2>1 DEF Kept, Fields
  <2>3. seen.verb = "step"
    BY <1>14 DEF AfterStep, Asked
  <2>4. phase' # "prompt" => cmd'.verb = "step"
    BY <1>14 DEF AfterStep, Kept
  <2> HIDE <1>14
  <2> QED
    BY <2>2, <2>3, <2>4 DEF Asked
<1>15. CASE UNCHANGED <<phase, cmd, stop, why, seen>>
  BY <1>15 DEF Asked
<1> QED
  BY <1>1, <1>2, <1>3, <1>4, <1>5, <1>6, <1>7, <1>8, <1>9, <1>10, <1>11, <1>12, <1>13, <1>14, <1>15
     DEF Next, AtPrompt, Loop, Poke, Switch, Fire
-----------------------------------------------------------------------------
(***************************************************************************)
(* The other reasons.                                                      *)
(***************************************************************************)
LEMMA CaughtKept ==
  ASSUME Kept, Caught, Next
  PROVE  Caught'
<1>1. CASE Run \/ \E n \in 1..StepMax : Step(n)
  <2>1. seen'.dma = FALSE
    BY <1>1, CommandFacts DEF Run, Step
  <2> QED
    BY <2>1 DEF Caught
<1>2. CASE (\E pc \in Entries : SetPc(pc)) \/ Reset
  <2>1. phase = "prompt" /\ phase' = phase /\ seen'.dma = seen.dma
    BY <1>2 DEF SetPc, Reset, Moved, Kept, Fields
  <2> QED
    BY <2>1 DEF Caught
<1>3. CASE CtrlC \/ TapeArrives
  <2>1. phase' = phase /\ why' = why /\ hit' = hit /\ seen'.dma = seen.dma
    BY <1>3 DEF CtrlC, TapeArrives, Kept, Fields
  <2> QED
    BY <2>1 DEF Caught
<1>4. CASE Slice \/ Enter \/ Begin \/ IdleTick \/ Veto \/ RunCycle \/ Retire
  <2>1. phase \in {"between", "entering", "boundary", "cycle"}
    BY <1>4 DEF Slice, Enter, Begin, IdleTick, Veto, RunCycle, Retire
  <2>2. CASE Slice \/ Enter \/ Begin \/ Veto \/ RunCycle
    <3>1. seen'.dma = seen.dma
      BY <2>2 DEF Slice, Enter, Begin, Veto, RunCycle, Kept, Fields
    <3> QED
      BY <2>1, <3>1 DEF Caught
  <2>3. CASE IdleTick \/ Retire
    <3>1. seen'.dma = seen.dma
      BY <2>3, CountedFacts DEF IdleTick, Retire, Kept
    <3> QED
      BY <2>1, <3>1 DEF Caught
  <2> QED
    BY <1>4, <2>2, <2>3
<1>5. CASE Arbitrate \/ NextCard
  <2>1. /\ phase \in {"advance", "dma"} /\ phase' \in {"dma", "checks"}
        /\ hit' = hit /\ seen' = seen
    BY <1>5 DEF Arbitrate, NextCard
  <2> QED
    BY <2>1 DEF Caught
<1>6. CASE Grant
  <2> DEFINE a == Cycle("MemWrite", Target[Cards[turn]], "none")
  <2>1. /\ phase = "dma" /\ phase' = phase /\ why' = why /\ hit' = FirstHit(a)
        /\ seen' = [seen EXCEPT !.dma = @ \/ Stopping(a) # {}]
    BY <1>6 DEF Grant, DmaHit
  <2>2. seen'.dma = (seen.dma \/ Stopping(a) # {})
    BY <2>1 DEF Kept, Fields
  <2>3. Stopping(a) # {} => FirstHit(a) # 0
    BY Hits DEF Kept
  <2>4. Stopping(a) = {} => FirstHit(a) = hit
    BY DEF FirstHit
  <2> HIDE DEF a
  <2>5. seen'.dma => hit' # 0
    BY <2>1, <2>2, <2>3, <2>4 DEF Caught
  <2> QED
    BY <2>1, <2>5 DEF Caught
<1>7. CASE Check
  <2>1. /\ phase = "checks" /\ why' = Verdict /\ seen' = seen
        /\ phase' = IF Verdict = GoesOn THEN "boundary" ELSE "after"
    BY <1>7 DEF Check
  <2>2. seen.dma => Verdict # GoesOn /\ Verdict.reason # "Steps"
    BY <2>1, VerdictHolds DEF Caught
  <2> QED
    BY <2>1, <2>2 DEF Caught
<1>8. CASE AfterSlice \/ AfterStep
  <2>1. /\ phase = "after"
        /\ phase' = "prompt" \/ why.reason = "Steps"
    BY <1>8 DEF AfterSlice, AfterStep, End
  <2>2. seen'.dma = seen.dma
    <3>1. seen' = seen \/ \E m : seen' = [seen EXCEPT !.mark = m]
      BY <1>8 DEF AfterSlice, AfterStep, Pump
    <3> QED
      BY <3>1 DEF Kept, Fields
  <2> HIDE <1>8
  <2> QED
    BY <2>1, <2>2 DEF Caught
<1>9. CASE UNCHANGED <<phase, hit, why, seen>>
  BY <1>9 DEF Caught
<1> QED
  BY <1>1, <1>2, <1>3, <1>4, <1>5, <1>6, <1>7, <1>8, <1>9 DEF Next, AtPrompt, Loop, Poke, Switch, Fire

\* An unclaimed port halts the run that touched it.
LEMMA MissingKept ==
  ASSUME Kept, Asked, Missing, Next
  PROVE  Missing'
<1>1. CASE Run
  <2>1. voidHalt' = FALSE /\ why'.reason = "none"
    BY <1>1, CommandFacts DEF Run, Forgiven
  <2> QED
    BY <2>1 DEF Missing
<1>2. CASE \E n \in 1..StepMax : Step(n)
  <2>1. seen'.verb = "step"
    BY <1>2, CommandFacts DEF Step
  <2> QED
    BY <2>1 DEF Missing
<1>3. CASE (\E pc \in Entries : SetPc(pc)) \/ Reset
  <2>1. /\ phase = "prompt" /\ phase' = phase /\ why' = why
        /\ seen'.verb = seen.verb /\ seen'.void = seen.void
    BY <1>3 DEF SetPc, Reset, Moved, Kept, Fields
  <2> QED
    BY <2>1 DEF Missing
<1>4. CASE \E type, port : Poke(type, port)
  <2>1. phase = "prompt" /\ phase' = phase /\ why' = why /\ seen' = seen
    BY <1>4 DEF Poke
  <2> QED
    BY <2>1 DEF Missing
<1>5. CASE CtrlC \/ TapeArrives \/ Grant
  <2>1. /\ phase' = phase /\ why' = why /\ voidHalt' = voidHalt
        /\ seen'.verb = seen.verb /\ seen'.void = seen.void
    BY <1>5 DEF CtrlC, TapeArrives, Grant, unclaimed, Kept, Fields
  <2> QED
    BY <2>1 DEF Missing
<1>6. CASE Enter \/ Begin
  <2>1. /\ phase # "prompt" /\ why' = why /\ voidHalt' = voidHalt
        /\ seen'.verb = seen.verb /\ seen'.void = seen.void
    BY <1>6 DEF Enter, Begin, unclaimed, Kept, Fields
  <2> QED
    BY <2>1 DEF Missing
<1>7. CASE IdleTick \/ Retire
  <2>1. /\ phase # "prompt" /\ why' = why /\ voidHalt' = voidHalt
        /\ seen'.verb = seen.verb /\ seen'.void = seen.void
    BY <1>7, CountedFacts DEF IdleTick, Retire, unclaimed, Kept
  <2> QED
    BY <2>1 DEF Missing
<1>8. CASE Veto
  <2>1. /\ phase # "prompt" /\ why'.reason = "Breakpoint" /\ voidHalt' = voidHalt
        /\ seen'.verb = seen.verb /\ seen'.void = seen.void
    BY <1>8 DEF Veto, Because, unclaimed, Kept, Fields
  <2> QED
    BY <2>1 DEF Missing
<1>9. CASE RunCycle
  <2> DEFINE met == Next1.type \in {"IoRead", "IoWrite"} /\ Next1.at \in VoidPorts
  <2>1. /\ phase = "cycle" /\ why' = why
        /\ voidHalt' => voidHalt \/ met
    BY <1>9 DEF RunCycle, Drive
  <2>2. seen'.verb = seen.verb /\ seen'.void = (seen.void \/ met)
    BY <1>9 DEF RunCycle, Kept, Fields
  <2> HIDE DEF met
  <2> QED
    BY <2>1, <2>2 DEF Missing
<1>10. CASE Slice \/ Arbitrate \/ NextCard
  <2>1. /\ phase # "prompt" /\ voidHalt' = voidHalt /\ seen' = seen
        /\ why' = why \/ why'.reason = "StopRequested"
    BY <1>10 DEF Slice, End, Because, Arbitrate, NextCard, unclaimed
  <2> QED
    BY <2>1 DEF Missing
<1>11. CASE Check
  <2>1. /\ phase = "checks" /\ why' = Verdict /\ seen' = seen /\ (voidHalt' => voidHalt)
    BY <1>11 DEF Check
  <2>2. Verdict.reason = "Unclaimed" => voidHalt
    BY VerdictHolds
  <2> QED
    BY <2>1, <2>2 DEF Missing
<1>12. CASE AfterSlice \/ AfterStep
  <2>1. /\ phase = "after" /\ voidHalt' = voidHalt
        /\ why' = why \/ why'.reason = "Attn"
    BY <1>12 DEF AfterSlice, AfterStep, End, Because, unclaimed
  <2>2. seen'.verb = seen.verb /\ seen'.void = seen.void
    <3>1. seen' = seen \/ \E m : seen' = [seen EXCEPT !.mark = m]
      BY <1>12 DEF AfterSlice, AfterStep, Pump
    <3> QED
      BY <3>1 DEF Kept, Fields
  <2> HIDE <1>12
  <2> QED
    BY <2>1, <2>2 DEF Missing
<1>13. CASE UNCHANGED <<phase, voidHalt, why, seen>>
  BY <1>13 DEF Missing
<1> QED
  BY <1>1, <1>2, <1>3, <1>4, <1>5, <1>6, <1>7, <1>8, <1>9, <1>10, <1>11, <1>12, <1>13
     DEF Next, AtPrompt, Loop, Switch, Fire, unclaimed
\* The tape is watched by the same breakpoints while none is set or cleared.
LEMMA Watched ==
  ASSUME rig' = rig, on' = on
  PROVE  /\ TapeWatched' <=> TapeWatched
         /\ TapeEdge' <=> (TapeWatched /\ tape'.at /\ ~tape'.was)
BY DEF TapeWatched, TapeEdge, Breaks

\* The edge of the deck is marked when it comes.
LEMMA MarkedKept ==
  ASSUME Kept, Marked, Next
  PROVE  Marked'
<1> rig' = rig
  BY DEF Next
<1>1. CASE Run \/ \E n \in 1..StepMax : Step(n)
  <2>1. phase' \in {"between", "entering"} /\ why'.reason = "none"
    BY <1>1, CommandFacts DEF Run, Step
  <2> QED
    BY <2>1 DEF Marked
<1>2. CASE (\E pc \in Entries : SetPc(pc)) \/ Reset
  <2>1. /\ phase = "prompt" /\ phase' = phase /\ why' = why
        /\ seen'.verb = seen.verb /\ seen'.mark = seen.mark
    BY <1>2 DEF SetPc, Reset, Moved, Kept, Fields
  <2> QED
    BY <2>1 DEF Marked
<1>3. CASE Switch \/ \E type, port : Poke(type, port)
  <2>1. phase = "prompt" /\ phase' = phase /\ why' = why /\ seen' = seen
    BY <1>3 DEF Switch, Poke
  <2> QED
    BY <2>1 DEF Marked
<1>4. CASE CtrlC \/ RunCycle \/ Grant \/ Begin
  <2>1. /\ (phase # "prompt" /\ phase \notin {"between", "entering"}) \/ phase' = phase
        /\ why' = why /\ tape' = tape /\ on' = on
        /\ seen'.verb = seen.verb /\ seen'.mark = seen.mark
    BY <1>4 DEF CtrlC, RunCycle, Grant, Begin, world, panel, Kept, Fields
  <2>2. TapeEdge' <=> TapeEdge
    BY <2>1, Watched DEF TapeEdge
  <2> QED
    BY <2>1, <2>2 DEF Marked
<1>5. CASE TapeArrives
  <2>1. seen'.mark = TRUE
    BY <1>5 DEF TapeArrives, Kept, Fields
  <2> QED
    BY <2>1 DEF Marked
<1>6. CASE Slice
  <2>1. /\ phase' \in {"prompt", "entering"} /\ seen' = seen
        /\ why' = why \/ why'.reason = "StopRequested"
    BY <1>6 DEF Slice, End, Because
  <2> QED
    BY <2>1 DEF Marked
<1>7. CASE Enter
  <2>1. /\ why' = why /\ on' = on /\ seen' = seen
        /\ TapeWatched => tape' = [tape EXCEPT !.was = tape.at]
    BY <1>7 DEF Enter, panel
  <2>2. ~TapeEdge'
    BY <2>1, Watched DEF Kept
  <2> QED
    BY <2>1, <2>2 DEF Marked
<1>8. CASE IdleTick \/ Retire
  <2>1. /\ phase \in {"boundary", "cycle"} /\ why' = why /\ tape' = tape /\ on' = on
        /\ seen'.verb = seen.verb /\ seen'.mark = seen.mark
    BY <1>8, CountedFacts DEF IdleTick, Retire, world, panel, Kept
  <2>2. TapeEdge' <=> TapeEdge
    BY <2>1, Watched DEF TapeEdge
  <2> QED
    BY <2>1, <2>2 DEF Marked
<1>9. CASE Veto
  <2>1. /\ phase = "cycle" /\ why'.reason = "Breakpoint" /\ tape' = tape /\ on' = on
        /\ seen'.verb = seen.verb /\ seen'.mark = seen.mark
    BY <1>9 DEF Veto, Because, world, panel, Kept, Fields
  <2>2. TapeEdge' <=> TapeEdge
    BY <2>1, Watched DEF TapeEdge
  <2> QED
    BY <2>1, <2>2 DEF Marked
<1>10. CASE Arbitrate \/ NextCard
  <2>1. /\ phase \in {"advance", "dma"} /\ why' = why /\ tape' = tape /\ on' = on /\ seen' = seen
    BY <1>10 DEF Arbitrate, NextCard, world, panel
  <2>2. TapeEdge' <=> TapeEdge
    BY <2>1, Watched DEF TapeEdge
  <2> QED
    BY <2>1, <2>2 DEF Marked
<1>11. CASE Check
  <2>1. /\ phase = "checks" /\ why' = Verdict /\ on' = on /\ seen' = seen
        /\ tape' = tape \/ tape' = [tape EXCEPT !.was = tape.at]
    BY <1>11 DEF Check, panel
  <2>2. Verdict.reason = "TapeStop" => TapeEdge
    BY VerdictHolds
  <2>3. TapeEdge' => TapeEdge
    BY <2>1, Watched DEF TapeEdge, Kept
  <2> QED
    BY <2>1, <2>2, <2>3 DEF Marked
<1>12. CASE AfterSlice
  <2>1. phase' \in {"prompt", "between"} /\ (why' = why \/ why'.reason = "Attn")
    BY <1>12 DEF AfterSlice, End, Because
  <2>2. seen'.verb = seen.verb /\ (seen.mark => seen'.mark)
    <3>1. \E at : seen' = [seen EXCEPT !.mark = @ \/ (at /\ ~tape.at)]
      BY <1>12 DEF AfterSlice, Pump
    <3> QED
      BY <3>1 DEF Kept, Fields
  <2> HIDE <1>12
  <2> QED
    BY <2>1, <2>2 DEF Marked
<1>13. CASE AfterStep
  <2>1. phase' \in {"prompt", "entering"} /\ why' = why
    BY <1>13 DEF AfterStep
  <2>2. seen'.verb = seen.verb /\ (seen.mark => seen'.mark)
    <3>1. seen' = seen \/ \E at : seen' = [seen EXCEPT !.mark = @ \/ (at /\ ~tape.at)]
      BY <1>13 DEF AfterStep, Pump
    <3> QED
      BY <3>1 DEF Kept, Fields
  <2> HIDE <1>13
  <2> QED
    BY <2>1, <2>2 DEF Marked
<1>14. CASE UNCHANGED <<phase, tape, on, why, seen>>
  <2>1. TapeEdge' <=> TapeEdge
    BY <1>14, Watched DEF TapeEdge
  <2> QED
    BY <1>14, <2>1 DEF Marked
<1> QED
  BY <1>1, <1>2, <1>3, <1>4, <1>5, <1>6, <1>7, <1>8, <1>9, <1>10, <1>11, <1>12, <1>13, <1>14
     DEF Next, AtPrompt, Loop, Fire, panel

\* The machine was at rest when the run said so.
LEMMA HaltedKept ==
  ASSUME Kept, Halted, Next
  PROVE  Halted'
<1>1. CASE CtrlC
  <2>1. UNCHANGED <<phase, why, cpu, line, due>> /\ seen'.verb = seen.verb
    BY <1>1 DEF CtrlC, machine, world, Kept, Fields
  <2> QED
    BY <2>1 DEF Halted, HaltIsFinal
<1>2. CASE Veto
  <2>1. why'.reason = "Breakpoint"
    BY <1>2 DEF Veto, Because
  <2> QED
    BY <2>1 DEF Halted
<1>3. CASE Check
  <2>1. why' = Verdict /\ UNCHANGED <<cpu, line, due, seen>>
    BY <1>3 DEF Check, machine
  <2>2. Verdict.reason = "Halted" => due = {} /\ HaltIsFinal
    BY VerdictHolds
  <2>3. HaltIsFinal' <=> HaltIsFinal
    BY <2>1 DEF HaltIsFinal
  <2> QED
    BY <2>1, <2>2, <2>3 DEF Halted
<1>4. CASE phase' # "after"
  BY <1>4 DEF Halted
<1>5. Run \/ (\E n \in 1..StepMax : Step(n)) => phase' # "after"
  BY CommandFacts DEF Run, Step
<1>6. Slice \/ Enter \/ Begin \/ IdleTick \/ RunCycle \/ Retire => phase' # "after"
  BY DEF Slice, End, Enter, Begin, IdleTick, RunCycle, Retire
<1>7. Arbitrate \/ Grant \/ NextCard \/ AfterSlice \/ AfterStep => phase' # "after"
  BY DEF Arbitrate, Grant, NextCard, AfterSlice, End, AfterStep
<1>8. TapeArrives \/ (\E d \in Deadlines : Fire(d)) => phase' # "after"
  BY DEF TapeArrives, Fire, Waiting
<1>9. Reset \/ Switch \/ (\E pc \in Entries : SetPc(pc)) \/ (\E type, port : Poke(type, port)) => phase' # "after"
  BY DEF Reset, Switch, SetPc, Moved, Poke
<1> QED
  BY <1>1, <1>2, <1>3, <1>4, <1>5, <1>6, <1>7, <1>8, <1>9 DEF Next, AtPrompt, Loop
-----------------------------------------------------------------------------
\* The inductive invariant holds at first,
LEMMA StartsSound == Init => IInv
<1> SUFFICES ASSUME Init
             PROVE  IInv
  OBVIOUS
<1>1. Kept
  <2>1. on \subseteq Ids /\ rig \in Guests /\ phase \in Phases
    BY DEF Init, Phases
  <2>2. cmd \in [verb : {"none", "run", "step"}, rounds : Int] /\ tape \in [at : BOOLEAN, was : BOOLEAN]
    BY DEF Init, NoCmd
  <2>3. DOMAIN seen = Fields /\ seen.after = -1
    BY DEF Init, Unseen, Fields
  <2> QED
    BY <2>1, <2>2, <2>3 DEF Kept
<1>2. seen.verb = "none" /\ seen.dma = FALSE
  BY DEF Init, Unseen
<1>3. phase = "prompt"
  BY DEF Init
<1> QED
  BY <1>1, <1>2, <1>3 DEF IInv, Asked, Caught, Missing, Marked, Halted

\* is kept by every step,
LEMMA Inductive == IInv /\ [Next]_<<rig, vars>> => IInv'
<1>1. CASE Next
  BY <1>1, KeptKept, AskedKept, CaughtKept, MissingKept, MarkedKept, HaltedKept DEF IInv
<1>2. CASE UNCHANGED <<rig, vars>>
  <2>1. IInv => Kept' /\ Asked' /\ Caught' /\ Missing'
    BY <1>2 DEF vars, IInv, Kept, Asked, Caught, Missing, Ids, Breaks
  <2>2. IInv => Marked'
    BY <1>2, Watched DEF vars, IInv, Marked, TapeEdge
  <2>3. IInv => Halted'
    BY <1>2 DEF vars, IInv, Halted, HaltIsFinal
  <2> QED
    BY <2>1, <2>2, <2>3 DEF IInv
<1> QED
  BY <1>1, <1>2

\* and so holds always.
LEMMA AlwaysSound == Spec => []IInv
BY StartsSound, Inductive, PTL DEF Spec

\* For every guest, machine and sequence of commands: a ^C in a RUN is heard before two
\* more instructions are over, no instruction begins after a DMA cycle that met a
\* breakpoint, and what a RUN says it stopped for happened in that RUN.
THEOREM StopsHonest == Spec => []StopsAreHonest
<1>1. IInv => StopIsHeard
  <2>1. IInv /\ seen.verb = "run" => seen.after <= 1
    <3>1. IInv /\ seen.verb = "run" => seen.after \in {-1, 0, 1}
      BY DEF IInv, Asked
    <3> QED
      BY <3>1
  <2>2. IInv /\ phase = "boundary" => ~seen.dma
    BY DEF IInv, Caught
  <2> QED
    BY <2>1, <2>2 DEF StopIsHeard
<1>2. IInv => StopsAreTrue
  <2>1. IInv /\ seen.verb = "run" =>
          /\ why.reason = "Unclaimed" => seen.void
          /\ why.reason = "TapeStop" => seen.mark
          /\ why.reason = "Halted" /\ phase = "after" => due = {} /\ HaltIsFinal
    BY DEF IInv, Missing, Marked, Halted
  <2>2. IInv /\ seen.verb = "run" /\ why.reason = "StopRequested" => seen.after >= 0
    <3>1. IInv /\ seen.verb = "run" => seen.after \in {-1, 0, 1}
      BY DEF IInv, Asked
    <3>2. IInv /\ seen.verb = "run" /\ why.reason = "StopRequested" => seen.after # -1
      BY DEF IInv, Asked
    <3> QED
      BY <3>1, <3>2
  <2> QED
    BY <2>1, <2>2 DEF StopsAreTrue
<1> QED
  BY <1>1, <1>2, AlwaysSound, PTL DEF StopsAreHonest
=============================================================================
