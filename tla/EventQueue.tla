----------------------------- MODULE EventQueue -----------------------------
(***************************************************************************)
(* Clock: emulated time in T-states and the queue of deadlines in it.      *)
(*                                                                         *)
(* The heap holds (when, handle) entries; live_ is the authority on which  *)
(* of them still have a callback, so a cancelled entry stays behind as a   *)
(* tombstone.  Handles come from one counter for the whole process.  A     *)
(* board keeps the handle of its one deadline in wake_ and re-arms by      *)
(* cancelling it first (every card's refresh()), also when the queue was   *)
(* emptied under it (POWER, RESTORE) or when the handle is of the scratch  *)
(* machine the card was built in (Machine::replaceWith).                   *)
(***************************************************************************)
EXTENDS Integers, FiniteSets, TLC

CONSTANTS
  Timed,       \* cards with a deadline
  MaxTime,     \* bound on emulated time
  MaxDelay,    \* the longest delay a card asks for
  MaxHandle    \* bound on the handle counter

ASSUME EventQueueAssumption ==
  /\ IsFiniteSet(Timed)
  /\ MaxTime \in Nat /\ MaxDelay \in Nat /\ MaxHandle \in Nat

\* The cards are interchangeable.
Interchangeable == Permutations(Timed)

Clocks == {"main", "scratch"}   \* the machine, and the one a file is built in
kNone == 0

VARIABLES
  t,           \* t[c]: Clock::t_
  heap,        \* heap[c]: the entries of heap_, [when, h]
  live,        \* live[c]: live_, as [h, owner]; the owner is the closure's board
  nextHandle,  \* the process-wide counter
  where,       \* the clock a board is attached to, or "out"
  wake,        \* Board::wake_
  target,      \* where the advance() in progress ends
  draining,    \* is main.advance() in progress?
  pass         \* the boards POWER or RESTORE has still to visit

queueVars == <<t, heap, live, nextHandle, where, wake, target, draining, pass>>

Item == [when : Nat, h : Nat]
Job  == [h : Nat, owner : Timed]

Attached(c) == {b \in Timed : where[b] = c}

\* Every number anybody holds was given out by the counter, and only a card in
\* a slot of the machine is visited by POWER or RESTORE.
QueueTypeOK ==
  /\ t \in [Clocks -> Nat]
  /\ heap \in [Clocks -> SUBSET Item]
  /\ live \in [Clocks -> SUBSET Job]
  /\ nextHandle \in Nat
  /\ where \in [Timed -> Clocks \cup {"out"}]
  /\ wake \in [Timed -> 0..nextHandle]
  /\ target \in Nat
  /\ draining \in BOOLEAN
  /\ pass \subseteq Attached("main")

QueueInit ==
  /\ t = [c \in Clocks |-> 0]
  /\ heap = [c \in Clocks |-> {}]
  /\ live = [c \in Clocks |-> {}]
  /\ nextHandle = 0
  /\ where = [b \in Timed |-> "out"]
  /\ wake = [b \in Timed |-> kNone]
  /\ target = 0
  /\ draining = FALSE
  /\ pass = {}
-----------------------------------------------------------------------------
Later(a, b) == IF a > b THEN a ELSE b

\* Item::operator>: by time, then by handle, which is the order of scheduling.
BeforeMutant(x, y) == x.when < y.when \/ (x.when = y.when /\ x.h > y.h)
Before(x, y) == x.when < y.when \/ (x.when = y.when /\ x.h < y.h)

\* Clock::cancel: an unknown handle is ignored; the heap entry stays behind.
Cancel(jobs, h) == {j \in jobs : j.h # h}

IsLive(jobs, h) == \E j \in jobs : j.h = h

(***************************************************************************)
(* refresh() of board b on clock c, whose queue holds items and jobs and   *)
(* whose time is now: cancel the old deadline, and ask for the next one    *)
(* strictly in the future, if the card has one.                            *)
(***************************************************************************)
Refresh(b, c, items, jobs, now) ==
  \/ /\ wake' = [wake EXCEPT ![b] = kNone]
     /\ live' = [live EXCEPT ![c] = Cancel(jobs, wake[b])]
     /\ heap' = [heap EXCEPT ![c] = items]
     /\ UNCHANGED nextHandle
  \/ \E d \in 1..MaxDelay :
       /\ nextHandle < MaxHandle
       /\ nextHandle' = nextHandle + 1
       /\ wake' = [wake EXCEPT ![b] = nextHandle + 1]
       /\ live' = [live EXCEPT ![c] =
                     Cancel(jobs, wake[b]) \cup {[h |-> nextHandle + 1, owner |-> b]}]
       /\ heap' = [heap EXCEPT ![c] = items \cup {[when |-> now + d, h |-> nextHandle + 1]}]

AtBoundary == ~draining /\ pass = {}

\* A port access, a pump or a reset of a card reaches its refresh().
Handler(b) ==
  /\ AtBoundary
  /\ where[b] # "out"
  /\ Refresh(b, where[b], heap[where[b]], live[where[b]], t[where[b]])
  /\ UNCHANGED <<t, where, target, draining, pass>>

\* An instruction of dt T-states retired: Clock::advance begins.
AdvanceBegin ==
  /\ AtBoundary
  /\ \E dt \in 1..(MaxTime - t["main"]) : target' = t["main"] + dt
  /\ draining' = TRUE
  /\ UNCHANGED <<t, heap, live, nextHandle, where, wake, pass>>

Due(x) == x.when <= target

\* The front of the heap, if it is due.
Top(x) ==
  /\ x \in heap["main"]
  /\ Due(x)
  /\ \A y \in heap["main"] \ {x} : Before(x, y)

\* A tombstone surfaced: the handle outlived the job.
Skip(x) ==
  /\ draining
  /\ Top(x)
  /\ ~IsLive(live["main"], x.h)
  /\ heap' = [heap EXCEPT !["main"] = @ \ {x}]
  /\ UNCHANGED <<t, live, nextHandle, where, wake, target, draining, pass>>

\* The job leaves the table, time becomes the job's time, and the callback (the
\* owner's refresh()) runs.
Fire(x, j) ==
  /\ draining
  /\ Top(x)
  /\ j \in live["main"]
  /\ j.h = x.h
  /\ t' = [t EXCEPT !["main"] = Later(@, x.when)]
  /\ Refresh(j.owner, "main", heap["main"] \ {x}, live["main"] \ {j}, t'["main"])
  /\ UNCHANGED <<where, target, draining, pass>>

AdvanceEnd ==
  /\ draining
  /\ \A x \in heap["main"] : ~Due(x)
  /\ t' = [t EXCEPT !["main"] = target]
  /\ draining' = FALSE
  /\ UNCHANGED <<heap, live, nextHandle, where, wake, target, pass>>
-----------------------------------------------------------------------------
\* Machine::power: Clock::power, then every board is powered and reset.
Power ==
  /\ AtBoundary
  /\ t' = [t EXCEPT !["main"] = 0]
  /\ heap' = [heap EXCEPT !["main"] = {}]
  /\ live' = [live EXCEPT !["main"] = {}]
  /\ pass' = Attached("main")
  /\ UNCHANGED <<nextHandle, where, wake, target, draining>>

\* Machine::restore: Clock::deserialize, then every board is loaded or powered
\* on.  The snapshot may be of this run or of any other: its time and its handle
\* counter are arbitrary, and the counter only ever goes up.
KeepHighest(saved) == Later(nextHandle, saved)

Restore ==
  /\ AtBoundary
  /\ \E now \in 0..MaxTime : t' = [t EXCEPT !["main"] = now]
  /\ \E saved \in 0..MaxHandle : nextHandle' = KeepHighest(saved)
  /\ heap' = [heap EXCEPT !["main"] = {}]
  /\ live' = [live EXCEPT !["main"] = {}]
  /\ pass' = Attached("main")
  /\ UNCHANGED <<where, wake, target, draining>>

\* The loop's visit to one board: deserialize(), or power() and reset().
Rearm(b) ==
  /\ b \in pass
  /\ pass' = pass \ {b}
  /\ Refresh(b, "main", heap["main"], live["main"], t["main"])
  /\ UNCHANGED <<t, where, target, draining>>

\* A card is made: in the scratch machine a file is built in, or straight into
\* a slot (BOARDS ADD).
Build(b) ==
  /\ AtBoundary
  /\ where[b] = "out"
  /\ \E c \in Clocks : where' = [where EXCEPT ![b] = c]
  /\ wake' = [wake EXCEPT ![b] = kNone]
  /\ UNCHANGED <<t, heap, live, nextHandle, target, draining, pass>>

\* BOARDS REMOVE: the destructor cancels the deadline, whose closure holds the
\* dead card.
RemoveCard(b) ==
  /\ AtBoundary
  /\ where[b] = "main"
  /\ where' = [where EXCEPT ![b] = "out"]
  /\ live' = [live EXCEPT !["main"] = Cancel(@, wake[b])]
  /\ wake' = [wake EXCEPT ![b] = kNone]
  /\ UNCHANGED <<t, heap, nextHandle, target, draining, pass>>

\* The cards the power switch reaches after a load.
PoweredMutant == Attached("scratch") \cap {b \in Timed : wake[b] = kNone}
Powered == Attached("scratch")

\* MACHINE LOAD: replaceWith destroys the machine's cards and takes over the
\* built ones, which keep the handles they got from the scratch clock; the
\* scratch machine dies and the power switch is thrown.
LoadMachine ==
  /\ AtBoundary
  /\ Attached("scratch") # {}
  /\ where' = [b \in Timed |-> IF where[b] = "scratch" THEN "main" ELSE "out"]
  /\ wake' = [b \in Timed |-> IF where[b] = "scratch" THEN wake[b] ELSE kNone]
  /\ t' = [c \in Clocks |-> 0]
  /\ heap' = [c \in Clocks |-> {}]
  /\ live' = [c \in Clocks |-> {}]
  /\ pass' = Powered
  /\ UNCHANGED <<nextHandle, target, draining>>
-----------------------------------------------------------------------------
QueueNext ==
  \/ \E b \in Timed : Handler(b) \/ Rearm(b) \/ Build(b) \/ RemoveCard(b)
  \/ \E x \in heap["main"] : Skip(x) \/ \E j \in live["main"] : Fire(x, j)
  \/ AdvanceBegin \/ AdvanceEnd \/ Power \/ Restore \/ LoadMachine

QueueSpec == QueueInit /\ [][QueueNext]_queueVars
-----------------------------------------------------------------------------
\* A handle names one deadline of one board for ever: a number a board still
\* holds -- from a clock it has left, or from a run a RESTORE undid -- is never
\* somebody else's, so the cancel before a re-arm kills nobody else's deadline.
CancelIsMine ==
  \A b \in Timed, c \in Clocks : \A j \in live[c] : j.h = wake[b] => j.owner = b

\* A card has at most the one deadline its wake_ names: nothing is leaked per
\* re-arm, and no callback is left that would enter a card taken out.
NoOrphanDeadline ==
  \A c \in Clocks : \A j \in live[c] : where[j.owner] = c /\ wake[j.owner] = j.h

\* A deadline a card armed is pending until it fires or the card withdraws it:
\* the handle it holds is live, with one entry in the heap.
NoDeadlineLost ==
  \A b \in Timed :
    (where[b] # "out" /\ b \notin pass /\ wake[b] # kNone) =>
      /\ [h |-> wake[b], owner |-> b] \in live[where[b]]
      /\ Cardinality({x \in heap[where[b]] : x.h = wake[b]}) = 1

\* Between instructions nothing that is pending is overdue.
NothingOverdue ==
  ~draining =>
    \A x \in heap["main"] : IsLive(live["main"], x.h) => x.when > t["main"]
-----------------------------------------------------------------------------
(***************************************************************************)
(* The alarm clock behind the queue: its alarms are the entries of the     *)
(* machine's heap that are live, and their turn is their handle.           *)
(***************************************************************************)
Pending == {p \in heap["main"] \X live["main"] : p[1].h = p[2].h}
Alarms  == {[board |-> p[2].owner, when |-> p[1].when, turn |-> p[1].h] : p \in Pending}

Abstract == INSTANCE AlarmClock WITH Boards <- Timed, Delays <- 1..MaxDelay, now <- t["main"], alarms <- Alarms

\* The tombstones, stale handles, POWER, RESTORE and cards that change machines
\* are invisible: every step of the queue is a step of the alarm clock or none.
ImplementsAlarmClock == Abstract!Spec
=============================================================================
