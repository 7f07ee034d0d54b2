----------------------------- MODULE AlarmClock -----------------------------
(***************************************************************************)
(* What Clock promises the cards: a set of alarms, at most one a card.     *)
(* Time stops at each alarm, at the moment it was set for; alarms for one  *)
(* moment ring in the order they were set; and nothing but its card, or    *)
(* the end of the whole machine, takes an alarm away.                      *)
(***************************************************************************)
EXTENDS Integers

CONSTANTS Boards, Delays

VARIABLES
  now,
  alarms   \* records of a board, when it rings, and its turn among those set

vars == <<now, alarms>>

Init == now = 0 /\ alarms = {}

Others(b) == {a \in alarms : a.board # b}

\* Card b withdraws its alarm, or sets it to a moment after m, behind the others.
Reset(b, m) ==
  \/ alarms' = Others(b)
  \/ \E a \in alarms' :
       /\ alarms' = Others(b) \cup {a}
       /\ a.board = b /\ a.when - m \in Delays
       /\ \A k \in Others(b) : k.turn < a.turn

Set(b) == Reset(b, now) /\ UNCHANGED now

\* The first of the earliest alarms rings and its card sets the next one.
Ring(a) ==
  /\ \A k \in alarms \ {a} : a.when < k.when \/ (a.when = k.when /\ a.turn < k.turn)
  /\ now' = a.when
  /\ Reset(a.board, now')

\* Time passes, short of the next alarm.
Pass ==
  /\ now' \in Nat /\ now' > now
  /\ \A k \in alarms : k.when > now'
  /\ UNCHANGED alarms

\* Power, a restored snapshot or another machine: new time and no alarms.
Wipe == now' \in Nat /\ alarms' = {}

Next == Wipe \/ Pass \/ (\E b \in Boards : Set(b)) \/ (\E a \in alarms : Ring(a))

Spec == Init /\ [][Next]_vars
=============================================================================
