----------------------------- MODULE Intel8253 ------------------------------
(***************************************************************************)
(* The 8253 timer: one counter, as the operations a card calls on it.      *)
(*                                                                         *)
(* A counter remembers when it was loaded; its OUT and its count are       *)
(* functions of the edges of the counter clock since then.  e counts those *)
(* edges, brought back (Later) to the smallest number that cannot be told  *)
(* apart.  Modes 1 and 5 wait for a gate that never comes and keep OUT     *)
(* high.  BCD is left out: it changes the modulus and the digits.          *)
(***************************************************************************)
EXTENDS Integers

CONSTANT ByteSize  \* the values of a byte, 256 on the chip

ASSUME ByteAssumption == ByteSize \in Nat /\ ByteSize > 1

Modulus == ByteSize * ByteSize
NoByte == -1

\* rl: "lsb", "msb" or "both"; half is writeLsb while writeMsbNext, rmsb is
\* readMsbNext, frozen is latchVal.
CountRange == 0..(Modulus - 1)
CounterStates ==
  [mode : 0..5, rl : {"lsb", "msb", "both"}, initial : CountRange, half : {NoByte} \cup 0..(ByteSize - 1),
   rmsb : BOOLEAN, latched : BOOLEAN, frozen : 0..Modulus, armed : BOOLEAN, e : Nat]

PoweredCounter ==
  [mode |-> 0, rl |-> "lsb", initial |-> 0, half |-> NoByte, rmsb |-> FALSE,
   latched |-> FALSE, frozen |-> 0, armed |-> FALSE, e |-> 0]

EffectiveN(c) == IF c.initial = 0 THEN Modulus ELSE c.initial

\* mode 2 never counts to zero; the others do, and wrap.
LiveCount(c) ==
  IF ~c.armed THEN c.initial
  ELSE IF c.mode = 2 THEN EffectiveN(c) - (c.e % EffectiveN(c))
  ELSE (EffectiveN(c) - (c.e % Modulus) + Modulus) % Modulus

High(N) == (N + 1) \div 2  \* the edges of mode 3's high half

Out(c) ==
  LET N == EffectiveN(c) IN
    IF ~c.armed THEN c.mode # 0
    ELSE CASE c.mode = 0 -> c.e >= N
           [] c.mode = 4 -> c.e # N
           [] c.mode = 2 -> c.e % N # N - 1
           [] c.mode = 3 -> c.e % N < High(N)
           [] OTHER -> TRUE

\* The edges from now until OUT may change, 0 when it stays as it is.
NextOutMutant(c) ==
  LET N == EffectiveN(c)
      p == c.e % N IN
    CASE ~c.armed -> 0
      [] c.armed /\ c.mode = 0 -> IF c.e < N THEN N - c.e ELSE 0
      [] c.armed /\ c.mode = 4 -> IF c.e < N THEN N - c.e ELSE 0
      [] c.armed /\ c.mode = 2 -> IF p = N - 1 THEN N ELSE N - 1 - p
      [] c.armed /\ c.mode = 3 -> IF p < High(N) THEN High(N) - p ELSE N - p
      [] OTHER -> 0
NextOut(c) ==
  LET N == EffectiveN(c)
      p == c.e % N IN
    CASE ~c.armed -> 0
      [] c.armed /\ c.mode = 0 -> IF c.e < N THEN N - c.e ELSE 0
      [] c.armed /\ c.mode = 4 -> IF c.e < N THEN N - c.e ELSE IF c.e < N + 1 THEN 1 ELSE 0
      [] c.armed /\ c.mode = 2 -> IF p = N - 1 THEN 1 ELSE N - 1 - p
      [] c.armed /\ c.mode = 3 -> IF p < High(N) THEN High(N) - p ELSE N - p
      [] OTHER -> 0

\* One edge of the counter clock.  The modes that stop keep their count modulo Modulus
\* and never see N again; the periodic ones repeat.
Later(c) ==
  LET N == EffectiveN(c)
      e == c.e + 1 IN
    IF ~c.armed THEN c
    ELSE [c EXCEPT !.e = CASE c.mode = 2 -> e % N
                           [] c.mode = 3 -> e % (N * Modulus)
                           [] OTHER -> IF e > 2 * Modulus THEN e - Modulus ELSE e]
-----------------------------------------------------------------------------
(***************************************************************************)
(* The guest's words.  A control word either freezes the count for reading *)
(* or programs the counter, which then waits for a full count.             *)
(***************************************************************************)
Latched(c) == [c EXCEPT !.frozen = LiveCount(c), !.latched = TRUE, !.rmsb = FALSE]
Programmed(c, rl, mode) ==
  [c EXCEPT !.rl = rl, !.mode = mode, !.armed = FALSE, !.initial = 0, !.half = NoByte,
            !.rmsb = FALSE, !.latched = FALSE, !.e = 0]

Loaded(c, n) ==
  [c EXCEPT !.initial = n, !.half = NoByte, !.armed = TRUE, !.e = 0,
            !.latched = FALSE, !.rmsb = FALSE]
CountWritten(c, b) ==
  CASE c.rl = "lsb" -> Loaded(c, b)
    [] c.rl = "msb" -> Loaded(c, b * ByteSize)
    [] c.rl = "both" -> IF c.half = NoByte THEN [c EXCEPT !.half = b]
                        ELSE Loaded(c, b * ByteSize + c.half)

ReadFrom(c) == (IF c.latched THEN c.frozen ELSE LiveCount(c)) % Modulus
ByteRead(c) ==
  IF c.rl = "msb" \/ (c.rl = "both" /\ c.rmsb) THEN ReadFrom(c) \div ByteSize ELSE ReadFrom(c) % ByteSize

CounterReadMutant(c) ==
  IF c.rl = "both" /\ ~c.rmsb THEN [c EXCEPT !.rmsb = TRUE, !.latched = FALSE]
  ELSE [c EXCEPT !.rmsb = FALSE, !.latched = FALSE]
CounterRead(c) ==
  IF c.rl = "both" /\ ~c.rmsb THEN [c EXCEPT !.rmsb = TRUE]
  ELSE [c EXCEPT !.rmsb = IF c.rl = "both" THEN FALSE ELSE @, !.latched = FALSE]
=============================================================================
