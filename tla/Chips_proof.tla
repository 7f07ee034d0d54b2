----------------------------- MODULE Chips_proof -----------------------------
(***************************************************************************)
(* Proofs about chips that share no state: the interrupt and timer chips   *)
(* behind one wire (InterruptChain), and the arithmetic of the three       *)
(* processors (Processors).                                                *)
(*                                                                         *)
(* InterruptChain, for every number of lines, counters and values of a     *)
(* byte, every wiring and every rig.  The pin is honest because the next   *)
(* moment a line can move by itself is never later than the deadline       *)
(* (Armed) and what the slave has seen is what its lines are, where it     *)
(* listens (UpToDate).  Handlers end newest first because the newer of two *)
(* in service has the higher priority (Ranked), in whatever order the      *)
(* priorities stand.                                                       *)
(***************************************************************************)
EXTENDS InterruptChain, Processors, WellFoundedInduction, SequenceTheorems, TLAPS

\* A square wave starts again before its count of edges tells two periods apart.
Bounded(c) == c.armed /\ c.mode = 3 => c.e < EffectiveN(c) * Modulus

\* What the world and the guest move, the chips apart.
Surroundings ==
  /\ system \in Rigs
  /\ timer \in [Counters -> CounterStates] /\ \A n \in Counters : Bounded(timer[n])
  /\ phase \in 0..(TPerTick - 1)
  /\ rx \in BOOLEAN /\ frame \in 0..CharT
  /\ tx \in [hold : 0..CharT, shift : 0..(2 * CharT)] /\ tx.shift <= tx.hold + CharT
  /\ vi \subseteq ViLines /\ rival \in BOOLEAN /\ (rival => system.rival # "none")
  /\ processor \in [ie : BOOLEAN, ei : BOOLEAN, halted : BOOLEAN]

\* The chips, the wire, the deadline and what is remembered of the lines.
Chips ==
  /\ master \in Controllers /\ slave \in Controllers
  /\ pin \in BOOLEAN /\ wake \in Nat /\ risen \subseteq Levels

\* The deadline is no later than the next moment a line moves by itself.
Armed == \A w \in Edges : wake \in 1..w

\* The slave has seen the lines it listens to.
UpToDate == slave.pins \ slave.imr = SlaveLive \ slave.imr

\* The pin, the deadline and the latch are right.
Sharp == PinIsHonest /\ Armed /\ UpToDate /\ RiseIsLatched

\* The newer of two levels in service has the higher priority.
Ranked(p, rel) ==
  /\ ~p.smm /\ rel \subseteq p.isr \X p.isr
  /\ \A a, b \in p.isr : <<a, b>> \in rel \/ <<b, a>> \in rel
  /\ \A a, b \in p.isr : <<a, b>> \in rel => Rank(p, b) <= Rank(p, a)

\* Both controllers of a nested guest are so, and have a history.
Nesting ==
  /\ DOMAIN order = {"master", "slave"}
  /\ system.nested => Ranked(master, order.master) /\ Ranked(slave, order.slave)

\* A count that was latched is latched until its bytes are read, and the low one first.
Promised(c, f) ==
  f.want # NoByte =>
    /\ c.rl = "both" /\ c.latched /\ c.frozen % Modulus = f.want
    /\ f.low = NoByte <=> ~c.rmsb
    /\ f.low # NoByte => f.low = f.want % ByteSize

\* Every counter keeps its promise.
Freezing ==
  /\ frozen \in [Counters -> [want : {NoByte} \cup CountRange, low : {NoByte} \cup 0..(ByteSize - 1)]]
  /\ \A n \in Counters : Promised(timer[n], frozen[n])

\* The inductive invariant.
IInv == Surroundings /\ Chips /\ Sharp /\ Nesting /\ Freezing

-----------------------------------------------------------------------------
(***************************************************************************)
(* Remainders, and the counters of the timer.                              *)
(***************************************************************************)
\* A number written as a multiple of n and a rest has that rest.
LEMMA ModIs ==
  ASSUME NEW n \in Nat \ {0}, NEW q \in Nat, NEW r \in 0..(n - 1)
  PROVE  (q * n + r) % n = r
<1> DEFINE a == q * n + r
           d == a \div n
           m == a % n
<1>1. a \in Nat /\ q * n \in Nat
  OBVIOUS
<1>2. d \in Int /\ m \in 0..(n - 1) /\ a = d * n + m
  BY <1>1
<1>3. ~(d < q)
  <2> SUFFICES ASSUME d < q PROVE FALSE
    OBVIOUS
  <2>1. (d + 1) * n <= q * n
    BY <1>2
  <2>2. (d + 1) * n = d * n + n
    BY <1>2
  <2> QED BY <1>1, <1>2, <2>1, <2>2
<1>4. ~(q < d)
  <2> SUFFICES ASSUME q < d PROVE FALSE
    OBVIOUS
  <2>1. (q + 1) * n <= d * n
    BY <1>2
  <2>2. (q + 1) * n = q * n + n
    BY <1>2
  <2> QED BY <1>1, <1>2, <2>1, <2>2
<1>5. d = q
  BY <1>2, <1>3, <1>4
<1> QED BY <1>1, <1>2, <1>5

\* The next number has the next remainder, or begins again.
LEMMA ModSucc ==
  ASSUME NEW n \in Nat \ {0}, NEW e \in Nat
  PROVE  /\ e % n \in 0..(n - 1)
         /\ (e + 1) % n = IF e % n = n - 1 THEN 0 ELSE (e % n) + 1
<1> DEFINE q == e \div n
           r == e % n
<1>1. q \in Nat /\ r \in 0..(n - 1) /\ e = q * n + r
  OBVIOUS
<1> HIDE DEF q, r
<1>2. CASE r = n - 1
  <2>1. e + 1 = (q + 1) * n + 0
    BY <1>1, <1>2
  <2>2. (e + 1) % n = 0
    BY <1>1, <2>1, ModIs
  <2> QED BY <1>1, <1>2, <2>2 DEF r
<1>3. CASE r # n - 1
  <2>1. e + 1 = q * n + (r + 1) /\ r + 1 \in 0..(n - 1)
    BY <1>1, <1>3
  <2>2. (e + 1) % n = r + 1
    BY <1>1, <2>1, ModIs
  <2> QED BY <1>1, <1>3, <2>2 DEF r
<1> QED BY <1>2, <1>3

\* A counter counts at least one edge and at most Modulus.
LEMMA Moduli ==
  /\ Modulus \in Nat \ {0}
  /\ \A c \in CounterStates : EffectiveN(c) \in 1..Modulus
<1>1. Modulus \in Nat \ {0} /\ Modulus > 1
  <2>1. ByteSize \in Nat /\ ByteSize > 1
    BY ByteAssumption
  <2>2. ByteSize * ByteSize \in Nat /\ ByteSize * ByteSize >= ByteSize
    BY <2>1
  <2> QED BY <2>1, <2>2 DEF Modulus
<1>2. ASSUME NEW c \in CounterStates PROVE EffectiveN(c) \in 1..Modulus
  BY <1>1 DEF EffectiveN, CounterStates, CountRange
<1> QED BY <1>1, <1>2

\* An edge of the clock moves the count and nothing else of a counter.
LEMMA LaterKeeps ==
  ASSUME NEW c \in CounterStates
  PROVE  LET l == Later(c) IN
         /\ l.armed = c.armed /\ l.mode = c.mode /\ EffectiveN(l) = EffectiveN(c)
         /\ l.rl = c.rl /\ l.rmsb = c.rmsb /\ l.latched = c.latched /\ l.frozen = c.frozen
         /\ l \in CounterStates
         /\ c.armed /\ c.mode \in {0, 4} =>
              l.e = IF c.e + 1 > 2 * Modulus THEN c.e + 1 - Modulus ELSE c.e + 1
         /\ c.armed /\ c.mode = 2 => l.e = (c.e + 1) % EffectiveN(c)
         /\ c.armed /\ c.mode = 3 => l.e = (c.e + 1) % (EffectiveN(c) * Modulus)
<1> DEFINE N == EffectiveN(c)
           l == Later(c)
<1>1. Modulus \in Nat \ {0} /\ N \in Nat \ {0} /\ N * Modulus \in Nat \ {0}
  <2>1. Modulus \in Nat \ {0} /\ N \in Nat \ {0}
    BY Moduli
  <2> QED BY <2>1
<1>2. CASE ~c.armed
  BY <1>2 DEF Later, CounterStates, EffectiveN
<1>3. CASE c.armed
  <2> DEFINE E == CASE c.mode = 2 -> (c.e + 1) % N
                    [] c.mode = 3 -> (c.e + 1) % (N * Modulus)
                    [] OTHER -> IF c.e + 1 > 2 * Modulus THEN c.e + 1 - Modulus ELSE c.e + 1
  <2>0. c.e \in Nat /\ c.e + 1 \in Nat /\ c.mode \in 0..5
    BY DEF CounterStates
  <2>1. l = [c EXCEPT !.e = E]
    <3>1. CASE c.mode = 2
      BY <1>3, <3>1 DEF Later
    <3>2. CASE c.mode = 3
      BY <1>3, <3>2 DEF Later
    <3>3. CASE c.mode \notin {2, 3}
      <4>1. CASE c.e + 1 > 2 * Modulus
        <5>1. E = c.e + 1 - Modulus
          BY <3>3, <4>1
        <5>2. Modulus \in Nat
          BY <1>1
        <5>3. Later(c) = [c EXCEPT !.e = c.e + 1 - Modulus]
          <6> HIDE <1>1
          <6> QED BY <1>3, <2>0, <3>3, <4>1, <5>2 DEF Later
        <5> HIDE DEF E
        <5> QED BY <5>1, <5>3
      <4>2. CASE ~(c.e + 1 > 2 * Modulus)
        BY <1>3, <3>3, <4>2 DEF Later
      <4> QED BY <4>1, <4>2
    <3> QED BY <3>1, <3>2, <3>3
  <2>3. E \in Nat
    <3>1. (c.e + 1) % N \in Nat /\ (c.e + 1) % (N * Modulus) \in Nat
      BY <1>1, <2>0
    <3>2. c.e + 1 > 2 * Modulus => c.e + 1 - Modulus \in Nat
      <4> HIDE DEF N
      <4>1. Modulus \in Nat
        BY <1>1
      <4> HIDE <1>1
      <4> QED BY <2>0, <4>1
    <3> QED BY <2>0, <3>1, <3>2
  <2>4. /\ c.mode \in {0, 4} => E = IF c.e + 1 > 2 * Modulus THEN c.e + 1 - Modulus ELSE c.e + 1
        /\ c.mode = 2 => E = (c.e + 1) % N
        /\ c.mode = 3 => E = (c.e + 1) % (N * Modulus)
    BY <2>0
  <2> HIDE DEF E
  <2>5. l \in CounterStates /\ l.e = E /\ l.initial = c.initial
    BY <2>1, <2>3 DEF CounterStates
  <2>6. /\ l.armed = c.armed /\ l.mode = c.mode
        /\ l.rl = c.rl /\ l.rmsb = c.rmsb /\ l.latched = c.latched /\ l.frozen = c.frozen
    BY <2>1 DEF CounterStates
  <2> QED BY <1>3, <2>4, <2>5, <2>6 DEF EffectiveN
<1> QED BY <1>2, <1>3

\* Edge by edge the next change of OUT comes nearer, and OUT changes at no other.
LEMMA EdgesCount ==
  ASSUME NEW c \in CounterStates, Bounded(c)
  PROVE  LET l == Later(c) IN
         /\ Bounded(l)
         /\ NextOut(c) \in Nat
         /\ NextOut(c) # 1 => (Out(l) <=> Out(c))
         /\ NextOut(c) = 0 => NextOut(l) = 0
         /\ NextOut(c) > 1 => NextOut(l) = NextOut(c) - 1
<1> DEFINE N == EffectiveN(c)
           l == Later(c)
           p == c.e % N
           q == l.e % N
<1>1. /\ Modulus \in Nat \ {0} /\ N \in 1..Modulus /\ c.e \in Nat /\ c.mode \in 0..5
      /\ N \in Nat \ {0}
  BY Moduli DEF CounterStates
<1>2. /\ l.armed = c.armed /\ l.mode = c.mode /\ EffectiveN(l) = N /\ l \in CounterStates
  BY LaterKeeps
<1>3. CASE ~c.armed
  BY <1>2, <1>3 DEF Bounded, NextOut, Out
<1>4. CASE c.armed /\ c.mode \in {0, 4}
  <2>1. l.e = IF c.e + 1 > 2 * Modulus THEN c.e + 1 - Modulus ELSE c.e + 1
    BY <1>4, LaterKeeps
  <2>2. NextOut(c) = IF c.e < N THEN N - c.e ELSE IF c.mode = 4 /\ c.e < N + 1 THEN 1 ELSE 0
    BY <1>1, <1>4 DEF NextOut
  <2>3. NextOut(l) = IF l.e < N THEN N - l.e ELSE IF c.mode = 4 /\ l.e < N + 1 THEN 1 ELSE 0
    BY <1>1, <1>2, <1>4, <2>1 DEF NextOut
  <2>4. /\ Out(c) <=> IF c.mode = 0 THEN c.e >= N ELSE c.e # N
        /\ Out(l) <=> IF c.mode = 0 THEN l.e >= N ELSE l.e # N
    BY <1>2, <1>4 DEF Out
  <2>5. Bounded(l)
    BY <1>2, <1>4 DEF Bounded
  <2> HIDE DEF l, N
  <2> QED BY <1>1, <1>4, <2>1, <2>2, <2>3, <2>4, <2>5 DEF l
<1>5. CASE c.armed /\ c.mode \in {1, 5}
  BY <1>2, <1>5 DEF Bounded, NextOut, Out
<1>6. p \in 0..(N - 1) /\ (c.e + 1) % N = IF p = N - 1 THEN 0 ELSE p + 1
  <2> HIDE DEF N
  <2> QED BY <1>1, ModSucc
<1>7. CASE c.armed /\ c.mode = 2
  <2>1. l.e = (c.e + 1) % N
    BY <1>7, LaterKeeps
  <2>2. l.e \in 0..(N - 1) /\ l.e = IF p = N - 1 THEN 0 ELSE p + 1
    BY <1>1, <1>6, <2>1
  <2>3. q = l.e
    <3> HIDE DEF N, l
    <3>1. 0 * N = 0 /\ l.e \in Nat
      BY <1>1, <2>2
    <3>2. (0 * N + l.e) % N = l.e
      BY <1>1, <2>2, ModIs
    <3> QED BY <3>1, <3>2
  <2>4. /\ NextOut(c) = IF p = N - 1 THEN 1 ELSE N - 1 - p
        /\ NextOut(l) = IF q = N - 1 THEN 1 ELSE N - 1 - q
    BY <1>2, <1>7 DEF NextOut
  <2>5. /\ Out(c) <=> p # N - 1
        /\ Out(l) <=> q # N - 1
    BY <1>2, <1>7 DEF Out
  <2>6. Bounded(l)
    BY <1>2, <1>7 DEF Bounded
  <2> HIDE DEF p, q, N, l
  <2> QED BY <1>1, <1>6, <2>2, <2>3, <2>4, <2>5, <2>6 DEF l
<1>8. CASE c.armed /\ c.mode = 3
  <2> DEFINE P == N * Modulus
  <2>1. P \in Nat \ {0} /\ c.e < P /\ P % N = 0
    <3>1. P \in Nat \ {0}
      BY <1>1
    <3>2. P = Modulus * N + 0
      BY <1>1
    <3>3. P % N = 0
      <4>1. 0 \in 0..(N - 1)
        BY <1>1
      <4> HIDE DEF P, N
      <4> QED BY <1>1, <3>2, <4>1, ModIs
    <3> QED BY <1>8, <3>1, <3>3 DEF Bounded
  <2>2. l.e = IF c.e + 1 = P THEN 0 ELSE c.e + 1
    <3>1. l.e = (c.e + 1) % P
      BY <1>8, LaterKeeps
    <3>2. c.e % P = c.e
      <4>1. c.e = 0 * P + c.e /\ c.e \in 0..(P - 1)
        BY <1>1, <2>1
      <4> HIDE DEF P
      <4> QED BY <2>1, <4>1, ModIs
    <3> HIDE DEF P
    <3>3. (c.e + 1) % P = IF c.e % P = P - 1 THEN 0 ELSE (c.e % P) + 1
      BY <1>1, <2>1, ModSucc
    <3> QED BY <1>1, <2>1, <3>1, <3>2, <3>3
  <2>3. 0 % N = 0
    <3>1. 0 = 0 * N + 0 /\ 0 \in 0..(N - 1)
      BY <1>1
    <3> HIDE DEF N
    <3> QED BY <1>1, <3>1, ModIs
  <2> HIDE DEF P
  <2>4. q = IF p = N - 1 THEN 0 ELSE p + 1
    <3>1. CASE c.e + 1 = P
      BY <1>6, <2>1, <2>2, <2>3, <3>1
    <3>2. CASE c.e + 1 # P
      BY <1>6, <2>2, <3>2
    <3> QED BY <3>1, <3>2
  <2>5. /\ NextOut(c) = IF p < High(N) THEN High(N) - p ELSE N - p
        /\ NextOut(l) = IF q < High(N) THEN High(N) - q ELSE N - q
    BY <1>2, <1>8 DEF NextOut
  <2>6. /\ Out(c) <=> p < High(N)
        /\ Out(l) <=> q < High(N)
    BY <1>2, <1>8 DEF Out
  <2>7. High(N) \in 1..N
    BY <1>1 DEF High
  <2>8. Bounded(l)
    BY <1>1, <1>2, <2>1, <2>2 DEF Bounded, P
  <2> HIDE DEF p, q, N, l
  <2> QED BY <1>1, <1>6, <2>4, <2>5, <2>6, <2>7, <2>8 DEF l
<1> QED BY <1>1, <1>3, <1>4, <1>5, <1>7, <1>8

\* Latching and reading a counter change neither its OUT nor when OUT changes.
LEMMA CountersRead ==
  ASSUME NEW c \in CounterStates, Bounded(c)
  PROVE  /\ LiveCount(c) \in 0..Modulus
         /\ Latched(c) \in CounterStates /\ Bounded(Latched(c))
         /\ (Out(Latched(c)) <=> Out(c)) /\ NextOut(Latched(c)) = NextOut(c)
         /\ CounterRead(c) \in CounterStates /\ Bounded(CounterRead(c))
         /\ (Out(CounterRead(c)) <=> Out(c)) /\ NextOut(CounterRead(c)) = NextOut(c)
<1> DEFINE N == EffectiveN(c)
<1>1. Modulus \in Nat \ {0} /\ N \in 1..Modulus /\ N \in Nat \ {0} /\ c.e \in Nat
  BY Moduli DEF CounterStates
<1>2. LiveCount(c) \in 0..Modulus
  <2> HIDE DEF N
  <2>1. c.initial \in 0..Modulus
    BY <1>1 DEF CounterStates, CountRange
  <2>2. c.e % N \in 0..(N - 1) /\ c.e % Modulus \in 0..(Modulus - 1)
    BY <1>1
  <2>3. N - (c.e % N) \in 0..Modulus
    BY <1>1, <2>2
  <2>4. (N - (c.e % Modulus) + Modulus) % Modulus \in 0..Modulus
    <3>1. N - (c.e % Modulus) + Modulus \in Nat
      BY <1>1, <2>2
    <3>2. \A a \in Nat : a % Modulus \in 0..(Modulus - 1)
      BY <1>1
    <3>3. 0..(Modulus - 1) \subseteq 0..Modulus
      BY <1>1
    <3> QED BY <3>1, <3>2, <3>3
  <2>5. \/ LiveCount(c) = c.initial
        \/ LiveCount(c) = N - (c.e % N)
        \/ LiveCount(c) = (N - (c.e % Modulus) + Modulus) % Modulus
    <3>1. CASE ~c.armed
      BY <3>1 DEF LiveCount
    <3>2. CASE c.armed /\ c.mode = 2
      BY <3>2 DEF LiveCount, N
    <3>3. CASE c.armed /\ c.mode # 2
      BY <3>3, Zenon DEF LiveCount, N
    <3> QED BY <3>1, <3>2, <3>3
  <2> QED BY <2>1, <2>3, <2>4, <2>5
<1>3. /\ \A d : d \in {Latched(c), CounterRead(c)} =>
           /\ d \in CounterStates /\ d.armed = c.armed /\ d.mode = c.mode
           /\ d.initial = c.initial /\ d.e = c.e
  <2>1. DOMAIN c = {"mode", "rl", "initial", "half", "rmsb", "latched", "frozen", "armed", "e"}
    BY DEF CounterStates
  <2>2. /\ Latched(c) \in CounterStates /\ Latched(c).armed = c.armed /\ Latched(c).mode = c.mode
        /\ Latched(c).initial = c.initial /\ Latched(c).e = c.e
    BY <1>2 DEF Latched, CounterStates
  <2>3. /\ CounterRead(c) \in CounterStates
        /\ CounterRead(c).armed = c.armed /\ CounterRead(c).mode = c.mode
        /\ CounterRead(c).initial = c.initial /\ CounterRead(c).e = c.e
    <3>1. CASE c.rl = "both" /\ ~c.rmsb
      BY <3>1 DEF CounterRead, CounterStates
    <3>2. CASE ~(c.rl = "both" /\ ~c.rmsb)
      BY <3>2 DEF CounterRead, CounterStates
    <3> QED BY <3>1, <3>2
  <2> QED BY <2>2, <2>3
<1>4. \A d : d.armed = c.armed /\ d.mode = c.mode /\ d.initial = c.initial /\ d.e = c.e =>
              Bounded(d) /\ (Out(d) <=> Out(c)) /\ NextOut(d) = NextOut(c)
  BY DEF Bounded, Out, NextOut, EffectiveN
<1> QED BY <1>2, <1>3, <1>4

\* The words a guest writes, and power, leave a counter in a state of its own.
LEMMA CountersProgrammed ==
  ASSUME NEW c \in CounterStates, Bounded(c)
  PROVE  /\ \A m \in {"lsb", "msb", "both"} \X (0..5) :
              Programmed(c, m[1], m[2]) \in CounterStates /\ Bounded(Programmed(c, m[1], m[2]))
         /\ \A b \in 0..(ByteSize - 1) : CountWritten(c, b) \in CounterStates /\ Bounded(CountWritten(c, b))
         /\ PoweredCounter \in CounterStates /\ Bounded(PoweredCounter)
<1>1. Modulus \in Nat \ {0} /\ ByteSize \in Nat \ {0}
  BY Moduli, ByteAssumption
<1>2. ASSUME NEW m \in {"lsb", "msb", "both"} \X (0..5)
      PROVE  Programmed(c, m[1], m[2]) \in CounterStates /\ Bounded(Programmed(c, m[1], m[2]))
  <2>1. 0 \in CountRange
    BY <1>1 DEF CountRange
  <2>2. m[1] \in {"lsb", "msb", "both"} /\ m[2] \in 0..5
    OBVIOUS
  <2> QED BY <2>1, <2>2 DEF Programmed, CounterStates, Bounded
<1>3. ASSUME NEW n \in CountRange
      PROVE  Loaded(c, n) \in CounterStates /\ Bounded(Loaded(c, n))
  <2> DEFINE d == Loaded(c, n)
  <2>1. d \in CounterStates /\ d.e = 0
    BY DEF Loaded, CounterStates
  <2>2. EffectiveN(d) * Modulus > 0
    <3> HIDE DEF d
    <3>1. EffectiveN(d) \in Nat \ {0}
      BY <1>1, <2>1, Moduli
    <3> QED BY <1>1, <3>1
  <2> HIDE DEF d
  <2>3. d \in CounterStates /\ Bounded(d)
    BY <2>1, <2>2 DEF Bounded
  <2> QED BY <2>3 DEF d
<1>4. ASSUME NEW b \in 0..(ByteSize - 1)
      PROVE  CountWritten(c, b) \in CounterStates /\ Bounded(CountWritten(c, b))
  <2>1. ASSUME NEW h \in 0..(ByteSize - 1) PROVE b * ByteSize + h \in CountRange
    <3>1. b * ByteSize \in Nat /\ b * ByteSize <= (ByteSize - 1) * ByteSize
      BY <1>1
    <3>2. (ByteSize - 1) * ByteSize = Modulus - ByteSize
      BY <1>1 DEF Modulus
    <3> QED BY <1>1, <3>1, <3>2 DEF CountRange
  <2>2. b \in CountRange /\ b * ByteSize \in CountRange
    <3>1. 0 \in 0..(ByteSize - 1) /\ b * ByteSize \in Nat
      BY <1>1
    <3>2. b * ByteSize + 0 \in CountRange
      BY <2>1, <3>1
    <3>3. ByteSize <= Modulus
      BY <1>1 DEF Modulus
    <3> QED BY <1>1, <3>1, <3>2, <3>3 DEF CountRange
  <2>3. CASE c.rl = "lsb"
    BY <1>3, <2>2, <2>3 DEF CountWritten
  <2>4. CASE c.rl = "msb"
    BY <1>3, <2>2, <2>4 DEF CountWritten
  <2>5. CASE c.rl = "both" /\ c.half = NoByte
    <3> DEFINE d == [c EXCEPT !.half = b]
    <3>1. CountWritten(c, b) = d
      BY <2>5 DEF CountWritten
    <3>2. d \in CounterStates /\ d.armed = c.armed /\ d.mode = c.mode /\ d.e = c.e /\ d.initial = c.initial
      BY DEF CounterStates
    <3>3. Bounded(d)
      BY <3>2 DEF Bounded, EffectiveN
    <3> QED BY <3>1, <3>2, <3>3
  <2>6. CASE c.rl = "both" /\ c.half # NoByte
    <3>1. c.half \in 0..(ByteSize - 1)
      BY <2>6 DEF CounterStates
    <3>2. CountWritten(c, b) = Loaded(c, b * ByteSize + c.half)
      BY <2>6 DEF CountWritten
    <3> QED BY <1>3, <2>1, <3>1, <3>2
  <2> QED BY <2>3, <2>4, <2>5, <2>6 DEF CounterStates
<1>5. PoweredCounter \in CounterStates /\ Bounded(PoweredCounter)
  <2>1. 0 \in CountRange /\ 0 \in 0..Modulus
    BY <1>1 DEF CountRange
  <2> QED BY <2>1 DEF PoweredCounter, CounterStates, Bounded, NoByte
<1> QED BY <1>2, <1>4, <1>5
-----------------------------------------------------------------------------
(***************************************************************************)
(* The 8259A: priorities, and what the card and the guest do to it.        *)
(***************************************************************************)
\* The place of a level, without the modulus.
Place(low, l) == IF l > low THEN l - low - 1 ELSE l + IRs - low - 1

\* A set of naturals has a least one.
LEMMA LeastNatural ==
  ASSUME NEW S, S \subseteq Nat, S # {}
  PROVE  \E x \in S : \A y \in S : x <= y
<1> DEFINE R == OpToRel(<, Nat)
<1>1. PICK x \in S : \A y \in S : <<y, x>> \notin R
  <2> HIDE DEF R
  <2>1. IsWellFoundedOn(R, Nat)
    BY NatLessThanWellFounded DEF R
  <2> QED BY <2>1, WFMin
<1>2. \A y \in S : ~(y < x)
  BY <1>1 DEF OpToRel
<1> QED BY <1>2

\* The place in the order of priority, whatever level is the lowest.
LEMMA RankIsPlace ==
  ASSUME NEW p, p.lowPri \in Levels, NEW l \in Levels
  PROVE  Rank(p, l) = Place(p.lowPri, l) /\ Rank(p, l) \in 0..(IRs - 1)
<1> DEFINE low == p.lowPri
           r == Place(low, l)
<1>1. IRs \in Nat \ {0} /\ low \in 0..(IRs - 1) /\ l \in 0..(IRs - 1)
  BY IRsAssumption DEF Levels
<1>2. r \in 0..(IRs - 1) /\ l + IRs - low - 1 = (IF l > low THEN 1 ELSE 0) * IRs + r
  BY <1>1 DEF Place
<1> HIDE DEF r, low
<1>3. \A k \in {0, 1} : (k * IRs + r) % IRs = r
  BY <1>1, <1>2, ModIs
<1>4. (l + IRs - low - 1) % IRs = r
  BY <1>2, <1>3
<1> QED BY <1>2, <1>4 DEF Rank, r, low

\* No two levels have the same place.
LEMMA RankInjective ==
  ASSUME NEW p, p.lowPri \in Levels, NEW l \in Levels, NEW m \in Levels, Rank(p, l) = Rank(p, m)
  PROVE  l = m
<1> DEFINE low == p.lowPri
<1>1. IRs \in Nat /\ low \in 0..(IRs - 1) /\ l \in 0..(IRs - 1) /\ m \in 0..(IRs - 1)
  BY IRsAssumption DEF Levels
<1>2. Place(low, l) = Place(low, m)
  BY RankIsPlace
<1> HIDE DEF low
<1> QED BY <1>1, <1>2 DEF Place

\* When a level becomes the lowest, the levels below it keep their order.
LEMMA RankTurns ==
  ASSUME NEW p, p.lowPri \in Levels, NEW q, NEW l \in Levels, q.lowPri = l,
         NEW a \in Levels, NEW b \in Levels,
         Rank(p, l) < Rank(p, a), Rank(p, l) < Rank(p, b), Rank(p, b) <= Rank(p, a)
  PROVE  Rank(q, b) <= Rank(q, a)
<1> DEFINE low == p.lowPri
<1>1. /\ IRs \in Nat /\ low \in 0..(IRs - 1) /\ l \in 0..(IRs - 1)
      /\ a \in 0..(IRs - 1) /\ b \in 0..(IRs - 1)
  BY IRsAssumption DEF Levels
<1>2. /\ Rank(p, l) = Place(low, l) /\ Rank(p, a) = Place(low, a) /\ Rank(p, b) = Place(low, b)
      /\ Rank(q, a) = Place(l, a) /\ Rank(q, b) = Place(l, b)
  BY RankIsPlace
<1> HIDE DEF low
<1> QED BY <1>1, <1>2 DEF Place

\* There is a level of highest priority in a set, and Highest names it.
LEMMA HighestIs ==
  ASSUME NEW p, p.lowPri \in Levels, NEW S, S \subseteq Levels, S # {}
  PROVE  Highest(p, S) \in S /\ \A m \in S : Rank(p, Highest(p, S)) <= Rank(p, m)
<1> DEFINE R == {Rank(p, l) : l \in S}
<1>1. R \subseteq Nat /\ R # {}
  <2>1. \A l \in S : Rank(p, l) \in 0..(IRs - 1)
    BY RankIsPlace
  <2>2. IRs \in Nat
    BY IRsAssumption
  <2> QED BY <2>1, <2>2
<1>2. PICK x \in R : \A y \in R : x <= y
  <2> HIDE DEF R
  <2> QED BY <1>1, LeastNatural
<1>3. \E l \in S : \A m \in S : Rank(p, l) <= Rank(p, m)
  BY <1>2
<1> QED BY <1>3 DEF Highest

\* A winner requests, is not in service unless special mask mode let it go, and comes before
\* every level that holds back.
LEMMA Winners ==
  ASSUME NEW p \in Controllers, NEW live, live \subseteq Levels
  PROVE  /\ Requests(p, live) \subseteq Levels /\ Blocking(p) \subseteq Levels
         /\ Winner(p, live) \in Requests(p, live) \cup {NoLevel}
         /\ NoLevel \notin Levels
         /\ IntOut(p, live) =>
              /\ Winner(p, live) \in Requests(p, live) /\ Winner(p, live) \notin Blocking(p)
              /\ \A l \in Blocking(p) : Rank(p, Winner(p, live)) <= Rank(p, l)
<1> DEFINE R == Requests(p, live)
           B == Blocking(p)
           first == Highest(p, B \cup R)
<1>1. R \subseteq Levels /\ B \subseteq Levels /\ p.lowPri \in Levels
  BY DEF Requests, Irr, Blocking, Controllers
<1>2. NoLevel \notin Levels
  BY DEF NoLevel, Levels
<1>3. Winner(p, live) = IF first \in B THEN NoLevel ELSE first
  BY DEF Winner
<1> HIDE DEF R, B
<1>4. CASE B \cup R = {}
  <2>1. first = NoLevel
    BY <1>4 DEF Highest
  <2> QED BY <1>1, <1>2, <1>3, <1>4, <2>1 DEF IntOut, R, B
<1>5. CASE B \cup R # {}
  <2>1. first \in B \cup R /\ \A m \in B \cup R : Rank(p, first) <= Rank(p, m)
    BY <1>1, <1>5, HighestIs
  <2> HIDE DEF first
  <2> QED BY <1>1, <1>2, <1>3, <2>1 DEF IntOut, R, B
<1> QED BY <1>4, <1>5

\* What a controller asks for depends on the lines it listens to.
LEMMA SameRequests ==
  ASSUME NEW p, NEW live, NEW lines, live \ p.imr = lines \ p.imr
  PROVE  /\ Requests(p, live) = Requests(p, lines) /\ Winner(p, live) = Winner(p, lines)
         /\ IntOut(p, live) = IntOut(p, lines)
<1>1. Requests(p, live) = Requests(p, lines)
  BY DEF Requests, Irr
<1> QED BY <1>1 DEF Winner, IntOut

\* Sensing the lines moves the edge latch and the remembered pins.
LEMMA Senses ==
  ASSUME NEW p \in Controllers, NEW live, live \subseteq Levels
  PROVE  LET q == SenseEdges(p, live) IN
         /\ q \in Controllers
         /\ q.edge = p.edge \cup (live \ p.pins) /\ q.pins = live
         /\ q.imr = p.imr /\ q.isr = p.isr /\ q.lowPri = p.lowPri /\ q.smm = p.smm
BY DEF SenseEdges, Controllers

\* An acknowledge puts the winner, if there is one, in service and clears its edge alone.
LEMMA Acknowledges ==
  ASSUME NEW p \in Controllers, NEW live, live \subseteq Levels
  PROVE  LET q == Acknowledged(p, live) IN
         /\ q \in Controllers
         /\ q.imr = p.imr /\ q.pins = p.pins /\ q.lowPri = p.lowPri /\ q.smm = p.smm
         /\ ~IntOut(p, live) => q = p
         /\ IntOut(p, live) => q.isr = p.isr \cup {Winner(p, live)}
         /\ p.edge \ {Winner(p, live)} \subseteq q.edge
         /\ ~IntOut(p, live) => q.edge = p.edge
<1>1. CASE Winner(p, live) = NoLevel
  BY <1>1 DEF Acknowledged, IntOut
<1>2. CASE Winner(p, live) # NoLevel
  <2>1. Winner(p, live) \in Levels
    BY <1>2, Winners
  <2>2. Acknowledged(p, live) =
          [p EXCEPT !.isr = @ \cup {Winner(p, live)},
                    !.edge = IF p.ltim THEN @ ELSE @ \ {Winner(p, live)}]
    BY <1>2 DEF Acknowledged
  <2> DEFINE w == Winner(p, live)
  <2> HIDE DEF w
  <2>3. [p EXCEPT !.isr = @ \cup {w}, !.edge = IF p.ltim THEN @ ELSE @ \ {w}] \in Controllers
    BY <2>1 DEF Controllers, w
  <2> QED BY <1>2, <2>1, <2>2, <2>3 DEF Controllers, IntOut, w
<1> QED BY <1>1, <1>2

\* A command word leaves a controller; only ICW1 forgets edges and pins.
LEMMA Writes ==
  ASSUME NEW p \in Controllers, NEW w \in CommandWords
  PROVE  LET q == PicWritten(p, w) IN
         /\ q \in Controllers
         /\ w.word # "icw1" => q.edge = p.edge /\ q.pins = p.pins
         /\ w.word = "icw1" => q.isr = {} /\ ~q.smm
         /\ w.word \in {"icw1", "ocw2", "ocw3", "data"}
         /\ w.word = "ocw2" => q = Ended(p, w) /\ q.smm = p.smm
         /\ w.word = "ocw3" => q.isr = p.isr /\ q.lowPri = p.lowPri /\ (w.smm # "on" /\ ~p.smm => ~q.smm)
         /\ w.word = "data" => q.isr = p.isr /\ q.lowPri = p.lowPri /\ q.smm = p.smm
<1>0. IRs - 1 \in Levels
  BY IRsAssumption DEF Levels
<1>1. CASE w \in [word : {"icw1"}, ltim : BOOLEAN, sngl : BOOLEAN, ic4 : BOOLEAN]
  <2>1. w.word = "icw1" /\ w.ltim \in BOOLEAN /\ w.sngl \in BOOLEAN /\ w.ic4 \in BOOLEAN
    BY <1>1
  <2>2. PicWritten(p, w) = Initialized(p, w)
    BY <2>1 DEF PicWritten
  <2>3. Initialized(p, w) \in Controllers /\ Initialized(p, w).isr = {} /\ ~Initialized(p, w).smm
    BY <1>0, <2>1 DEF Initialized, Controllers
  <2> QED BY <2>1, <2>2, <2>3
<1>2. CASE w \in [word : {"ocw2"}, command : {"eoi", "specific_eoi"} \cup Rotations, level : Levels]
  <2>1. w.word = "ocw2" /\ w.level \in Levels
    BY <1>2
  <2>2. PicWritten(p, w) = Ended(p, w)
    BY <2>1 DEF PicWritten
  <2> DEFINE l == IF w.command \in {"eoi", "rotate_eoi"} THEN HighestIsr(p) ELSE w.level
             ends == w.command \in {"eoi", "rotate_eoi", "specific_eoi", "rotate_specific"}
             turns == w.command \in Rotations
  <2>3. l \in Levels \cup {NoLevel}
    <3>1. HighestIsr(p) \in Levels \cup {NoLevel}
      <4>1. CASE p.isr = {}
        BY <4>1 DEF HighestIsr, Highest
      <4>2. CASE p.isr # {}
        <5>1. p.isr \subseteq Levels /\ p.lowPri \in Levels
          BY DEF Controllers
        <5> QED BY <4>2, <5>1, HighestIs DEF HighestIsr
      <4> QED BY <4>1, <4>2
    <3> QED BY <2>1, <3>1
  <2>4. Ended(p, w) = [p EXCEPT !.isr = IF ends THEN @ \ {l} ELSE @,
                                !.lowPri = IF turns /\ l # NoLevel THEN l ELSE @]
    BY DEF Ended
  <2> HIDE DEF l, ends, turns
  <2> DEFINE q == [p EXCEPT !.isr = IF ends THEN @ \ {l} ELSE @,
                            !.lowPri = IF turns /\ l # NoLevel THEN l ELSE @]
  <2>5. q \in Controllers /\ q.edge = p.edge /\ q.pins = p.pins /\ q.smm = p.smm
    BY <2>3 DEF Controllers
  <2> HIDE DEF q
  <2>6. PicWritten(p, w) = q
    BY <2>2, <2>4 DEF q
  <2> QED BY <2>1, <2>2, <2>5, <2>6
<1>3. CASE w \in [word : {"ocw3"}, ris : {"keep", "irr", "isr"}, smm : {"keep", "on", "off"}]
  <2>1. w.word = "ocw3" /\ w.smm \in {"keep", "on", "off"}
    BY <1>3
  <2>2. PicWritten(p, w) = Selected(p, w)
    BY <2>1 DEF PicWritten
  <2> DEFINE q == Selected(p, w)
  <2>3. /\ q \in Controllers /\ q.edge = p.edge /\ q.pins = p.pins /\ q.isr = p.isr
        /\ q.lowPri = p.lowPri /\ (q.smm <=> IF w.smm = "keep" THEN p.smm ELSE w.smm = "on")
    BY DEF Selected, Controllers
  <2> HIDE DEF q
  <2> QED BY <2>1, <2>2, <2>3 DEF q
<1>4. CASE w \in [word : {"data"}, lines : SUBSET Levels]
  <2>1. w.word = "data" /\ w.lines \subseteq Levels
    BY <1>4
  <2>2. PicWritten(p, w) = DataWritten(p, w)
    BY <2>1 DEF PicWritten
  <2> DEFINE q == DataWritten(p, w)
  <2>3. /\ q \in Controllers /\ q.edge = p.edge /\ q.pins = p.pins /\ q.isr = p.isr
        /\ q.lowPri = p.lowPri /\ q.smm = p.smm
    <3>1. CASE p.step = 2
      BY <3>1 DEF DataWritten, Controllers
    <3>2. CASE p.step = 3
      BY <3>2 DEF DataWritten, Controllers
    <3>3. CASE p.step = 4
      BY <3>3 DEF DataWritten, Controllers
    <3>4. CASE p.step \notin {2, 3, 4}
      BY <2>1, <3>4 DEF DataWritten, Controllers
    <3> QED BY <3>1, <3>2, <3>3, <3>4
  <2> HIDE DEF q
  <2> QED BY <2>1, <2>2, <2>3 DEF q
<1> QED BY <1>1, <1>2, <1>3, <1>4 DEF CommandWords

\* With priorities and ages in the same order, a non-specific end is the end of the newest.
LEMMA RankedEndsNewest ==
  ASSUME NEW p \in Controllers, NEW rel, Ranked(p, rel)
  PROVE  EndsNewest(p, rel)
<1>1. p.isr \subseteq Levels /\ p.lowPri \in Levels
  BY DEF Controllers
<1>2. p.isr = {l \in Levels : <<l, l>> \in rel}
  BY <1>1 DEF Ranked
<1>3. ASSUME NEW l \in p.isr PROVE <<l, HighestIsr(p)>> \in rel
  <2> DEFINE h == HighestIsr(p)
  <2>1. h \in p.isr /\ Rank(p, h) <= Rank(p, l)
    BY <1>1, <1>3, HighestIs DEF HighestIsr
  <2>2. CASE <<l, h>> \in rel
    BY <2>2
  <2>3. CASE <<h, l>> \in rel
    <3> HIDE DEF h
    <3>1. Rank(p, l) <= Rank(p, h)
      BY <1>3, <2>1, <2>3 DEF Ranked
    <3>2. Rank(p, l) \in Int /\ Rank(p, h) \in Int
      <4>1. l \in Levels /\ h \in Levels
        BY <1>1, <1>3, <2>1
      <4> QED BY <1>1, <4>1, RankIsPlace
    <3>3. l = h
      BY <1>1, <1>3, <2>1, <3>1, <3>2, RankInjective
    <3> QED BY <2>3, <3>3 DEF h
  <2> QED BY <1>3, <2>1, <2>2, <2>3 DEF Ranked
<1> QED BY <1>2, <1>3 DEF EndsNewest

\* Nothing else of a controller matters to Ranked.
LEMMA SameRanked ==
  ASSUME NEW p, NEW q, NEW rel, Ranked(p, rel),
         q.isr = p.isr, q.lowPri = p.lowPri, q.smm = p.smm
  PROVE  Ranked(q, rel)
BY DEF Ranked, Rank

\* The level that goes into service is the newest and comes before those it interrupts.
LEMMA AckRanked ==
  ASSUME NEW p \in Controllers, NEW live, live \subseteq Levels, NEW rel, Ranked(p, rel),
         IntOut(p, live)
  PROVE  Ranked(Acknowledged(p, live), Behind(rel, p, Winner(p, live)))
<1> DEFINE w == Winner(p, live)
           q == Acknowledged(p, live)
           new == Behind(rel, p, w)
<1>1. /\ q.isr = p.isr \cup {w} /\ q.lowPri = p.lowPri /\ q.smm = p.smm
  BY Acknowledges
<1>2. Blocking(p) = p.isr /\ p.isr \subseteq Levels
  BY DEF Ranked, Blocking, Controllers
<1>3. w \notin p.isr /\ (\A l \in p.isr : Rank(p, w) <= Rank(p, l)) /\ w \in Levels
  BY <1>2, Winners
<1>4. \A l \in Levels : Rank(p, l) \in Int
  BY RankIsPlace DEF Controllers
<1>5. \A a : Rank(q, a) = Rank(p, a)
  BY <1>1 DEF Rank
<1>6. new = rel \cup ((p.isr \cup {w}) \X {w})
  BY DEF Behind
<1> HIDE DEF w, q, new
<1>7. ~q.smm /\ new \subseteq q.isr \X q.isr
  BY <1>1, <1>6 DEF Ranked
<1>8. ASSUME NEW a \in q.isr, NEW b \in q.isr PROVE <<a, b>> \in new \/ <<b, a>> \in new
  BY <1>1, <1>6 DEF Ranked
<1>9. ASSUME NEW a \in q.isr, NEW b \in q.isr, <<a, b>> \in new PROVE Rank(q, b) <= Rank(q, a)
  <2>1. CASE b = w
    <3>1. Rank(p, w) <= Rank(p, a)
      BY <1>1, <1>3, <1>4
    <3> QED BY <1>5, <2>1, <3>1
  <2>2. CASE b # w
    <3>1. <<a, b>> \in rel /\ a \in p.isr /\ b \in p.isr
      BY <1>6, <1>9, <2>2 DEF Ranked
    <3> QED BY <1>5, <3>1 DEF Ranked
  <2> QED BY <2>1, <2>2
<1>10. Ranked(q, new)
  BY <1>7, <1>8, <1>9 DEF Ranked
<1> QED BY <1>10 DEF q, new, w

\* No word a nested guest writes, a rotation with its end of interrupt among them, mixes the order.
LEMMA WriteRanked ==
  ASSUME NEW p \in Controllers, NEW w \in CommandWords, ~Unnests(w), NEW rel, Ranked(p, rel)
  PROVE  LET q == PicWritten(p, w) IN Ranked(q, InService(rel, q))
<1> DEFINE q == PicWritten(p, w)
           new == InService(rel, q)
<1>0. p.isr \subseteq Levels /\ p.lowPri \in Levels
  BY DEF Controllers
<1>1. new = rel \cap (q.isr \X q.isr)
  BY DEF InService
<1>2. CASE /\ q.isr \subseteq p.isr /\ ~q.smm
           /\ \A a, b \in q.isr : Rank(p, b) <= Rank(p, a) => Rank(q, b) <= Rank(q, a)
  <2> HIDE DEF q, new
  <2>1. Ranked(q, new)
    BY <1>1, <1>2 DEF Ranked
  <2> QED BY <2>1 DEF q, new
<1>3. CASE w.word = "icw1"
  <2>1. q.isr = {} /\ ~q.smm
    BY <1>3, Writes
  <2> HIDE DEF q
  <2> QED BY <1>2, <2>1
<1>4. CASE w.word \in {"ocw3", "data"}
  <2>1. q.isr = p.isr /\ q.lowPri = p.lowPri /\ ~q.smm
    BY <1>4, Writes DEF Unnests, Ranked
  <2> HIDE DEF q
  <2> QED BY <1>2, <2>1 DEF Rank
<1>5. CASE w.word = "ocw2"
  <2> DEFINE l == IF w.command \in {"eoi", "rotate_eoi"} THEN HighestIsr(p) ELSE w.level
  <2>1. q = Ended(p, w) /\ ~q.smm
    BY <1>5, Writes DEF Ranked
  <2>2. w.command \in {"eoi", "rotate_eoi", "specific_eoi"}
    BY <1>5 DEF Unnests, CommandWords, Rotations
  <2>3. Ended(p, w) = [p EXCEPT !.isr = @ \ {l},
                                !.lowPri = IF w.command = "rotate_eoi" /\ l # NoLevel THEN l ELSE @]
    BY <2>2 DEF Ended, Rotations
  <2>4. /\ q.isr = p.isr \ {l}
        /\ q.lowPri = IF w.command = "rotate_eoi" /\ l # NoLevel THEN l ELSE p.lowPri
    <3> HIDE DEF l, q
    <3> QED BY <2>1, <2>3 DEF Controllers
  <2>5. CASE ~(w.command = "rotate_eoi" /\ l # NoLevel)
    <3> HIDE DEF l, q
    <3> QED BY <1>2, <2>1, <2>4, <2>5 DEF Rank
  <2>6. CASE w.command = "rotate_eoi" /\ l # NoLevel
    <3>1. l = HighestIsr(p) /\ p.isr # {}
      BY <2>6 DEF HighestIsr, Highest
    <3>2. l \in p.isr /\ \A m \in p.isr : Rank(p, l) <= Rank(p, m)
      BY <1>0, <3>1, HighestIs DEF HighestIsr
    <3> HIDE DEF l, q
    <3>3. \A m \in p.isr \ {l} : Rank(p, l) < Rank(p, m)
      <4> TAKE m \in p.isr \ {l}
      <4>1. Rank(p, l) <= Rank(p, m) /\ l \in Levels /\ m \in Levels
        BY <1>0, <3>2
      <4>2. Rank(p, l) # Rank(p, m)
        BY <1>0, <4>1, RankInjective
      <4>3. Rank(p, l) \in Int /\ Rank(p, m) \in Int
        BY <1>0, <4>1, RankIsPlace
      <4> QED BY <4>1, <4>2, <4>3
    <3>4. ASSUME NEW a \in q.isr, NEW b \in q.isr, Rank(p, b) <= Rank(p, a)
          PROVE  Rank(q, b) <= Rank(q, a)
      <4>1. /\ a \in Levels /\ b \in Levels /\ l \in Levels
            /\ Rank(p, l) < Rank(p, a) /\ Rank(p, l) < Rank(p, b)
        BY <1>0, <2>4, <3>2, <3>3
      <4>2. q.lowPri = l
        BY <2>4, <2>6
      <4> QED BY <1>0, <3>4, <4>1, <4>2, RankTurns
    <3> QED BY <1>2, <2>1, <2>4, <3>4
  <2> QED BY <2>5, <2>6
<1> QED BY <1>3, <1>4, <1>5, Writes
-----------------------------------------------------------------------------
(***************************************************************************)
(* The machine around the chips.                                           *)
(***************************************************************************)
\* Every step keeps what surrounds the chips.
LEMMA StepsSurround ==
  ASSUME Surroundings, [ChainNext]_chainVars
  PROVE  Surroundings'
<1>0. TPerTick \in Nat \ {0} /\ CharT \in Nat \ {0}
  BY InterruptChainAssumption
<1> USE DEF Surroundings
<1>1. ASSUME PortCycle PROVE system' = system /\ vi' = vi /\ rival' = rival
                             /\ processor' \in [ie : BOOLEAN, ei : BOOLEAN, halted : BOOLEAN]
  BY <1>1 DEF PortCycle, StepEnds, EndOfInstruction, outside
<1>2. ASSUME NEW n \in Counters, NEW c \in CounterStates, Bounded(c), SetCounter(n, c)
      PROVE  timer' \in [Counters -> CounterStates] /\ \A m \in Counters : Bounded(timer'[m])
  BY <1>2 DEF SetCounter
<1>3. CASE Tick
  <2>1. phase' \in 0..(TPerTick - 1)
    BY <1>0, <1>3 DEF Tick
  <2>2. \A n \in Counters : Later(timer[n]) \in CounterStates /\ Bounded(Later(timer[n]))
    BY LaterKeeps, EdgesCount
  <2>3. timer' \in [Counters -> CounterStates] /\ \A n \in Counters : Bounded(timer'[n])
    <3>1. timer' = timer \/ timer' = [n \in Counters |-> Later(timer[n])]
      BY <1>3 DEF Tick
    <3> QED BY <2>2, <3>1
  <2>4. /\ frame' \in 0..CharT /\ rx' \in BOOLEAN
        /\ tx' \in [hold : 0..CharT, shift : 0..(2 * CharT)] /\ tx'.shift <= tx'.hold + CharT
    <3>1. /\ frame' = Less(frame) /\ rx' = (rx \/ (frame = 1 /\ wake = 1))
          /\ tx' = [hold |-> Less(tx.hold), shift |-> Less(tx.shift)]
      BY <1>3 DEF Tick
    <3>2. /\ frame \in 0..CharT /\ tx.hold \in 0..CharT /\ tx.shift \in 0..(2 * CharT)
          /\ tx.shift <= tx.hold + CharT
      OBVIOUS
    <3>3. Less(frame) \in 0..CharT /\ Less(tx.hold) \in 0..CharT /\ Less(tx.shift) \in 0..(2 * CharT)
          /\ Less(tx.shift) <= Less(tx.hold) + CharT
      BY <1>0, <3>2 DEF Less
    <3> QED BY <3>1, <3>3
  <2>5. system' = system /\ vi' = vi /\ rival' = rival /\ processor' = processor
    BY <1>3 DEF Tick, outside
  <2> QED BY <2>1, <2>3, <2>4, <2>5
<1>4. CASE CharacterBegins
  BY <1>0, <1>4 DEF CharacterBegins, outside
<1>5. CASE RivalMoves
  BY <1>5 DEF RivalMoves, clocks
<1>6. CASE Reset
  BY <1>6 DEF Reset, clocks, outside, CpuReset
<1>7. CASE PowerOn
  <2>1. timer' \in [Counters -> CounterStates] /\ \A n \in Counters : Bounded(timer'[n])
    <3>1. ASSUME NEW n \in Counters PROVE PoweredCounter \in CounterStates /\ Bounded(PoweredCounter)
      BY CountersProgrammed
    <3> QED BY <1>7, <3>1 DEF PowerOn
  <2>2. /\ frame' = 0 /\ rx' \in BOOLEAN /\ tx' = IdleTx /\ processor' = CpuReset
        /\ system' = system /\ phase' = phase /\ vi' = vi /\ rival' = rival
    BY <1>7 DEF PowerOn, outside
  <2>3. IdleTx \in [hold : 0..CharT, shift : 0..(2 * CharT)] /\ IdleTx.shift <= IdleTx.hold + CharT
    BY <1>0 DEF IdleTx
  <2> QED BY <1>0, <2>1, <2>2, <2>3 DEF CpuReset
<1>8. ASSUME NEW l \in ViLines, ViMoves(l) PROVE Surroundings'
  BY <1>8 DEF ViMoves, clocks
<1>9. ASSUME NEW w, WriteMaster(w) PROVE Surroundings'
  BY <1>1, <1>9 DEF WriteMaster, clocks
<1>10. ASSUME NEW w, WriteSlave(w) PROVE Surroundings'
  BY <1>1, <1>10 DEF WriteSlave, clocks
<1>11. ASSUME NEW n \in Counters, NEW m \in system.modes, ProgramCounter(n, m) PROVE Surroundings'
  <2>1. Programmed(timer[n], m[1], m[2]) \in CounterStates /\ Bounded(Programmed(timer[n], m[1], m[2]))
    BY CountersProgrammed, InterruptChainAssumption
  <2> QED BY <1>1, <1>2, <1>11, <2>1 DEF ProgramCounter
<1>12. ASSUME NEW n \in Counters, NEW b \in system.counts, LoadCounter(n, b) PROVE Surroundings'
  <2>1. CountWritten(timer[n], b) \in CounterStates /\ Bounded(CountWritten(timer[n], b))
    BY CountersProgrammed, InterruptChainAssumption
  <2> QED BY <1>1, <1>2, <1>12, <2>1 DEF LoadCounter
<1>13. ASSUME NEW n \in Counters, LatchCounter(n) PROVE Surroundings'
  <2>1. Latched(timer[n]) \in CounterStates /\ Bounded(Latched(timer[n]))
    BY CountersRead
  <2> QED BY <1>1, <1>2, <1>13, <2>1 DEF LatchCounter
<1>14. ASSUME NEW n \in Counters, ReadCounter(n) PROVE Surroundings'
  <2>1. CounterRead(timer[n]) \in CounterStates /\ Bounded(CounterRead(timer[n]))
    BY CountersRead
  <2> QED BY <1>1, <1>2, <1>14, <2>1 DEF ReadCounter
<1>15. CASE ReadSerial
  <2>1. PortCycle /\ rx' \in BOOLEAN /\ timer' = timer /\ phase' = phase /\ frame' = frame /\ tx' = tx
    BY <1>15 DEF ReadSerial, clocks
  <2> QED BY <1>1, <2>1
<1>16. CASE WriteSerial
  <2>1. tx.hold = 0 /\ tx' = [hold |-> tx.shift, shift |-> tx.shift + CharT]
    BY <1>16 DEF WriteSerial
  <2>2. tx.shift \in 0..CharT
    BY <1>0, <2>1
  <2>3. tx' \in [hold : 0..CharT, shift : 0..(2 * CharT)] /\ tx'.shift <= tx'.hold + CharT
    BY <1>0, <2>1, <2>2
  <2> QED BY <1>1, <1>16, <2>3 DEF WriteSerial
<1>17. CASE AcceptInterrupt
  BY <1>17 DEF AcceptInterrupt, clocks, outside
<1>18. ASSUME NEW code, Execute(code) PROVE Surroundings'
  <2>1. processor' \in [ie : BOOLEAN, ei : BOOLEAN, halted : BOOLEAN]
    BY <1>18 DEF Execute, StepEnds, EndOfInstruction, Executed
  <2> QED BY <1>18, <2>1 DEF Execute, clocks, outside
<1>19. CASE UNCHANGED chainVars
  BY <1>19 DEF chainVars, clocks, outside
<1> QED
  BY <1>3, <1>4, <1>5, <1>6, <1>7, <1>8, <1>9, <1>10, <1>11, <1>12, <1>13, <1>14, <1>15, <1>16,
     <1>17, <1>18, <1>19 DEF ChainNext, World, Ports, Steps

\* The machine starts so.
LEMMA StartsSurround ==
  ASSUME ChainInit
  PROVE  Surroundings
<1>0. TPerTick \in Nat \ {0} /\ CharT \in Nat \ {0}
  BY InterruptChainAssumption
<1>1. ASSUME NEW n \in Counters PROVE PoweredCounter \in CounterStates /\ Bounded(PoweredCounter)
  <2>1. PoweredCounter \in CounterStates
    BY Moduli DEF PoweredCounter, CounterStates, CountRange, NoByte
  <2> QED BY <2>1 DEF Bounded, PoweredCounter
<1>2. /\ system \in Rigs /\ timer = [n \in Counters |-> PoweredCounter] /\ phase = 0
      /\ rx \in BOOLEAN /\ frame = 0 /\ tx = IdleTx /\ vi = {} /\ rival \in BOOLEAN /\ ~rival
      /\ processor = CpuReset
  BY DEF ChainInit
<1>3. IdleTx \in [hold : 0..CharT, shift : 0..(2 * CharT)] /\ IdleTx.shift <= IdleTx.hold + CharT
  BY <1>0 DEF IdleTx
<1> QED BY <1>0, <1>1, <1>2, <1>3 DEF Surroundings, CpuReset
-----------------------------------------------------------------------------
(***************************************************************************)
(* What the wires are, and what a refresh and an acknowledge leave.        *)
(***************************************************************************)
\* The lines of the slave are lines of a controller.
LEMMA SlaveLines == SlaveLive \subseteq Levels
BY InterruptChainAssumption DEF SlaveLive

\* The cascade line is not one of the bus.
LEMMA ViLinesAre == ViLines \subseteq Levels /\ CascadeIr \in Levels /\ CascadeIr \notin ViLines
BY InterruptChainAssumption, IRsAssumption DEF ViLines, CascadeIr, Levels

\* The master's cascade line is the slave's INT, and no other card pulls it.
LEMMA MasterLinesAre ==
  Surroundings => /\ MasterLive \subseteq Levels
                  /\ CascadeIr \in MasterLive => IntOut(slave, SlaveLive)
<1> SUFFICES ASSUME Surroundings
             PROVE  MasterLive \subseteq Levels /\ (CascadeIr \in MasterLive => IntOut(slave, SlaveLive))
  OBVIOUS
<1>1. system.ownVi \subseteq ViLines /\ vi \subseteq ViLines
  BY InterruptChainAssumption DEF Surroundings
<1>2. AssertsVi \subseteq ViLines
  BY <1>1 DEF AssertsVi
<1> QED BY <1>1, <1>2, ViLinesAre DEF MasterLive, MasterLines

\* refresh(), with the wires as they are after it.
LEMMA RefreshIs ==
  ASSUME NEW m, NEW s, NEW forgotten, Refreshed(m, s, forgotten)
  PROVE  /\ slave' = SenseEdges(s, SlaveLive') /\ master' = SenseEdges(m, MasterLive')
         /\ pin' = AssertsInt' /\ wake' = NextEdge'
         /\ Risen(SlaveLive', forgotten)
<1>1. PICK toSlave \in {SlaveLive'} :
        /\ slave' = SenseEdges(s, toSlave)
        /\ \E toMaster \in {MasterLines(slave, toSlave)'} :
             /\ master' = SenseEdges(m, toMaster)
             /\ pin' = PullsInt(master, toMaster)'
        /\ wake' = NextEdge'
        /\ Risen(toSlave, forgotten)
  BY DEF Refreshed
<1>2. toSlave = SlaveLive'
  OBVIOUS
<1>3. PICK toMaster \in {MasterLines(slave, toSlave)'} :
             /\ master' = SenseEdges(m, toMaster)
             /\ pin' = PullsInt(master, toMaster)'
  BY <1>1
<1>4. toMaster = MasterLive'
  BY <1>2 DEF MasterLive, MasterLines, AssertsVi
<1>5. pin' = AssertsInt'
  BY <1>3, <1>4 DEF AssertsInt, PullsInt
<1> QED BY <1>1, <1>2, <1>3, <1>4, <1>5

\* The moments to come are in the future, and the deadline armed is the first of them.
LEMMA EdgesAre ==
  Surroundings => /\ Edges \subseteq Nat \ {0} /\ NextEdge \in Nat
                  /\ \A w \in Edges : NextEdge \in 1..w
                  /\ \A n \in Counters : NextOut(timer[n]) \in Nat
<1> SUFFICES ASSUME Surroundings
             PROVE  /\ Edges \subseteq Nat \ {0} /\ NextEdge \in Nat
                    /\ \A w \in Edges : NextEdge \in 1..w
                    /\ \A n \in Counters : NextOut(timer[n]) \in Nat
  OBVIOUS
<1>0. TPerTick \in Nat \ {0} /\ CharT \in Nat \ {0} /\ phase \in 0..(TPerTick - 1)
  BY InterruptChainAssumption DEF Surroundings
<1>1. ASSUME NEW n \in Counters PROVE NextOut(timer[n]) \in Nat
  BY EdgesCount DEF Surroundings
<1>2. ASSUME NEW k \in Nat, k > 0 PROVE TicksAway(k) \in Nat \ {0}
  <2>1. k * TPerTick \in Nat /\ k * TPerTick >= TPerTick
    BY <1>0, <1>2
  <2> QED BY <1>0, <2>1 DEF TicksAway
<1>3. Edges \subseteq Nat \ {0}
  BY <1>0, <1>1, <1>2 DEF Edges, Heard, Surroundings
<1>4. CASE Edges = {}
  BY <1>1, <1>3, <1>4 DEF NextEdge
<1>5. CASE Edges # {}
  <2>1. \E w \in Edges : \A v \in Edges : w <= v
    BY <1>3, <1>5, LeastNatural
  <2>2. NextEdge = CHOOSE w \in Edges : \A v \in Edges : w <= v
    BY <1>5 DEF NextEdge
  <2>3. NextEdge \in Edges /\ \A v \in Edges : NextEdge <= v
    BY <2>1, <2>2
  <2> QED BY <1>1, <1>3, <2>3
<1> QED BY <1>4, <1>5

\* What is driven cycle by cycle, in a row.
LEMMA Driven ==
  /\ Append(<<"CALL">>, "low") = <<"CALL", "low">>
  /\ Append(<<"CALL", "low">>, "high") = <<"CALL", "low", "high">>
<1> DEFINE S == {"CALL", "low", "high"}
<1>1. Append(<<"CALL">>, "low") = <<"CALL", "low">>
  <2> DEFINE s == Append(<<"CALL">>, "low")
             t == <<"CALL", "low">>
  <2>1. s \in Seq(S) /\ Len(s) = 2 /\ s[1] = "CALL" /\ s[2] = "low"
    OBVIOUS
  <2>2. t \in Seq(S) /\ Len(t) = 2 /\ t[1] = "CALL" /\ t[2] = "low"
    OBVIOUS
  <2> HIDE DEF s, t
  <2>3. \A i \in 1..Len(s) : s[i] = t[i]
    <3>1. \A i \in 1..2 : i = 1 \/ i = 2
      OBVIOUS
    <3> QED BY <2>1, <2>2, <3>1
  <2>4. s = t
    BY <2>1, <2>2, <2>3, SeqEqual
  <2> QED BY <2>4 DEF s, t
<1>2. Append(<<"CALL", "low">>, "high") = <<"CALL", "low", "high">>
  <2> DEFINE s == Append(<<"CALL", "low">>, "high")
             t == <<"CALL", "low", "high">>
  <2>1. s \in Seq(S) /\ Len(s) = 3 /\ s[1] = "CALL" /\ s[2] = "low" /\ s[3] = "high"
    OBVIOUS
  <2>2. t \in Seq(S) /\ Len(t) = 3 /\ t[1] = "CALL" /\ t[2] = "low" /\ t[3] = "high"
    OBVIOUS
  <2> HIDE DEF s, t
  <2>3. \A i \in 1..Len(s) : s[i] = t[i]
    <3>1. \A i \in 1..3 : i = 1 \/ i = 2 \/ i = 3
      OBVIOUS
    <3> QED BY <2>1, <2>2, <3>1
  <2>4. s = t
    BY <2>1, <2>2, <2>3, SeqEqual
  <2> QED BY <2>4 DEF s, t
<1> QED BY <1>1, <1>2

\* An acknowledge, field by field.
LEMMA AckFields ==
  ASSUME NEW a, NEW b, NEW c, NEW d, NEW m, NEW s, NEW a0, NEW b0, NEW c0, NEW d0, NEW m0, NEW s0,
         a0 = [master |-> m0, slave |-> s0, byte |-> b0, call |-> c0, driven |-> d0],
         \/ a = [a0 EXCEPT !.master = m, !.slave = s, !.byte = b, !.call = c, !.driven = d]
         \/ m = m0 /\ s = s0 /\ c = c0 /\ a = [a0 EXCEPT !.byte = b, !.driven = d]
  PROVE  a = [master |-> m, slave |-> s, byte |-> b, call |-> c, driven |-> d]
<1> DEFINE F == {"master", "slave", "byte", "call", "driven"}
<1>1. DOMAIN a = F /\ a = [x \in F |-> a[x]]
  <2>1. DOMAIN a0 = F
    OBVIOUS
  <2>2. DOMAIN a = F
    BY <2>1
  <2> QED BY <2>2
<1>2. a.master = m /\ a.slave = s /\ a.byte = b /\ a.call = c /\ a.driven = d
  OBVIOUS
<1> QED BY ONLY <1>1, <1>2

\* An acknowledge is another card's vector, a whole CALL of this card, or the floating bus.
LEMMA Acks ==
  ASSUME Surroundings, Chips
  PROVE  LET a == Acknowledge
             served == IntOut(master, MasterLive)
             w == Winner(master, MasterLive) IN
    \/ /\ rival /\ system.rival \in {"front", "behind"} /\ a.driven = <<"RST">>
       /\ a.master = master /\ a.slave = slave /\ a.call = NoCall
    \/ /\ served /\ a.driven = <<"CALL", "low", "high">> /\ a.byte = 0
       /\ a.master = Acknowledged(master, MasterLive)
       /\ a.slave = IF w = CascadeIr THEN Acknowledged(slave, SlaveLive) ELSE slave
       /\ a.call = IF w = CascadeIr THEN [pic |-> "slave", level |-> AcknowledgedLevel(slave, SlaveLive)]
                   ELSE [pic |-> "master", level |-> w]
    \/ /\ ~served /\ ~(rival /\ system.rival \in {"front", "behind"}) /\ a.driven = <<"FF">>
       /\ a.master = master /\ a.slave = slave /\ a.call = NoCall
<1> DEFINE idle == [master |-> master, slave |-> slave, byte |-> 0, call |-> NoCall, driven |-> <<>>]
           a == AckCycle(idle)
           served == IntOut(master, MasterLive)
           w == Winner(master, MasterLive)
<1>1. Acknowledge = IF a.driven = <<"CALL">> THEN AckCycle(AckCycle(a)) ELSE a
  BY DEF Acknowledge
<1>2. Claims(idle) <=> served
  BY DEF Claims, MasterLive
<1>3. CASE rival /\ system.rival = "front"
  <2>1. a = [idle EXCEPT !.driven = Append(@, "RST")]
    BY <1>3 DEF AckCycle
  <2>2. a.driven = <<"RST">> /\ a.driven # <<"CALL">>
    BY <2>1
  <2>3. a.master = master /\ a.slave = slave /\ a.call = NoCall
    BY <2>1
  <2> HIDE DEF a
  <2> QED BY <1>1, <1>3, <2>2, <2>3
<1>4. CASE ~(rival /\ system.rival = "front") /\ served
  <2>1. a = FirstByte(idle)
    BY <1>2, <1>4 DEF AckCycle, IntAckByte
  <2>2. MasterLines(idle.slave, SlaveLive) = MasterLive
    BY DEF MasterLive
  <2>3. AcknowledgedLevel(master, MasterLive) = w
    BY <1>4 DEF AcknowledgedLevel
  <2> DEFINE s == IF w = CascadeIr THEN Acknowledged(slave, SlaveLive) ELSE slave
             c == IF w = CascadeIr THEN [pic |-> "slave", level |-> AcknowledgedLevel(slave, SlaveLive)]
                  ELSE [pic |-> "master", level |-> w]
             m == Acknowledged(master, MasterLive)
  <2>4. a = [master |-> m, slave |-> s, byte |-> 1, call |-> c, driven |-> <<"CALL">>]
    <3>1. /\ Acknowledged(idle.master, MasterLive) = m /\ AcknowledgedLevel(idle.master, MasterLive) = w
          /\ idle.slave = slave /\ idle.master = master
      BY <2>3
    <3>2. FirstByte(idle) = [idle EXCEPT !.master = m, !.slave = s, !.byte = 1, !.call = c,
                                         !.driven = Append(idle.driven, "CALL")]
      <4> HIDE DEF w
      <4> QED BY <2>2, <3>1 DEF FirstByte
    <3>3. Append(idle.driven, "CALL") = <<"CALL">>
      OBVIOUS
    <3>4. a = [idle EXCEPT !.master = m, !.slave = s, !.byte = 1, !.call = c, !.driven = <<"CALL">>]
      BY <2>1, <3>2, <3>3
    <3> HIDE DEF m, s, c, a
    <3> QED BY <3>4, AckFields
  <2> HIDE DEF m, s, c, a, w, served
  <2>5. AckCycle(a) = [master |-> m, slave |-> s, byte |-> 2, call |-> c, driven |-> <<"CALL", "low">>]
    <3>1. Claims(a) /\ a.byte = 1
      BY <2>4 DEF Claims
    <3>2. AckCycle(a) = [a EXCEPT !.byte = 2, !.driven = Append(@, "low")]
      BY <1>4, <3>1 DEF AckCycle, IntAckByte
    <3> QED BY <2>4, <3>2, Driven
  <2> DEFINE b == AckCycle(a)
  <2>6. b.byte = 2 /\ Claims(b)
    BY <2>5 DEF Claims
  <2>7. AckCycle(b) = [b EXCEPT !.byte = 0, !.driven = Append(@, "high")]
    <3> HIDE DEF b
    <3> QED BY <1>4, <2>6 DEF AckCycle, IntAckByte
  <2>8. AckCycle(b) = [master |-> m, slave |-> s, byte |-> 0, call |-> c,
                       driven |-> <<"CALL", "low", "high">>]
    <3>1. b = [master |-> m, slave |-> s, byte |-> 2, call |-> c, driven |-> <<"CALL", "low">>]
      BY <2>5
    <3> HIDE DEF b
    <3>2. Append(b.driven, "high") = <<"CALL", "low", "high">>
      BY <3>1, Driven
    <3>3. AckCycle(b) = [b EXCEPT !.byte = 0, !.driven = <<"CALL", "low", "high">>]
      BY <2>7, <3>2
    <3> QED BY <3>1, <3>3, AckFields
  <2>9. Acknowledge = AckCycle(b)
    BY <1>1, <2>4
  <2> HIDE DEF b
  <2> QED BY <1>4, <2>8, <2>9 DEF m, s, c, w, served
<1>5. CASE ~served /\ rival /\ system.rival = "behind"
  <2>1. a = [idle EXCEPT !.driven = Append(@, "RST")]
    BY <1>2, <1>5 DEF AckCycle
  <2>2. a.driven = <<"RST">> /\ a.driven # <<"CALL">>
    BY <2>1
  <2>3. a.master = master /\ a.slave = slave /\ a.call = NoCall
    BY <2>1
  <2> HIDE DEF a
  <2> QED BY <1>1, <1>5, <2>2, <2>3
<1>6. CASE ~served /\ ~(rival /\ system.rival \in {"front", "behind"})
  <2>1. a = [idle EXCEPT !.driven = Append(@, "FF")]
    BY <1>2, <1>6 DEF AckCycle
  <2>2. a.driven = <<"FF">> /\ a.driven # <<"CALL">>
    BY <2>1
  <2>3. a.master = master /\ a.slave = slave /\ a.call = NoCall
    BY <2>1
  <2> HIDE DEF a
  <2> QED BY <1>1, <1>6, <2>2, <2>3
<1> QED BY <1>3, <1>4, <1>5, <1>6
-----------------------------------------------------------------------------
(***************************************************************************)
(* The pin, the deadline and the lines that rise.                          *)
(***************************************************************************)
\* A refresh makes the pin, the deadline and the latch right, however the handler left the chips.
LEMMA Refreshes ==
  ASSUME Surroundings', Chips, Sharp, NEW m \in Controllers, NEW s \in Controllers, NEW forgotten,
         Refreshed(m, s, forgotten),
         \/ s = slave
         \/ s.edge = slave.edge /\ s.pins = slave.pins /\ SlaveLive' = SlaveLive
         \/ forgotten = Levels /\ (SlaveLive' = SlaveLive \/ s.imr = Levels)
  PROVE  Chips' /\ Sharp'
<1>1. /\ slave' = SenseEdges(s, SlaveLive') /\ master' = SenseEdges(m, MasterLive')
      /\ pin' = AssertsInt' /\ wake' = NextEdge'
      /\ Risen(SlaveLive', forgotten)
  BY RefreshIs
<1>2. SlaveLive' \subseteq Levels
  <2>1. (SlaveLive \subseteq Levels)'
    BY SlaveLines, PTL
  <2> QED BY <2>1
<1>3. MasterLive' \subseteq Levels
  <2>1. (Surroundings => /\ MasterLive \subseteq Levels
                         /\ CascadeIr \in MasterLive => IntOut(slave, SlaveLive))'
    BY MasterLinesAre, PTL
  <2> QED BY <2>1
<1>4. NextEdge' \in Nat /\ \A w \in Edges' : NextEdge' \in 1..w
  <2>1. (Surroundings => /\ Edges \subseteq Nat \ {0} /\ NextEdge \in Nat
                         /\ \A w \in Edges : NextEdge \in 1..w
                         /\ \A n \in Counters : NextOut(timer[n]) \in Nat)'
    BY EdgesAre, PTL
  <2> QED BY <2>1
<1>5. /\ slave' \in Controllers /\ slave'.edge = s.edge \cup (SlaveLive' \ s.pins)
      /\ slave'.pins = SlaveLive' /\ slave'.imr = s.imr
  BY <1>1, <1>2, Senses
<1>6. master' \in Controllers
  BY <1>1, <1>3, Senses
<1>7. risen' = ((risen \ forgotten) \cup (SlaveLive' \ (SlaveLive \cup slave'.imr))) \cap SlaveLive'
  BY <1>1 DEF Risen
<1>8. pin' \in BOOLEAN
  <2>1. (AssertsInt \in BOOLEAN)'
    BY DEF AssertsInt, PullsInt
  <2> QED BY <1>1, <2>1
<1>9. Chips'
  BY <1>1, <1>2, <1>4, <1>5, <1>6, <1>7, <1>8 DEF Chips
<1>10. risen' \subseteq slave'.edge
  <2>1. risen \subseteq slave.edge /\ risen \subseteq Levels /\ slave.pins \ slave.imr = SlaveLive \ slave.imr
    BY DEF Sharp, RiseIsLatched, UpToDate, Chips
  <2> QED BY <1>2, <1>5, <1>7, <2>1
<1> QED BY <1>1, <1>4, <1>5, <1>9, <1>10 DEF Sharp, PinIsHonest, Armed, UpToDate, RiseIsLatched

\* What no handler moved: a pin is a function of the controllers and the lines they listen to.
LEMMA PinStays ==
  ASSUME system' = system, vi' = vi, rx' = rx, master' = master, slave' = slave,
         SlaveLive' \ slave.imr = SlaveLive \ slave.imr
  PROVE  AssertsInt' = AssertsInt
<1>1. IntOut(slave, SlaveLive') = IntOut(slave, SlaveLive)
  BY SameRequests
<1>2. MasterLive' = vi' \cup AssertsVi' \cup {l \in {CascadeIr} : IntOut(slave', SlaveLive')}
  BY DEF MasterLive, MasterLines
<1>3. AssertsVi' = AssertsVi
  BY DEF AssertsVi
<1>4. MasterLive' = MasterLive
  BY <1>1, <1>2, <1>3 DEF MasterLive, MasterLines
<1>5. AssertsInt' = (IntOut(master', MasterLive') \/ (rx' /\ system'.int))
  BY DEF AssertsInt, PullsInt
<1> QED BY <1>4, <1>5 DEF AssertsInt, PullsInt

\* A T-state without the deadline moves no line the slave listens to, and brings every moment nearer.
LEMMA TickQuiet ==
  ASSUME Surroundings, Chips, Armed, Tick, wake # 1
  PROVE  /\ rx' = rx /\ SlaveLive' \ slave.imr = SlaveLive \ slave.imr
         /\ \A w \in Edges' : w + 1 \in Edges
<1>0. TPerTick \in Nat \ {0} /\ CharT \in Nat \ {0} /\ phase \in 0..(TPerTick - 1) /\ wake \in Nat
  BY InterruptChainAssumption DEF Surroundings, Chips
<1>1. 1 \notin Edges
  BY <1>0 DEF Armed
<1>2. frame # 1 /\ tx.hold # 1
  BY <1>1 DEF Edges
<1>3. /\ phase' = (phase + 1) % TPerTick
      /\ timer' = IF phase' = 0 THEN [n \in Counters |-> Later(timer[n])] ELSE timer
      /\ frame' = Less(frame) /\ rx' = rx
      /\ tx' = [hold |-> Less(tx.hold), shift |-> Less(tx.shift)]
      /\ system' = system /\ slave' = slave
  BY <1>2 DEF Tick, Surroundings
<1>4. phase' = IF phase = TPerTick - 1 THEN 0 ELSE phase + 1
  <2>1. CASE phase = TPerTick - 1
    <3>1. phase + 1 = 1 * TPerTick + 0 /\ 0 \in 0..(TPerTick - 1)
      BY <1>0, <2>1
    <3> QED BY <1>0, <1>3, <2>1, <3>1, ModIs
  <2>2. CASE phase # TPerTick - 1
    <3>1. phase + 1 = 0 * TPerTick + (phase + 1) /\ phase + 1 \in 0..(TPerTick - 1)
      BY <1>0, <2>2
    <3> QED BY <1>0, <1>3, <2>2, <3>1, ModIs
  <2> QED BY <2>1, <2>2
<1>5. ASSUME NEW n \in Counters, TimerIr[n] \notin slave.imr
      PROVE  /\ Out(timer'[n]) <=> Out(timer[n])
             /\ NextOut(timer[n])' > 0 =>
                  TicksAway(NextOut(timer[n]))' + 1 = TicksAway(NextOut(timer[n])) /\ NextOut(timer[n]) > 0
  <2> DEFINE k == NextOut(timer[n])
             a == TicksAway(k)
  <2>0. k \in Nat
    BY EdgesAre
  <2>1. a = k * TPerTick - phase /\ a' = k' * TPerTick - phase'
    BY DEF TicksAway
  <2>2. phase' # 0 => timer' = timer
    BY <1>3
  <2>3. CASE phase' # 0
    <3>1. k' = k /\ (Out(timer'[n]) <=> Out(timer[n])) /\ phase' = phase + 1
      BY <1>4, <2>2, <2>3
    <3>2. k * TPerTick \in Nat
      BY <1>0, <2>0
    <3> HIDE DEF k, a
    <3>3. a' + 1 = a
      BY <1>0, <2>1, <3>1, <3>2
    <3> QED BY <3>1, <3>3 DEF k, a
  <2>4. CASE phase' = 0
    <3>1. phase = TPerTick - 1 /\ timer'[n] = Later(timer[n])
      BY <1>0, <1>3, <1>4, <2>4
    <3>2. k # 1
      <4> SUFFICES ASSUME k = 1 PROVE FALSE
        OBVIOUS
      <4>1. a \in Edges
        BY <1>5 DEF Edges, Heard
      <4> HIDE DEF k, a
      <4>2. a = 1
        BY <1>0, <2>1, <3>1
      <4> QED BY <1>1, <4>1, <4>2
    <3>3. /\ Out(timer'[n]) <=> Out(timer[n])
          /\ k = 0 => k' = 0
          /\ k > 1 => k' = k - 1
      BY <3>1, <3>2, EdgesCount DEF Surroundings
    <3> HIDE DEF k, a
    <3>4. ASSUME k' > 0 PROVE a' + 1 = a /\ k > 0
      <4>1. k' = k - 1 /\ k > 1
        BY <2>0, <3>2, <3>3, <3>4
      <4>2. k' * TPerTick = k * TPerTick - TPerTick /\ k * TPerTick \in Nat
        BY <1>0, <2>0, <4>1
      <4> DEFINE x == k * TPerTick
                 y == k' * TPerTick
      <4>3. a = x - phase /\ a' = y - phase' /\ y = x - TPerTick /\ x \in Nat
        BY <2>1, <4>2
      <4> HIDE DEF x, y
      <4>4. a' + 1 = a
        BY ONLY <1>0, <2>4, <3>1, <4>3
      <4> QED BY <2>0, <4>1, <4>4
    <3> QED BY <3>3, <3>4 DEF k, a
  <2> QED BY <2>3, <2>4
<1>6. SlaveLive' \ slave.imr = SlaveLive \ slave.imr
  <2>1. tx'.hold = 0 <=> tx.hold = 0
    BY <1>0, <1>2, <1>3 DEF Less, Surroundings
  <2>2. SlaveLive' = {TimerIr[n] : n \in {m \in Counters : Out(timer'[m])}} \cup
                     {l \in {TxIr} : system.serial /\ tx'.hold = 0} \cup {l \in {RxIr} : rx}
    BY <1>3 DEF SlaveLive
  <2> QED BY <1>5, <2>1, <2>2 DEF SlaveLive
<1>7. ASSUME NEW w \in Edges' PROVE w + 1 \in Edges
  <2>1. Edges' = {v \in {frame', tx'.hold} : v > 0} \cup {TicksAway(NextOut(timer[n]))' : n \in Heard'}
    BY DEF Edges
  <2>2. Heard' = {n \in Counters : TimerIr[n] \notin slave.imr /\ NextOut(timer[n])' > 0}
    BY <1>3 DEF Heard
  <2>3. CASE w \in {v \in {frame', tx'.hold} : v > 0}
    <3>1. frame \in Nat /\ tx.hold \in Nat
      BY <1>0 DEF Surroundings
    <3>2. w = Less(frame) \/ w = Less(tx.hold)
      BY <1>3, <2>3
    <3>3. w > 0
      BY <2>3
    <3>4. w + 1 \in {frame, tx.hold} /\ w + 1 > 0
      BY <3>1, <3>2, <3>3 DEF Less
    <3> QED BY <3>4 DEF Edges
  <2>4. CASE w \in {TicksAway(NextOut(timer[n]))' : n \in Heard'}
    <3>1. PICK n \in Heard' : w = TicksAway(NextOut(timer[n]))'
      BY <2>4
    <3>2. n \in Counters /\ TimerIr[n] \notin slave.imr /\ NextOut(timer[n])' > 0
      BY <2>2
    <3>3. w + 1 = TicksAway(NextOut(timer[n])) /\ NextOut(timer[n]) > 0
      BY <1>5, <3>1, <3>2
    <3>4. n \in Heard
      BY <3>2, <3>3 DEF Heard
    <3> QED BY <3>3, <3>4 DEF Edges
  <2> QED BY <2>1, <2>3, <2>4
<1> QED BY <1>3, <1>6, <1>7

\* A step that refreshes nothing.
LEMMA Lulls ==
  ASSUME Chips, Sharp, master' \in Controllers, slave' \in Controllers,
         slave'.imr = slave.imr, slave'.pins = slave.pins,
         SlaveLive' \ slave.imr = SlaveLive \ slave.imr,
         risen' \subseteq Levels, risen' \subseteq slave'.edge,
         pin' = AssertsInt', wake' \in Nat, \A w \in Edges' : wake' \in 1..w
  PROVE  Chips' /\ Sharp'
<1>1. pin' \in BOOLEAN
  <2>1. (AssertsInt \in BOOLEAN)'
    BY DEF AssertsInt, PullsInt
  <2> QED BY <2>1
<1> QED BY <1>1 DEF Chips, Sharp, PinIsHonest, Armed, UpToDate, RiseIsLatched

\* The lines move with the timer, the channel and their clocks alone.
LEMMA Stays ==
  ASSUME system' = system, clocks' = clocks, rx' = rx
  PROVE  /\ SlaveLive' = SlaveLive
         /\ slave'.imr = slave.imr => Edges' = Edges
<1>1. timer' = timer /\ phase' = phase /\ frame' = frame /\ tx' = tx
  BY DEF clocks
<1> QED BY <1>1 DEF SlaveLive, Edges, Heard, TicksAway

\* A step of the processor's own, or of the other card, leaves the pin right.
LEMMA QuietSteps ==
  ASSUME Chips, Sharp, system' = system, clocks' = clocks, rx' = rx, vi' = vi,
         master' = master, slave' = slave, pin' = pin, wake' = wake, risen' = risen
  PROVE  Chips' /\ Sharp'
<1>1. SlaveLive' = SlaveLive /\ Edges' = Edges
  BY Stays
<1>2. AssertsInt' = AssertsInt
  BY <1>1, PinStays
<1>3. /\ master \in Controllers /\ slave \in Controllers /\ wake \in Nat /\ risen \subseteq Levels
      /\ risen \subseteq slave.edge /\ pin = AssertsInt /\ \A w \in Edges : wake \in 1..w
  BY DEF Chips, Sharp, PinIsHonest, Armed, RiseIsLatched
<1> QED BY <1>1, <1>2, <1>3, Lulls

\* Every step keeps the pin honest, the deadline in time and the latch complete.
LEMMA StepsSharp ==
  ASSUME Surroundings, Surroundings', Chips, Sharp, [ChainNext]_chainVars
  PROVE  Chips' /\ Sharp'
<1>0. /\ master \in Controllers /\ slave \in Controllers /\ wake \in Nat /\ risen \subseteq Levels
      /\ risen \subseteq slave.edge /\ pin = AssertsInt /\ (\A w \in Edges : wake \in 1..w)
      /\ slave.edge \subseteq Levels
  BY DEF Chips, Sharp, PinIsHonest, Armed, RiseIsLatched, Controllers
<1>1. ASSUME NEW forgotten, Refreshed(master, slave, forgotten) PROVE Chips' /\ Sharp'
  BY <1>0, <1>1, Refreshes
<1>2. system.toMaster \cup system.toSlave \subseteq CommandWords
  BY InterruptChainAssumption DEF Surroundings
<1>3. CASE Tick
  <2>1. CASE wake = 1
    BY <1>1, <1>3, <2>1 DEF Tick
  <2>2. CASE wake # 1
    <3>1. /\ rx' = rx /\ SlaveLive' \ slave.imr = SlaveLive \ slave.imr
          /\ \A w \in Edges' : w + 1 \in Edges
      BY <1>3, <2>2, TickQuiet DEF Sharp
    <3>2. /\ system' = system /\ vi' = vi /\ master' = master /\ slave' = slave /\ pin' = pin
          /\ wake' = Less(wake) /\ Risen(SlaveLive', {})
      BY <1>3, <2>2 DEF Tick, outside
    <3>3. AssertsInt' = AssertsInt
      BY <3>1, <3>2, PinStays
    <3>4. wake' \in Nat /\ \A w \in Edges' : wake' \in 1..w
      <4>1. wake' \in Nat
        BY <1>0, <3>2 DEF Less
      <4>2. (Surroundings => /\ Edges \subseteq Nat \ {0} /\ NextEdge \in Nat
                             /\ \A w \in Edges : NextEdge \in 1..w
                             /\ \A n \in Counters : NextOut(timer[n]) \in Nat)'
        BY EdgesAre, PTL
      <4>3. ASSUME NEW w \in Edges' PROVE wake' \in 1..w
        <5>1. w \in Nat /\ wake \in 1..(w + 1)
          BY <1>0, <3>1, <4>2
        <5> QED BY <2>2, <3>2, <5>1 DEF Less
      <4> QED BY <4>1, <4>3
    <3>5. risen' \subseteq risen
      BY <3>1, <3>2 DEF Risen
    <3> QED BY <1>0, <3>1, <3>2, <3>3, <3>4, <3>5, Lulls
  <2> QED BY <2>1, <2>2
<1>4. CASE CharacterBegins
  BY <1>1, <1>4 DEF CharacterBegins
<1>5. CASE RivalMoves
  BY <1>5, QuietSteps DEF RivalMoves, past
<1>6. CASE Reset
  BY <1>1, <1>6 DEF Reset
<1>7. CASE PowerOn
  <2>1. PoweredPic \in Controllers /\ PoweredPic.imr = Levels
    BY IRsAssumption DEF PoweredPic, Controllers, Levels
  <2>2. Refreshed(PoweredPic, PoweredPic, Levels)
    BY <1>7 DEF PowerOn
  <2> QED BY <2>1, <2>2, Refreshes
<1>8. ASSUME NEW l \in ViLines, ViMoves(l) PROVE Chips' /\ Sharp'
  <2>1. /\ system' = system /\ master' = master /\ slave' = slave /\ clocks' = clocks /\ rx' = rx
        /\ wake' = wake /\ risen' = risen /\ pin' = AssertsInt'
    BY <1>8 DEF ViMoves
  <2>2. SlaveLive' = SlaveLive /\ Edges' = Edges
    BY <2>1, Stays
  <2> QED BY <1>0, <2>1, <2>2, Lulls
<1>9. ASSUME NEW w, WriteMaster(w) PROVE Chips' /\ Sharp'
  <2>1. w \in CommandWords /\ Refreshed(PicWritten(master, w), slave, {})
    BY <1>2, <1>9 DEF WriteMaster
  <2>2. PicWritten(master, w) \in Controllers
    BY <1>0, <2>1, Writes
  <2> QED BY <1>0, <2>1, <2>2, Refreshes
<1>10. ASSUME NEW w, WriteSlave(w) PROVE Chips' /\ Sharp'
  <2>1. /\ w \in CommandWords
        /\ Refreshed(master, PicWritten(slave, w), IF w.word = "icw1" THEN Levels ELSE {})
        /\ system' = system /\ clocks' = clocks /\ rx' = rx
    BY <1>2, <1>10 DEF WriteSlave, PortCycle
  <2>2. SlaveLive' = SlaveLive
    BY <2>1, Stays
  <2>3. /\ PicWritten(slave, w) \in Controllers
        /\ w.word # "icw1" => PicWritten(slave, w).edge = slave.edge /\ PicWritten(slave, w).pins = slave.pins
    BY <1>0, <2>1, Writes
  <2>4. CASE w.word = "icw1"
    BY <1>0, <2>1, <2>2, <2>3, <2>4, Refreshes
  <2>5. CASE w.word # "icw1"
    BY <1>0, <2>1, <2>2, <2>3, <2>5, Refreshes
  <2> QED BY <2>4, <2>5
<1>11. ASSUME NEW n, NEW m, ProgramCounter(n, m) PROVE Chips' /\ Sharp'
  BY <1>1, <1>11 DEF ProgramCounter
<1>12. ASSUME NEW n, NEW b, LoadCounter(n, b) PROVE Chips' /\ Sharp'
  BY <1>1, <1>12 DEF LoadCounter
<1>13. ASSUME NEW n, LatchCounter(n) PROVE Chips' /\ Sharp'
  BY <1>1, <1>13 DEF LatchCounter
<1>14. ASSUME NEW n \in Counters, ReadCounter(n) PROVE Chips' /\ Sharp'
  <2>1. /\ system' = system /\ vi' = vi /\ rx' = rx /\ phase' = phase /\ frame' = frame /\ tx' = tx
        /\ master' = master /\ slave' = slave /\ pin' = pin /\ wake' = wake /\ risen' = risen
        /\ timer' = [timer EXCEPT ![n] = CounterRead(timer[n])]
    BY <1>14 DEF ReadCounter, PortCycle, outside, SetCounter
  <2>2. \A c \in Counters : (Out(timer'[c]) <=> Out(timer[c])) /\ NextOut(timer'[c]) = NextOut(timer[c])
    BY <2>1, CountersRead DEF Surroundings
  <2>3. SlaveLive' = SlaveLive
    <3>1. SlaveLive' = {TimerIr[c] : c \in {m \in Counters : Out(timer'[m])}} \cup
                       {l \in {TxIr} : system.serial /\ tx.hold = 0} \cup {l \in {RxIr} : rx}
      BY <2>1 DEF SlaveLive
    <3> QED BY <2>2, <3>1 DEF SlaveLive
  <2>4. Edges' = Edges
    <3>1. Heard' = {c \in Counters : TimerIr[c] \notin slave.imr /\ NextOut(timer'[c]) > 0}
      BY <2>1 DEF Heard
    <3>2. Heard' = Heard
      BY <2>2, <3>1 DEF Heard
    <3>3. \A c \in Counters : TicksAway(NextOut(timer[c]))' = TicksAway(NextOut(timer[c]))
      BY <2>1, <2>2 DEF TicksAway
    <3>4. Heard \subseteq Counters
      BY DEF Heard
    <3> QED BY <2>1, <3>2, <3>3, <3>4 DEF Edges
  <2>5. AssertsInt' = AssertsInt
    BY <2>1, <2>3, PinStays
  <2> QED BY <1>0, <2>1, <2>3, <2>4, <2>5, Lulls
<1>15. CASE ReadSerial
  BY <1>1, <1>15 DEF ReadSerial
<1>16. CASE WriteSerial
  BY <1>1, <1>16 DEF WriteSerial
<1>17. CASE AcceptInterrupt
  <2> DEFINE a == Acknowledge
  <2>1. /\ system' = system /\ clocks' = clocks /\ rx' = rx /\ wake' = wake
        /\ master' = a.master /\ slave' = a.slave /\ pin' = AssertsInt'
        /\ risen' = IF a.call.pic = "slave" THEN risen \ {a.call.level} ELSE risen
    BY <1>17 DEF AcceptInterrupt
  <2>2. MasterLive \subseteq Levels /\ SlaveLive \subseteq Levels
    BY MasterLinesAre, SlaveLines
  <2>3. /\ Acknowledged(master, MasterLive) \in Controllers
        /\ Acknowledged(slave, SlaveLive) \in Controllers
        /\ Acknowledged(slave, SlaveLive).imr = slave.imr
        /\ Acknowledged(slave, SlaveLive).pins = slave.pins
        /\ slave.edge \ {Winner(slave, SlaveLive)} \subseteq Acknowledged(slave, SlaveLive).edge
        /\ ~IntOut(slave, SlaveLive) => Acknowledged(slave, SlaveLive).edge = slave.edge
    BY <1>0, <2>2, Acknowledges
  <2>4. \/ a.slave = slave
        \/ /\ a.slave = Acknowledged(slave, SlaveLive)
           /\ a.call = [pic |-> "slave", level |-> AcknowledgedLevel(slave, SlaveLive)]
    BY Acks
  <2>5. a.master = master \/ a.master = Acknowledged(master, MasterLive)
    BY Acks
  <2>6. risen' \subseteq risen
    BY <2>1
  <2> HIDE DEF a
  <2>7. /\ master' \in Controllers /\ slave' \in Controllers
        /\ slave'.imr = slave.imr /\ slave'.pins = slave.pins
    BY <1>0, <2>1, <2>3, <2>4, <2>5
  <2>8. risen' \subseteq slave'.edge
    <3>1. CASE a.slave = slave
      BY <1>0, <2>1, <2>6, <3>1
    <3>2. CASE /\ a.slave = Acknowledged(slave, SlaveLive)
               /\ a.call = [pic |-> "slave", level |-> AcknowledgedLevel(slave, SlaveLive)]
      <4>1. IntOut(slave, SlaveLive) => risen' = risen \ {Winner(slave, SlaveLive)}
        BY <2>1, <3>2 DEF AcknowledgedLevel
      <4> QED BY <1>0, <2>1, <2>3, <2>6, <3>2, <4>1
    <3> QED BY <2>4, <3>1, <3>2
  <2>9. SlaveLive' = SlaveLive /\ Edges' = Edges
    BY <2>1, <2>7, Stays
  <2> QED BY <1>0, <2>1, <2>6, <2>7, <2>8, <2>9, Lulls
<1>18. ASSUME NEW code, Execute(code) PROVE Chips' /\ Sharp'
  BY <1>18, QuietSteps DEF Execute, outside
<1>19. CASE UNCHANGED chainVars
  BY <1>19, QuietSteps DEF chainVars, outside, past
<1> QED
  BY <1>3, <1>4, <1>5, <1>6, <1>7, <1>8, <1>9, <1>10, <1>11, <1>12, <1>13, <1>14, <1>15, <1>16,
     <1>17, <1>18, <1>19 DEF ChainNext, World, Ports, Steps

\* The machine starts so, with nothing to wait for.
LEMMA StartsSharp ==
  ASSUME ChainInit
  PROVE  Chips /\ Sharp
<1>1. Surroundings
  BY StartsSurround
<1>2. SlaveLive \subseteq Levels /\ MasterLive \subseteq Levels
  BY <1>1, SlaveLines, MasterLinesAre
<1>3. /\ system \in Rigs /\ slave = SenseEdges(system.start, SlaveLive)
      /\ master = SenseEdges(system.start, MasterLive) /\ pin = AssertsInt /\ wake = 0 /\ risen = {}
      /\ timer = [n \in Counters |-> PoweredCounter] /\ frame = 0 /\ tx = IdleTx
  BY DEF ChainInit
<1>4. system.start \in Controllers
  BY <1>3, InterruptChainAssumption
<1>5. master \in Controllers /\ slave \in Controllers /\ slave.pins = SlaveLive
  BY <1>2, <1>3, <1>4, Senses
<1>6. Edges = {}
  <2>1. \A n \in Counters : NextOut(timer[n]) = 0
    BY <1>3 DEF NextOut, PoweredCounter
  <2>2. Heard = {}
    BY <2>1 DEF Heard
  <2> QED BY <1>3, <2>2 DEF Edges, IdleTx
<1>7. pin \in BOOLEAN
  BY <1>3 DEF AssertsInt, PullsInt
<1> QED BY <1>3, <1>5, <1>6, <1>7 DEF Chips, Sharp, PinIsHonest, Armed, UpToDate, RiseIsLatched
-----------------------------------------------------------------------------
(***************************************************************************)
(* The order of handlers, and the acknowledge that nobody asked for.       *)
(***************************************************************************)
\* Sensing its lines changes nothing that a controller ranks.
LEMMA RefreshRanks ==
  ASSUME Surroundings', NEW m \in Controllers, NEW s \in Controllers, NEW forgotten,
         Refreshed(m, s, forgotten)
  PROVE  /\ master'.isr = m.isr /\ master'.lowPri = m.lowPri /\ master'.smm = m.smm
         /\ slave'.isr = s.isr /\ slave'.lowPri = s.lowPri /\ slave'.smm = s.smm
<1>1. slave' = SenseEdges(s, SlaveLive') /\ master' = SenseEdges(m, MasterLive')
  BY RefreshIs
<1>2. (SlaveLive \subseteq Levels)'
  BY SlaveLines, PTL
<1>3. (Surroundings => /\ MasterLive \subseteq Levels
                       /\ CascadeIr \in MasterLive => IntOut(slave, SlaveLive))'
  BY MasterLinesAre, PTL
<1>4. SlaveLive' \subseteq Levels /\ MasterLive' \subseteq Levels
  BY <1>2, <1>3
<1> QED BY <1>1, <1>4, Senses

\* Every step keeps priority and age in the same order.
LEMMA StepsNest ==
  ASSUME Surroundings, Surroundings', Chips, Nesting, [ChainNext]_chainVars
  PROVE  Nesting'
<1>0. /\ master \in Controllers /\ slave \in Controllers
      /\ system.toMaster \cup system.toSlave \subseteq CommandWords
      /\ system.nested => \A w \in system.toMaster \cup system.toSlave : ~Unnests(w)
  BY InterruptChainAssumption DEF Chips, Surroundings
<1>1. ASSUME system' = system, order' = order,
             master'.isr = master.isr, master'.lowPri = master.lowPri, master'.smm = master.smm,
             slave'.isr = slave.isr, slave'.lowPri = slave.lowPri, slave'.smm = slave.smm
      PROVE  Nesting'
  BY <1>1, SameRanked DEF Nesting
<1>2. ASSUME system' = system, order' = order, master' = master, slave' = slave PROVE Nesting'
  BY <1>1, <1>2
<1>3. ASSUME system' = system, order' = order, NEW forgotten, Refreshed(master, slave, forgotten)
      PROVE  Nesting'
  BY <1>0, <1>1, <1>3, RefreshRanks
<1>4. ASSUME NEW rel, NEW p, NEW q, p.isr = q.isr PROVE InService(rel, p) = InService(rel, q)
  BY <1>4 DEF InService
<1>5. CASE Tick
  <2>1. CASE wake = 1
    BY <1>3, <1>5, <2>1 DEF Tick
  <2>2. CASE wake # 1
    BY <1>2, <1>5, <2>2 DEF Tick
  <2> QED BY <2>1, <2>2
<1>6. CASE CharacterBegins
  BY <1>3, <1>6 DEF CharacterBegins
<1>7. CASE RivalMoves
  BY <1>2, <1>7 DEF RivalMoves, past
<1>8. CASE Reset
  BY <1>3, <1>8 DEF Reset
<1>9. CASE PowerOn
  <2>1. PoweredPic \in Controllers /\ PoweredPic.isr = {} /\ ~PoweredPic.smm
    BY IRsAssumption DEF PoweredPic, Controllers, Levels
  <2>2. Refreshed(PoweredPic, PoweredPic, Levels) /\ order' = [master |-> {}, slave |-> {}]
    BY <1>9 DEF PowerOn
  <2>3. master'.isr = {} /\ ~master'.smm /\ slave'.isr = {} /\ ~slave'.smm
    BY <2>1, <2>2, RefreshRanks
  <2>4. Ranked(master', {}) /\ Ranked(slave', {})
    BY <2>3 DEF Ranked
  <2> QED BY <2>2, <2>4 DEF Nesting
<1>10. ASSUME NEW l \in ViLines, ViMoves(l) PROVE Nesting'
  BY <1>2, <1>10 DEF ViMoves
<1>11. ASSUME NEW w, WriteMaster(w) PROVE Nesting'
  <2> DEFINE q == PicWritten(master, w)
  <2>1. /\ w \in system.toMaster /\ w \in CommandWords /\ Refreshed(q, slave, {})
        /\ system' = system /\ order' = [order EXCEPT !.master = InService(@, master')]
    BY <1>0, <1>11 DEF WriteMaster, PortCycle
  <2>2. q \in Controllers
    BY <1>0, <2>1, Writes
  <2>3. /\ master'.isr = q.isr /\ master'.lowPri = q.lowPri /\ master'.smm = q.smm
        /\ slave'.isr = slave.isr /\ slave'.lowPri = slave.lowPri /\ slave'.smm = slave.smm
    BY <1>0, <2>1, <2>2, RefreshRanks
  <2>4. /\ DOMAIN order' = {"master", "slave"} /\ order'.master = InService(order.master, master')
        /\ order'.slave = order.slave
    BY <2>1 DEF Nesting
  <2>5. ASSUME system.nested PROVE Ranked(master', order'.master) /\ Ranked(slave', order'.slave)
    <3>1. Ranked(q, InService(order.master, q))
      BY <1>0, <2>1, <2>5, WriteRanked DEF Nesting
    <3>2. InService(order.master, master') = InService(order.master, q)
      BY <1>4, <2>3
    <3>3. Ranked(slave', order.slave)
      BY <2>3, <2>5, SameRanked DEF Nesting
    <3> HIDE DEF q
    <3> QED BY <2>3, <2>4, <3>1, <3>2, <3>3, SameRanked
  <2> QED BY <2>1, <2>4, <2>5 DEF Nesting
<1>12. ASSUME NEW w, WriteSlave(w) PROVE Nesting'
  <2> DEFINE q == PicWritten(slave, w)
  <2>1. /\ w \in system.toSlave /\ w \in CommandWords
        /\ Refreshed(master, q, IF w.word = "icw1" THEN Levels ELSE {})
        /\ system' = system /\ order' = [order EXCEPT !.slave = InService(@, slave')]
    BY <1>0, <1>12 DEF WriteSlave, PortCycle
  <2>2. q \in Controllers
    BY <1>0, <2>1, Writes
  <2>3. /\ slave'.isr = q.isr /\ slave'.lowPri = q.lowPri /\ slave'.smm = q.smm
        /\ master'.isr = master.isr /\ master'.lowPri = master.lowPri /\ master'.smm = master.smm
    BY <1>0, <2>1, <2>2, RefreshRanks
  <2>4. /\ DOMAIN order' = {"master", "slave"} /\ order'.slave = InService(order.slave, slave')
        /\ order'.master = order.master
    BY <2>1 DEF Nesting
  <2>5. ASSUME system.nested PROVE Ranked(master', order'.master) /\ Ranked(slave', order'.slave)
    <3>1. Ranked(q, InService(order.slave, q))
      BY <1>0, <2>1, <2>5, WriteRanked DEF Nesting
    <3>2. InService(order.slave, slave') = InService(order.slave, q)
      BY <1>4, <2>3
    <3>3. Ranked(master', order.master)
      BY <2>3, <2>5, SameRanked DEF Nesting
    <3> HIDE DEF q
    <3> QED BY <2>3, <2>4, <3>1, <3>2, <3>3, SameRanked
  <2> QED BY <2>1, <2>4, <2>5 DEF Nesting
<1>13. ASSUME NEW n, NEW m, ProgramCounter(n, m) PROVE Nesting'
  BY <1>3, <1>13 DEF ProgramCounter, PortCycle
<1>14. ASSUME NEW n, NEW b, LoadCounter(n, b) PROVE Nesting'
  BY <1>3, <1>14 DEF LoadCounter, PortCycle
<1>15. ASSUME NEW n, LatchCounter(n) PROVE Nesting'
  BY <1>3, <1>15 DEF LatchCounter, PortCycle
<1>16. ASSUME NEW n, ReadCounter(n) PROVE Nesting'
  BY <1>2, <1>16 DEF ReadCounter, PortCycle
<1>17. CASE ReadSerial
  BY <1>3, <1>17 DEF ReadSerial, PortCycle
<1>18. CASE WriteSerial
  BY <1>3, <1>18 DEF WriteSerial, PortCycle
<1>19. CASE AcceptInterrupt
  <2> DEFINE a == Acknowledge
             m == IF a.master = master THEN order.master
                  ELSE Behind(order.master, master, Winner(master, MasterLive))
             s == IF a.slave = slave THEN order.slave
                  ELSE Behind(order.slave, slave, Winner(slave, SlaveLive))
  <2>1. system' = system /\ master' = a.master /\ slave' = a.slave /\ order' = [master |-> m, slave |-> s]
    BY <1>19 DEF AcceptInterrupt
  <2>2. MasterLive \subseteq Levels /\ SlaveLive \subseteq Levels
    BY MasterLinesAre, SlaveLines
  <2>3. a.master = master \/ a.master = Acknowledged(master, MasterLive)
    BY Acks
  <2>4. a.slave = slave \/ a.slave = Acknowledged(slave, SlaveLive)
    BY Acks
  <2>5. ASSUME system.nested PROVE Ranked(a.master, m) /\ Ranked(a.slave, s)
    <3>1. Ranked(a.master, m)
      <4>1. CASE a.master = master
        BY <2>5, <4>1 DEF Nesting
      <4>2. CASE a.master # master
        <5>1. a.master = Acknowledged(master, MasterLive) /\ IntOut(master, MasterLive)
          BY <1>0, <2>2, <2>3, <4>2, Acknowledges
        <5>2. m = Behind(order.master, master, Winner(master, MasterLive))
          BY <4>2
        <5>3. Ranked(master, order.master)
          BY <2>5 DEF Nesting
        <5> HIDE DEF a, m
        <5> QED BY <1>0, <2>2, <5>1, <5>2, <5>3, AckRanked
      <4> QED BY <4>1, <4>2
    <3>2. Ranked(a.slave, s)
      <4>1. CASE a.slave = slave
        BY <2>5, <4>1 DEF Nesting
      <4>2. CASE a.slave # slave
        <5>1. a.slave = Acknowledged(slave, SlaveLive) /\ IntOut(slave, SlaveLive)
          BY <1>0, <2>2, <2>4, <4>2, Acknowledges
        <5>2. s = Behind(order.slave, slave, Winner(slave, SlaveLive))
          BY <4>2
        <5>3. Ranked(slave, order.slave)
          BY <2>5 DEF Nesting
        <5> HIDE DEF a, s
        <5> QED BY <1>0, <2>2, <5>1, <5>2, <5>3, AckRanked
      <4> QED BY <4>1, <4>2
    <3> QED BY <3>1, <3>2
  <2> HIDE DEF a, m, s
  <2> QED BY <2>1, <2>5 DEF Nesting
<1>20. ASSUME NEW code, Execute(code) PROVE Nesting'
  BY <1>2, <1>20 DEF Execute
<1>21. CASE UNCHANGED chainVars
  BY <1>2, <1>21 DEF chainVars, past
<1> QED
  BY <1>5, <1>6, <1>7, <1>8, <1>9, <1>10, <1>11, <1>12, <1>13, <1>14, <1>15, <1>16,
     <1>17, <1>18, <1>19, <1>20, <1>21 DEF ChainNext, World, Ports, Steps

\* Nothing is in service at first.
LEMMA StartsNested ==
  ASSUME ChainInit
  PROVE  Nesting
<1>1. Surroundings
  BY StartsSurround
<1>2. SlaveLive \subseteq Levels /\ MasterLive \subseteq Levels
  BY <1>1, SlaveLines, MasterLinesAre
<1>3. /\ system \in Rigs /\ slave = SenseEdges(system.start, SlaveLive)
      /\ master = SenseEdges(system.start, MasterLive) /\ order = [master |-> {}, slave |-> {}]
  BY DEF ChainInit
<1>4. system.start \in Controllers /\ (system.nested => system.start.isr = {} /\ ~system.start.smm)
  BY <1>3, InterruptChainAssumption
<1>5. system.nested => master.isr = {} /\ ~master.smm /\ slave.isr = {} /\ ~slave.smm
  BY <1>2, <1>3, <1>4, Senses
<1>6. system.nested => Ranked(master, {}) /\ Ranked(slave, {})
  BY <1>5 DEF Ranked
<1> QED BY <1>3, <1>6 DEF Nesting

\* A request that is served is asked for.
LEMMA NoneIsPhantom ==
  ASSUME Surroundings, Chips, PinIsHonest
  PROVE  NoPhantom
<1> DEFINE a == Acknowledge
<1>1. SUFFICES ASSUME Accepts
               PROVE  CASE a.driven[1] = "CALL" -> /\ a.driven = <<"CALL", "low", "high">> /\ a.byte = 0
                                                   /\ RequestedCall(a.call)
                        [] a.driven[1] = "RST" -> rival
                        [] OTHER -> BareRequest
  BY DEF NoPhantom
<1>0. MasterLive \subseteq Levels /\ SlaveLive \subseteq Levels /\ master \in Controllers /\ slave \in Controllers
  BY MasterLinesAre, SlaveLines DEF Chips
<1> DEFINE w == Winner(master, MasterLive)
<1>2. CASE /\ rival /\ system.rival \in {"front", "behind"} /\ a.driven = <<"RST">>
  <2>1. a.driven[1] = "RST"
    BY <1>2
  <2> HIDE DEF a
  <2> QED BY <1>2, <2>1
<1>3. CASE /\ IntOut(master, MasterLive) /\ a.driven = <<"CALL", "low", "high">> /\ a.byte = 0
           /\ a.call = IF w = CascadeIr THEN [pic |-> "slave", level |-> AcknowledgedLevel(slave, SlaveLive)]
                       ELSE [pic |-> "master", level |-> w]
  <2>1. a.driven[1] = "CALL"
    BY <1>3
  <2>2. w \in Requests(master, MasterLive)
    BY <1>0, <1>3, Winners
  <2>3. CASE w = CascadeIr
    <3>1. CascadeIr \in MasterLive
      BY <2>2, <2>3 DEF Requests, Irr
    <3>2. IntOut(slave, SlaveLive)
      BY <3>1, MasterLinesAre
    <3>3. Winner(slave, SlaveLive) \in Requests(slave, SlaveLive)
      BY <1>0, <3>2, Winners
    <3>4. a.call.pic = "slave" /\ a.call.level = Winner(slave, SlaveLive)
      BY <1>3, <2>3, <3>2 DEF AcknowledgedLevel
    <3> HIDE DEF a
    <3>5. RequestedCall(a.call)
      BY <3>3, <3>4 DEF RequestedCall
    <3> QED BY <1>3, <2>1, <3>5
  <2>4. CASE w # CascadeIr
    <3>1. a.call.pic = "master" /\ a.call.level = w
      BY <1>3, <2>4
    <3> HIDE DEF a, w
    <3>2. RequestedCall(a.call)
      BY <2>2, <3>1 DEF RequestedCall
    <3> QED BY <1>3, <2>1, <3>2
  <2> QED BY <2>3, <2>4
<1>4. CASE /\ ~IntOut(master, MasterLive) /\ ~(rival /\ system.rival \in {"front", "behind"})
           /\ a.driven = <<"FF">>
  <2>1. a.driven[1] # "CALL" /\ a.driven[1] # "RST"
    BY <1>4
  <2>2. system.rival \in {"none", "bare", "front", "behind"}
    BY InterruptChainAssumption DEF Surroundings
  <2>3. pin \/ rival
    BY <1>1 DEF Accepts, IntPending
  <2>4. rival => BareRequest
    BY <1>4, <2>2 DEF BareRequest, Surroundings
  <2>5. pin => BareRequest
    BY <1>4 DEF BareRequest, PinIsHonest, AssertsInt, PullsInt
  <2> HIDE DEF a
  <2> QED BY <2>1, <2>3, <2>4, <2>5
<1> HIDE DEF a
<1> QED BY <1>2, <1>3, <1>4, Acks DEF a
-----------------------------------------------------------------------------
(***************************************************************************)
(* Counts that are latched, and the theorems.                              *)
(***************************************************************************)
\* A count that was not latched promises nothing.
LEMMA NothingPromised ==
  /\ NothingFrozen \in [want : {NoByte} \cup CountRange, low : {NoByte} \cup 0..(ByteSize - 1)]
  /\ \A c : Promised(c, NothingFrozen)
BY DEF NothingFrozen, Promised

\* A latch command promises the count of its moment.
LEMMA LatchPromises ==
  ASSUME NEW c \in CounterStates, Bounded(c), c.rl = "both"
  PROVE  LET f == [want |-> LiveCount(c) % Modulus, low |-> NoByte] IN
         /\ f \in [want : {NoByte} \cup CountRange, low : {NoByte} \cup 0..(ByteSize - 1)]
         /\ Promised(Latched(c), f)
<1>1. Modulus \in Nat \ {0} /\ LiveCount(c) \in Nat
  <2>1. LiveCount(c) \in 0..Modulus
    BY CountersRead
  <2> QED BY <2>1, Moduli
<1>2. LiveCount(c) % Modulus \in CountRange
  BY <1>1 DEF CountRange
<1>3. /\ Latched(c).rl = "both" /\ Latched(c).latched /\ ~Latched(c).rmsb
      /\ Latched(c).frozen = LiveCount(c)
  BY DEF Latched, CounterStates
<1> QED BY <1>2, <1>3 DEF Promised

\* The two reads after a latch command.
LEMMA ReadsPromised ==
  ASSUME NEW c \in CounterStates,
         NEW f \in [want : {NoByte} \cup CountRange, low : {NoByte} \cup 0..(ByteSize - 1)],
         Promised(c, f), f.want # NoByte
  PROVE  /\ f.low = NoByte =>
              LET g == [f EXCEPT !.low = ByteRead(c)] IN
              /\ g \in [want : {NoByte} \cup CountRange, low : {NoByte} \cup 0..(ByteSize - 1)]
              /\ Promised(CounterRead(c), g)
         /\ f.low # NoByte => ByteRead(c) * ByteSize + f.low = f.want
<1>1. /\ c.rl = "both" /\ c.latched /\ c.frozen % Modulus = f.want /\ f.want \in CountRange
      /\ f.low = NoByte <=> ~c.rmsb
      /\ f.low # NoByte => f.low = f.want % ByteSize
  BY DEF Promised
<1>2. ByteSize \in Nat \ {0} /\ f.want \in Nat
  BY <1>1, ByteAssumption, Moduli DEF CountRange
<1>3. ReadFrom(c) = f.want
  BY <1>1 DEF ReadFrom
<1>4. ASSUME f.low = NoByte
      PROVE  LET g == [f EXCEPT !.low = ByteRead(c)] IN
             /\ g \in [want : {NoByte} \cup CountRange, low : {NoByte} \cup 0..(ByteSize - 1)]
             /\ Promised(CounterRead(c), g)
  <2> DEFINE b == ByteRead(c)
             d == CounterRead(c)
             g == [f EXCEPT !.low = b]
  <2>1. b = f.want % ByteSize
    BY <1>1, <1>3, <1>4 DEF ByteRead
  <2>2. b \in 0..(ByteSize - 1) /\ b # NoByte
    <3> HIDE DEF b
    <3> QED BY <1>2, <2>1 DEF NoByte
  <2>3. d.rl = "both" /\ d.latched /\ d.frozen = c.frozen /\ d.rmsb
    BY <1>1, <1>4 DEF CounterRead, CounterStates
  <2> HIDE DEF b, d
  <2>4. g.want = f.want /\ g.low = b
        /\ g \in [want : {NoByte} \cup CountRange, low : {NoByte} \cup 0..(ByteSize - 1)]
    BY <2>2
  <2> HIDE DEF g
  <2>5. Promised(d, g)
    BY <1>1, <2>1, <2>2, <2>3, <2>4 DEF Promised
  <2> QED BY <2>4, <2>5 DEF g, b, d
<1>5. ASSUME f.low # NoByte PROVE ByteRead(c) * ByteSize + f.low = f.want
  <2>1. ByteRead(c) = f.want \div ByteSize
    BY <1>1, <1>3, <1>5 DEF ByteRead
  <2> DEFINE v == f.want
  <2>2. f.low = v % ByteSize /\ v \in Nat
    BY <1>1, <1>2, <1>5
  <2> HIDE DEF v
  <2>3. (v \div ByteSize) * ByteSize + (v % ByteSize) = v
    BY <1>2, <2>2
  <2> QED BY <2>1, <2>2, <2>3 DEF v
<1> QED BY <1>4, <1>5

\* Every step keeps what the latched counts promise.
LEMMA StepsFreeze ==
  ASSUME Surroundings, Freezing, [ChainNext]_chainVars
  PROVE  Freezing'
<1> DEFINE Pledges == [want : {NoByte} \cup CountRange, low : {NoByte} \cup 0..(ByteSize - 1)]
<1>0. /\ frozen \in [Counters -> Pledges] /\ \A n \in Counters : Promised(timer[n], frozen[n])
      /\ timer \in [Counters -> CounterStates]
  BY DEF Freezing, Surroundings
<1>1. ASSUME timer' = timer, frozen' = frozen PROVE Freezing'
  BY <1>0, <1>1 DEF Freezing
<1>2. ASSUME NEW n \in Counters, NEW c, SetCounter(n, c), NEW f \in Pledges, Promised(c, f),
             frozen' = [frozen EXCEPT ![n] = f]
      PROVE  Freezing'
  <2>1. timer' = [timer EXCEPT ![n] = c]
    BY <1>2 DEF SetCounter
  <2>2. frozen' \in [Counters -> Pledges]
    BY <1>0, <1>2
  <2>3. \A m \in Counters : Promised(timer'[m], frozen'[m])
    BY <1>0, <1>2, <2>1
  <2> QED BY <2>2, <2>3 DEF Freezing
<1>3. NothingFrozen \in Pledges /\ \A c : Promised(c, NothingFrozen)
  BY NothingPromised
<1>4. CASE Tick
  <2>1. frozen' = frozen /\ (timer' = timer \/ timer' = [n \in Counters |-> Later(timer[n])])
    BY <1>4 DEF Tick
  <2>2. ASSUME NEW n \in Counters PROVE Promised(Later(timer[n]), frozen[n])
    <3>1. /\ Later(timer[n]).rl = timer[n].rl /\ Later(timer[n]).rmsb = timer[n].rmsb
          /\ Later(timer[n]).latched = timer[n].latched /\ Later(timer[n]).frozen = timer[n].frozen
      BY <1>0, LaterKeeps
    <3>2. Promised(timer[n], frozen[n])
      BY <1>0
    <3> QED BY <3>1, <3>2 DEF Promised
  <2> QED BY <1>0, <1>1, <2>1, <2>2 DEF Freezing
<1>5. CASE PowerOn
  <2>1. frozen' = [n \in Counters |-> NothingFrozen]
    BY <1>5 DEF PowerOn
  <2> QED BY <1>3, <2>1 DEF Freezing
<1>6. ASSUME NEW n \in Counters, NEW m, ProgramCounter(n, m) PROVE Freezing'
  BY <1>2, <1>3, <1>6 DEF ProgramCounter
<1>7. ASSUME NEW n \in Counters, NEW b, LoadCounter(n, b) PROVE Freezing'
  BY <1>2, <1>3, <1>7 DEF LoadCounter
<1>8. ASSUME NEW n \in Counters, LatchCounter(n) PROVE Freezing'
  <2> DEFINE f == IF timer[n].rl = "both" THEN [want |-> LiveCount(timer[n]) % Modulus, low |-> NoByte]
                  ELSE NothingFrozen
  <2>1. SetCounter(n, Latched(timer[n])) /\ frozen' = [frozen EXCEPT ![n] = f]
    BY <1>8 DEF LatchCounter
  <2>2. f \in Pledges /\ Promised(Latched(timer[n]), f)
    <3>1. CASE timer[n].rl = "both"
      <4>1. timer[n] \in CounterStates /\ Bounded(timer[n])
        BY DEF Surroundings
      <4> QED BY <3>1, <4>1, LatchPromises
    <3>2. CASE timer[n].rl # "both"
      BY <1>3, <3>2
    <3> QED BY <3>1, <3>2
  <2> HIDE DEF f
  <2> QED BY <1>2, <2>1, <2>2
<1>9. ASSUME NEW n \in Counters, ReadCounter(n) PROVE Freezing'
  <2> DEFINE g == [frozen[n] EXCEPT !.low = ByteRead(timer[n])]
             f == IF frozen[n].want # NoByte /\ frozen[n].low = NoByte THEN g ELSE NothingFrozen
  <2>1. SetCounter(n, CounterRead(timer[n])) /\ frozen' = [frozen EXCEPT ![n] = f]
    BY <1>0, <1>9 DEF ReadCounter
  <2>2. f \in Pledges /\ Promised(CounterRead(timer[n]), f)
    <3>1. CASE frozen[n].want # NoByte /\ frozen[n].low = NoByte
      <4>1. timer[n] \in CounterStates /\ frozen[n] \in Pledges /\ Promised(timer[n], frozen[n])
        BY <1>0
      <4> QED BY <3>1, <4>1, ReadsPromised
    <3>2. CASE ~(frozen[n].want # NoByte /\ frozen[n].low = NoByte)
      BY <1>3, <3>2
    <3> QED BY <3>1, <3>2
  <2> HIDE DEF f
  <2> QED BY <1>2, <2>1, <2>2
<1>10. CASE CharacterBegins \/ RivalMoves \/ Reset \/ ReadSerial \/ WriteSerial \/ AcceptInterrupt
  BY <1>1, <1>10 DEF CharacterBegins, RivalMoves, Reset, ReadSerial, WriteSerial, AcceptInterrupt, clocks, past
<1>11. ASSUME NEW l, ViMoves(l) \/ WriteMaster(l) \/ WriteSlave(l) \/ Execute(l) PROVE Freezing'
  BY <1>1, <1>11 DEF ViMoves, WriteMaster, WriteSlave, Execute, clocks
<1>12. CASE UNCHANGED chainVars
  BY <1>1, <1>12 DEF chainVars, clocks, past
<1> QED
  BY <1>4, <1>5, <1>6, <1>7, <1>8, <1>9, <1>10, <1>11, <1>12 DEF ChainNext, World, Ports, Steps

\* No count is latched at first.
LEMMA StartsFrozen ==
  ASSUME ChainInit
  PROVE  Freezing
BY NothingPromised DEF ChainInit, Freezing

\* The inductive invariant: what surrounds the chips, the pin and its deadline, the order in
\* service and the latched counts.
THEOREM Invariant == ChainSpec => []IInv
<1>1. ChainInit => IInv
  BY StartsSurround, StartsSharp, StartsNested, StartsFrozen DEF IInv
<1>2. IInv /\ [ChainNext]_chainVars => IInv'
  <2> SUFFICES ASSUME IInv, [ChainNext]_chainVars PROVE IInv'
    OBVIOUS
  <2>1. Surroundings'
    BY StepsSurround DEF IInv
  <2>2. Chips' /\ Sharp'
    BY <2>1, StepsSharp DEF IInv
  <2>3. Nesting'
    BY <2>1, StepsNest DEF IInv
  <2>4. Freezing'
    BY StepsFreeze DEF IInv
  <2> QED BY <2>1, <2>2, <2>3, <2>4 DEF IInv
<1> QED BY <1>1, <1>2, PTL DEF ChainSpec

\* The state has its type: the chips' registers, the counters and their clocks.
THEOREM TypeCorrect == ChainSpec => []TypeOK
<1>1. IInv => TypeOK
  BY DEF IInv, Surroundings, Chips, TypeOK
<1> QED BY <1>1, Invariant, PTL

\* Every announcement is right: at every T-state the wire the card has announced is what its
\* chips ask for, through both controllers, so that Bus::verifyInt never has a reason to abort.
THEOREM PinHonest == ChainSpec => []PinIsHonest
<1>1. IInv => PinIsHonest
  BY DEF IInv, Sharp
<1> QED BY <1>1, Invariant, PTL

\* No unmasked rise of a line is lost: it is in the slave's edge latch until it falls, is
\* acknowledged or the guest programs the chip anew, whether or not anybody touches the card.
THEOREM RiseLatched == ChainSpec => []RiseIsLatched
<1>1. IInv => RiseIsLatched
  BY DEF IInv, Sharp
<1> QED BY <1>1, Invariant, PTL

\* Handlers end newest first, also while priorities rotate, and no interrupt is accepted that
\* nobody asked for: neither the default level nor a floating bus stands in for one.
THEOREM ServiceMeant == ChainSpec => []ServiceIsMeant
<1>1. IInv => NewestEndsFirst
  BY RankedEndsNewest DEF IInv, Nesting, Chips, NewestEndsFirst
<1>2. IInv => NoPhantom
  BY NoneIsPhantom DEF IInv, Sharp
<1>3. IInv => ServiceIsMeant
  BY <1>1, <1>2 DEF ServiceIsMeant
<1> QED BY <1>3, Invariant, PTL

\* The two bytes read after a latch command are the count at the command, for every modulus,
\* mode and length of time between the reads.
THEOREM CountOneMoment == ChainSpec => CountIsOneMoment
<1>1. IInv => \A n \in Counters :
                /\ frozen[n].want # NoByte /\ timer[n].rl = "both" /\ timer'[n] # timer[n]
                /\ frozen'[n] = NothingFrozen /\ frozen[n].low # NoByte
                => ByteRead(timer[n]) * ByteSize + frozen[n].low = frozen[n].want
  <2> SUFFICES ASSUME IInv, NEW n \in Counters, frozen[n].want # NoByte, frozen[n].low # NoByte
               PROVE  ByteRead(timer[n]) * ByteSize + frozen[n].low = frozen[n].want
    OBVIOUS
  <2>1. /\ timer[n] \in CounterStates /\ Promised(timer[n], frozen[n])
        /\ frozen[n] \in [want : {NoByte} \cup CountRange, low : {NoByte} \cup 0..(ByteSize - 1)]
    BY DEF IInv, Surroundings, Freezing
  <2> QED BY <2>1, ReadsPromised
<1> QED BY <1>1, Invariant, PTL DEF CountIsOneMoment
-----------------------------------------------------------------------------
(***************************************************************************)
(* The arithmetic of the 8080, the 8085 and the Z80, for all decimals,     *)
(* bytes and words.                                                        *)
(*                                                                         *)
(* A rig of one or two instructions is its start, one step on or two       *)
(* (RigRuns); a step is a fetch and an instruction (I80Runs and the like), *)
(* the instruction leaves a sum or a difference with its flags, and what   *)
(* DAA makes of it, or what the flags say of the order, is arithmetic.     *)
(***************************************************************************)
\* The registers by number, and the fields of a core that every instruction reads.
Numbers == {0, 1, 2, 3, 4, 5, 7}
Core == {"r", "sp", "pc", "mem", "s", "z", "p", "ac", "cy", "ie", "ei", "halted", "intFetch"}

\* A core between two instructions that no interrupt can reach.
Idle(c) == Core \subseteq DOMAIN c /\ ~c.halted /\ ~c.ei /\ ~c.ie /\ ~c.intFetch /\ DOMAIN c.r = Numbers

\* The opcode o stands where its program counter points.
Reads(c, o) == c.pc \in Nat /\ c.pc < 65536 /\ c.pc \in DOMAIN c.mem /\ c.mem[c.pc] = o
Ready(c, o) == Idle(c) /\ Reads(c, o)

\* One byte on.
Forward(c) == [c EXCEPT !.pc = (c.pc + 1) % 65536]

\* An instruction that touches registers and flags only, as every one here does.
Inside(c, t) ==
  /\ DOMAIN t = DOMAIN c /\ DOMAIN t.r = DOMAIN c.r
  /\ t.pc = c.pc /\ t.mem = c.mem /\ t.halted = c.halted /\ t.ei = c.ei /\ t.ie = c.ie /\ t.intFetch = c.intFetch

\* A program counter below the end of memory is the address it names.
LEMMA Addressed ==
  ASSUME NEW c, NEW o, Reads(c, o)
  PROVE  c.pc % 65536 = c.pc
<1>1. \A p \in Nat : p < 65536 => p % 65536 = p
  OBVIOUS
<1> QED BY <1>1 DEF Reads

\* The 8080 fetches and executes.
LEMMA I80Fetches ==
  ASSUME NEW c, NEW o \in 0..255, Ready(c, o), o # 118
  PROVE  I80!Step(c, FALSE) = [I80!Execute(Forward(c), o) EXCEPT !.intFetch = FALSE]
<1>1. c.pc % 65536 = c.pc
  BY Addressed DEF Ready
<1>2. I80!At(c, c.pc) = o
  BY <1>1 DEF I80!At, I80!Addr, Ready, Reads
<1>3. ~I80!Takes(c, FALSE) /\ ~c.halted /\ ~c.intFetch /\ ~c.ei
  BY DEF I80!Takes, Ready, Idle
<1>4. I80!Past(c, 1) = Forward(c)
  BY <1>3 DEF I80!Past, I80!Addr, Forward
<1> QED BY <1>2, <1>3, <1>4, ZenonT(60) DEF I80!Step, I80!Shadow

\* ADC B, DAA, CMP B and SUB B as its decode finds them.
LEMMA I80Decodes ==
  ASSUME NEW c
  PROVE  /\ I80!Execute(c, 136) = I80!Add(c, c.r[0], I80!One(c.cy))
         /\ I80!Execute(c, 39) = I80!Daa(c)
         /\ I80!Execute(c, 184) = I80!Cmp(c, c.r[0])
         /\ I80!Execute(c, 144) = I80!Sub(c, c.r[0], 0)
<1>1. I80!Get(c, 0) = c.r[0]
  BY DEF I80!Get, I80!M
<1>2. I80!Execute(c, 136) = I80!Alu(c, 1, c.r[0])
  BY <1>1 DEF I80!Execute
<1>3. I80!Execute(c, 39) = I80!Accumulator(c, 4)
  BY DEF I80!Execute, I80!FirstBlock
<1>4. I80!Execute(c, 184) = I80!Alu(c, 7, c.r[0])
  BY <1>1 DEF I80!Execute
<1>5. I80!Execute(c, 144) = I80!Alu(c, 2, c.r[0])
  BY <1>1 DEF I80!Execute
<1> QED BY <1>2, <1>3, <1>4, <1>5 DEF I80!Alu, I80!Accumulator

\* What its DAA leaves in A and in the carry.
HighDigit(a, cy) == cy \/ a \div 16 > 9 \/ (a \div 16 = 9 /\ a % 16 > 9)
Adjusted(a, cy, ac) == (a + (IF ac \/ a % 16 > 9 THEN 6 ELSE 0) + IF HighDigit(a, cy) THEN 96 ELSE 0) % 256

\* The 8085 has four restarts of its own, which nothing asks for here, and two flags more.
Alone(c) == {"trap", "p75", "p65", "p55", "m75", "m65", "m55", "v", "k"} \subseteq DOMAIN c /\ ~c.trap

\* The 8085 fetches and executes.
LEMMA I85Fetches ==
  ASSUME NEW c, NEW o \in 0..255, Ready(c, o), Alone(c), o # 118
  PROVE  I85!Step(c, FALSE) = [I85!Execute(Forward(c), o) EXCEPT !.intFetch = FALSE]
<1>1. c.pc % 65536 = c.pc
  BY Addressed DEF Ready
<1>2. I85!At(c, c.pc) = o
  BY <1>1 DEF I85!At, I85!Addr, Ready, Reads
<1>3. ~I85!OnChip(c)
  BY DEF I85!OnChip, I85!Restart75, I85!Restart65, I85!Restart55, Ready, Idle, Alone
<1>4. ~I85!Takes(c, FALSE) /\ ~c.halted /\ ~c.intFetch /\ ~c.ei
  BY <1>3 DEF I85!Takes, Ready, Idle
<1>5. I85!Past(c, 1) = Forward(c)
  BY <1>4 DEF I85!Past, I85!Addr, Forward
<1> QED BY <1>2, <1>3, <1>4, <1>5, ZenonT(60) DEF I85!Step, I85!Shadow

\* ADC B, DAA, CMP B, SUB B and DSUB as its decode finds them.
LEMMA I85Decodes ==
  ASSUME NEW c
  PROVE  /\ I85!Execute(c, 136) = I85!Add(c, c.r[0], I85!One(c.cy))
         /\ I85!Execute(c, 39) = I85!Daa(c)
         /\ I85!Execute(c, 184) = I85!Cmp(c, c.r[0])
         /\ I85!Execute(c, 144) = I85!Sub(c, c.r[0], 0)
         /\ I85!Execute(c, 8) = I85!Dsub(c)
<1>1. I85!Get(c, 0) = c.r[0]
  BY DEF I85!Get, I85!M
<1>2. I85!Execute(c, 136) = I85!Alu(c, 1, c.r[0])
  BY <1>1 DEF I85!Execute, I85!Holes
<1>3. I85!Execute(c, 39) = I85!Accumulator(c, 4)
  BY DEF I85!Execute, I85!FirstBlock, I85!Holes
<1>4. I85!Execute(c, 184) = I85!Alu(c, 7, c.r[0])
  BY <1>1 DEF I85!Execute, I85!Holes
<1>5. I85!Execute(c, 144) = I85!Alu(c, 2, c.r[0])
  BY <1>1 DEF I85!Execute, I85!Holes
<1>6. I85!Execute(c, 8) = I85!Undocumented(c, 1)
  BY DEF I85!Execute, I85!FirstBlock, I85!Holes
<1> QED BY <1>2, <1>3, <1>4, <1>5, <1>6 DEF I85!Alu, I85!Accumulator, I85!Undocumented

\* A byte or a word less another: what the adder's carry says of the order and of equality.
LEMMA Orders ==
  ASSUME NEW m \in {256, 65536}, NEW x \in Nat, x < m, NEW y \in Nat, y < m
  PROVE  /\ (x + ((m - 1) - y) + 1 - 0 > m - 1) <=> ~(x < y)
         /\ ((x + ((m - 1) - y) + 1 - 0) % m = 0) <=> (x = y)
<1>1. CASE x < y
  BY <1>1
<1>2. CASE x = y
  BY <1>2
<1>3. CASE x > y
  BY <1>3
<1> QED BY <1>1, <1>2, <1>3

\* The overflow of a subtraction against its sign is the signed order.
LEMMA OverflowOrders ==
  ASSUME NEW a \in 0..255, NEW v \in 0..255
  PROVE  (I85!AddOverflow(a, 255 - v, 1) # ((a + (255 - v) + 1) % 256 >= 128)) <=> (Signed(a, 256) < Signed(v, 256))
<1> DEFINE w == 255 - v
<1>1. (a % 128 = IF a < 128 THEN a ELSE a - 128) /\ (w % 128 = IF w < 128 THEN w ELSE w - 128) /\ w \in 0..255
  OBVIOUS
<1>2. (a + w + 1) % 256 = IF a + w + 1 < 256 THEN a + w + 1 ELSE IF a + w + 1 < 512 THEN a + w + 1 - 256 ELSE 0
  BY <1>1
<1>3. 256 \div 2 = 128
  OBVIOUS
<1> QED BY <1>1, <1>2, <1>3 DEF I85!AddOverflow, Signed

\* The fields a Z80 has beside.
Z80Core == {"n", "ix", "iy", "i", "refresh", "im", "r2", "f2", "iff2", "nmiLast"}

\* With no NMI in sight it fetches what it reads, counting in R.
Onward(c) == Z80!Fetched([c EXCEPT !.nmiLast = FALSE])

\* A fetch is one byte on, R apart.
LEMMA Z80Moves ==
  ASSUME NEW c, NEW o \in 0..255, Ready(c, o), Z80Core \subseteq DOMAIN c
  PROVE  LET t == Onward(c) IN
         /\ DOMAIN t = DOMAIN c /\ t.pc = (c.pc + 1) % 65536 /\ t.mem = c.mem /\ t.r = c.r /\ t.n = c.n
         /\ t.cy = c.cy /\ t.ac = c.ac
         /\ t.halted = c.halted /\ t.ei = c.ei /\ t.ie = c.ie /\ t.intFetch = c.intFetch
<1>1. ~c.intFetch
  BY DEF Ready, Idle
<1> QED BY <1>1 DEF Onward, Z80!Fetched, Z80!Refresh, Z80!Past, Z80!Addr, Ready, Idle, Core, Z80Core

\* The Z80 fetches and executes.
LEMMA Z80Fetches ==
  ASSUME NEW c, NEW o \in 0..255, Ready(c, o), Z80Core \subseteq DOMAIN c
  PROVE  Z80!Step(c, FALSE, FALSE) = [Z80!Dispatch(Onward(c), o) EXCEPT !.intFetch = FALSE]
<1> DEFINE k == [c EXCEPT !.nmiLast = FALSE]
<1>1. k.pc = c.pc /\ k.mem = c.mem /\ k.ie = c.ie /\ k.ei = c.ei /\ k.halted = c.halted /\ k.intFetch = c.intFetch
  BY DEF Ready, Idle, Core
<1>2. ~k.ie /\ ~k.ei /\ ~k.halted /\ ~k.intFetch
  BY <1>1 DEF Ready, Idle
<1>3. Z80!Opcode(k) = o
  <2>1. c.pc % 65536 = c.pc /\ c.pc + 0 = c.pc
    BY Addressed DEF Ready, Reads
  <2> QED BY <1>1, <1>2, <2>1 DEF Z80!Opcode, Z80!Operand, Z80!At, Z80!Addr, Ready, Reads
<1>4. ~Z80!NmiEdge(c, FALSE)
  BY DEF Z80!NmiEdge
<1> HIDE DEF k
<1>5. Z80!Step(c, FALSE, FALSE) = [Z80!Dispatch(Z80!Fetched(k), o) EXCEPT !.intFetch = FALSE]
  BY <1>2, <1>3, <1>4 DEF Z80!Step, Z80!Shadow, k
<1> QED BY <1>5 DEF Onward, k

\* ADC, SBC, DAA, CP and SUB as its decode finds them.
LEMMA Z80Decodes ==
  ASSUME NEW c
  PROVE  /\ Z80!Dispatch(c, 136) = Z80!AddA(c, c.r[0], Z80!One(c.cy))
         /\ Z80!Dispatch(c, 152) = Z80!SubA(c, c.r[0], Z80!One(c.cy), TRUE)
         /\ Z80!Dispatch(c, 39) = Z80!Daa(c)
         /\ Z80!Dispatch(c, 184) = Z80!SubA(c, c.r[0], 0, FALSE)
         /\ Z80!Dispatch(c, 144) = Z80!SubA(c, c.r[0], 0, TRUE)
<1> DEFINE x == Z80!Plain
<1>1. \A o \in {136, 152, 39, 184, 144} : Z80!Dispatch(c, o) = Z80!ExecMain(c, x, o)
  BY DEF Z80!Dispatch
<1>2. Z80!GetR(c, x, 0) = c.r[0]
  BY DEF Z80!GetR, Z80!Halves, Z80!Plain, Z80!M
<1> HIDE DEF x
<1>3. Z80!ExecMain(c, x, 136) = Z80!Alu(c, 1, c.r[0])
  BY <1>2 DEF Z80!ExecMain
<1>4. Z80!ExecMain(c, x, 152) = Z80!Alu(c, 3, c.r[0])
  BY <1>2 DEF Z80!ExecMain
<1>5. Z80!ExecMain(c, x, 39) = Z80!Accumulator(c, 4)
  BY DEF Z80!ExecMain, Z80!FirstBlock
<1>6. Z80!ExecMain(c, x, 184) = Z80!Alu(c, 7, c.r[0])
  BY <1>2 DEF Z80!ExecMain
<1>7. Z80!ExecMain(c, x, 144) = Z80!Alu(c, 2, c.r[0])
  BY <1>2 DEF Z80!ExecMain
<1>8. /\ \A v : Z80!Alu(c, 1, v) = Z80!AddA(c, v, Z80!One(c.cy))
      /\ \A v : Z80!Alu(c, 3, v) = Z80!SubA(c, v, Z80!One(c.cy), TRUE)
      /\ \A v : Z80!Alu(c, 7, v) = Z80!SubA(c, v, 0, FALSE)
      /\ \A v : Z80!Alu(c, 2, v) = Z80!SubA(c, v, 0, TRUE)
  BY DEF Z80!Alu
<1>9. Z80!Accumulator(c, 4) = Z80!Daa(c)
  BY DEF Z80!Accumulator
<1>10. Z80!Dispatch(c, 136) = Z80!AddA(c, c.r[0], Z80!One(c.cy))
  BY <1>1, <1>3, <1>8
<1>11. Z80!Dispatch(c, 152) = Z80!SubA(c, c.r[0], Z80!One(c.cy), TRUE)
  <2>1. Z80!Dispatch(c, 152) = Z80!ExecMain(c, x, 152)
    BY <1>1
  <2>2. Z80!Alu(c, 3, c.r[0]) = Z80!SubA(c, c.r[0], Z80!One(c.cy), TRUE)
    BY <1>8
  <2> QED BY ONLY <1>4, <2>1, <2>2
<1>12. Z80!Dispatch(c, 39) = Z80!Daa(c)
  BY <1>1, <1>5, <1>9
<1>13. Z80!Dispatch(c, 184) = Z80!SubA(c, c.r[0], 0, FALSE)
  <2>1. Z80!Dispatch(c, 184) = Z80!ExecMain(c, x, 184)
    BY <1>1
  <2>2. Z80!Alu(c, 7, c.r[0]) = Z80!SubA(c, c.r[0], 0, FALSE)
    BY <1>8
  <2> QED BY ONLY <1>6, <2>1, <2>2
<1>14. Z80!Dispatch(c, 144) = Z80!SubA(c, c.r[0], 0, TRUE)
  BY <1>1, <1>7, <1>8, ZenonT(60)
<1> QED BY <1>10, <1>11, <1>12, <1>13, <1>14

\* Two decimal numbers and a borrow through the Z80's subtraction and its DAA.
Taken(a, cy, ac) == (a + 256 - ((IF cy \/ a > 153 THEN 96 ELSE 0) + IF ac \/ a % 16 > 9 THEN 6 ELSE 0)) % 256

\* The high six of the 8080's DAA and of the Z80's are one.
LEMMA HighSixes ==
  ASSUME NEW a \in 0..255, NEW cy \in BOOLEAN
  PROVE  HighDigit(a, cy) <=> cy \/ a > 153
BY DEF HighDigit

\* What the Z80's DAA leaves in A and in the carry.
LEMMA Z80Adjusts ==
  ASSUME NEW c, Idle(c), Z80Core \subseteq DOMAIN c, NEW a \in 0..255, c.r[7] = a,
         c.cy \in BOOLEAN, c.ac \in BOOLEAN, c.n \in BOOLEAN, NEW t, t = Z80!Daa(c)
  PROVE  /\ t.r[7] = (IF c.n THEN Taken(a, c.cy, c.ac) ELSE Adjusted(a, c.cy, c.ac))
         /\ t.cy = (c.cy \/ a > 153)
<1> DEFINE six == (IF c.cy \/ a > 153 THEN 96 ELSE 0) + (IF c.ac \/ a % 16 > 9 THEN 6 ELSE 0)
           v == (a + (IF c.n THEN 256 - six ELSE six)) % 256
<1>1. t.r[7] = v /\ t.cy = (c.cy \/ a > 153)
  BY DEF Z80!Daa, Z80!SZP, Z80!Byte, Z80!Low, Z80!A, Idle, Core, Z80Core, Numbers
<1>2. c.n => v = Taken(a, c.cy, c.ac)
  BY DEF Taken
<1>3. ~c.n => v = Adjusted(a, c.cy, c.ac)
  BY HighSixes DEF Adjusted
<1> QED BY <1>1, <1>2, <1>3

\* What SBC HL,BC leaves in the carry, Z, S and P/V.
LEMMA Z80Subtracts2 ==
  ASSUME NEW c, Idle(c), Z80Core \subseteq DOMAIN c, ~c.cy,
         NEW x \in Nat, x < 65536, NEW y \in Nat, y < 65536, Z80!Pair(c, 2) = x, NEW t, t = Z80!SbcHL(c, y)
  PROVE  t.cy = (x < y) /\ t.z = (x = y) /\ (t.s # t.p) = (Signed(x, 65536) < Signed(y, 65536))
<1> DEFINE d == (x - y) % 65536
<1>1. x - y - 0 = x - y /\ (x - y < 0 <=> x < y)
  OBVIOUS
<1>2. Z80!One(c.cy) = 0
  BY DEF Z80!One
<1>3. /\ t.cy = (x - y - 0 < 0) /\ t.z = ((x - y - 0) % 65536 = 0) /\ t.s = ((x - y - 0) % 65536 > 32767)
      /\ t.p = ((x > 32767) # (y > 32767) /\ (x > 32767) # ((x - y - 0) % 65536 > 32767))
  BY <1>2 DEF Z80!SbcHL, Z80!Wide, Z80!WithPair, Z80!HL, Z80!Addr, Idle, Core, Z80Core
<1>4. d = (x - y) % 65536 /\ x \in Nat /\ x < 65536 /\ y \in Nat /\ y < 65536
  OBVIOUS
<1> HIDE DEF d
<1>5. /\ ((d > 32767) # ((x > 32767) # (y > 32767) /\ (x > 32767) # (d > 32767))) <=> (Signed(x, 65536) < Signed(y, 65536))
      /\ d = 0 <=> x = y
  <2>1. d = IF x < y THEN x - y + 65536 ELSE x - y
    BY <1>4
  <2>2. 65536 \div 2 = 32768
    OBVIOUS
  <2> QED BY ONLY <1>4, <2>1, <2>2 DEF Signed
<1>6. t.cy = (x < y) /\ t.z = (x = y)
  BY <1>1, <1>3, <1>4, <1>5
<1>7. t.s = (d > 32767) /\ t.p = ((x > 32767) # (y > 32767) /\ (x > 32767) # (d > 32767))
  BY ONLY <1>1, <1>3, <1>4
<1>8. (t.s # t.p) = (Signed(x, 65536) < Signed(y, 65536))
  BY ONLY <1>5, <1>7
<1> QED BY <1>6, <1>8

\* The last field of a fetch is set.
FetchOver(e) == [e EXCEPT !.intFetch = FALSE]

\* The core c has fetched the byte it points at.
Advanced(c, f) ==
  /\ DOMAIN f = DOMAIN c /\ f.r = c.r /\ f.mem = c.mem /\ Idle(f)
  /\ f.cy = c.cy /\ f.ac = c.ac /\ f.halted = c.halted /\ f.ei = c.ei /\ f.ie = c.ie /\ f.intFetch = c.intFetch
  /\ c.pc = 256 => f.pc = 257
  /\ "trap" \in DOMAIN c => f.trap = c.trap
  /\ "n" \in DOMAIN c => f.n = c.n

\* What an addition of v and a carry k to a leaves, and a decimal adjustment of a.
Preserved(c, t) == Inside(c, t) /\ ("trap" \in DOMAIN c => t.trap = c.trap)
Summed(c, a, v, k, t) ==
  /\ Preserved(c, t) /\ t.r[7] = (a + v + k) % 256
  /\ t.cy = (a + v + k > 255) /\ t.ac = ((a % 16) + (v % 16) + k > 15)
Corrected(a, cy, ac, t) == t.r[7] = Adjusted(a, cy, ac) /\ t.cy = HighDigit(a, cy)

\* And of a subtraction, in the carry and in Z.
Ordered(x, y, t) == t.cy = (x < y) /\ t.z = (x = y)

\* A core as it starts on two bytes of program.
SetUp(c, o, q, a, v, k) ==
  /\ Ready(c, o) /\ c.pc = 256 /\ 257 \in DOMAIN c.mem /\ c.mem[257] = q
  /\ c.r[7] = a /\ c.r[0] = v /\ c.cy = (k = 1)

\* And between the two.
Midway(c, q, a, v, k, t) ==
  /\ Ready(t, q) /\ t.r[7] = (a + v + k) % 256 /\ t.cy = (a + v + k > 255)
  /\ t.ac = ((a % 16) + (v % 16) + k > 15)
  /\ DOMAIN t = DOMAIN c /\ ("trap" \in DOMAIN c => t.trap = c.trap)

\* One step of each.
I80Once(c, t) == t = I80!Step(c, FALSE)
I85Once(c, t) == t = I85!Step(c, FALSE)
Z80Once(c, t) == t = Z80!Step(c, FALSE, FALSE)

\* Two bytes, the opcode of CMP B or of SUB B, and a word by its halves.
Bytes2(x, y) == x \in 0..255 /\ y \in 0..255
Pick(o) == o \in {184, 144}
Halves2(x, h, l) == h \in 0..255 /\ l \in 0..255 /\ x = 256 * h + l

\* One byte on is a fetch.
LEMMA Forwards ==
  ASSUME NEW c, NEW o, Ready(c, o)
  PROVE  Advanced(c, Forward(c))
BY DEF Forward, Ready, Idle, Core, Advanced

\* And so is the Z80's, which counts in R as well.
LEMMA Onwards ==
  ASSUME NEW c, NEW o \in 0..255, Ready(c, o), Z80Core \subseteq DOMAIN c
  PROVE  Advanced(c, Onward(c))
<1> DEFINE t == Onward(c)
<1>1. /\ DOMAIN t = DOMAIN c /\ t.pc = (c.pc + 1) % 65536 /\ t.mem = c.mem /\ t.r = c.r /\ t.n = c.n
      /\ t.cy = c.cy /\ t.ac = c.ac
      /\ t.halted = c.halted /\ t.ei = c.ei /\ t.ie = c.ie /\ t.intFetch = c.intFetch
  BY Z80Moves
<1>2. "trap" \in DOMAIN c => t.trap = c.trap
  BY DEF Onward, Z80!Fetched, Z80!Refresh, Z80!Past, Ready, Idle, Core, Z80Core
<1> HIDE DEF t
<1>3. Idle(t)
  BY <1>1 DEF Ready, Idle
<1>4. c.pc = 256 => t.pc = 257
  BY <1>1
<1> QED BY <1>1, <1>2, <1>3, <1>4, SMTT(60) DEF Advanced, t

\* What is left of the first instruction, when the last field of a fetch is set.
LEMMA Sums ==
  ASSUME NEW c, NEW o, NEW q, NEW a, NEW v, NEW k, SetUp(c, o, q, a, v, k), NEW f, Advanced(c, f),
         NEW e, Summed(f, a, v, k, e), NEW t, t = FetchOver(e)
  PROVE  Midway(c, q, a, v, k, t) /\ ("n" \in DOMAIN c => t.n = e.n)
<1>1. DOMAIN e = DOMAIN c /\ DOMAIN e.r = DOMAIN c.r /\ e.pc = 257 /\ e.mem = c.mem
  BY DEF SetUp, Advanced, Summed, Preserved, Inside
<1>2. ~e.halted /\ ~e.ei /\ ~e.ie
  BY DEF SetUp, Ready, Idle, Advanced, Summed, Preserved, Inside
<1>3. "trap" \in DOMAIN c => e.trap = c.trap
  BY DEF Advanced, Summed, Preserved
<1>4. Core \subseteq DOMAIN c
  BY DEF SetUp, Ready, Idle
<1>5. DOMAIN t = DOMAIN e /\ ~t.intFetch /\ t.r = e.r /\ t.pc = e.pc /\ t.mem = e.mem /\ t.cy = e.cy /\ t.ac = e.ac
  BY <1>1, <1>4 DEF Core, FetchOver
<1>6. t.halted = e.halted /\ t.ei = e.ei /\ t.ie = e.ie
  BY <1>1, <1>4 DEF Core, FetchOver
<1>7. ("trap" \in DOMAIN c => t.trap = c.trap) /\ ("n" \in DOMAIN c => t.n = e.n)
  BY <1>1, <1>3 DEF FetchOver
<1>8. Ready(t, q)
  BY <1>1, <1>2, <1>4, <1>5, <1>6 DEF SetUp, Ready, Idle, Reads
<1>9. e.r[7] = (a + v + k) % 256 /\ e.cy = (a + v + k > 255) /\ e.ac = ((a % 16) + (v % 16) + k > 15)
  BY DEF Summed
<1> QED BY <1>1, <1>5, <1>7, <1>8, <1>9 DEF Midway

\* Which moves no register and no flag.
LEMMA EndsRight ==
  ASSUME NEW e, Core \subseteq DOMAIN e
  PROVE  /\ FetchOver(e).r = e.r /\ FetchOver(e).cy = e.cy /\ FetchOver(e).z = e.z /\ FetchOver(e).s = e.s /\ FetchOver(e).p = e.p
         /\ "k" \in DOMAIN e => FetchOver(e).k = e.k
BY DEF Core, FetchOver

\* A corrected A is corrected when the fetch is over.
LEMMA EndsCorrected ==
  ASSUME NEW e, Core \subseteq DOMAIN e, NEW a, NEW cy, NEW ac, Corrected(a, cy, ac, e)
  PROVE  Corrected(a, cy, ac, FetchOver(e))
BY EndsRight DEF Corrected

\* An order shown is shown when the fetch is over.
LEMMA EndsOrdered ==
  ASSUME NEW e, Core \subseteq DOMAIN e, NEW x, NEW y, Ordered(x, y, e)
  PROVE  Ordered(x, y, FetchOver(e))
BY EndsRight DEF Ordered

\* The four instructions as one step of the 8080.
LEMMA I80Runs ==
  ASSUME NEW c
  PROVE  /\ Ready(c, 136) => I80!Step(c, FALSE) = FetchOver(I80!Add(Forward(c), Forward(c).r[0], I80!One(Forward(c).cy)))
         /\ Ready(c, 39) => I80!Step(c, FALSE) = FetchOver(I80!Daa(Forward(c)))
         /\ Ready(c, 184) => I80!Step(c, FALSE) = FetchOver(I80!Cmp(Forward(c), Forward(c).r[0]))
         /\ Ready(c, 144) => I80!Step(c, FALSE) = FetchOver(I80!Sub(Forward(c), Forward(c).r[0], 0))
<1>1. ASSUME Ready(c, 136)
      PROVE  I80!Step(c, FALSE) = FetchOver(I80!Execute(Forward(c), 136))
  <2>1. 136 \in 0..255 /\ 136 # 118 /\ Ready(c, 136)
    BY <1>1, SMTT(60)
  <2> QED BY ONLY <2>1, I80Fetches, ZenonT(60) DEF FetchOver
<1>2. ASSUME Ready(c, 39)
      PROVE  I80!Step(c, FALSE) = FetchOver(I80!Execute(Forward(c), 39))
  <2>1. 39 \in 0..255 /\ 39 # 118 /\ Ready(c, 39)
    BY <1>2
  <2> QED BY ONLY <2>1, I80Fetches, ZenonT(60) DEF FetchOver
<1>3. ASSUME Ready(c, 184)
      PROVE  I80!Step(c, FALSE) = FetchOver(I80!Execute(Forward(c), 184))
  <2>1. 184 \in 0..255 /\ 184 # 118 /\ Ready(c, 184)
    BY <1>3
  <2> QED BY ONLY <2>1, I80Fetches, ZenonT(60) DEF FetchOver
<1>4. ASSUME Ready(c, 144)
      PROVE  I80!Step(c, FALSE) = FetchOver(I80!Execute(Forward(c), 144))
  <2>1. 144 \in 0..255 /\ 144 # 118 /\ Ready(c, 144)
    BY <1>4
  <2> QED BY ONLY <2>1, I80Fetches, ZenonT(60) DEF FetchOver
<1> QED BY <1>1, <1>2, <1>3, <1>4, I80Decodes, ZenonT(60)

\* What its arithmetic leaves.
LEMMA I80Sums ==
  ASSUME NEW c, Idle(c), NEW a \in 0..255, c.r[7] = a, NEW v \in 0..255, NEW k \in {0, 1}
  PROVE  Summed(c, a, v, k, I80!Add(c, v, k))
<1>1. Preserved(c, I80!Add(c, v, k))
  BY DEF I80!Add, I80!SetSZP, Idle, Core, Inside, Preserved
<1> QED BY <1>1 DEF I80!Add, I80!SetSZP, I80!Byte, I80!Low, I80!A, Idle, Core, Summed, Numbers

\* DAA of the 8080 corrects A by the two digits.
LEMMA I80Corrects ==
  ASSUME NEW c, Idle(c), NEW a \in 0..255, c.r[7] = a, c.cy \in BOOLEAN, c.ac \in BOOLEAN
  PROVE  Corrected(a, c.cy, c.ac, I80!Daa(c)) /\ Core \subseteq DOMAIN I80!Daa(c)
<1>1. DOMAIN I80!Daa(c) = DOMAIN c
  BY DEF I80!Daa, I80!SetSZP
<1>2. I80!HighSix(c) = HighDigit(a, c.cy)
  BY DEF I80!HighSix, I80!High, I80!Low, I80!A, HighDigit
<1>3. Corrected(a, c.cy, c.ac, I80!Daa(c))
  BY <1>2, ZenonT(60) DEF I80!Daa, I80!SetSZP, I80!Byte, I80!Low, I80!A, Idle, Core, Adjusted, HighDigit, Numbers, Corrected
<1> QED BY <1>1, <1>3 DEF Idle

\* CMP and SUB of the 8080 show the order of two bytes.
LEMMA I80Orders ==
  ASSUME NEW c, Idle(c), NEW a \in 0..255, c.r[7] = a, NEW v \in 0..255
  PROVE  /\ Ordered(a, v, I80!Sub(c, v, 0)) /\ Core \subseteq DOMAIN I80!Sub(c, v, 0)
         /\ Ordered(a, v, I80!Cmp(c, v)) /\ Core \subseteq DOMAIN I80!Cmp(c, v)
<1> DEFINE s == a + (255 - v) + 1 - 0
<1>1. (s > 255 <=> ~(a < v)) /\ (s % 256 = 0 <=> a = v)
  BY Orders
<1>2. I80!Sub(c, v, 0).cy = ~(s > 255) /\ I80!Sub(c, v, 0).z = (s % 256 = 0)
  BY DEF I80!Sub, I80!SetSZP, I80!Byte, I80!Not, I80!Low, I80!A, Idle, Core
<1> HIDE DEF s
<1>3. I80!Cmp(c, v).cy = I80!Sub(c, v, 0).cy /\ I80!Cmp(c, v).z = I80!Sub(c, v, 0).z
  BY DEF I80!Cmp, I80!Sub, I80!SetSZP, Idle, Core
<1>4. DOMAIN I80!Sub(c, v, 0) = DOMAIN c /\ DOMAIN I80!Cmp(c, v) = DOMAIN c
  BY DEF I80!Cmp, I80!Sub, I80!SetSZP
<1> QED BY <1>1, <1>2, <1>3, <1>4 DEF Ordered, Idle

\* ADC B and DAA on the 8080.
LEMMA I80Decimal ==
  ASSUME NEW a \in 0..255, NEW v \in 0..255, NEW k \in {0, 1}, NEW c, SetUp(c, 136, 39, a, v, k),
         NEW t, t = I80!Step(I80!Step(c, FALSE), FALSE)
  PROVE  Corrected((a + v + k) % 256, a + v + k > 255, (a % 16) + (v % 16) + k > 15, t)
<1> DEFINE f == Forward(c)
           u == I80!Step(c, FALSE)
           g == Forward(u)
           s == a + v + k
           h == (a % 16) + (v % 16) + k > 15
<1>1. Ready(c, 136)
  BY DEF SetUp
<1>2. Advanced(c, f)
  BY <1>1, Forwards
<1>3. u = FetchOver(I80!Add(f, f.r[0], I80!One(f.cy)))
  BY <1>1, I80Runs
<1> HIDE DEF f, u
<1>4. Idle(f) /\ f.r[7] = a /\ f.r[0] = v /\ I80!One(f.cy) = k
  BY <1>2, ZenonT(60) DEF Advanced, SetUp, I80!One
<1>5. Summed(f, a, v, k, I80!Add(f, v, k))
  BY <1>4, I80Sums, ZenonT(60)
<1>6. u = FetchOver(I80!Add(f, v, k))
  BY <1>3, <1>4
<1>7. Ready(u, 39) /\ u.r[7] = s % 256 /\ u.cy = (s > 255) /\ u.ac = h
  <2>1. Midway(c, 39, a, v, k, u)
    BY <1>2, <1>5, <1>6, Sums
  <2> QED BY ONLY <2>1 DEF Midway
<1>8. Advanced(u, g)
  BY <1>7, Forwards
<1>9. t = FetchOver(I80!Daa(g))
  BY <1>7, I80Runs DEF u
<1> HIDE DEF g
<1>10. s % 256 \in 0..255 /\ (s > 255) \in BOOLEAN /\ h \in BOOLEAN
  OBVIOUS
<1> HIDE DEF s, h
<1>11. Idle(g) /\ g.r[7] = s % 256 /\ g.cy = (s > 255) /\ g.ac = h
  BY <1>7, <1>8 DEF Advanced
<1>12. Corrected(s % 256, g.cy, g.ac, I80!Daa(g)) /\ Core \subseteq DOMAIN I80!Daa(g)
  BY <1>10, <1>11, I80Corrects, ZenonT(60)
<1>13. Corrected(s % 256, g.cy, g.ac, t)
  BY <1>9, <1>12, EndsCorrected, ZenonT(60)
<1> QED BY <1>11, <1>13, ZenonT(60) DEF s, h

\* CMP B and SUB B.
LEMMA I80Compares ==
  ASSUME NEW a, NEW v, Bytes2(a, v), NEW o, Pick(o), NEW c, Ready(c, o), c.r[7] = a, c.r[0] = v, NEW t, I80Once(c, t)
  PROVE  Ordered(a, v, t)
<1> DEFINE f == Forward(c)
<1>0. a \in 0..255 /\ v \in 0..255 /\ o \in {184, 144} /\ t = I80!Step(c, FALSE)
  BY DEF Bytes2, Pick, I80Once
<1>1. Advanced(c, f)
  BY Forwards
<1>2. \/ o = 184 /\ t = FetchOver(I80!Cmp(f, f.r[0]))
      \/ o = 144 /\ t = FetchOver(I80!Sub(f, f.r[0], 0))
  BY <1>0, I80Runs, ZenonT(60)
<1> HIDE DEF f
<1>3. Idle(f) /\ f.r[7] = a /\ f.r[0] = v
  BY <1>1 DEF Advanced
<1>4. /\ Ordered(a, v, I80!Sub(f, v, 0)) /\ Core \subseteq DOMAIN I80!Sub(f, v, 0)
      /\ Ordered(a, v, I80!Cmp(f, v)) /\ Core \subseteq DOMAIN I80!Cmp(f, v)
  BY <1>0, <1>3, I80Orders, ZenonT(60)
<1>5. Ordered(a, v, FetchOver(I80!Sub(f, v, 0))) /\ Ordered(a, v, FetchOver(I80!Cmp(f, v)))
  BY ONLY <1>4, EndsOrdered
<1> QED BY ONLY <1>2, <1>3, <1>5

\* What a comparison leaves on the 8085, K included.
Tells(x, y, m, t) == Ordered(x, y, t) /\ t.k = (Signed(x, m) < Signed(y, m))

\* And with K when the fetch is over.
LEMMA EndsTold ==
  ASSUME NEW e, Core \subseteq DOMAIN e, "k" \in DOMAIN e, NEW x, NEW y, NEW m, Tells(x, y, m, e)
  PROVE  Tells(x, y, m, FetchOver(e))
BY EndsRight, EndsOrdered DEF Tells

\* The five instructions as one step of the 8085.
LEMMA I85Runs ==
  ASSUME NEW c
  PROVE  /\ Ready(c, 136) /\ Alone(c) => I85!Step(c, FALSE) = FetchOver(I85!Add(Forward(c), Forward(c).r[0], I85!One(Forward(c).cy)))
         /\ Ready(c, 39) /\ Alone(c) => I85!Step(c, FALSE) = FetchOver(I85!Daa(Forward(c)))
         /\ Ready(c, 184) /\ Alone(c) => I85!Step(c, FALSE) = FetchOver(I85!Cmp(Forward(c), Forward(c).r[0]))
         /\ Ready(c, 144) /\ Alone(c) => I85!Step(c, FALSE) = FetchOver(I85!Sub(Forward(c), Forward(c).r[0], 0))
         /\ Ready(c, 8) /\ Alone(c) => I85!Step(c, FALSE) = FetchOver(I85!Dsub(Forward(c)))
<1>1. ASSUME Ready(c, 136) /\ Alone(c)
      PROVE  I85!Step(c, FALSE) = FetchOver(I85!Execute(Forward(c), 136))
  <2>1. 136 \in 0..255 /\ 136 # 118 /\ Ready(c, 136) /\ Alone(c)
    BY <1>1
  <2> QED BY ONLY <2>1, I85Fetches, ZenonT(60) DEF FetchOver
<1>2. ASSUME Ready(c, 39) /\ Alone(c)
      PROVE  I85!Step(c, FALSE) = FetchOver(I85!Execute(Forward(c), 39))
  <2>1. 39 \in 0..255 /\ 39 # 118 /\ Ready(c, 39) /\ Alone(c)
    BY <1>2
  <2> QED BY ONLY <2>1, I85Fetches, ZenonT(60) DEF FetchOver
<1>3. ASSUME Ready(c, 184) /\ Alone(c)
      PROVE  I85!Step(c, FALSE) = FetchOver(I85!Execute(Forward(c), 184))
  <2>1. 184 \in 0..255 /\ 184 # 118 /\ Ready(c, 184) /\ Alone(c)
    BY <1>3
  <2> QED BY ONLY <2>1, I85Fetches, ZenonT(60) DEF FetchOver
<1>4. ASSUME Ready(c, 144) /\ Alone(c)
      PROVE  I85!Step(c, FALSE) = FetchOver(I85!Execute(Forward(c), 144))
  <2>1. 144 \in 0..255 /\ 144 # 118 /\ Ready(c, 144) /\ Alone(c)
    BY <1>4
  <2> QED BY ONLY <2>1, I85Fetches, ZenonT(60) DEF FetchOver
<1>5. ASSUME Ready(c, 8) /\ Alone(c)
      PROVE  I85!Step(c, FALSE) = FetchOver(I85!Execute(Forward(c), 8))
  <2>1. 8 \in 0..255 /\ 8 # 118 /\ Ready(c, 8) /\ Alone(c)
    BY <1>5
  <2> QED BY ONLY <2>1, I85Fetches, ZenonT(60) DEF FetchOver
<1> QED BY <1>1, <1>2, <1>3, <1>4, <1>5, I85Decodes, ZenonT(60)

\* What its arithmetic leaves.
LEMMA I85Sums ==
  ASSUME NEW c, Idle(c), Alone(c), NEW a \in 0..255, c.r[7] = a, NEW v \in 0..255, NEW k \in {0, 1}
  PROVE  Summed(c, a, v, k, I85!Add(c, v, k))
<1>1. Preserved(c, I85!Add(c, v, k))
  <2> DEFINE t == I85!Add(c, v, k)
  <2>1. t.trap = c.trap
    BY DEF I85!Add, I85!Settle, Idle, Core, Alone
  <2>2. DOMAIN t = DOMAIN c
    BY ZenonT(60) DEF I85!Add, I85!Settle, Idle, Core, Alone
  <2>3. DOMAIN t.r = DOMAIN c.r
    BY DEF I85!Add, I85!Settle, Idle, Core, Alone
  <2>4. t.pc = c.pc /\ t.mem = c.mem /\ t.halted = c.halted
    BY DEF I85!Add, I85!Settle, Idle, Core, Alone
  <2>5. t.ei = c.ei /\ t.ie = c.ie /\ t.intFetch = c.intFetch
    BY DEF I85!Add, I85!Settle, Idle, Core, Alone
  <2> HIDE DEF t
  <2>6. Preserved(c, t)
    BY ONLY <2>1, <2>2, <2>3, <2>4, <2>5 DEF Inside, Preserved
  <2> QED BY <2>6 DEF t
<1> QED BY <1>1 DEF I85!Add, I85!Settle, I85!Byte, I85!Low, I85!A, Idle, Core, Alone, Summed, Numbers

\* DAA of the 8085 corrects A as the 8080's does.
LEMMA I85Corrects ==
  ASSUME NEW c, Idle(c), Alone(c), NEW a \in 0..255, c.r[7] = a, c.cy \in BOOLEAN, c.ac \in BOOLEAN
  PROVE  Corrected(a, c.cy, c.ac, I85!Daa(c)) /\ Core \subseteq DOMAIN I85!Daa(c)
<1>1. DOMAIN I85!Daa(c) = DOMAIN c
  BY DEF I85!Daa, I85!Settle
<1>2. I85!High(a) = a \div 16 /\ I85!Low(a) = a % 16 /\ I85!A = 7
  BY DEF I85!High, I85!Low, I85!A
<1>3. Corrected(a, c.cy, c.ac, I85!Daa(c))
  BY <1>2 DEF I85!Daa, I85!Settle, I85!Byte, Idle, Core, Alone, Adjusted, HighDigit, Numbers, Corrected
<1> QED BY <1>1, <1>3 DEF Idle

\* CMP and SUB of the 8085 show the order of two bytes, in K the signed one.
LEMMA I85Orders ==
  ASSUME NEW c, Idle(c), Alone(c), NEW a \in 0..255, c.r[7] = a, NEW v \in 0..255
  PROVE  /\ Tells(a, v, 256, I85!Sub(c, v, 0)) /\ Core \cup {"k"} \subseteq DOMAIN I85!Sub(c, v, 0)
         /\ Tells(a, v, 256, I85!Cmp(c, v)) /\ Core \cup {"k"} \subseteq DOMAIN I85!Cmp(c, v)
<1> DEFINE u == I85!Sub(c, v, 0)
           s == a + (255 - v) + 1 - 0
<1>1. (s > 255 <=> ~(a < v)) /\ (s % 256 = 0 <=> a = v)
  BY Orders
<1>2. u.cy = ~(s > 255) /\ u.z = (s % 256 = 0)
  BY DEF I85!Sub, I85!Settle, I85!Byte, I85!Not, I85!A, Idle, Core, Alone
<1>3. u.k = (I85!AddOverflow(a, 255 - v, 1 - 0) # (s % 256 >= 128))
  BY DEF I85!Sub, I85!Settle, I85!Byte, I85!Not, I85!Minus, I85!A, Idle, Core, Alone
<1>4. s = a + (255 - v) + 1 /\ 1 - 0 = 1
  BY SMTT(60)
<1>5. (I85!AddOverflow(a, 255 - v, 1) # ((a + (255 - v) + 1) % 256 >= 128)) <=> (Signed(a, 256) < Signed(v, 256))
  <2>1. a \in 0..255 /\ v \in 0..255
    OBVIOUS
  <2> QED BY ONLY <2>1, OverflowOrders, ZenonT(60)
<1> HIDE DEF s
<1>6. u.k = (Signed(a, 256) < Signed(v, 256))
  BY <1>3, <1>4, <1>5
<1>7. I85!Cmp(c, v).cy = u.cy /\ I85!Cmp(c, v).z = u.z /\ I85!Cmp(c, v).k = u.k
  BY DEF I85!Cmp, I85!Sub, I85!Settle, Idle, Core, Alone
<1>8. DOMAIN u = DOMAIN c /\ DOMAIN I85!Cmp(c, v) = DOMAIN c
  BY DEF I85!Cmp, I85!Sub, I85!Settle
<1>9. Core \cup {"k"} \subseteq DOMAIN c
  BY DEF Idle, Alone
<1> HIDE DEF u
<1>10. Tells(a, v, 256, u) /\ Tells(a, v, 256, I85!Cmp(c, v))
  BY <1>1, <1>2, <1>6, <1>7 DEF Tells, Ordered
<1> QED BY <1>8, <1>9, <1>10 DEF u

\* ADC B and DAA on the 8085.
LEMMA I85Decimal ==
  ASSUME NEW a \in 0..255, NEW v \in 0..255, NEW k \in {0, 1}, NEW c, SetUp(c, 136, 39, a, v, k), Alone(c),
         NEW t, t = I85!Step(I85!Step(c, FALSE), FALSE)
  PROVE  Corrected((a + v + k) % 256, a + v + k > 255, (a % 16) + (v % 16) + k > 15, t)
<1> DEFINE f == Forward(c)
           u == I85!Step(c, FALSE)
           g == Forward(u)
           s == a + v + k
           h == (a % 16) + (v % 16) + k > 15
<1>1. Ready(c, 136) /\ Alone(c)
  BY DEF SetUp
<1>2. Advanced(c, f)
  BY <1>1, Forwards
<1>3. u = FetchOver(I85!Add(f, f.r[0], I85!One(f.cy)))
  BY <1>1, I85Runs
<1> HIDE DEF f, u
<1>4. Idle(f) /\ Alone(f) /\ f.r[7] = a /\ f.r[0] = v /\ I85!One(f.cy) = k
  BY <1>2, ZenonT(60) DEF Advanced, SetUp, I85!One, Alone
<1>5. Summed(f, a, v, k, I85!Add(f, v, k))
  BY <1>4, I85Sums, ZenonT(60)
<1>6. u = FetchOver(I85!Add(f, v, k))
  BY <1>3, <1>4
<1>7. Ready(u, 39) /\ Alone(u) /\ u.r[7] = s % 256 /\ u.cy = (s > 255) /\ u.ac = h
  <2>1. Midway(c, 39, a, v, k, u)
    BY <1>2, <1>5, <1>6, Sums
  <2>2. Alone(c)
    OBVIOUS
  <2> QED BY ONLY <2>1, <2>2 DEF Midway, Alone
<1>8. Advanced(u, g)
  BY <1>7, Forwards
<1>9. t = FetchOver(I85!Daa(g))
  BY <1>7, I85Runs DEF u
<1> HIDE DEF g
<1>10. s % 256 \in 0..255 /\ (s > 255) \in BOOLEAN /\ h \in BOOLEAN
  OBVIOUS
<1> HIDE DEF s, h
<1>11. Idle(g) /\ Alone(g) /\ g.r[7] = s % 256 /\ g.cy = (s > 255) /\ g.ac = h
  BY <1>7, <1>8 DEF Advanced, Alone
<1>12. Corrected(s % 256, g.cy, g.ac, I85!Daa(g)) /\ Core \subseteq DOMAIN I85!Daa(g)
  BY <1>10, <1>11, I85Corrects, ZenonT(60)
<1>13. Corrected(s % 256, g.cy, g.ac, t)
  BY <1>9, <1>12, EndsCorrected, ZenonT(60)
<1> QED BY <1>11, <1>13, ZenonT(60) DEF s, h

\* CMP B and SUB B.
LEMMA I85Compares ==
  ASSUME NEW a, NEW v, Bytes2(a, v), NEW o, Pick(o), NEW c, Ready(c, o), Alone(c), c.r[7] = a, c.r[0] = v, NEW t, I85Once(c, t)
  PROVE  Tells(a, v, 256, t)
<1> DEFINE f == Forward(c)
<1>0. a \in 0..255 /\ v \in 0..255 /\ o \in {184, 144} /\ t = I85!Step(c, FALSE)
  BY DEF Bytes2, Pick, I85Once
<1>1. Advanced(c, f)
  BY Forwards
<1>2. \/ t = FetchOver(I85!Cmp(f, f.r[0]))
      \/ t = FetchOver(I85!Sub(f, f.r[0], 0))
  BY <1>0, I85Runs, ZenonT(60)
<1> HIDE DEF f
<1>3. Idle(f) /\ Alone(f) /\ f.r[7] = a /\ f.r[0] = v
  BY <1>1 DEF Advanced, Alone
<1>4. /\ Tells(a, v, 256, I85!Sub(f, v, 0)) /\ Core \cup {"k"} \subseteq DOMAIN I85!Sub(f, v, 0)
      /\ Tells(a, v, 256, I85!Cmp(f, v)) /\ Core \cup {"k"} \subseteq DOMAIN I85!Cmp(f, v)
  BY <1>0, <1>3, I85Orders, ZenonT(60)
<1>5. Tells(a, v, 256, FetchOver(I85!Sub(f, v, 0))) /\ Tells(a, v, 256, FetchOver(I85!Cmp(f, v)))
  BY ONLY <1>4, EndsTold
<1> QED BY ONLY <1>2, <1>3, <1>5

\* DSUB: HL less BC.
LEMMA I85Compares2 ==
  ASSUME NEW c, Ready(c, 8), Alone(c), NEW x, NEW h, NEW l, Halves2(x, h, l), NEW y, NEW b, NEW d, Halves2(y, b, d),
         c.r[4] = h, c.r[5] = l, c.r[0] = b, c.r[1] = d, NEW t, I85Once(c, t)
  PROVE  Tells(x, y, 65536, t)
<1> DEFINE f == Forward(c)
           e == I85!Dsub(f)
           lo == l + (255 - d) + 1
           k == IF lo > 255 THEN 1 ELSE 0
           hi == h + (255 - b) + k
           over == I85!AddOverflow(h, 255 - b, k)
<1>0. h \in 0..255 /\ l \in 0..255 /\ b \in 0..255 /\ d \in 0..255 /\ x = 256 * h + l /\ y = 256 * b + d
  BY DEF Halves2
<1>1. Advanced(c, f)
  BY Forwards
<1>2. t = FetchOver(e)
  BY I85Runs DEF I85Once
<1> HIDE DEF f
<1>3. Idle(f) /\ Alone(f) /\ f.r[4] = h /\ f.r[5] = l /\ f.r[0] = b /\ f.r[1] = d
  BY <1>1 DEF Advanced, Alone
<1>4. /\ e.cy = ~(hi > 255) /\ e.z = (hi % 256 = 0 /\ lo % 256 = 0)
      /\ e.k = (over # (hi % 256 >= 128))
  BY <1>0, <1>3 DEF I85!Dsub, I85!WithPair, I85!HL, I85!Byte, I85!Not, I85!Minus, I85!One, Idle, Core, Alone
<1>5. DOMAIN e = DOMAIN f
  BY ZenonT(60) DEF I85!Dsub, I85!WithPair, I85!HL
<1>6. Core \subseteq DOMAIN e /\ "k" \in DOMAIN e
  BY <1>3, <1>5 DEF Idle, Alone
<1> HIDE DEF e
<1>7. (hi > 255 <=> ~(x < y)) /\ ((hi % 256 = 0 /\ lo % 256 = 0) <=> (x = y))
  <2>1. x < y <=> h < b \/ (h = b /\ l < d)
    BY <1>0
  <2>2. x = y <=> h = b /\ l = d
    BY <1>0
  <2>3. (lo > 255 <=> ~(l < d)) /\ (lo % 256 = 0 <=> l = d)
    <3>1. lo = (l - d) + 256
      BY <1>0
    <3>2. l - d \in Int /\ l - d > -256 /\ l - d < 256 /\ (l = d <=> l - d = 0) /\ (l < d <=> l - d < 0)
      BY <1>0
    <3>3. ASSUME NEW n \in Int, n > -256, n < 256
          PROVE  ((n + 256) % 256 = 0 <=> n = 0) /\ (n + 256 > 255 <=> ~(n < 0))
      BY <3>3
    <3> HIDE DEF lo
    <3> QED BY ONLY <3>1, <3>2, <3>3
  <2>4. hi > 255 <=> h > b \/ (h = b /\ k = 1)
    BY <1>0
  <2>5. k = 1 => (hi % 256 = 0 <=> h = b)
    <3>1. k = 1 => hi = (h - b) + 256
      BY <1>0
    <3>2. h - b \in Int /\ h - b > -256 /\ h - b < 256 /\ (h = b <=> h - b = 0)
      BY <1>0
    <3>3. ASSUME NEW n \in Int, n > -256, n < 256
          PROVE  (n + 256) % 256 = 0 <=> n = 0
      BY <3>3
    <3> HIDE DEF hi, k
    <3> QED BY ONLY <3>1, <3>2, <3>3
  <2> HIDE DEF hi, lo
  <2> QED BY <1>0, <2>1, <2>2, <2>3, <2>4, <2>5
<1>8. (over # (hi % 256 >= 128)) <=> (Signed(x, 65536) < Signed(y, 65536))
  <2>0. 65536 \div 2 = 32768
    BY <1>0
  <2>1. k \in {0, 1} /\ (k = 1 <=> l >= d)
    BY <1>0
  <2> HIDE DEF k
  <2>2. (h % 128 = IF h < 128 THEN h ELSE h - 128) /\ (255 - b) % 128 = IF b > 127 THEN 255 - b ELSE 127 - b
    BY <1>0
  <2>3. hi % 256 = IF hi < 256 THEN hi ELSE hi - 256
    BY <1>0, <2>1
  <2>4. Signed(x, 65536) < Signed(y, 65536) <=>
          LET hs == IF h < 128 THEN h ELSE h - 256
              bs == IF b < 128 THEN b ELSE b - 256
          IN  hs < bs \/ (hs = bs /\ k = 0)
    BY <1>0, <2>0, <2>1 DEF Signed
  <2> QED BY <1>0, <2>1, <2>2, <2>3, <2>4 DEF I85!AddOverflow
<1> HIDE DEF hi, lo, k, over
<1>9. Tells(x, y, 65536, e)
  BY ONLY <1>4, <1>7, <1>8 DEF Tells, Ordered
<1>10. Tells(x, y, 65536, FetchOver(e))
  BY ONLY <1>6, <1>9, EndsTold
<1> QED BY ONLY <1>2, <1>10

\* A Z80 about to run the opcode o.
Zilog(c, o) == Ready(c, o) /\ Z80Core \subseteq DOMAIN c

\* The five instructions as one step of the Z80.
LEMMA Z80Runs ==
  ASSUME NEW c
  PROVE  /\ Zilog(c, 136) => Z80!Step(c, FALSE, FALSE) = FetchOver(Z80!AddA(Onward(c), Onward(c).r[0], Z80!One(Onward(c).cy)))
         /\ Zilog(c, 152) => Z80!Step(c, FALSE, FALSE) = FetchOver(Z80!SubA(Onward(c), Onward(c).r[0], Z80!One(Onward(c).cy), TRUE))
         /\ Zilog(c, 39) => Z80!Step(c, FALSE, FALSE) = FetchOver(Z80!Daa(Onward(c)))
         /\ Zilog(c, 184) => Z80!Step(c, FALSE, FALSE) = FetchOver(Z80!SubA(Onward(c), Onward(c).r[0], 0, FALSE))
         /\ Zilog(c, 144) => Z80!Step(c, FALSE, FALSE) = FetchOver(Z80!SubA(Onward(c), Onward(c).r[0], 0, TRUE))
<1> DEFINE f == Onward(c)
<1>1. ASSUME NEW o \in {136, 152, 39, 184, 144}, Zilog(c, o)
      PROVE  Z80!Step(c, FALSE, FALSE) = FetchOver(Z80!Dispatch(f, o))
  <2>1. o \in 0..255 /\ Ready(c, o) /\ Z80Core \subseteq DOMAIN c
    BY <1>1 DEF Zilog
  <2> QED BY ONLY <2>1, Z80Fetches, ZenonT(60) DEF FetchOver
<1>2. /\ Z80!Dispatch(f, 136) = Z80!AddA(f, f.r[0], Z80!One(f.cy))
      /\ Z80!Dispatch(f, 152) = Z80!SubA(f, f.r[0], Z80!One(f.cy), TRUE)
      /\ Z80!Dispatch(f, 39) = Z80!Daa(f)
      /\ Z80!Dispatch(f, 184) = Z80!SubA(f, f.r[0], 0, FALSE)
      /\ Z80!Dispatch(f, 144) = Z80!SubA(f, f.r[0], 0, TRUE)
  BY Z80Decodes
<1> HIDE DEF f
<1>3. Zilog(c, 136) => Z80!Step(c, FALSE, FALSE) = FetchOver(Z80!AddA(f, f.r[0], Z80!One(f.cy)))
  BY <1>1, <1>2, ZenonT(60)
<1>4. Zilog(c, 152) => Z80!Step(c, FALSE, FALSE) = FetchOver(Z80!SubA(f, f.r[0], Z80!One(f.cy), TRUE))
  BY <1>1, <1>2, ZenonT(60)
<1>5. Zilog(c, 39) => Z80!Step(c, FALSE, FALSE) = FetchOver(Z80!Daa(f))
  BY <1>1, <1>2, ZenonT(60)
<1>6. Zilog(c, 184) => Z80!Step(c, FALSE, FALSE) = FetchOver(Z80!SubA(f, f.r[0], 0, FALSE))
  BY <1>1, <1>2, ZenonT(60)
<1>7. Zilog(c, 144) => Z80!Step(c, FALSE, FALSE) = FetchOver(Z80!SubA(f, f.r[0], 0, TRUE))
  BY <1>1, <1>2, ZenonT(60)
<1> QED BY <1>3, <1>4, <1>5, <1>6, <1>7, ZenonT(60) DEF f

\* What its arithmetic leaves.
LEMMA Z80Sums ==
  ASSUME NEW c, Idle(c), Z80Core \subseteq DOMAIN c, NEW a \in 0..255, c.r[7] = a, NEW v \in 0..255, NEW k \in {0, 1}
  PROVE  Summed(c, a, v, k, Z80!AddA(c, v, k)) /\ Z80!AddA(c, v, k).n = FALSE
<1> DEFINE t == Z80!AddA(c, v, k)
<1>1. t.r = [c.r EXCEPT ![7] = (a + v + k) % 256] /\ t.n = FALSE
  BY DEF Z80!AddA, Z80!SZ, Z80!Byte, Z80!A, Idle, Core, Z80Core
<1>2. t.cy = (a + v + k > 255) /\ t.ac = ((a % 16) + (v % 16) + k > 15)
  BY DEF Z80!AddA, Z80!SZ, Z80!Low, Z80!A, Idle, Core, Z80Core
<1>3. DOMAIN t = DOMAIN c /\ t.pc = c.pc /\ t.mem = c.mem /\ t.halted = c.halted
  BY DEF Z80!AddA, Z80!SZ, Idle, Core, Z80Core
<1>4. t.ei = c.ei /\ t.ie = c.ie /\ t.intFetch = c.intFetch
  BY DEF Z80!AddA, Z80!SZ, Idle, Core, Z80Core
<1>5. "trap" \in DOMAIN c => t.trap = c.trap
  BY DEF Z80!AddA, Z80!SZ
<1> HIDE DEF t
<1>6. DOMAIN t.r = DOMAIN c.r /\ t.r[7] = (a + v + k) % 256
  BY <1>1 DEF Idle, Numbers
<1>7. Summed(c, a, v, k, t) /\ t.n = FALSE
  BY <1>1, <1>2, <1>3, <1>4, <1>5, <1>6 DEF Summed, Preserved, Inside
<1> QED BY <1>7 DEF t

\* A subtraction, before the decimal adjustment.
Differs(c, a, v, k, t) ==
  /\ Preserved(c, t) /\ t.n = TRUE /\ t.r[7] = (a - v - k) % 256
  /\ t.cy = (a - v - k < 0) /\ t.ac = ((a % 16) - (v % 16) - k < 0)

\* A comparison, with S and P/V.
Signs(x, y, m, t) == Ordered(x, y, t) /\ (t.s # t.p) = (Signed(x, m) < Signed(y, m))

\* A subtraction of the Z80 leaves the difference, a borrow in C and a half-borrow in H.
LEMMA Z80Differs ==
  ASSUME NEW c, Idle(c), Z80Core \subseteq DOMAIN c, NEW a \in 0..255, c.r[7] = a, NEW v \in 0..255, NEW k \in {0, 1}
  PROVE  Differs(c, a, v, k, Z80!SubA(c, v, k, TRUE))
<1> DEFINE t == Z80!SubA(c, v, k, TRUE)
<1>1. /\ t.n = TRUE /\ t.cy = (a - v - k < 0) /\ t.ac = ((a % 16) - (v % 16) - k < 0)
  BY DEF Z80!SubA, Z80!SZ, Z80!Low, Z80!A, Idle, Core, Z80Core
<1>2. t.r[7] = (a - v - k) % 256
  BY DEF Z80!SubA, Z80!SZ, Z80!Byte, Z80!A, Idle, Core, Z80Core, Numbers
<1>3. DOMAIN t = DOMAIN c /\ t.pc = c.pc /\ t.mem = c.mem /\ t.halted = c.halted
  BY DEF Z80!SubA, Z80!SZ, Idle, Core, Z80Core
<1>4. t.ei = c.ei /\ t.ie = c.ie /\ t.intFetch = c.intFetch
  BY DEF Z80!SubA, Z80!SZ, Idle, Core, Z80Core
<1>5. DOMAIN t.r = DOMAIN c.r
  BY DEF Z80!SubA, Z80!SZ, Idle, Core, Z80Core
<1>6. "trap" \in DOMAIN c => t.trap = c.trap
  BY DEF Z80!SubA, Z80!SZ
<1> HIDE DEF t
<1>7. Differs(c, a, v, k, t)
  BY ONLY <1>1, <1>2, <1>3, <1>4, <1>5, <1>6 DEF Differs, Preserved, Inside
<1> QED BY <1>7 DEF t

\* CP and SUB of the Z80 show the order of two bytes, in S and P/V the signed one.
LEMMA Z80Signs ==
  ASSUME NEW c, Idle(c), Z80Core \subseteq DOMAIN c, NEW a \in 0..255, c.r[7] = a, NEW v \in 0..255
  PROVE  /\ Signs(a, v, 256, Z80!SubA(c, v, 0, FALSE)) /\ Core \subseteq DOMAIN Z80!SubA(c, v, 0, FALSE)
         /\ Signs(a, v, 256, Z80!SubA(c, v, 0, TRUE)) /\ Core \subseteq DOMAIN Z80!SubA(c, v, 0, TRUE)
<1> DEFINE d == (a - v - 0) % 256
<1>1. d = IF a < v THEN a - v + 256 ELSE a - v
  OBVIOUS
<1>2. (d = 0 <=> a = v) /\ (a - v - 0 < 0 <=> a < v)
  BY <1>1
<1>3. a \in 0..255 /\ v \in 0..255 /\ 256 \div 2 = 128
  OBVIOUS
<1>4. ASSUME NEW b
      PROVE  Signs(a, v, 256, Z80!SubA(c, v, 0, b)) /\ Core \subseteq DOMAIN Z80!SubA(c, v, 0, b)
  <2> DEFINE t == Z80!SubA(c, v, 0, b)
  <2>1. t.cy = (a - v - 0 < 0) /\ t.z = (d = 0) /\ t.s = (d >= 128)
    BY DEF Z80!SubA, Z80!SZ, Z80!Byte, Z80!Minus, Z80!A, Idle, Core, Z80Core
  <2>2. t.p = ((a >= 128) # (v >= 128) /\ (a >= 128) # (d >= 128))
    BY DEF Z80!SubA, Z80!SZ, Z80!Byte, Z80!Minus, Z80!A, Idle, Core, Z80Core
  <2>3. DOMAIN t = DOMAIN c
    BY DEF Z80!SubA, Z80!SZ
  <2> HIDE DEF d, t
  <2>4. ((d >= 128) # ((a >= 128) # (v >= 128) /\ (a >= 128) # (d >= 128))) <=> (Signed(a, 256) < Signed(v, 256))
    BY ONLY <1>1, <1>3 DEF Signed
  <2>5. (t.s # t.p) = (Signed(a, 256) < Signed(v, 256))
    BY ONLY <2>1, <2>2, <2>4
  <2>6. Ordered(a, v, t)
    BY ONLY <1>2, <2>1 DEF Ordered
  <2>7. Core \subseteq DOMAIN t
    BY <2>3 DEF Idle
  <2> QED BY <2>5, <2>6, <2>7 DEF Signs, t
<1> QED BY <1>4, ZenonT(60)

\* And with S and P/V when the fetch is over.
LEMMA EndsSigned ==
  ASSUME NEW e, Core \subseteq DOMAIN e, NEW x, NEW y, NEW m, Signs(x, y, m, e)
  PROVE  Signs(x, y, m, FetchOver(e))
BY EndsRight, EndsOrdered DEF Signs

\* Between a subtraction and its adjustment.
BetweenLess(c, q, a, v, k, t) ==
  /\ Ready(t, q) /\ t.r[7] = (a - v - k) % 256 /\ t.cy = (a - v - k < 0)
  /\ t.ac = ((a % 16) - (v % 16) - k < 0) /\ t.n = TRUE /\ DOMAIN t = DOMAIN c

\* What is left of the first instruction of a subtraction is the start of its DAA.
LEMMA Differences ==
  ASSUME NEW c, NEW o, NEW q, NEW a, NEW v, NEW k, SetUp(c, o, q, a, v, k), NEW f, Advanced(c, f), "n" \in DOMAIN c,
         NEW e, Differs(f, a, v, k, e), NEW t, t = FetchOver(e)
  PROVE  BetweenLess(c, q, a, v, k, t)
<1>1. DOMAIN e = DOMAIN c /\ DOMAIN e.r = DOMAIN c.r /\ e.pc = 257 /\ e.mem = c.mem
  BY DEF SetUp, Advanced, Differs, Preserved, Inside
<1>2. ~e.halted /\ ~e.ei /\ ~e.ie
  BY DEF SetUp, Ready, Idle, Advanced, Differs, Preserved, Inside
<1>4. Core \subseteq DOMAIN c
  BY DEF SetUp, Ready, Idle
<1>5. DOMAIN t = DOMAIN e /\ ~t.intFetch /\ t.r = e.r /\ t.pc = e.pc /\ t.mem = e.mem /\ t.cy = e.cy /\ t.ac = e.ac
  BY <1>1, <1>4 DEF Core, FetchOver
<1>6. t.halted = e.halted /\ t.ei = e.ei /\ t.ie = e.ie
  BY <1>1, <1>4 DEF Core, FetchOver
<1>7. t.n = e.n
  BY <1>1 DEF FetchOver
<1>8. Ready(t, q)
  BY <1>1, <1>2, <1>4, <1>5, <1>6 DEF SetUp, Ready, Idle, Reads
<1>9. e.r[7] = (a - v - k) % 256 /\ e.cy = (a - v - k < 0) /\ e.ac = ((a % 16) - (v % 16) - k < 0) /\ e.n = TRUE
  BY DEF Differs
<1> QED BY <1>1, <1>5, <1>7, <1>8, <1>9 DEF BetweenLess

\* What DAA leaves after an addition and after a subtraction.
Lessened(a, cy, ac, t) == t.r[7] = Taken(a, cy, ac) /\ t.cy = (cy \/ a > 153)

\* DAA of the Z80 after an addition corrects A as the 8080's does.
LEMMA Z80Corrects ==
  ASSUME NEW c, Idle(c), Z80Core \subseteq DOMAIN c, NEW a \in 0..255, c.r[7] = a,
         c.cy \in BOOLEAN, c.ac \in BOOLEAN
  PROVE  /\ Core \subseteq DOMAIN Z80!Daa(c)
         /\ c.n = FALSE => Corrected(a, c.cy, c.ac, Z80!Daa(c))
         /\ c.n = TRUE => Lessened(a, c.cy, c.ac, Z80!Daa(c))
<1> DEFINE t == Z80!Daa(c)
<1>1. DOMAIN t = DOMAIN c
  BY SMTT(60) DEF Z80!Daa, Z80!SZP
<1>2. c.n \in BOOLEAN => /\ t.r[7] = (IF c.n THEN Taken(a, c.cy, c.ac) ELSE Adjusted(a, c.cy, c.ac))
                         /\ t.cy = (c.cy \/ a > 153)
  BY Z80Adjusts
<1> HIDE DEF t
<1>3. HighDigit(a, c.cy) <=> c.cy \/ a > 153
  BY HighSixes
<1>4. HighDigit(a, c.cy) \in BOOLEAN
  BY DEF HighDigit
<1>5. c.n = FALSE => Corrected(a, c.cy, c.ac, t)
  BY <1>2, <1>3, <1>4 DEF Corrected
<1>6. c.n = TRUE => Lessened(a, c.cy, c.ac, t)
  BY <1>2 DEF Lessened
<1>7. Core \subseteq DOMAIN t
  BY <1>1 DEF Idle
<1> QED BY <1>5, <1>6, <1>7 DEF t

\* A adjusted after a subtraction is so when the fetch is over.
LEMMA EndsLessened ==
  ASSUME NEW e, Core \subseteq DOMAIN e, NEW a, NEW cy, NEW ac, Lessened(a, cy, ac, e)
  PROVE  Lessened(a, cy, ac, FetchOver(e))
BY EndsRight DEF Lessened

\* ADC B and DAA on the Z80.
LEMMA Z80Decimal ==
  ASSUME NEW a \in 0..255, NEW v \in 0..255, NEW k \in {0, 1}, NEW c, SetUp(c, 136, 39, a, v, k), Z80Core \subseteq DOMAIN c,
         NEW t, t = Z80!Step(Z80!Step(c, FALSE, FALSE), FALSE, FALSE)
  PROVE  Corrected((a + v + k) % 256, a + v + k > 255, (a % 16) + (v % 16) + k > 15, t)
<1> DEFINE f == Onward(c)
           e == Z80!AddA(f, v, k)
           u == Z80!Step(c, FALSE, FALSE)
           g == Onward(u)
           s == a + v + k
           h == (a % 16) + (v % 16) + k > 15
<1>1. Zilog(c, 136)
  BY DEF SetUp, Zilog
<1>2. Advanced(c, f)
  BY <1>1, Onwards DEF Zilog
<1>3. u = FetchOver(Z80!AddA(f, f.r[0], Z80!One(f.cy)))
  BY <1>1, Z80Runs
<1> HIDE DEF f, u
<1>4. Idle(f) /\ Z80Core \subseteq DOMAIN f /\ f.r[7] = a /\ f.r[0] = v /\ Z80!One(f.cy) = k
  BY <1>2, ZenonT(60) DEF Advanced, SetUp, Z80!One
<1>5. Summed(f, a, v, k, e) /\ e.n = FALSE
  BY <1>4, Z80Sums, ZenonT(60)
<1>6. u = FetchOver(e)
  BY <1>3, <1>4
<1> HIDE DEF e
<1>7. Ready(u, 39) /\ u.r[7] = s % 256 /\ u.cy = (s > 255) /\ u.ac = h /\ u.n = FALSE /\ Z80Core \subseteq DOMAIN u
  <2>1. Midway(c, 39, a, v, k, u) /\ ("n" \in DOMAIN c => u.n = e.n)
    BY <1>2, <1>5, <1>6, Sums
  <2>2. Z80Core \subseteq DOMAIN c
    OBVIOUS
  <2> QED BY ONLY <2>1, <2>2, <1>5 DEF Midway, Z80Core
<1>8. Advanced(u, g)
  BY <1>7, Onwards
<1>9. t = FetchOver(Z80!Daa(g))
  BY <1>7, Z80Runs DEF u, Zilog
<1> HIDE DEF g
<1>10. s % 256 \in 0..255 /\ (s > 255) \in BOOLEAN /\ h \in BOOLEAN
  OBVIOUS
<1> HIDE DEF s, h
<1>11. Idle(g) /\ Z80Core \subseteq DOMAIN g /\ g.r[7] = s % 256 /\ g.cy = (s > 255) /\ g.ac = h /\ g.n = FALSE
  BY <1>7, <1>8 DEF Advanced, Z80Core
<1>12. Corrected(s % 256, g.cy, g.ac, Z80!Daa(g)) /\ Core \subseteq DOMAIN Z80!Daa(g)
  BY <1>10, <1>11, Z80Corrects, ZenonT(60)
<1>13. Corrected(s % 256, g.cy, g.ac, t)
  BY <1>9, <1>12, EndsCorrected, ZenonT(60)
<1> QED BY <1>11, <1>13, ZenonT(60) DEF s, h

\* SBC B and DAA.
LEMMA Z80Lessens ==
  ASSUME NEW a \in 0..255, NEW v \in 0..255, NEW k \in {0, 1}, NEW c, SetUp(c, 152, 39, a, v, k), Z80Core \subseteq DOMAIN c,
         NEW t, t = Z80!Step(Z80!Step(c, FALSE, FALSE), FALSE, FALSE)
  PROVE  Lessened((a - v - k) % 256, a - v - k < 0, (a % 16) - (v % 16) - k < 0, t)
<1> DEFINE f == Onward(c)
           e == Z80!SubA(f, v, k, TRUE)
           u == Z80!Step(c, FALSE, FALSE)
           g == Onward(u)
           s == a - v - k
           h == (a % 16) - (v % 16) - k < 0
<1>1. Zilog(c, 152)
  BY DEF SetUp, Zilog
<1>2. Advanced(c, f)
  BY <1>1, Onwards DEF Zilog
<1>3. u = FetchOver(Z80!SubA(f, f.r[0], Z80!One(f.cy), TRUE))
  BY <1>1, Z80Runs
<1> HIDE DEF f, u
<1>4. Idle(f) /\ Z80Core \subseteq DOMAIN f /\ f.r[7] = a /\ f.r[0] = v /\ Z80!One(f.cy) = k
  BY <1>2, ZenonT(60) DEF Advanced, SetUp, Z80!One
<1>5. Differs(f, a, v, k, e)
  BY <1>4, Z80Differs, ZenonT(60)
<1>6. u = FetchOver(e)
  BY <1>3, <1>4
<1> HIDE DEF e
<1>7. Ready(u, 39) /\ u.r[7] = s % 256 /\ u.cy = (s < 0) /\ u.ac = h /\ u.n = TRUE /\ Z80Core \subseteq DOMAIN u
  <2>1. "n" \in DOMAIN c
    BY DEF Z80Core
  <2>2. BetweenLess(c, 39, a, v, k, u)
    BY <1>2, <1>5, <1>6, <2>1, Differences
  <2>3. Z80Core \subseteq DOMAIN c
    OBVIOUS
  <2> QED BY ONLY <2>2, <2>3 DEF BetweenLess
<1>8. Advanced(u, g)
  BY <1>7, Onwards
<1>9. t = FetchOver(Z80!Daa(g))
  BY <1>7, Z80Runs DEF u, Zilog
<1> HIDE DEF g
<1>10. s % 256 \in 0..255 /\ (s < 0) \in BOOLEAN /\ h \in BOOLEAN
  OBVIOUS
<1> HIDE DEF s, h
<1>11. Idle(g) /\ Z80Core \subseteq DOMAIN g /\ g.r[7] = s % 256 /\ g.cy = (s < 0) /\ g.ac = h /\ g.n = TRUE
  BY <1>7, <1>8 DEF Advanced, Z80Core
<1>12. Lessened(s % 256, g.cy, g.ac, Z80!Daa(g)) /\ Core \subseteq DOMAIN Z80!Daa(g)
  BY <1>10, <1>11, Z80Corrects, ZenonT(60)
<1>13. Lessened(s % 256, g.cy, g.ac, t)
  BY <1>9, <1>12, EndsLessened, ZenonT(60)
<1> QED BY <1>11, <1>13, ZenonT(60) DEF s, h

\* CP B and SUB B.
LEMMA Z80Compares ==
  ASSUME NEW a, NEW v, Bytes2(a, v), NEW o, Pick(o), NEW c, Ready(c, o), Z80Core \subseteq DOMAIN c,
         c.r[7] = a, c.r[0] = v, NEW t, Z80Once(c, t)
  PROVE  Signs(a, v, 256, t)
<1> DEFINE f == Onward(c)
           cp == Z80!SubA(f, v, 0, FALSE)
           sub == Z80!SubA(f, v, 0, TRUE)
<1>0. a \in 0..255 /\ v \in 0..255 /\ o \in {184, 144} /\ o \in 0..255 /\ t = Z80!Step(c, FALSE, FALSE)
  BY DEF Bytes2, Pick, Z80Once
<1>1. Advanced(c, f)
  BY <1>0, Onwards
<1>2. \/ t = FetchOver(Z80!SubA(f, f.r[0], 0, FALSE))
      \/ t = FetchOver(Z80!SubA(f, f.r[0], 0, TRUE))
  BY <1>0, Z80Runs, ZenonT(60) DEF Zilog
<1> HIDE DEF f
<1>3. Idle(f) /\ Z80Core \subseteq DOMAIN f /\ f.r[7] = a /\ f.r[0] = v
  BY <1>1 DEF Advanced
<1>4. t = FetchOver(cp) \/ t = FetchOver(sub)
  BY <1>2, <1>3
<1>5. /\ Signs(a, v, 256, cp) /\ Core \subseteq DOMAIN cp
      /\ Signs(a, v, 256, sub) /\ Core \subseteq DOMAIN sub
  BY <1>0, <1>3, Z80Signs, ZenonT(60)
<1> HIDE DEF cp, sub
<1>6. Signs(a, v, 256, FetchOver(cp)) /\ Signs(a, v, 256, FetchOver(sub))
  BY ONLY <1>5, EndsSigned
<1> QED BY ONLY <1>4, <1>6

\* ED 42 as one step.
LEMMA Z80RunsWide ==
  ASSUME NEW c, Zilog(c, 237), c.pc = 256, 257 \in DOMAIN c.mem, c.mem[257] = 66
  PROVE  Z80!Step(c, FALSE, FALSE) = LET g == Z80!Fetched(Onward(c)) IN FetchOver(Z80!SbcHL(g, Z80!Pair(g, 0)))
<1> DEFINE f == Onward(c)
           g == Z80!Fetched(f)
<1>1. 237 \in 0..255 /\ Ready(c, 237) /\ Z80Core \subseteq DOMAIN c
  BY SMTT(60) DEF Zilog
<1>2. Z80!Step(c, FALSE, FALSE) = FetchOver(Z80!Dispatch(f, 237))
  BY ONLY <1>1, Z80Fetches, ZenonT(60) DEF FetchOver
<1>3. Advanced(c, f)
  BY <1>1, Onwards
<1> HIDE DEF f
<1>4. Z80!Opcode(f) = 66
  <2>1. f.pc = 257 /\ f.mem = c.mem /\ ~f.intFetch
    BY <1>3 DEF Advanced, Idle
  <2> QED BY <2>1 DEF Z80!Opcode, Z80!Operand, Z80!At, Z80!Addr
<1>5. Z80!Dispatch(f, 237) = Z80!ExecED(f)
  BY DEF Z80!Dispatch
<1>6. Z80!ExecED(f) = Z80!Extended(g, 0, 2)
  BY <1>4 DEF Z80!ExecED
<1> HIDE DEF g
<1>7. Z80!Extended(g, 0, 2) = Z80!SbcHL(g, Z80!Pair(g, 0))
  BY DEF Z80!Extended
<1> QED BY <1>2, <1>5, <1>6, <1>7, ZenonT(60) DEF f, g

\* SBC HL,BC.
LEMMA Z80Compares2 ==
  ASSUME NEW c, Zilog(c, 237), c.pc = 256, 257 \in DOMAIN c.mem, c.mem[257] = 66, ~c.cy,
         NEW x, NEW h, NEW l, Halves2(x, h, l), NEW y, NEW b, NEW d, Halves2(y, b, d),
         c.r[4] = h, c.r[5] = l, c.r[0] = b, c.r[1] = d, NEW t, Z80Once(c, t)
  PROVE  Signs(x, y, 65536, t)
<1> DEFINE f == Onward(c)
           g == Z80!Fetched(f)
           e == Z80!SbcHL(g, y)
<1>0. h \in 0..255 /\ l \in 0..255 /\ b \in 0..255 /\ d \in 0..255 /\ x = 256 * h + l /\ y = 256 * b + d
  BY DEF Halves2
<1>1. Advanced(c, f)
  BY Onwards DEF Zilog
<1>2. t = FetchOver(Z80!SbcHL(g, Z80!Pair(g, 0)))
  BY Z80RunsWide DEF Z80Once
<1> HIDE DEF f
<1>3. Idle(f) /\ Z80Core \subseteq DOMAIN f /\ f.r = c.r /\ ~f.cy
  BY <1>1 DEF Advanced, Zilog
<1>4. Idle(g) /\ Z80Core \subseteq DOMAIN g /\ g.r = c.r /\ ~g.cy
  BY <1>3 DEF Z80!Fetched, Z80!Refresh, Z80!Past, Idle, Core, Z80Core
<1> HIDE DEF g
<1>5. Z80!Pair(g, 0) = y /\ Z80!Pair(g, 2) = x
  BY <1>0, <1>4 DEF Z80!Pair
<1>6. x \in Nat /\ x < 65536 /\ y \in Nat /\ y < 65536
  BY <1>0
<1>7. e.cy = (x < y) /\ e.z = (x = y) /\ (e.s # e.p) = (Signed(x, 65536) < Signed(y, 65536))
  BY ONLY <1>4, <1>5, <1>6, Z80Subtracts2
<1>8. DOMAIN e = DOMAIN g
  BY DEF Z80!SbcHL, Z80!Wide, Z80!WithPair, Z80!HL
<1> HIDE DEF e
<1>9. Signs(x, y, 65536, e) /\ Core \subseteq DOMAIN e
  BY ONLY <1>4, <1>7, <1>8 DEF Signs, Ordered, Idle
<1>10. Signs(x, y, 65536, FetchOver(e))
  BY ONLY <1>9, EndsSigned
<1>11. t = FetchOver(e)
  BY <1>2, <1>5, SMTT(60) DEF e
<1> QED BY ONLY <1>10, <1>11

\* Two bytes and a carry; two decimal numbers and a carry.
Digits(a, v, k) == a \in 0..255 /\ v \in 0..255 /\ k \in {0, 1}
Two(x, y, k) == x \in 0..99 /\ y \in 0..99 /\ k \in {0, 1}

\* A core at the start of the program o, q.
SetsUp(w, o, q, a, v, k, c) == c = Start(w, File(a, 256 * v, 0), k = 1, <<o, q>>)

\* What an addition and DAA leave, and a subtraction and DAA; and the digits meant.
SumIs(a, v, k, t) == Corrected((a + v + k) % 256, a + v + k > 255, (a % 16) + (v % 16) + k > 15, t)
LessIs(a, v, k, t) == Lessened((a - v - k) % 256, a - v - k < 0, (a % 16) - (v % 16) - k < 0, t)
DecimalRight(x, y, k, t) == t.r[7] = Packed((x + y + k) % 100) /\ t.cy = (x + y + k \notin 0..99)
LessRight(x, y, k, t) == t.r[7] = Packed((x - y - k) % 100) /\ t.cy = (x - y - k \notin 0..99)

\* Two steps of each.
I80Twice(c, t) == t = I80!Step(I80!Step(c, FALSE), FALSE)
I85Twice(c, t) == t = I85!Step(I85!Step(c, FALSE), FALSE)
Z80Twice(c, t) == t = Z80!Step(Z80!Step(c, FALSE, FALSE), FALSE, FALSE)

\* ADC B and DAA on the 8080.
LEMMA I80Adds2 ==
  ASSUME NEW a, NEW v, NEW k, Digits(a, v, k), NEW c, SetUp(c, 136, 39, a, v, k), NEW t, I80Twice(c, t)
  PROVE  SumIs(a, v, k, t)
BY I80Decimal, ZenonT(60) DEF Digits, I80Twice, SumIs

\* ADC B and DAA on the 8085.
LEMMA I85Adds2 ==
  ASSUME NEW a, NEW v, NEW k, Digits(a, v, k), NEW c, SetUp(c, 136, 39, a, v, k), Alone(c), NEW t, I85Twice(c, t)
  PROVE  SumIs(a, v, k, t)
BY I85Decimal, ZenonT(60) DEF Digits, I85Twice, SumIs

\* ADC B and DAA on the Z80.
LEMMA Z80Adds2 ==
  ASSUME NEW a, NEW v, NEW k, Digits(a, v, k), NEW c, SetUp(c, 136, 39, a, v, k), Z80Core \subseteq DOMAIN c, NEW t, Z80Twice(c, t)
  PROVE  SumIs(a, v, k, t)
BY Z80Decimal, ZenonT(60) DEF Digits, Z80Twice, SumIs

\* SBC B and DAA on the Z80.
LEMMA Z80Lessens2 ==
  ASSUME NEW a, NEW v, NEW k, Digits(a, v, k), NEW c, SetUp(c, 152, 39, a, v, k), Z80Core \subseteq DOMAIN c, NEW t, Z80Twice(c, t)
  PROVE  LessIs(a, v, k, t)
BY Z80Lessens, ZenonT(60) DEF Digits, Z80Twice, LessIs

\* A core as it starts on a program of one byte or two.
Sound(w) == Core \subseteq DOMAIN w /\ ~w.halted /\ ~w.ei /\ ~w.ie /\ ~w.intFetch

\* The three processors at power-on.
LEMMA Powered ==
  /\ Sound(I80!PowerOn)
  /\ Sound(I85!PowerOn) /\ Alone(I85!PowerOn)
  /\ Sound(Z80!PowerOn) /\ Z80Core \subseteq DOMAIN Z80!PowerOn
<1>1. Sound(I80!PowerOn)
  BY DEF Sound, Core, I80!PowerOn
<1>2. Sound(I85!PowerOn) /\ Alone(I85!PowerOn)
  BY DEF Sound, Core, Alone, I85!PowerOn
<1>3. Sound(Z80!PowerOn) /\ Z80Core \subseteq DOMAIN Z80!PowerOn
  BY DEF Sound, Core, Z80Core, Z80!PowerOn
<1> QED BY <1>1, <1>2, <1>3

\* The core c is w with the registers r, a carry and a program of one byte or two.
Program(w, r, cy, code, n, c) ==
  DOMAIN r = Numbers /\ n \in {1, 2} /\ Len(code) = n /\ c = Start(w, r, cy, code)

\* A core with a program stands at its first byte, with the registers it was given.
LEMMA Starts ==
  ASSUME NEW w, Sound(w), NEW r, NEW cy, NEW n, NEW code, NEW c, Program(w, r, cy, code, n, c)
  PROVE  /\ Ready(c, code[1]) /\ c.r = r /\ c.cy = cy /\ c.pc = 256 /\ DOMAIN c = DOMAIN w
         /\ n = 2 => 257 \in DOMAIN c.mem /\ c.mem[257] = code[2]
         /\ "trap" \in DOMAIN w => c.trap = w.trap
<1>0. DOMAIN r = Numbers /\ n \in {1, 2} /\ Len(code) = n /\ c = Start(w, r, cy, code)
  BY DEF Program
<1>1. c.r = r /\ c.cy = cy /\ c.pc = 256
  BY <1>0 DEF Start, Origin, Core, Sound
<1>2. c.mem = [a \in 256 .. 256 + n - 1 |-> code[a - 256 + 1]]
  BY <1>0 DEF Start, Origin, Core, Sound
<1>3. 256 \in DOMAIN c.mem /\ c.mem[256] = code[1] /\ (n = 2 => 257 \in DOMAIN c.mem /\ c.mem[257] = code[2])
  BY <1>0, <1>2
<1>4. DOMAIN c = DOMAIN w /\ ~c.halted /\ ~c.ei /\ ~c.ie /\ ~c.intFetch
  BY <1>0 DEF Start, Core, Sound
<1>5. "trap" \in DOMAIN w => c.trap = w.trap
  BY <1>0 DEF Start
<1> QED BY <1>0, <1>1, <1>3, <1>4, <1>5 DEF Ready, Idle, Reads, Sound

\* The registers File fills.
LEMMA Files4 ==
  ASSUME NEW a, NEW bc \in Nat, NEW hl \in Nat
  PROVE  /\ DOMAIN File(a, bc, hl) = Numbers /\ File(a, bc, hl)[7] = a
         /\ File(a, bc, hl)[0] = bc \div 256 /\ File(a, bc, hl)[1] = bc % 256
         /\ File(a, bc, hl)[4] = hl \div 256 /\ File(a, bc, hl)[5] = hl % 256
BY DEF File, Numbers

\* A core with two instructions is set up for them.
LEMMA StartsLoaded ==
  ASSUME NEW a, NEW v, NEW k, Digits(a, v, k), NEW w, Sound(w), NEW o, NEW q, NEW c, SetsUp(w, o, q, a, v, k, c)
  PROVE  SetUp(c, o, q, a, v, k) /\ DOMAIN c = DOMAIN w /\ ("trap" \in DOMAIN w => c.trap = w.trap)
<1> DEFINE r == File(a, 256 * v, 0)
           code == <<o, q>>
<1>0. v \in 0..255
  BY DEF Digits
<1>1. 256 * v \in Nat /\ (256 * v) \div 256 = v /\ 0 \in Nat
  BY <1>0
<1>2. DOMAIN r = Numbers /\ r[7] = a /\ r[0] = v
  BY <1>1, Files4
<1>3. Len(code) = 2 /\ code[1] = o /\ code[2] = q
  OBVIOUS
<1> DEFINE cy == (k = 1)
<1>4. c = Start(w, r, cy, code) /\ Sound(w)
  BY DEF SetsUp
<1> HIDE DEF r, code, cy
<1>6. Program(w, r, cy, code, 2, c)
  BY ONLY <1>2, <1>3, <1>4 DEF Program
<1>5. /\ Ready(c, code[1]) /\ c.r = r /\ c.cy = cy /\ c.pc = 256 /\ DOMAIN c = DOMAIN w
      /\ 257 \in DOMAIN c.mem /\ c.mem[257] = code[2]
      /\ "trap" \in DOMAIN w => c.trap = w.trap
  BY ONLY <1>4, <1>6, Starts
<1> QED BY <1>2, <1>3, <1>5 DEF SetUp, cy

\* The corrected sum of two packed numbers is the packed sum, a digit at a time.
LEMMA SumsRight ==
  ASSUME NEW x, NEW y, NEW k, Two(x, y, k), NEW t, SumIs(Packed(x), Packed(y), k, t)
  PROVE  DecimalRight(x, y, k, t)
<1> DEFINE a == Packed(x)
           v == Packed(y)
<1>0. x \in 0..99 /\ y \in 0..99 /\ k \in {0, 1}
  BY DEF Two
<1> DEFINE x1 == x \div 10
           x0 == x % 10
           y1 == y \div 10
           y0 == y % 10
           s == a + v + k
           h == (a % 16) + (v % 16) + k > 15
<1>1. x1 \in 0..9 /\ x0 \in 0..9 /\ y1 \in 0..9 /\ y0 \in 0..9 /\ x = 10 * x1 + x0 /\ y = 10 * y1 + y0
  BY <1>0
<1>2. a = 16 * x1 + x0 /\ v = 16 * y1 + y0
  BY <1>0 DEF Packed
<1>3. t.r[7] = Adjusted(s % 256, s > 255, h) /\ t.cy = HighDigit(s % 256, s > 255)
  BY DEF Corrected, SumIs
<1>4. HighDigit(s % 256, s > 255) \in BOOLEAN
  BY DEF HighDigit
<1>5. k \in {0, 1} /\ s = a + v + k /\ (h <=> (a % 16) + (v % 16) + k > 15)
  BY <1>0
<1> HIDE DEF x1, x0, y1, y0, s, h, a, v
<1>6. Adjusted(s % 256, s > 255, h) = Packed((x + y + k) % 100) /\ (HighDigit(s % 256, s > 255) <=> x + y + k > 99)
  <2>1. CASE x0 + y0 + k <= 9
    BY ONLY <1>1, <1>2, <1>5, <2>1, SMTT(60) DEF Adjusted, HighDigit, Packed
  <2>2. CASE x0 + y0 + k > 9
    BY ONLY <1>1, <1>2, <1>5, <2>2, SMTT(60) DEF Adjusted, HighDigit, Packed
  <2> QED BY <1>1, <1>5, <2>1, <2>2
<1>7. x + y + k > 99 <=> x + y + k \notin 0..99
  BY <1>1, <1>5
<1> QED BY <1>3, <1>4, <1>6, <1>7 DEF DecimalRight

\* The adjusted difference of two packed numbers is the packed difference.
LEMMA DifferencesRight ==
  ASSUME NEW x, NEW y, NEW k, Two(x, y, k), NEW t, LessIs(Packed(x), Packed(y), k, t)
  PROVE  LessRight(x, y, k, t)
<1> DEFINE a == Packed(x)
           v == Packed(y)
<1>0. x \in 0..99 /\ y \in 0..99 /\ k \in {0, 1}
  BY DEF Two
<1> DEFINE x1 == x \div 10
           x0 == x % 10
           y1 == y \div 10
           y0 == y % 10
           s == a - v - k
           h == (a % 16) - (v % 16) - k < 0
<1>1. x1 \in 0..9 /\ x0 \in 0..9 /\ y1 \in 0..9 /\ y0 \in 0..9 /\ x = 10 * x1 + x0 /\ y = 10 * y1 + y0
  BY <1>0
<1>2. a = 16 * x1 + x0 /\ v = 16 * y1 + y0
  BY <1>0 DEF Packed
<1>3. t.r[7] = Taken(s % 256, s < 0, h) /\ t.cy = (s < 0 \/ s % 256 > 153)
  BY DEF Lessened, LessIs
<1>5. k \in {0, 1} /\ s = a - v - k /\ (h <=> (a % 16) - (v % 16) - k < 0)
  BY <1>0
<1> HIDE DEF x1, x0, y1, y0, s, h, a, v
<1>6. Taken(s % 256, s < 0, h) = Packed((x - y - k) % 100) /\ ((s < 0 \/ s % 256 > 153) <=> x - y - k < 0)
  <2>1. CASE x0 - y0 - k < 0
    BY ONLY <1>1, <1>2, <1>5, <2>1, SMTT(60) DEF Taken, Packed
  <2>2. CASE x0 - y0 - k >= 0
    <3>1. CASE x1 >= y1
      BY ONLY <1>1, <1>2, <1>5, <2>2, <3>1, SMTT(60) DEF Taken, Packed
    <3>2. CASE x1 < y1
      BY ONLY <1>1, <1>2, <1>5, <2>2, <3>2, SMTT(60) DEF Taken, Packed
    <3> QED BY <1>1, <3>1, <3>2
  <2> QED BY <1>1, <1>5, <2>1, <2>2
<1>7. x - y - k < 0 <=> x - y - k \notin 0..99
  BY <1>1, <1>5
<1> QED BY <1>3, <1>6, <1>7 DEF LessRight

\* The cores of a decimal, an ordering and a wide rig as they start, and the rig at any step.
DecimalCores(kind, x, y, cin) ==
  Cores(File(Packed(x), 256 * Packed(y), 0), cin = 1, IF kind = "add" THEN <<136, 39>> ELSE <<152, 39>>)
OrderCores(x, y, op) == Cores(File(x, 256 * y, 0), FALSE, <<op>>)
WideCores(x, y) ==
  [Cores(File(0, y, x), FALSE, <<8>>) EXCEPT !.z80 = Start(Z80!PowerOn, File(0, y, x), FALSE, <<237, 66>>)]
DecimalRun ==
  rig.kind \in {"add", "subtract"} =>
    \E x, y \in Decimals, cin \in {0, 1} :
      /\ rig.x = x /\ rig.y = y /\ rig.cin = cin
      /\ \/ seen.left = 2 /\ cpu = DecimalCores(rig.kind, x, y, cin)
         \/ seen.left = 1 /\ cpu = StepAll(DecimalCores(rig.kind, x, y, cin))
         \/ seen.left = 0 /\ cpu = StepAll(StepAll(DecimalCores(rig.kind, x, y, cin)))
OrderRun ==
  rig.kind = "order" =>
    \E x, y \in Samples, op \in {184, 144} :
      /\ rig.x = x /\ rig.y = y
      /\ \/ seen.left = 1 /\ cpu = OrderCores(x, y, op)
         \/ seen.left = 0 /\ cpu = StepAll(OrderCores(x, y, op))
WideRun ==
  rig.kind = "wide" =>
    \E x, y \in Words :
      /\ rig.x = x /\ rig.y = y
      /\ \/ seen.left = 1 /\ cpu = WideCores(x, y)
         \/ seen.left = 0 /\ cpu = StepAll(WideCores(x, y))
RigRuns == DecimalRun /\ OrderRun /\ WideRun

\* Every rig starts with its cores as they start.
LEMMA RunsInit == Init => RigRuns
<1> SUFFICES ASSUME Init PROVE RigRuns
  OBVIOUS
<1>1. CASE InitDecimal
  <2>1. rig.kind \in {"add", "subtract"} /\ rig.kind \notin {"order", "wide"}
    BY <1>1 DEF InitDecimal
  <2>2. DecimalRun
    BY <1>1 DEF InitDecimal, DecimalRun, DecimalCores
  <2> QED BY <2>1, <2>2 DEF RigRuns, OrderRun, WideRun
<1>2. CASE InitOrder
  <2>1. rig.kind = "order"
    BY <1>2 DEF InitOrder
  <2>2. PICK x \in Samples, y \in Samples, op \in {184, 144} :
          /\ rig = [kind |-> "order", x |-> x, y |-> y] /\ seen = [left |-> 1]
          /\ cpu = OrderCores(x, y, op)
    <3>1. InitOrder <=> \E x, y \in Samples, op \in {184, 144} :
             /\ rig = [kind |-> "order", x |-> x, y |-> y]
             /\ cpu = OrderCores(x, y, op)
             /\ seen = [left |-> 1]
      BY DEF InitOrder, OrderCores
    <3> QED BY <1>2, <3>1
  <2>3. OrderRun
    BY <2>2 DEF OrderRun
  <2> QED BY <2>1, <2>3 DEF RigRuns, DecimalRun, WideRun
<1>3. CASE InitWide
  <2>1. rig.kind = "wide"
    BY <1>3 DEF InitWide
  <2>2. PICK x \in Words, y \in Words :
          /\ rig = [kind |-> "wide", x |-> x, y |-> y] /\ seen = [left |-> 1]
          /\ cpu = WideCores(x, y)
    <3>1. InitWide <=> \E x, y \in Words :
             /\ rig = [kind |-> "wide", x |-> x, y |-> y]
             /\ cpu = WideCores(x, y)
             /\ seen = [left |-> 1]
      BY DEF InitWide, WideCores
    <3> QED BY <1>3, <3>1
  <2>3. WideRun
    BY <2>2 DEF WideRun
  <2> QED BY <2>1, <2>3 DEF RigRuns, DecimalRun, OrderRun
<1>4. CASE InitProgram \/ InitBlock \/ InitIndex \/ InitIndexBits \/ InitInterrupt
  <2>1. rig.kind \in {"program", "block", "index", "interrupt"}
    <3>1. InitProgram => rig.kind = "program"
      BY DEF InitProgram
    <3>2. InitBlock => rig.kind = "block"
      BY DEF InitBlock
    <3>3. InitIndex => rig.kind = "index"
      BY DEF InitIndex
    <3>4. InitIndexBits => rig.kind = "index"
      BY DEF InitIndexBits
    <3>5. InitInterrupt => rig.kind = "interrupt"
      BY DEF InitInterrupt
    <3> QED BY <1>4, <3>1, <3>2, <3>3, <3>4, <3>5
  <2> QED BY <2>1 DEF RigRuns, DecimalRun, OrderRun, WideRun
<1> QED BY <1>1, <1>2, <1>3, <1>4 DEF Init

\* And a step is one step of each core.
LEMMA RunsNext == RigRuns /\ [Next]_vars => RigRuns'
<1> SUFFICES ASSUME RigRuns, [Next]_vars PROVE RigRuns'
  OBVIOUS
<1>1. CASE RunOn
  <2>1. rig' = rig /\ cpu' = StepAll(cpu) /\ seen' = [left |-> seen.left - 1] /\ seen.left > 0
    BY <1>1 DEF RunOn
  <2>2. ASSUME rig.kind \in {"add", "subtract"}
        PROVE  DecimalRun'
    <3>1. PICK x \in Decimals, y \in Decimals, cin \in {0, 1} :
            /\ rig.x = x /\ rig.y = y /\ rig.cin = cin
            /\ \/ seen.left = 2 /\ cpu = DecimalCores(rig.kind, x, y, cin)
               \/ seen.left = 1 /\ cpu = StepAll(DecimalCores(rig.kind, x, y, cin))
               \/ seen.left = 0 /\ cpu = StepAll(StepAll(DecimalCores(rig.kind, x, y, cin)))
      BY <2>2 DEF RigRuns, DecimalRun
    <3> DEFINE C == DecimalCores(rig.kind, x, y, cin)
    <3>2. \/ seen'.left = 1 /\ cpu' = StepAll(C)
          \/ seen'.left = 0 /\ cpu' = StepAll(StepAll(C))
      BY <2>1, <3>1
    <3>3. rig'.x = x /\ rig'.y = y /\ rig'.cin = cin /\ DecimalCores(rig'.kind, x, y, cin) = C
      BY <2>1, <3>1
    <3> HIDE DEF C
    <3> QED BY <3>2, <3>3 DEF DecimalRun
  <2>3. ASSUME rig.kind = "order"
        PROVE  OrderRun'
    BY <2>1, <2>3 DEF RigRuns, OrderRun
  <2>4. ASSUME rig.kind = "wide"
        PROVE  WideRun'
    BY <2>1, <2>4 DEF RigRuns, WideRun
  <2> QED BY <2>1, <2>2, <2>3, <2>4 DEF RigRuns, DecimalRun, OrderRun, WideRun
<1>2. CASE Instruction \/ Moving \/ Prefixed \/ Chore \/ Accept \/ Handle \/ Lines
  <2>1. rig.kind \in {"program", "block", "index", "interrupt"} /\ rig' = rig
    BY <1>2 DEF Instruction, Moving, Prefixed, Chore, Accept, Handle, Lines
  <2> QED BY <2>1 DEF RigRuns, DecimalRun, OrderRun, WideRun
<1>3. CASE UNCHANGED vars
  BY <1>3 DEF vars, RigRuns, DecimalRun, OrderRun, WideRun
<1> QED BY <1>1, <1>2, <1>3 DEF Next

\* An addition and DAA, from the start of the rig to its end.
LEMMA AddsEnd ==
  ASSUME NEW x, NEW y, NEW k, Two(x, y, k), NEW kind, kind = "add",
         NEW cs, cs = StepAll(StepAll(DecimalCores(kind, x, y, k)))
  PROVE  DOMAIN cs = {"i80", "i85", "z80"} /\ \A who \in {"i80", "i85", "z80"} : DecimalRight(x, y, k, cs[who])
<1> DEFINE a == Packed(x)
           v == Packed(y)
           i == Start(I80!PowerOn, File(a, 256 * v, 0), k = 1, <<136, 39>>)
           j == Start(I85!PowerOn, File(a, 256 * v, 0), k = 1, <<136, 39>>)
           z == Start(Z80!PowerOn, File(a, 256 * v, 0), k = 1, <<136, 39>>)
           ti == I80!Step(I80!Step(i, FALSE), FALSE)
           tj == I85!Step(I85!Step(j, FALSE), FALSE)
           tz == Z80!Step(Z80!Step(z, FALSE, FALSE), FALSE, FALSE)
<1>1. cs = [i80 |-> ti, i85 |-> tj, z80 |-> tz]
  BY DEF StepAll, DecimalCores, Cores
<1>2. Digits(a, v, k)
  BY DEF Packed, Digits, Two
<1>3. /\ SetsUp(I80!PowerOn, 136, 39, a, v, k, i) /\ SetsUp(I85!PowerOn, 136, 39, a, v, k, j)
      /\ SetsUp(Z80!PowerOn, 136, 39, a, v, k, z)
  BY DEF SetsUp
<1>4. I80Twice(i, ti) /\ I85Twice(j, tj) /\ Z80Twice(z, tz)
  BY DEF I80Twice, I85Twice, Z80Twice
<1> HIDE DEF i, j, z, ti, tj, tz
<1>5. /\ SetUp(i, 136, 39, a, v, k)
      /\ SetUp(j, 136, 39, a, v, k) /\ DOMAIN j = DOMAIN I85!PowerOn /\ ("trap" \in DOMAIN I85!PowerOn => j.trap = I85!PowerOn.trap)
      /\ SetUp(z, 136, 39, a, v, k) /\ DOMAIN z = DOMAIN Z80!PowerOn
  <2> HIDE DEF a, v
  <2> QED BY ONLY <1>2, <1>3, Powered, StartsLoaded
<1>6. Alone(j) /\ Z80Core \subseteq DOMAIN z
  BY ONLY <1>5, Powered DEF Alone
<1>7. SumIs(a, v, k, ti) /\ SumIs(a, v, k, tj) /\ SumIs(a, v, k, tz)
  <2> HIDE DEF a, v
  <2> QED BY ONLY <1>2, <1>4, <1>5, <1>6, I80Adds2, I85Adds2, Z80Adds2
<1>8. DecimalRight(x, y, k, ti) /\ DecimalRight(x, y, k, tj) /\ DecimalRight(x, y, k, tz)
  <2>1. Two(x, y, k)
    OBVIOUS
  <2> QED BY ONLY <1>7, <2>1, SumsRight
<1> QED BY ONLY <1>1, <1>8

\* A subtraction and DAA on the Z80, likewise.
LEMMA LessensEnd ==
  ASSUME NEW x, NEW y, NEW k, Two(x, y, k), NEW kind, kind = "subtract",
         NEW cs, cs = StepAll(StepAll(DecimalCores(kind, x, y, k)))
  PROVE  LessRight(x, y, k, cs.z80)
<1> DEFINE a == Packed(x)
           v == Packed(y)
           z == Start(Z80!PowerOn, File(a, 256 * v, 0), k = 1, <<152, 39>>)
           tz == Z80!Step(Z80!Step(z, FALSE, FALSE), FALSE, FALSE)
<1>1. cs.z80 = tz
  BY DEF StepAll, DecimalCores, Cores
<1>2. Digits(a, v, k)
  BY DEF Packed, Digits, Two
<1>3. SetsUp(Z80!PowerOn, 152, 39, a, v, k, z) /\ Z80Twice(z, tz)
  BY DEF SetsUp, Z80Twice
<1> HIDE DEF z, tz
<1>5. SetUp(z, 152, 39, a, v, k) /\ DOMAIN z = DOMAIN Z80!PowerOn
  <2> HIDE DEF a, v
  <2> QED BY ONLY <1>2, <1>3, Powered, StartsLoaded
<1>7. LessIs(a, v, k, tz)
  <2> HIDE DEF a, v
  <2>1. Z80Core \subseteq DOMAIN z
    BY ONLY <1>5, Powered
  <2> QED BY ONLY <1>2, <1>3, <1>5, <2>1, Z80Lessens2
<1>8. LessRight(x, y, k, tz)
  <2>1. Two(x, y, k)
    OBVIOUS
  <2> QED BY ONLY <1>7, <2>1, DifferencesRight
<1> QED BY ONLY <1>1, <1>8

\* A core at the start of one instruction on two bytes.
Compares1(w, o, x, y, c) == c = Start(w, File(x, 256 * y, 0), FALSE, <<o>>)

\* A core with one instruction stands at it.
LEMMA StartsOne ==
  ASSUME NEW x, NEW y, Bytes2(x, y), NEW w, Sound(w), NEW o, NEW c, Compares1(w, o, x, y, c)
  PROVE  Ready(c, o) /\ c.r[7] = x /\ c.r[0] = y /\ DOMAIN c = DOMAIN w /\ ("trap" \in DOMAIN w => c.trap = w.trap)
<1> DEFINE r == File(x, 256 * y, 0)
           code == <<o>>
<1>0. y \in 0..255
  BY DEF Bytes2
<1>1. 256 * y \in Nat /\ (256 * y) \div 256 = y /\ 0 \in Nat
  BY <1>0
<1>2. DOMAIN r = Numbers /\ r[7] = x /\ r[0] = y
  BY <1>1, Files4
<1>3. Len(code) = 1 /\ code[1] = o
  OBVIOUS
<1> DEFINE cy == FALSE
<1>4. c = Start(w, r, cy, code) /\ Sound(w)
  BY DEF Compares1
<1> HIDE DEF r, code, cy
<1>6. Program(w, r, cy, code, 1, c)
  BY ONLY <1>2, <1>3, <1>4 DEF Program
<1>5. Ready(c, code[1]) /\ c.r = r /\ DOMAIN c = DOMAIN w /\ ("trap" \in DOMAIN w => c.trap = w.trap)
  BY ONLY <1>4, <1>6, Starts
<1> QED BY <1>2, <1>3, <1>5

\* A compare of two bytes, from the start of the rig to its end.
LEMMA OrdersEnd ==
  ASSUME NEW x, NEW y, Bytes2(x, y), NEW o, Pick(o), NEW cs, cs = StepAll(OrderCores(x, y, o))
  PROVE  DOMAIN cs = {"i80", "i85", "z80"} /\ Ordered(x, y, cs.i80) /\ Tells(x, y, 256, cs.i85) /\ Signs(x, y, 256, cs.z80)
<1> DEFINE i == Start(I80!PowerOn, File(x, 256 * y, 0), FALSE, <<o>>)
           j == Start(I85!PowerOn, File(x, 256 * y, 0), FALSE, <<o>>)
           z == Start(Z80!PowerOn, File(x, 256 * y, 0), FALSE, <<o>>)
           ti == I80!Step(i, FALSE)
           tj == I85!Step(j, FALSE)
           tz == Z80!Step(z, FALSE, FALSE)
<1>1. cs = [i80 |-> ti, i85 |-> tj, z80 |-> tz]
  BY DEF StepAll, OrderCores, Cores
<1>2. Compares1(I80!PowerOn, o, x, y, i) /\ Compares1(I85!PowerOn, o, x, y, j) /\ Compares1(Z80!PowerOn, o, x, y, z)
  BY DEF Compares1
<1>3. Bytes2(x, y) /\ Pick(o)
  OBVIOUS
<1>7. I80Once(i, ti) /\ I85Once(j, tj) /\ Z80Once(z, tz)
  BY DEF I80Once, I85Once, Z80Once
<1> HIDE DEF i, j, z, ti, tj, tz
<1>4. /\ Ready(i, o) /\ i.r[7] = x /\ i.r[0] = y
      /\ Ready(j, o) /\ j.r[7] = x /\ j.r[0] = y /\ DOMAIN j = DOMAIN I85!PowerOn /\ ("trap" \in DOMAIN I85!PowerOn => j.trap = I85!PowerOn.trap)
      /\ Ready(z, o) /\ z.r[7] = x /\ z.r[0] = y /\ DOMAIN z = DOMAIN Z80!PowerOn
  BY ONLY <1>2, <1>3, Powered, StartsOne
<1>5. Alone(j) /\ Z80Core \subseteq DOMAIN z
  BY ONLY <1>4, Powered DEF Alone
<1>6. Ordered(x, y, ti) /\ Tells(x, y, 256, tj) /\ Signs(x, y, 256, tz)
  BY ONLY <1>3, <1>4, <1>5, <1>7, I80Compares, I85Compares, Z80Compares
<1> QED BY ONLY <1>1, <1>6

\* A word.
Word(x) == x \in Nat /\ x < 65536

\* DSUB of the 8085 and SBC HL of the Z80, likewise.
LEMMA WidesEnd ==
  ASSUME NEW x, NEW y, Word(x), Word(y), NEW cs, cs = StepAll(WideCores(x, y))
  PROVE  Tells(x, y, 65536, cs.i85) /\ Signs(x, y, 65536, cs.z80)
<1> DEFINE r == File(0, y, x)
           short == <<8>>
           long == <<237, 66>>
           cy == FALSE
           j == Start(I85!PowerOn, r, cy, short)
           z == Start(Z80!PowerOn, r, cy, long)
           tj == I85!Step(j, FALSE)
           tz == Z80!Step(z, FALSE, FALSE)
           h == x \div 256
           l == x % 256
           b == y \div 256
           d == y % 256
<1>1. cs.i85 = tj /\ cs.z80 = tz
  BY DEF StepAll, WideCores, Cores
<1>2. Halves2(x, h, l) /\ Halves2(y, b, d)
  BY DEF Word, Halves2
<1>3. DOMAIN r = Numbers /\ r[4] = h /\ r[5] = l /\ r[0] = b /\ r[1] = d
  BY Files4 DEF Word
<1>4. Len(short) = 1 /\ short[1] = 8 /\ Len(long) = 2 /\ long[1] = 237 /\ long[2] = 66
  OBVIOUS
<1>5. /\ j = Start(I85!PowerOn, r, cy, short) /\ z = Start(Z80!PowerOn, r, cy, long) /\ ~cy
      /\ I85Once(j, tj) /\ Z80Once(z, tz)
  BY DEF I85Once, Z80Once
<1> HIDE DEF r, short, long, cy, j, z, tj, tz, h, l, b, d
<1>13. Program(I85!PowerOn, r, cy, short, 1, j) /\ Program(Z80!PowerOn, r, cy, long, 2, z)
  BY ONLY <1>3, <1>4, <1>5 DEF Program
<1>6. Ready(j, short[1]) /\ j.r = r /\ DOMAIN j = DOMAIN I85!PowerOn /\ ("trap" \in DOMAIN I85!PowerOn => j.trap = I85!PowerOn.trap)
  BY ONLY <1>5, <1>13, Powered, Starts
<1>7. /\ Ready(z, long[1]) /\ z.r = r /\ ~z.cy /\ z.pc = 256 /\ DOMAIN z = DOMAIN Z80!PowerOn
      /\ 257 \in DOMAIN z.mem /\ z.mem[257] = long[2]
  BY ONLY <1>5, <1>13, Powered, Starts
<1>8. Alone(j) /\ Z80Core \subseteq DOMAIN z
  BY ONLY <1>6, <1>7, Powered DEF Alone
<1>9. Ready(j, 8) /\ Zilog(z, 237) /\ z.mem[257] = 66
  BY ONLY <1>4, <1>6, <1>7, <1>8 DEF Zilog
<1>10. j.r[4] = h /\ j.r[5] = l /\ j.r[0] = b /\ j.r[1] = d /\ z.r[4] = h /\ z.r[5] = l /\ z.r[0] = b /\ z.r[1] = d
  BY ONLY <1>3, <1>6, <1>7
<1>11. Tells(x, y, 65536, tj)
  BY ONLY <1>2, <1>5, <1>8, <1>9, <1>10, I85Compares2
<1>12. Signs(x, y, 65536, tz)
  BY ONLY <1>2, <1>5, <1>7, <1>9, <1>10, Z80Compares2
<1> QED BY ONLY <1>1, <1>11, <1>12

\* An addition that is done shows the digits of the sum on the three processors.
LEMMA AddsShown ==
  ASSUME DecimalRun, rig.kind = "add", seen.left = 0
  PROVE  DecimalIsDecimal
<1>1. PICK x \in Decimals, y \in Decimals, k \in {0, 1} :
        /\ rig.x = x /\ rig.y = y /\ rig.cin = k
        /\ cpu = StepAll(StepAll(DecimalCores(rig.kind, x, y, k)))
  BY DEF DecimalRun
<1>2. Two(x, y, k)
  BY RigsAssumption DEF Two
<1>3. DOMAIN cpu = {"i80", "i85", "z80"} /\ \A who \in {"i80", "i85", "z80"} : DecimalRight(x, y, k, cpu[who])
  BY ONLY <1>1, <1>2, AddsEnd, rig.kind = "add"
<1> QED BY <1>1, <1>3 DEF DecimalIsDecimal, DecimalRight, A

\* A subtraction likewise, on the Z80.
LEMMA LessensShown ==
  ASSUME DecimalRun, rig.kind = "subtract", seen.left = 0
  PROVE  DecimalIsDecimal
<1>1. PICK x \in Decimals, y \in Decimals, k \in {0, 1} :
        /\ rig.x = x /\ rig.y = y /\ rig.cin = k
        /\ cpu = StepAll(StepAll(DecimalCores(rig.kind, x, y, k)))
  BY DEF DecimalRun
<1>2. Two(x, y, k)
  BY RigsAssumption DEF Two
<1>3. LessRight(x, y, k, cpu.z80)
  BY ONLY <1>1, <1>2, LessensEnd, rig.kind = "subtract"
<1> QED BY <1>1, <1>3 DEF DecimalIsDecimal, LessRight, A

\* A compare of bytes shows their order on the three processors.
LEMMA OrdersShown ==
  ASSUME OrderRun, rig.kind = "order", seen.left = 0
  PROVE  CompareIsOrder
<1>1. PICK x \in Samples, y \in Samples, o \in {184, 144} :
        rig.x = x /\ rig.y = y /\ cpu = StepAll(OrderCores(x, y, o))
  BY DEF OrderRun
<1>2. Bytes2(x, y) /\ Pick(o)
  BY RigsAssumption DEF Bytes2, Pick
<1>3. DOMAIN cpu = {"i80", "i85", "z80"} /\ Ordered(x, y, cpu.i80) /\ Tells(x, y, 256, cpu.i85) /\ Signs(x, y, 256, cpu.z80)
  BY ONLY <1>1, <1>2, OrdersEnd
<1> DEFINE top == 256
<1>4. Tells(x, y, top, cpu.i85) /\ Signs(x, y, top, cpu.z80)
  BY <1>3
<1>5. CompareIsOrder <=>
        /\ \A who \in DOMAIN cpu : cpu[who].cy = (rig.x < rig.y) /\ cpu[who].z = (rig.x = rig.y)
        /\ cpu.i85.k = (Signed(rig.x, top) < Signed(rig.y, top))
        /\ (cpu.z80.s # cpu.z80.p) = (Signed(rig.x, top) < Signed(rig.y, top))
  BY DEF CompareIsOrder
<1> HIDE DEF top
<1> QED BY <1>1, <1>3, <1>4, <1>5 DEF Tells, Signs, Ordered

\* A compare of words shows their order on the two that have one.
LEMMA WidesShown ==
  ASSUME WideRun, rig.kind = "wide", seen.left = 0
  PROVE  CompareIsOrder
<1>1. PICK x \in Words, y \in Words : rig.x = x /\ rig.y = y /\ cpu = StepAll(WideCores(x, y))
  BY DEF WideRun
<1>2. Word(x) /\ Word(y)
  BY RigsAssumption DEF Word
<1>3. Tells(x, y, 65536, cpu.i85) /\ Signs(x, y, 65536, cpu.z80)
  BY ONLY <1>1, <1>2, WidesEnd
<1> DEFINE top == 65536
<1>4. Tells(x, y, top, cpu.i85) /\ Signs(x, y, top, cpu.z80)
  BY <1>3
<1>5. CompareIsOrder <=>
        /\ \A who \in {"i85", "z80"} : cpu[who].cy = (rig.x < rig.y) /\ cpu[who].z = (rig.x = rig.y)
        /\ cpu.i85.k = (Signed(rig.x, top) < Signed(rig.y, top))
        /\ (cpu.z80.s # cpu.z80.p) = (Signed(rig.x, top) < Signed(rig.y, top))
  BY DEF CompareIsOrder
<1> HIDE DEF top
<1> QED BY <1>1, <1>4, <1>5 DEF Tells, Signs, Ordered

\* What the cores are, at any step, shows the arithmetic to be exact.
LEMMA RunsExact == RigRuns => ArithmeticIsExact
<1> SUFFICES ASSUME RigRuns PROVE ArithmeticIsExact
  OBVIOUS
<1>1. DecimalIsDecimal
  <2>1. rig.kind \in {"add", "subtract"} /\ seen.left = 0 => DecimalIsDecimal
    BY AddsShown, LessensShown DEF RigRuns
  <2> QED BY <2>1 DEF DecimalIsDecimal
<1>2. CompareIsOrder
  <2>1. rig.kind \in {"order", "wide"} /\ seen.left = 0 => CompareIsOrder
    BY OrdersShown, WidesShown DEF RigRuns
  <2> QED BY <2>1 DEF CompareIsOrder
<1> QED BY <1>1, <1>2 DEF ArithmeticIsExact

\* Decimal adjustment gives the decimal digits and the carry, and a compare the unsigned and the
\* signed order, on the 8080, the 8085 and the Z80: for every pair of decimals and carry, every
\* pair of bytes and every pair of words (i8080.cpp, i8085.cpp and z80.cpp).
THEOREM ArithmeticRight == Spec => []ArithmeticIsExact
<1>1. Init => RigRuns
  BY RunsInit
<1>2. RigRuns /\ [Next]_vars => RigRuns'
  BY RunsNext
<1>3. RigRuns => ArithmeticIsExact
  BY RunsExact
<1> QED BY <1>1, <1>2, <1>3, PTL DEF Spec
=============================================================================
