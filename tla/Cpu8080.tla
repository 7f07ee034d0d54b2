------------------------------- MODULE Cpu8080 -------------------------------
(* The 8080 core, src/cpu/cpu8080.cpp: one instruction as a function of the     *)
(* core's record.  T-states and the status word are left out.                   *)
EXTENDS CpuParts

PowerOn == [r |-> [i \in Slots |-> 0], sp |-> 0, pc |-> 0, mem |-> <<>>, out |-> <<>>,
            s |-> FALSE, z |-> FALSE, p |-> FALSE, ac |-> FALSE, cy |-> FALSE,
            ie |-> FALSE, ei |-> FALSE, halted |-> FALSE, intFetch |-> FALSE]

(* ---- The arithmetic ------------------------------------------------------ *)

SetSZP(c, v) == [c EXCEPT !.s = Minus(v), !.z = v = 0, !.p = EvenParity[v]]

Add(c, v, cin) ==
    LET a == c.r[A]
        r == a + v + cin
    IN  SetSZP([c EXCEPT !.ac = Low(a) + Low(v) + cin > 15, !.cy = r > 255,
                         !.r[A] = Byte(r)], Byte(r))

\* One adder: A + ~v + 1, and the carry comes out inverted, the half carry not.
Sub(c, v, bin) ==
    LET a == c.r[A]
        r == a + Not(v) + 1 - bin
    IN  SetSZP([c EXCEPT !.ac = Low(a) + Low(Not(v)) + 1 - bin > 15, !.cy = ~(r > 255),
                         !.r[A] = Byte(r)], Byte(r))
Cmp(c, v) == [Sub(c, v, 0) EXCEPT !.r[A] = c.r[A]]

Logic(c, v, ac) == SetSZP([c EXCEPT !.r[A] = v, !.ac = ac, !.cy = FALSE], v)
Ana(c, v) == Logic(c, And(c.r[A], v), Bit(Or(c.r[A], v), 3))
Xra(c, v) == Logic(c, Xor(c.r[A], v), FALSE)
Ora(c, v) == Logic(c, Or(c.r[A], v), FALSE)

Inr(c, i) == LET v == Byte(Get(c, i) + 1)
             IN  Set(SetSZP([c EXCEPT !.ac = Low(v) = 0], v), i, v)
Dcr(c, i) == LET v == Byte(Get(c, i) + 255)
             IN  Set(SetSZP([c EXCEPT !.ac = Low(v) # 15], v), i, v)
Dad(c, v) == LET r == Pair(c, HL) + v
             IN  [WithPair(c, HL, Addr(r)) EXCEPT !.cy = r > 65535]

\* Whether the high digit wants its six.
HighSixMutant(c) == c.cy \/ High(c.r[A]) > 9
HighSix(c) == \/ c.cy
              \/ High(c.r[A]) > 9
              \/ High(c.r[A]) = 9 /\ Low(c.r[A]) > 9
Daa(c) ==
    LET low == IF c.ac \/ Low(c.r[A]) > 9 THEN 6 ELSE 0
        v   == Byte(c.r[A] + low + IF HighSix(c) THEN 96 ELSE 0)
    IN  SetSZP([c EXCEPT !.ac = Low(c.r[A]) + low > 15, !.r[A] = v, !.cy = HighSix(c)], v)

Alu(c, kind, v) ==
    CASE kind = 0 -> Add(c, v, 0) [] kind = 1 -> Add(c, v, One(c.cy))
      [] kind = 2 -> Sub(c, v, 0) [] kind = 3 -> Sub(c, v, One(c.cy))
      [] kind = 4 -> Ana(c, v)    [] kind = 5 -> Xra(c, v)
      [] kind = 6 -> Ora(c, v)    [] kind = 7 -> Cmp(c, v)

\* RLC RRC RAL RAR, and DAA CMA STC CMC: the column xxxxx111.
Accumulator(c, y) ==
    LET a    == c.r[A]
        left == Byte(2 * a)
        Rot(v, cy) == [c EXCEPT !.r[A] = v, !.cy = cy]
    IN  CASE y = 0 -> Rot(left + One(Minus(a)), Minus(a))
          [] y = 1 -> Rot(a \div 2 + 128 * (a % 2), a % 2 = 1)
          [] y = 2 -> Rot(left + One(c.cy), Minus(a))
          [] y = 3 -> Rot(a \div 2 + 128 * One(c.cy), a % 2 = 1)
          [] y = 4 -> Daa(c)
          [] y = 5 -> [c EXCEPT !.r[A] = Not(a)]
          [] y = 6 -> [c EXCEPT !.cy = TRUE]
          [] y = 7 -> [c EXCEPT !.cy = ~@]

(* ---- The flag byte, S Z 0 AC 0 P 1 CY -------------------------------------- *)

Psw(c) == 2 + One(c.cy) + 4 * One(c.p) + 16 * One(c.ac) + 64 * One(c.z) + 128 * One(c.s)
WithPsw(c, f) == [c EXCEPT !.cy = Bit(f, 0), !.p = Bit(f, 2), !.ac = Bit(f, 4),
                           !.z = Bit(f, 6), !.s = Bit(f, 7)]

(* ---- The decode: op is x yyy zzz, x two bits --------------------------------- *)

\* 00yyyzzz.  The seven holes of the column 000 are NOPs.
FirstBlock(c, y, z) ==
    CASE z = 0 -> c
      [] z = 1 -> IF y % 2 = 0 THEN WithPair(Past(c, 2), y \div 2, Word(c))
                               ELSE Dad(c, Pair(c, y \div 2))
      [] z = 2 -> LoadStore(c, y)
      [] z = 3 -> WithPair(c, y \div 2, Addr(Pair(c, y \div 2) + IF y % 2 = 0 THEN 1 ELSE 65535))
      [] z = 4 -> Inr(c, y)
      [] z = 5 -> Dcr(c, y)
      [] z = 6 -> Set(Past(c, 1), y, Operand(c, 0))
      [] z = 7 -> Accumulator(c, y)

\* 11yyyzzz.  CB is a JMP, D9 a RET, and DD, ED and FD are CALLs.
LastBlock(c, y, z) ==
    LET rp == y \div 2 IN
    CASE z = 0 -> Return(c, Cond(c, y))
      [] z = 1 /\ y \in {0, 2, 4} -> WithPair(Popped(c), rp, Top(c))
      [] z = 1 /\ y = 6 -> WithPsw([Popped(c) EXCEPT !.r[A] = Top(c) \div 256], Byte(Top(c)))
      [] z = 1 /\ y \in {1, 3} -> Return(c, TRUE)
      [] z = 1 /\ y = 5 -> [c EXCEPT !.pc = Pair(c, HL)]
      [] z = 1 /\ y = 7 -> [c EXCEPT !.sp = Pair(c, HL)]
      [] z = 2 -> Jump(c, Cond(c, y))
      [] z = 3 /\ y \in {0, 1} -> Jump(c, TRUE)
      [] z = 3 /\ y = 2 -> Output(c)
      [] z = 3 /\ y = 3 -> Input(c)
      [] z = 3 /\ y = 4 -> Xthl(c)
      [] z = 3 /\ y = 5 -> Xchg(c)
      [] z = 3 /\ y = 6 -> [c EXCEPT !.ie = FALSE, !.ei = FALSE]
      [] z = 3 /\ y = 7 -> [c EXCEPT !.ei = TRUE]
      [] z = 4 -> Call(c, Cond(c, y))
      [] z = 5 /\ y = 6 -> Push(c, 256 * c.r[A] + Psw(c))
      [] z = 5 /\ y \in {0, 2, 4} -> Push(c, Pair(c, rp))
      [] z = 5 /\ y % 2 = 1 -> Call(c, TRUE)
      [] z = 6 -> Alu(Past(c, 1), y, Operand(c, 0))
      [] z = 7 -> Restart(c, 8 * y)

Execute(c, op) ==
    LET y == op \div 8 % 8
        z == op % 8
    IN  CASE op \div 64 = 0 -> FirstBlock(c, y, z)
          [] op \div 64 = 1 -> Set(c, y, Get(c, z))
          [] op \div 64 = 2 -> Alu(c, y, Get(c, z))
          [] op \div 64 = 3 -> LastBlock(c, y, z)

(* ---- One step ------------------------------------------------------------- *)

Takes(c, int) == c.ie /\ int
Acknowledge(c) == [c EXCEPT !.ie = FALSE, !.ei = FALSE, !.halted = FALSE, !.intFetch = TRUE]

\* EI's delay: the enable comes at the end of the instruction after it.
Shadow(n, pending, op) ==
    IF pending /\ op # 251 THEN [n EXCEPT !.ie = TRUE, !.ei = FALSE] ELSE n

Step(c, int) ==
    IF c.halted /\ ~Takes(c, int) THEN c
    ELSE LET k  == IF Takes(c, int) THEN Acknowledge(c) ELSE c
             op == IF k.intFetch THEN Floating ELSE At(k, k.pc)
             n  == IF op = 118 THEN [Past(k, 1) EXCEPT !.halted = TRUE]
                               ELSE Execute(Past(k, 1), op)
         IN  [Shadow(n, k.ei, op) EXCEPT !.intFetch = FALSE]
=============================================================================
