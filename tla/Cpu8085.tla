------------------------------- MODULE Cpu8085 -------------------------------
(* The 8085 core, src/cpu/cpu8085.cpp: a copy of the 8080's switch with the two  *)
(* undocumented flags V and K, the on-chip interrupts behind RIM and SIM, and     *)
(* the ten undocumented opcodes in the 8080's holes.                             *)
EXTENDS CpuParts

\* RESET masks the three restarts; their pins are driven from the register list
\* only, no board is wired to them.
PowerOn == [r |-> [i \in Slots |-> 0], sp |-> 0, pc |-> 0, mem |-> <<>>, out |-> <<>>,
            s |-> FALSE, z |-> FALSE, p |-> FALSE, ac |-> FALSE, cy |-> FALSE,
            v |-> FALSE, k |-> FALSE,
            ie |-> FALSE, ei |-> FALSE, halted |-> FALSE, intFetch |-> FALSE,
            m55 |-> TRUE, m65 |-> TRUE, m75 |-> TRUE, p55 |-> FALSE, p65 |-> FALSE,
            p75 |-> FALSE, trap |-> FALSE, sid |-> FALSE, sod |-> FALSE]

(* ---- The arithmetic ------------------------------------------------------ *)

\* The carry into bit 7 against the carry out of it.
AddOverflow(x, y, cin) == ((x % 128) + (y % 128) + cin > 127) # (x + y + cin > 255)

\* S, Z and P from the result, V as given, and K against the sign.
SettleMutant(c, v, over) ==
    [c EXCEPT !.s = Minus(v), !.z = v = 0, !.p = EvenParity[v], !.v = over, !.k = Minus(v)]
Settle(c, v, over) ==
    [c EXCEPT !.s = Minus(v), !.z = v = 0, !.p = EvenParity[v],
              !.v = over, !.k = over # Minus(v)]

Add(c, v, cin) ==
    LET a == c.r[A]
        r == a + v + cin
    IN  Settle([c EXCEPT !.ac = Low(a) + Low(v) + cin > 15, !.cy = r > 255,
                         !.r[A] = Byte(r)], Byte(r), AddOverflow(a, v, cin))
Sub(c, v, bin) ==
    LET a == c.r[A]
        r == a + Not(v) + 1 - bin
    IN  Settle([c EXCEPT !.ac = Low(a) + Low(Not(v)) + 1 - bin > 15, !.cy = ~(r > 255),
                         !.r[A] = Byte(r)], Byte(r), AddOverflow(a, Not(v), 1 - bin))
Cmp(c, v) == [Sub(c, v, 0) EXCEPT !.r[A] = c.r[A]]

Logic(c, v, ac) == Settle([c EXCEPT !.r[A] = v, !.ac = ac, !.cy = FALSE], v, FALSE)
Ana(c, v) == Logic(c, And(c.r[A], v), TRUE)
Xra(c, v) == Logic(c, Xor(c.r[A], v), FALSE)
Ora(c, v) == Logic(c, Or(c.r[A], v), FALSE)

Inr(c, i) ==
    LET old == Get(c, i)
        new == Byte(old + 1)
    IN  Set(Settle([c EXCEPT !.ac = Low(new) = 0], new, AddOverflow(old, 1, 0)), i, new)
Dcr(c, i) ==
    LET old == Get(c, i)
        new == Byte(old + 255)
    IN  Set(Settle([c EXCEPT !.ac = Low(new) # 15], new, AddOverflow(old, 255, 0)), i, new)

Dad(c, v) ==
    LET r    == Pair(c, HL) + v
        over == ((Pair(c, HL) % 32768) + (v % 32768) > 32767) # (r > 65535)
    IN  [WithPair(c, HL, Addr(r)) EXCEPT !.cy = r > 65535, !.v = over,
                                         !.k = over # (Addr(r) > 32767)]

Daa(c) ==
    LET a    == c.r[A]
        high == c.cy \/ High(a) > 9 \/ (High(a) = 9 /\ Low(a) > 9)
        low  == IF c.ac \/ Low(a) > 9 THEN 6 ELSE 0
        six  == low + IF high THEN 96 ELSE 0
        v    == Byte(a + six)
    IN  Settle([c EXCEPT !.ac = Low(a) + low > 15, !.r[A] = v, !.cy = high],
               v, AddOverflow(a, six, 0))

Alu(c, kind, v) ==
    CASE kind = 0 -> Add(c, v, 0) [] kind = 1 -> Add(c, v, One(c.cy))
      [] kind = 2 -> Sub(c, v, 0) [] kind = 3 -> Sub(c, v, One(c.cy))
      [] kind = 4 -> Ana(c, v)    [] kind = 5 -> Xra(c, v)
      [] kind = 6 -> Ora(c, v)    [] kind = 7 -> Cmp(c, v)

\* The rotates move V and K as well as CY; the rest of the column is the 8080's.
Accumulator(c, y) ==
    LET a    == c.r[A]
        left == Byte(2 * a)
        over == Bit(a, 6) # Bit(a, 7)
        Rot(v, cy, o) == [c EXCEPT !.r[A] = v, !.cy = cy, !.v = o, !.k = o # Minus(v)]
    IN  CASE y = 0 -> Rot(left + One(Minus(a)), Minus(a), over)
          [] y = 1 -> Rot(a \div 2 + 128 * (a % 2), a % 2 = 1, FALSE)
          [] y = 2 -> Rot(left + One(c.cy), Minus(a), over)
          [] y = 3 -> Rot(a \div 2 + 128 * One(c.cy), a % 2 = 1, FALSE)
          [] y = 4 -> Daa(c)
          [] y = 5 -> [c EXCEPT !.r[A] = Not(a)]
          [] y = 6 -> [c EXCEPT !.cy = TRUE]
          [] y = 7 -> [c EXCEPT !.cy = ~@]

\* INX and DCX put in K whether the counter went round.
StepPair(c, i, up) ==
    LET v == Pair(c, i)
    IN  [WithPair(c, i, Addr(v + IF up THEN 1 ELSE 65535))
            EXCEPT !.k = v = IF up THEN 65535 ELSE 0]

(* ---- The undocumented ten, and RIM and SIM ----------------------------------- *)

\* HL - BC, a byte at a time; S and P of the high byte, Z of both.
Dsub(c) ==
    LET lo    == c.r[5] + Not(c.r[1]) + 1
        carry == One(lo > 255)
        hi    == c.r[4] + Not(c.r[0]) + carry
        over  == AddOverflow(c.r[4], Not(c.r[0]), carry)
        h     == Byte(hi)
    IN  [WithPair(c, HL, 256 * h + Byte(lo))
            EXCEPT !.ac = Low(c.r[5]) + Low(Not(c.r[1])) + 1 > 15, !.v = over,
                   !.cy = ~(hi > 255), !.s = Minus(h), !.z = h = 0 /\ Byte(lo) = 0,
                   !.p = EvenParity[h], !.k = over # Minus(h)]

Arhl(c) == [WithPair(c, HL, Pair(c, HL) \div 2 + 128 * 256 * One(Minus(c.r[4])))
               EXCEPT !.cy = Bit(c.r[5], 0)]
Rdel(c) == [WithPair(c, 1, Addr(2 * Pair(c, 1) + One(c.cy)))
               EXCEPT !.v = Bit(c.r[2], 6) # Bit(c.r[2], 7), !.cy = Minus(c.r[2])]

Rim(c) == [c EXCEPT !.r[A] =
    128 * One(c.sid) + 64 * One(c.p75) + 32 * One(c.p65) + 16 * One(c.p55)
    + 8 * One(c.ie) + 4 * One(c.m75) + 2 * One(c.m65) + One(c.m55)]
Sim(c) ==
    LET a == c.r[A]
        Mask(i, old) == IF Bit(a, 3) THEN Bit(a, i) ELSE old
    IN  [c EXCEPT !.m55 = Mask(0, @), !.m65 = Mask(1, @), !.m75 = Mask(2, @),
                  !.p75 = @ /\ ~Bit(a, 4), !.sod = IF Bit(a, 6) THEN Bit(a, 7) ELSE @]

\* NOP DSUB ARHL RDEL RIM LDHI SIM LDSI: the column xxxxx000 of the first block.
Undocumented(c, y) ==
    CASE y = 0 -> c
      [] y = 1 -> Dsub(c)
      [] y = 2 -> Arhl(c)
      [] y = 3 -> Rdel(c)
      [] y = 4 -> Rim(c)
      [] y = 5 -> WithPair(Past(c, 1), 1, Addr(Pair(c, HL) + Operand(c, 0)))
      [] y = 6 -> Sim(c)
      [] y = 7 -> WithPair(Past(c, 1), 1, Addr(c.sp + Operand(c, 0)))

\* RSTV SHLX LHLX JNK JK, where the 8080 repeats JMP, RET and CALL.
Holes == {203, 217, 221, 237, 253}
InHole(c, op) ==
    CASE op = 203 -> IF c.v THEN Restart(c, 64) ELSE c
      [] op = 217 -> Write16(c, Pair(c, 1), Pair(c, HL))
      [] op = 221 -> Jump(c, ~c.k)
      [] op = 237 -> WithPair(c, HL, At16(c, Pair(c, 1)))
      [] op = 253 -> Jump(c, c.k)

(* ---- The flag byte, S Z K AC 0 P V CY --------------------------------------- *)

Psw(c) == One(c.cy) + 2 * One(c.v) + 4 * One(c.p) + 16 * One(c.ac) + 32 * One(c.k)
          + 64 * One(c.z) + 128 * One(c.s)
WithPsw(c, f) == [c EXCEPT !.cy = Bit(f, 0), !.v = Bit(f, 1), !.p = Bit(f, 2), !.ac = Bit(f, 4),
                           !.k = Bit(f, 5), !.z = Bit(f, 6), !.s = Bit(f, 7)]

(* ---- The decode ----------------------------------------------------------- *)

FirstBlock(c, y, z) ==
    CASE z = 0 -> Undocumented(c, y)
      [] z = 1 -> IF y % 2 = 0 THEN WithPair(Past(c, 2), y \div 2, Word(c))
                               ELSE Dad(c, Pair(c, y \div 2))
      [] z = 2 -> LoadStore(c, y)
      [] z = 3 -> StepPair(c, y \div 2, y % 2 = 0)
      [] z = 4 -> Inr(c, y)
      [] z = 5 -> Dcr(c, y)
      [] z = 6 -> Set(Past(c, 1), y, Operand(c, 0))
      [] z = 7 -> Accumulator(c, y)

LastBlock(c, y, z) ==
    LET rp == y \div 2 IN
    CASE z = 0 -> Return(c, Cond(c, y))
      [] z = 1 /\ y \in {0, 2, 4} -> WithPair(Popped(c), rp, Top(c))
      [] z = 1 /\ y = 6 -> WithPsw([Popped(c) EXCEPT !.r[A] = Top(c) \div 256], Byte(Top(c)))
      [] z = 1 /\ y = 1 -> Return(c, TRUE)
      [] z = 1 /\ y = 5 -> [c EXCEPT !.pc = Pair(c, HL)]
      [] z = 1 /\ y = 7 -> [c EXCEPT !.sp = Pair(c, HL)]
      [] z = 2 -> Jump(c, Cond(c, y))
      [] z = 3 /\ y = 0 -> Jump(c, TRUE)
      [] z = 3 /\ y = 2 -> Output(c)
      [] z = 3 /\ y = 3 -> Input(c)
      [] z = 3 /\ y = 4 -> Xthl(c)
      [] z = 3 /\ y = 5 -> Xchg(c)
      [] z = 3 /\ y = 6 -> [c EXCEPT !.ie = FALSE, !.ei = FALSE]
      [] z = 3 /\ y = 7 -> [c EXCEPT !.ei = TRUE]
      [] z = 4 -> Call(c, Cond(c, y))
      [] z = 5 /\ y = 6 -> Push(c, 256 * c.r[A] + Psw(c))
      [] z = 5 /\ y \in {0, 2, 4} -> Push(c, Pair(c, rp))
      [] z = 5 /\ y = 1 -> Call(c, TRUE)
      [] z = 6 -> Alu(Past(c, 1), y, Operand(c, 0))
      [] z = 7 -> Restart(c, 8 * y)

Execute(c, op) ==
    LET y == op \div 8 % 8
        z == op % 8
    IN  CASE op \in Holes -> InHole(c, op)
          [] op \notin Holes /\ op \div 64 = 0 -> FirstBlock(c, y, z)
          [] op \notin Holes /\ op \div 64 = 1 -> Set(c, y, Get(c, z))
          [] op \notin Holes /\ op \div 64 = 2 -> Alu(c, y, Get(c, z))
          [] op \notin Holes /\ op \div 64 = 3 -> LastBlock(c, y, z)

(* ---- One step ------------------------------------------------------------- *)

\* The four restarts vector inside the chip, and come before INTR.
Restart75(c) == c.ie /\ c.p75 /\ ~c.m75
Restart65(c) == c.ie /\ c.p65 /\ ~c.m65
Restart55(c) == c.ie /\ c.p55 /\ ~c.m55
OnChip(c) == c.trap \/ Restart75(c) \/ Restart65(c) \/ Restart55(c)
Takes(c, int) == OnChip(c) \/ (c.ie /\ int)

Vector(c, at) == [Restart(c, at) EXCEPT !.ie = FALSE, !.ei = FALSE, !.halted = FALSE]
Serve(c) ==
    CASE c.trap -> Vector(c, 36)
      [] ~c.trap /\ Restart75(c) -> Vector([c EXCEPT !.p75 = FALSE], 60)
      [] ~c.trap /\ ~Restart75(c) /\ Restart65(c) -> Vector(c, 52)
      [] OTHER -> Vector(c, 44)

Acknowledge(c) == [c EXCEPT !.ie = FALSE, !.ei = FALSE, !.halted = FALSE, !.intFetch = TRUE]
ShadowMutant(n, pending, op) == IF op = 251 THEN [n EXCEPT !.ie = TRUE, !.ei = FALSE] ELSE n
Shadow(n, pending, op) ==
    IF pending /\ op # 251 THEN [n EXCEPT !.ie = TRUE, !.ei = FALSE] ELSE n

Step(c, int) ==
    IF OnChip(c) THEN Serve(c)
    ELSE IF c.halted /\ ~Takes(c, int) THEN c
    ELSE LET k  == IF Takes(c, int) THEN Acknowledge(c) ELSE c
             op == IF k.intFetch THEN Floating ELSE At(k, k.pc)
             n  == IF op = 118 THEN [Past(k, 1) EXCEPT !.halted = TRUE]
                               ELSE Execute(Past(k, 1), op)
         IN  [Shadow(n, k.ei, op) EXCEPT !.intFetch = FALSE]
=============================================================================
