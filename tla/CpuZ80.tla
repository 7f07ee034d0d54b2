-------------------------------- MODULE CpuZ80 --------------------------------
(* The Z80 core, src/cpu/cpuZ80.cpp.  The flags P/V, H and N are the fields p,  *)
(* ac and n.  WZ is left out, and with it the undocumented bits 3 and 5 of F.    *)
EXTENDS CpuParts

PowerOn == [r |-> [i \in Slots |-> 0], sp |-> 0, pc |-> 0, mem |-> <<>>, out |-> <<>>,
            s |-> FALSE, z |-> FALSE, p |-> FALSE, ac |-> FALSE, cy |-> FALSE, n |-> FALSE,
            ix |-> 0, iy |-> 0, i |-> 0, refresh |-> 0, im |-> 0,
            r2 |-> [i \in Slots |-> 0], f2 |-> 0,
            ie |-> FALSE, iff2 |-> FALSE, ei |-> FALSE, halted |-> FALSE,
            intFetch |-> FALSE, nmiLast |-> FALSE]

(* ---- HL, IX or IY: what a prefix makes of the main page -------------------------- *)

\* The context of an instruction: the register HL stands for, whether it reaches
\* memory through it, and the displacement that came with it.
Plain == [idx |-> "hl", mem |-> FALSE, disp |-> 0]

Index(c, x) == CASE x.idx = "ix" -> c.ix [] x.idx = "iy" -> c.iy [] x.idx = "hl" -> Pair(c, HL)
WithIndex(c, x, v) ==
    CASE x.idx = "ix" -> [c EXCEPT !.ix = v]
      [] x.idx = "iy" -> [c EXCEPT !.iy = v]
      [] x.idx = "hl" -> WithPair(c, HL, v)
IndexAddr(c, x) == Addr(Index(c, x) + x.disp + 65536)

\* H and L are the halves of the index register, except beside an (IX+d).
Halves(x, i) == x.idx # "hl" /\ ~x.mem /\ i \in {4, 5}
GetR(c, x, i) ==
    CASE i = M -> At(c, IndexAddr(c, x))
      [] i # M /\ Halves(x, i) -> IF i = 4 THEN Index(c, x) \div 256 ELSE Byte(Index(c, x))
      [] OTHER -> c.r[i]
SetRMutant(c, x, i, v) ==
    CASE i = M -> Write(c, IndexAddr(c, x), v)
      [] x.idx # "hl" /\ i = 4 -> WithIndex(c, x, 256 * v + Byte(Index(c, x)))
      [] x.idx # "hl" /\ i = 5 -> WithIndex(c, x, 256 * (Index(c, x) \div 256) + v)
      [] OTHER -> [c EXCEPT !.r[i] = v]
SetR(c, x, i, v) ==
    CASE i = M -> Write(c, IndexAddr(c, x), v)
      [] i # M /\ Halves(x, i) ->
            WithIndex(c, x, IF i = 4 THEN 256 * v + Byte(Index(c, x))
                                     ELSE 256 * (Index(c, x) \div 256) + v)
      [] OTHER -> [c EXCEPT !.r[i] = v]

GetRP(c, x, i) == IF i = HL THEN Index(c, x) ELSE Pair(c, i)
SetRP(c, x, i, v) == IF i = HL THEN WithIndex(c, x, v) ELSE WithPair(c, i, v)

(* ---- The arithmetic ------------------------------------------------------ *)

SZ(c, v) == [c EXCEPT !.s = Minus(v), !.z = v = 0]
SZP(c, v) == [c EXCEPT !.s = Minus(v), !.z = v = 0, !.p = EvenParity[v]]

AddA(c, v, cin) ==
    LET a == c.r[A]
        r == a + v + cin
    IN  SZ([c EXCEPT !.ac = Low(a) + Low(v) + cin > 15, !.cy = r > 255, !.n = FALSE,
                     !.p = Minus(a) = Minus(v) /\ Minus(a) # Minus(Byte(r)),
                     !.r[A] = Byte(r)], Byte(r))
SubA(c, v, cin, store) ==
    LET a == c.r[A]
        r == a - v - cin
    IN  SZ([c EXCEPT !.ac = Low(a) - Low(v) - cin < 0, !.cy = r < 0, !.n = TRUE,
                     !.p = Minus(a) # Minus(v) /\ Minus(a) # Minus(Byte(r)),
                     !.r[A] = IF store THEN Byte(r) ELSE a], Byte(r))

Logic(c, v, half) ==
    SZP([c EXCEPT !.r[A] = v, !.ac = half, !.cy = FALSE, !.n = FALSE], v)
AndA(c, v) == Logic(c, And(c.r[A], v), TRUE)
XorA(c, v) == Logic(c, Xor(c.r[A], v), FALSE)
OrA(c, v)  == Logic(c, Or(c.r[A], v), FALSE)

IncR(c, x, i) ==
    LET old == GetR(c, x, i)
        new == Byte(old + 1)
    IN  SetR(SZ([c EXCEPT !.ac = Low(new) = 0, !.p = old = 127, !.n = FALSE], new), x, i, new)
DecRMutant(c, x, i) ==
    LET old == GetR(c, x, i)
        new == Byte(old + 255)
    IN  SetR(SZ([c EXCEPT !.ac = Low(new) # 15, !.p = old = 128, !.n = TRUE], new), x, i, new)
DecR(c, x, i) ==
    LET old == GetR(c, x, i)
        new == Byte(old + 255)
    IN  SetR(SZ([c EXCEPT !.ac = Low(new) = 15, !.p = old = 128, !.n = TRUE], new), x, i, new)

AddHL(c, x, v) ==
    LET a == Index(c, x)
    IN  [WithIndex(c, x, Addr(a + v)) EXCEPT !.ac = (a % 4096) + (v % 4096) > 4095,
                                             !.cy = a + v > 65535, !.n = FALSE]

Wide(c, r) == [WithPair(c, HL, Addr(r)) EXCEPT !.s = Addr(r) > 32767, !.z = Addr(r) = 0]
AdcHL(c, v) ==
    LET a == Pair(c, HL)
        r == a + v + One(c.cy)
    IN  [Wide(c, r) EXCEPT !.ac = (a % 4096) + (v % 4096) + One(c.cy) > 4095,
            !.cy = r > 65535, !.n = FALSE,
            !.p = (a > 32767) = (v > 32767) /\ (a > 32767) # (Addr(r) > 32767)]
SbcHL(c, v) ==
    LET a == Pair(c, HL)
        r == a - v - One(c.cy)
    IN  [Wide(c, r) EXCEPT !.ac = (a % 4096) - (v % 4096) - One(c.cy) < 0,
            !.cy = r < 0, !.n = TRUE,
            !.p = (a > 32767) # (v > 32767) /\ (a > 32767) # (Addr(r) > 32767)]

Daa(c) ==
    LET a   == c.r[A]
        six == (IF c.cy \/ a > 153 THEN 96 ELSE 0) + (IF c.ac \/ Low(a) > 9 THEN 6 ELSE 0)
        v   == Byte(a + IF c.n THEN 256 - six ELSE six)
    IN  SZP([c EXCEPT !.r[A] = v, !.cy = c.cy \/ a > 153,
                      !.ac = IF c.n THEN c.ac /\ Low(a) < 6 ELSE Low(a) > 9], v)
Neg(c) ==
    LET a == c.r[A]
        v == Byte(256 - a)
    IN  SZ([c EXCEPT !.r[A] = v, !.n = TRUE, !.ac = Low(a) # 0, !.p = a = 128, !.cy = a # 0], v)

Alu(c, kind, v) ==
    CASE kind = 0 -> AddA(c, v, 0)       [] kind = 1 -> AddA(c, v, One(c.cy))
      [] kind = 2 -> SubA(c, v, 0, TRUE) [] kind = 3 -> SubA(c, v, One(c.cy), TRUE)
      [] kind = 4 -> AndA(c, v)          [] kind = 5 -> XorA(c, v)
      [] kind = 6 -> OrA(c, v)           [] kind = 7 -> SubA(c, v, 0, FALSE)

\* RLC RRC RL RR SLA SRA SLL SRL: what becomes of the byte, and the bit that falls out.
RotCarry(kind, v) == IF kind \in {0, 2, 4, 6} THEN Minus(v) ELSE v % 2 = 1
RotValue(kind, v, cy) ==
    LET left  == Byte(2 * v)
        right == v \div 2
    IN  CASE kind = 0 -> left + One(Minus(v))
          [] kind = 1 -> right + 128 * (v % 2)
          [] kind = 2 -> left + One(cy)
          [] kind = 3 -> right + 128 * One(cy)
          [] kind = 4 -> left
          [] kind = 5 -> right + 128 * One(Minus(v))
          [] kind = 6 -> left + 1
          [] kind = 7 -> right
Rot(c, kind, v) ==
    SZP([c EXCEPT !.cy = RotCarry(kind, v), !.ac = FALSE, !.n = FALSE], RotValue(kind, v, c.cy))

\* RLCA RRCA RLA RRA keep S, Z and P/V; then DAA CPL SCF CCF.
Accumulator(c, y) ==
    CASE y < 4 -> [c EXCEPT !.r[A] = RotValue(y, @, c.cy), !.cy = RotCarry(y, c.r[A]),
                            !.ac = FALSE, !.n = FALSE]
      [] y = 4 -> Daa(c)
      [] y = 5 -> [c EXCEPT !.r[A] = Not(@), !.ac = TRUE, !.n = TRUE]
      [] y = 6 -> [c EXCEPT !.cy = TRUE, !.ac = FALSE, !.n = FALSE]
      [] y = 7 -> [c EXCEPT !.cy = ~@, !.ac = c.cy, !.n = FALSE]

BitTest(c, v, i) ==
    [c EXCEPT !.z = ~Bit(v, i), !.p = ~Bit(v, i), !.s = i = 7 /\ Bit(v, 7),
              !.ac = TRUE, !.n = FALSE]
Res(v, i) == IF Bit(v, i) THEN v - 2^i ELSE v
SetBit(v, i) == IF Bit(v, i) THEN v ELSE v + 2^i

(* ---- The flag byte, S Z - H - P/V N C -------------------------------------- *)

Flags(c) == One(c.cy) + 2 * One(c.n) + 4 * One(c.p) + 16 * One(c.ac) + 64 * One(c.z) + 128 * One(c.s)
WithFlags(c, f) == [c EXCEPT !.cy = Bit(f, 0), !.n = Bit(f, 1), !.p = Bit(f, 2),
                             !.ac = Bit(f, 4), !.z = Bit(f, 6), !.s = Bit(f, 7)]

(* ---- The main page --------------------------------------------------------- *)

\* A relative jump: the operand is signed, from the byte after it.
Relative(c, taken) ==
    LET n == Past(c, 1)
        e == Operand(c, 0)
    IN  IF taken THEN [n EXCEPT !.pc = Addr(@ + IF Minus(e) THEN e + 65536 - 256 ELSE e)] ELSE n

\* NOP, EX AF, DJNZ, JR and JR cc: the column xxxxx000.
Relatives(c, y) ==
    CASE y = 0 -> c
      [] y = 1 -> [WithFlags(c, c.f2) EXCEPT !.r[A] = c.r2[A], !.r2[A] = c.r[A], !.f2 = Flags(c)]
      [] y = 2 -> LET b == Byte(c.r[0] + 255)
                  IN  Relative([c EXCEPT !.r[0] = b], b # 0)
      [] y = 3 -> Relative(c, TRUE)
      [] y > 3 -> Relative(c, Cond(c, y - 4))

FirstBlock(c, x, y, z) ==
    LET rp == y \div 2
        w  == Word(c)
        n  == Past(c, 2)
    IN  CASE z = 0 -> Relatives(c, y)
          [] z = 1 -> IF y % 2 = 0 THEN SetRP(n, x, rp, w) ELSE AddHL(c, x, GetRP(c, x, rp))
          [] z = 2 /\ y = 4 -> Write16(n, w, Index(c, x))
          [] z = 2 /\ y = 5 -> WithIndex(n, x, At16(n, w))
          [] z = 2 /\ y \notin {4, 5} -> LoadStore(c, y)
          [] z = 3 -> SetRP(c, x, rp, Addr(GetRP(c, x, rp) + IF y % 2 = 0 THEN 1 ELSE 65535))
          [] z = 4 -> IncR(c, x, y)
          [] z = 5 -> DecR(c, x, y)
          [] z = 6 -> SetR(Past(c, 1), x, y, Operand(c, 0))
          [] z = 7 -> Accumulator(c, y)

\* EXX swaps BC, DE and HL with the other set; EX DE,HL minds no prefix.
Exx(c) == [c EXCEPT !.r = [i \in Slots |-> IF i = A THEN @[A] ELSE c.r2[i]],
                    !.r2 = [i \in Slots |-> IF i = A THEN @[A] ELSE c.r[i]]]

LastBlock(c, x, y, z) ==
    LET rp == y \div 2 IN
    CASE z = 0 -> Return(c, Cond(c, y))
      [] z = 1 /\ y \in {0, 2, 4} -> SetRP(Popped(c), x, rp, Top(c))
      [] z = 1 /\ y = 6 -> WithFlags([Popped(c) EXCEPT !.r[A] = Top(c) \div 256], Byte(Top(c)))
      [] z = 1 /\ y = 1 -> Return(c, TRUE)
      [] z = 1 /\ y = 3 -> Exx(c)
      [] z = 1 /\ y = 5 -> [c EXCEPT !.pc = Index(c, x)]
      [] z = 1 /\ y = 7 -> [c EXCEPT !.sp = Index(c, x)]
      [] z = 2 -> Jump(c, Cond(c, y))
      [] z = 3 /\ y = 0 -> Jump(c, TRUE)
      [] z = 3 /\ y = 2 -> Output(c)
      [] z = 3 /\ y = 3 -> Input(c)
      [] z = 3 /\ y = 4 -> WithIndex(Write16(c, c.sp, Index(c, x)), x, Top(c))
      [] z = 3 /\ y = 5 -> Xchg(c)
      [] z = 3 /\ y = 6 -> [c EXCEPT !.ie = FALSE, !.iff2 = FALSE, !.ei = FALSE]
      [] z = 3 /\ y = 7 -> [c EXCEPT !.ei = TRUE]
      [] z = 4 -> Call(c, Cond(c, y))
      [] z = 5 /\ y = 6 -> Push(c, 256 * c.r[A] + Flags(c))
      [] z = 5 /\ y \in {0, 2, 4} -> Push(c, GetRP(c, x, rp))
      [] z = 5 /\ y = 1 -> Call(c, TRUE)
      [] z = 6 -> Alu(Past(c, 1), y, Operand(c, 0))
      [] z = 7 -> Restart(c, 8 * y)
      [] OTHER -> c

ExecMain(c, x, op) ==
    LET y == op \div 8 % 8
        z == op % 8
    IN  CASE op = 118 -> [c EXCEPT !.halted = TRUE]
          [] op # 118 /\ op \div 64 = 1 -> SetR(c, x, y, GetR(c, x, z))
          [] op \div 64 = 0 -> FirstBlock(c, x, y, z)
          [] op \div 64 = 2 -> Alu(c, y, GetR(c, x, z))
          [] op \div 64 = 3 -> LastBlock(c, x, y, z)

(* ---- The prefixed pages ------------------------------------------------------ *)

\* Every M1 counts in R, whose bit 7 stands still.
Refresh(c) == [c EXCEPT !.refresh = 128 * (@ \div 128) + ((@ + 1) % 128)]
Opcode(c) == Operand(c, 0)
Fetched(c) == Past(Refresh(c), 1)

ExecCB(c) ==
    LET op == Opcode(c)
        k  == Fetched(c)
        y  == op \div 8 % 8
        v  == Get(k, op % 8)
    IN  CASE op < 64 -> Set(Rot(k, y, v), op % 8, RotValue(y, v, c.cy))
          [] op \in 64..127 -> BitTest(k, v, y)
          [] op \in 128..191 -> Set(k, op % 8, Res(v, y))
          [] op > 191 -> Set(k, op % 8, SetBit(v, y))

\* DD CB d op: the result goes to (IX+d) and, when the opcode names one, to a register too.
ExecDDCB(c, x) ==
    LET d  == Operand(c, 0)
        a  == IndexAddr(c, [x EXCEPT !.disp = IF Minus(d) THEN d - 256 ELSE d])
        op == Opcode(Past(c, 1))
        k  == Fetched(Past(c, 1))
        y  == op \div 8 % 8
        v  == At(k, a)
        To(n, w) == LET m == Write(n, a, w)
                    IN  IF op % 8 = M THEN m ELSE [m EXCEPT !.r[op % 8] = w]
    IN  CASE op < 64 -> To(Rot(k, y, v), RotValue(y, v, c.cy))
          [] op \in 64..127 -> BitTest(k, v, y)
          [] op \in 128..191 -> To(k, Res(v, y))
          [] op > 191 -> To(k, SetBit(v, y))

MemForm(op) ==
    CASE op \div 64 = 1 -> op # 118 /\ M \in {op % 8, op \div 8 % 8}
      [] op \div 64 = 2 -> op % 8 = M
      [] op \div 64 = 0 -> op % 8 \in {4, 5, 6} /\ op \div 8 = M
      [] op \div 64 = 3 -> FALSE

\* A prefix before another prefix is an instruction of its own that does nothing.
ExecIndexed(c, idx) ==
    LET op == Opcode(c)
        k  == Fetched(c)
        d  == Operand(k, 0)
        x  == [idx |-> idx, mem |-> MemForm(op), disp |-> IF Minus(d) THEN d - 256 ELSE d]
    IN  CASE ~c.intFetch /\ op \in {221, 237, 253} -> c
          [] op = 203 -> ExecDDCB(k, [idx |-> idx, mem |-> TRUE, disp |-> 0])
          [] x.mem -> ExecMain(Past(k, 1), x, op)
          [] OTHER -> ExecMain(k, [x EXCEPT !.disp = 0], op)

Rrd(c) ==
    LET m == At(c, Pair(c, HL))
        v == 16 * High(c.r[A]) + Low(m)
    IN  SZP([Write(c, Pair(c, HL), Byte(16 * c.r[A] + High(m)))
                EXCEPT !.r[A] = v, !.ac = FALSE, !.n = FALSE], v)
Rld(c) ==
    LET m == At(c, Pair(c, HL))
        v == 16 * High(c.r[A]) + High(m)
    IN  SZP([Write(c, Pair(c, HL), Byte(16 * m + Low(c.r[A])))
                EXCEPT !.r[A] = v, !.ac = FALSE, !.n = FALSE], v)

\* One turn of LDI, LDD, LDIR or LDDR; a repeat goes back over its own two bytes.
Moved(c, i, by) == WithPair(c, i, Addr(Pair(c, i) + by))
Again(c, repeat) == IF repeat THEN [c EXCEPT !.pc = Addr(@ + 65534)] ELSE c
BlockLd(c, by, repeat) ==
    LET left == Addr(Pair(c, 0) + 65535)
        k    == Write(c, Pair(c, 1), At(c, Pair(c, HL)))
        n    == WithPair(Moved(Moved(k, HL, by), 1, by), 0, left)
    IN  Again([n EXCEPT !.p = left # 0, !.ac = FALSE, !.n = FALSE], repeat /\ left # 0)
BlockCp(c, by, repeat) ==
    LET left == Addr(Pair(c, 0) + 65535)
        v    == At(c, Pair(c, HL))
        res  == Byte(c.r[A] - v)
        n    == WithPair(Moved(SZ(c, res), HL, by), 0, left)
    IN  Again([n EXCEPT !.p = left # 0, !.ac = Low(c.r[A]) < Low(v), !.n = TRUE],
              repeat /\ left # 0 /\ res # 0)

\* INI, OUTI and their kin count in B, and their flags come from a sum with C or L.
BlockFlags(c, v, k) ==
    LET b == c.r[0]
    IN  [SZ(c, b) EXCEPT !.n = Minus(v), !.ac = k > 255, !.cy = k > 255,
                         !.p = EvenParity[Xor(k % 8, b)]]
BlockIn(c, by, repeat) ==
    LET k == Write(c, Pair(c, HL), Floating)
        n == Moved([k EXCEPT !.r[0] = Byte(@ + 255)], HL, by)
    IN  Again(BlockFlags(n, Floating, Floating + Byte(c.r[1] + by)), repeat /\ n.r[0] # 0)
BlockOut(c, by, repeat) ==
    LET v == At(c, Pair(c, HL))
        k == [c EXCEPT !.r[0] = Byte(@ + 255), !.out = Append(@, <<c.r[1], v>>)]
        n == Moved(k, HL, by)
    IN  Again(BlockFlags(n, v, v + n.r[5]), repeat /\ n.r[0] # 0)

\* ED 01yyyzzz.
Extended(c, y, z) ==
    LET rp == y \div 2
        w  == Word(c)
        n  == Past(c, 2)
    IN  CASE z = 0 -> SZP([c EXCEPT !.r = [i \in Slots |-> IF i = y THEN Floating ELSE @[i]],
                                    !.ac = FALSE, !.n = FALSE], Floating)
          [] z = 1 -> [c EXCEPT !.out = Append(@, <<c.r[1], IF y = M THEN 0 ELSE c.r[y]>>)]
          [] z = 2 -> IF y % 2 = 1 THEN AdcHL(c, Pair(c, rp)) ELSE SbcHL(c, Pair(c, rp))
          [] z = 3 -> IF y % 2 = 1 THEN WithPair(n, rp, At16(n, w)) ELSE Write16(n, w, Pair(c, rp))
          [] z = 4 -> Neg(c)
          [] z = 5 -> Return([c EXCEPT !.ie = c.iff2], TRUE)
          [] z = 6 -> [c EXCEPT !.im = CASE y \in {2, 6} -> 1 [] y \in {3, 7} -> 2 [] OTHER -> 0]
          [] z = 7 /\ y = 0 -> [c EXCEPT !.i = c.r[A]]
          [] z = 7 /\ y = 1 -> [c EXCEPT !.refresh = c.r[A]]
          [] z = 7 /\ y \in {2, 3} ->
                LET v == IF y = 2 THEN c.i ELSE c.refresh
                IN  SZ([c EXCEPT !.r[A] = v, !.p = c.iff2, !.ac = FALSE, !.n = FALSE], v)
          [] z = 7 /\ y = 4 -> Rrd(c)
          [] z = 7 /\ y = 5 -> Rld(c)
          [] z = 7 /\ y > 5 -> c

ExecED(c) ==
    LET op == Opcode(c)
        k  == Fetched(c)
        y  == op \div 8 % 8
        by == IF y % 2 = 0 THEN 1 ELSE -1
    IN  CASE op \div 64 = 1 -> Extended(k, y, op % 8)
          [] op \in 160..191 /\ op % 8 = 0 -> BlockLd(k, by, y > 5)
          [] op \in 160..191 /\ op % 8 = 1 -> BlockCp(k, by, y > 5)
          [] op \in 160..191 /\ op % 8 = 2 -> BlockIn(k, by, y > 5)
          [] op \in 160..191 /\ op % 8 = 3 -> BlockOut(k, by, y > 5)
          [] OTHER -> k

(* ---- One step ------------------------------------------------------------- *)

NmiEdge(c, nmi) == nmi /\ ~c.nmiLast
Takes(c, int, nmi) == NmiEdge(c, nmi) \/ (c.ie /\ int)

\* NMI saves the enable in IFF2, one that EI had only promised included.
TakeNmi(c) ==
    Restart(Refresh([c EXCEPT !.iff2 = @ \/ c.ei, !.ei = FALSE, !.ie = FALSE, !.halted = FALSE]), 102)

\* Mode 1 is RST 38, mode 2 a table at I and the byte the bus drives, mode 0 an
\* opcode from the bus.
Acknowledge(c) == [c EXCEPT !.ie = FALSE, !.iff2 = FALSE, !.ei = FALSE, !.halted = FALSE]
TakeInt(c) ==
    LET k == Refresh(Acknowledge(c))
    IN  IF c.im = 1 THEN Restart(k, 56) ELSE Restart(k, At16(k, 256 * c.i + Floating))

Dispatch(c, op) ==
    CASE op = 203 -> ExecCB(c)
      [] op = 237 -> ExecED(c)
      [] op = 221 -> ExecIndexed(c, "ix")
      [] op = 253 -> ExecIndexed(c, "iy")
      [] OTHER -> ExecMain(c, Plain, op)

Shadow(n, pending, op) ==
    IF pending /\ op # 251 THEN [n EXCEPT !.ie = TRUE, !.iff2 = TRUE, !.ei = FALSE] ELSE n

Step(was, int, nmi) ==
    LET c == [was EXCEPT !.nmiLast = nmi]
    IN  IF NmiEdge(was, nmi) THEN TakeNmi(c)
        ELSE IF c.ie /\ int /\ c.im # 0 THEN TakeInt(c)
        ELSE IF c.halted /\ ~(c.ie /\ int) THEN Refresh(c)
        ELSE LET k  == IF c.ie /\ int THEN [Acknowledge(c) EXCEPT !.intFetch = TRUE] ELSE c
                 op == Opcode(k)
             IN  [Shadow(Dispatch(Fetched(k), op), k.ei, op) EXCEPT !.intFetch = FALSE]
=============================================================================
