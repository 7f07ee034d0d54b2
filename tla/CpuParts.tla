------------------------------ MODULE CpuParts ------------------------------
(* What the three processor cores of src/cpu have in common: bytes and words,  *)
(* the register file, memory as a processor sees it through the bus, the       *)
(* stack, and the transfers of control.  The source keeps a copy of these in    *)
(* each core on purpose; they are the same line for line, and stand here once.  *)
(*                                                                             *)
(* A core is a record.  The registers are numbered as the opcodes number them,  *)
(* r[0..5] = B C D E H L and r[7] = A; 6 is the memory cell HL points at.       *)
(*   sp, pc    the pointers            mem     the cells written so far         *)
(*   s z p ac cy   the flags (a Z80's P/V and H are p and ac)                   *)
(*   ie, ei    INTE (IFF1) and the EI that takes effect one instruction later   *)
(*   halted, intFetch    HLT, and an acknowledge in progress                    *)
(*   out       what OUT has sent                                                *)
EXTENDS Integers, FiniteSets, Sequences, TLC

M == 6
A == 7
HL == 2
Slots == {0, 1, 2, 3, 4, 5, 7}

Bit(v, i) == (v \div 2^i) % 2 = 1
One(b) == IF b THEN 1 ELSE 0
Low(v) == v % 16
High(v) == v \div 16
Byte(v) == v % 256
Addr(v) == v % 65536
Minus(v) == v >= 128
Not(v) == 255 - v

\* Even parity, the table each core builds from the definition.
EvenParity == [v \in 0..255 |-> Cardinality({i \in 0..7 : Bit(v, i)}) % 2 = 0]

\* v & w, a nibble at a time from a table; the other two follow from it.
NibbleAnd == [v \in 0..15, w \in 0..15 |->
                One(Bit(v, 0) /\ Bit(w, 0)) + 2 * One(Bit(v, 1) /\ Bit(w, 1))
                + 4 * One(Bit(v, 2) /\ Bit(w, 2)) + 8 * One(Bit(v, 3) /\ Bit(w, 3))]
And(v, w) == 16 * NibbleAnd[High(v), High(w)] + NibbleAnd[Low(v), Low(w)]
Or(v, w)  == v + w - And(v, w)
Xor(v, w) == v + w - 2 * And(v, w)

(* ---- Registers and memory ------------------------------------------------ *)

\* The pairs BC, DE and HL by number, and 3 for the stack pointer.
Pair(c, i) == IF i = 3 THEN c.sp ELSE 256 * c.r[2 * i] + c.r[2 * i + 1]
WithPair(c, i, v) ==
    IF i = 3 THEN [c EXCEPT !.sp = v]
    ELSE [c EXCEPT !.r = [@ EXCEPT ![2 * i] = v \div 256, ![2 * i + 1] = v % 256]]

At(c, a) == IF Addr(a) \in DOMAIN c.mem THEN c.mem[Addr(a)] ELSE 0
At16(c, a) == At(c, a) + 256 * At(c, a + 1)
Write(c, a, v) == [c EXCEPT !.mem = (Addr(a) :> v) @@ @]
Write16(c, a, v) == Write(Write(c, a, Byte(v)), a + 1, v \div 256)

Get(c, i) == IF i = M THEN At(c, Pair(c, HL)) ELSE c.r[i]
Set(c, i, v) == IF i = M THEN Write(c, Pair(c, HL), v) ELSE [c EXCEPT !.r[i] = v]

\* The bus with nobody driving it: RST 7 in an acknowledge, 255 from a port.
Floating == 255

\* Operand bytes come from the program, or in an acknowledge from the bus with
\* the program counter standing still.
Operand(c, n) == IF c.intFetch THEN Floating ELSE At(c, c.pc + n)
Word(c) == Operand(c, 0) + 256 * Operand(c, 1)
Past(c, n) == IF c.intFetch THEN c ELSE [c EXCEPT !.pc = Addr(@ + n)]

\* High byte first, going down.
Push(c, v) ==
    [Write(Write(c, c.sp + 65535, v \div 256), c.sp + 65534, Byte(v))
        EXCEPT !.sp = Addr(@ + 65534)]
Top(c) == At16(c, c.sp)
Popped(c) == [c EXCEPT !.sp = Addr(@ + 2)]

(* ---- Instructions that touch no flag ------------------------------------- *)

\* NZ Z NC C PO PE P M, the number in bits 3 to 5 of the opcode.
Cond(c, i) ==
    LET flag == <<c.z, c.cy, c.p, c.s>>[i \div 2 + 1]
    IN  IF i % 2 = 0 THEN ~flag ELSE flag

Jump(c, taken) == [Past(c, 2) EXCEPT !.pc = IF taken THEN Word(c) ELSE @]
Call(c, taken) ==
    LET n == Past(c, 2)
    IN  IF taken THEN [Push(n, n.pc) EXCEPT !.pc = Word(c)] ELSE n
Return(c, taken) == IF taken THEN [Popped(c) EXCEPT !.pc = Top(c)] ELSE c
Restart(c, at) == [Push(c, c.pc) EXCEPT !.pc = at]

\* STAX, LDAX, SHLD, LHLD, STA and LDA: the column xxxxx010 of the first block.
LoadStore(c, y) ==
    LET a == Word(c)
        n == Past(c, 2)
    IN  CASE y = 0 -> Write(c, Pair(c, 0), c.r[A])
          [] y = 1 -> Set(c, A, At(c, Pair(c, 0)))
          [] y = 2 -> Write(c, Pair(c, 1), c.r[A])
          [] y = 3 -> Set(c, A, At(c, Pair(c, 1)))
          [] y = 4 -> Write16(n, a, Pair(c, HL))
          [] y = 5 -> WithPair(n, HL, At16(n, a))
          [] y = 6 -> Write(n, a, c.r[A])
          [] y = 7 -> Set(n, A, At(n, a))

Xthl(c) == WithPair(Write16(c, c.sp, Pair(c, HL)), HL, Top(c))
Xchg(c) == WithPair(WithPair(c, HL, Pair(c, 1)), 1, Pair(c, HL))
Input(c) == [Past(c, 1) EXCEPT !.r[A] = Floating]
Output(c) == [Past(c, 1) EXCEPT !.out = Append(@, <<Operand(c, 0), c.r[A]>>)]
=============================================================================
