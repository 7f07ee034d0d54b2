------------------------------ MODULE Processors ------------------------------
(* The three cores of src/cpu side by side.  A state is a rig: some cores, the   *)
(* program they were given in memory, and what the properties remember of it.    *)
(*   add, subtract   two decimal numbers and DAA                                 *)
(*   order           two numbers and the compares                                *)
(*   program         one 8080 program on all three, an instruction at a time      *)
(*   index           a Z80 instruction on HL, and its DD or FD form beside it      *)
(*   interrupt       one core whose lines move, beside a twin whose lines do not   *)
EXTENDS Integers, FiniteSets, Sequences, TLC

CONSTANTS Decimals,     \* the two-digit numbers added and subtracted
          Samples,      \* the bytes compared
          Words,        \* the words compared
          Files,        \* register files a program starts from
          Operands,     \* the two operand bytes of its n-th instruction
          Offsets,      \* displacements of an indexed instruction
          Ends, Counts, \* where blocks move from and to, and how much
          Chores,       \* the opcodes the interrupted program is made of
          Length,       \* instructions of an interrupted program
          Nmis          \* the NMIs it meets

ASSUME RigsAssumption ==
    /\ Decimals \subseteq 0..99 /\ Samples \subseteq 0..255
    /\ \A w \in Words \cup Ends \cup Counts : w \in Nat /\ w < 65536
    /\ 0 \notin Counts
    /\ Offsets \subseteq -128..127 /\ Chores \subseteq 0..255
    /\ Length \in Nat /\ Nmis \in Nat

I80 == INSTANCE Cpu8080
I85 == INSTANCE Cpu8085
Z80 == INSTANCE CpuZ80

VARIABLES rig,      \* which rig, and what it was given
          cpu,      \* the cores
          seen      \* what the properties need to know of the past

vars == <<rig, cpu, seen>>

A == 7
Origin == 256
Stack == 16384

\* A core at the origin with registers, a carry and a program.
Start(core, r, cy, code) ==
    [core EXCEPT !.r = r, !.cy = cy, !.pc = Origin, !.sp = Stack,
                 !.mem = [a \in Origin .. Origin + Len(code) - 1 |-> code[a - Origin + 1]]]

Cores(r, cy, code) == [i80 |-> Start(I80!PowerOn, r, cy, code),
                       i85 |-> Start(I85!PowerOn, r, cy, code),
                       z80 |-> Start(Z80!PowerOn, r, cy, code)]

StepAll(cs) == [i80 |-> I80!Step(cs.i80, FALSE), i85 |-> I85!Step(cs.i85, FALSE),
                z80 |-> Z80!Step(cs.z80, FALSE, FALSE)]

\* A and BC and HL, the rest zero.
File(a, bc, hl) == [i \in {0, 1, 2, 3, 4, 5, 7} |->
    CASE i = 7 -> a [] i = 0 -> bc \div 256 [] i = 1 -> bc % 256
      [] i = 4 -> hl \div 256 [] i = 5 -> hl % 256 [] OTHER -> 0]

(* ---- Decimal arithmetic and compares: a fixed program, run to its end ---------------- *)

Packed(n) == 16 * (n \div 10) + (n % 10)

\* ADC B, DAA; and SBC B, DAA, which only the Z80 can do.
InitDecimal ==
    \E x, y \in Decimals, cin \in {0, 1}, what \in {"add", "subtract"} :
        /\ rig = [kind |-> what, x |-> x, y |-> y, cin |-> cin]
        /\ cpu = Cores(File(Packed(x), 256 * Packed(y), 0), cin = 1,
                       IF what = "add" THEN <<136, 39>> ELSE <<152, 39>>)
        /\ seen = [left |-> 2]

\* CMP B; or SUB B.
InitOrder ==
    \E x, y \in Samples, op \in {184, 144} :
        /\ rig = [kind |-> "order", x |-> x, y |-> y]
        /\ cpu = Cores(File(x, 256 * y, 0), FALSE, <<op>>)
        /\ seen = [left |-> 1]

\* DSUB on the 8085 and SBC HL,BC on the Z80; the 8080 has neither and runs NOPs.
InitWide ==
    \E x, y \in Words :
        LET cs == Cores(File(0, y, x), FALSE, <<8>>) IN
        /\ rig = [kind |-> "wide", x |-> x, y |-> y]
        /\ cpu = [cs EXCEPT !.z80 = Start(Z80!PowerOn, File(0, y, x), FALSE, <<237, 66>>)]
        /\ seen = [left |-> 1]

RunOn ==
    /\ rig.kind \in {"add", "subtract", "order", "wide"}
    /\ seen.left > 0
    /\ cpu' = StepAll(cpu)
    /\ seen' = [left |-> seen.left - 1]
    /\ UNCHANGED rig

(* ---- One program on three processors ------------------------------------------------ *)

\* An instruction laid where the program counter stands.
Lay(c, code) == [c EXCEPT !.mem = [a \in {(c.pc + i) % 65536 : i \in 0 .. Len(code) - 1} |->
                                      code[((a - c.pc) % 65536) + 1]] @@ @]

\* What the three have in common: not the holes of the 8080's map, which the others
\* gave opcodes of their own, nor the flag byte on the stack.
Common == (0..255) \ ({8, 16, 24, 32, 40, 48, 56} \cup {203, 217, 221, 237, 253} \cup {241, 245})

Kind(op) == CASE op \div 64 = 2 -> op \div 8 % 8
              [] op \div 64 = 3 /\ op % 8 = 6 -> op \div 8 % 8
              [] OTHER -> 8
Arithmetic(op) == Kind(op) \in {0, 1, 2, 3, 7} \/ (op \div 64 = 0 /\ op % 8 \in {4, 5})
AsksParity(op) == op \div 64 = 3 /\ op % 8 \in {0, 2, 4} /\ op \div 8 % 8 \in {4, 5}

\* P is parity on all three after logic and DAA, overflow on the Z80 after arithmetic.
ParityKnown(was, op) ==
    CASE Arithmetic(op) -> FALSE
      [] Kind(op) \in {4, 5, 6} \/ op = 39 -> TRUE
      [] OTHER -> was
\* ANA makes the half carry three ways; the Z80 clears it where the 8080 leaves it.
HalfKnown(was, op) ==
    CASE Kind(op) = 4 -> FALSE
      [] Arithmetic(op) \/ Kind(op) \in {5, 6} -> TRUE
      [] op \div 64 = 0 /\ op % 8 = 7 /\ op # 39 -> FALSE
      [] op \div 64 = 0 /\ op % 16 = 9 -> FALSE
      [] OTHER -> was

InitProgram ==
    \E r \in Files, cy \in BOOLEAN :
        /\ rig = [kind |-> "program"]
        /\ cpu = Cores(r, cy, <<>>)
        /\ seen = [p |-> TRUE, ac |-> TRUE, done |-> 0]

Instruction ==
    /\ rig.kind = "program"
    /\ seen.done < Len(Operands)
    /\ ~cpu.i80.halted
    /\ \E op \in Common :
        LET code == <<op>> \o Operands[seen.done + 1] IN
        /\ AsksParity(op) => seen.p
        /\ op = 39 => seen.ac /\ ~cpu.z80.n
        /\ cpu' = StepAll([i80 |-> Lay(cpu.i80, code), i85 |-> Lay(cpu.i85, code),
                           z80 |-> Lay(cpu.z80, code)])
        /\ seen' = [p |-> ParityKnown(seen.p, op), ac |-> HalfKnown(seen.ac, op),
                    done |-> seen.done + 1]
    /\ UNCHANGED rig

(* ---- A block move, and the loop it stands for -------------------------------------------- *)

\* MOV A,M; STAX D; INX H; INX D; DCX B; MOV A,B; ORA C; JNZ back: or DCX H and DCX D.
Loop(up) == <<126, 18>> \o (IF up THEN <<35, 19>> ELSE <<43, 27>>) \o <<11, 120, 177, 194>>
            \o <<Origin % 256, Origin \div 256>>
\* LDIR, or LDDR.
Block(up) == IF up THEN <<237, 176>> ELSE <<237, 184>>
Cell(a) == a % 65536

InitBlock ==
    \E from, to \in Ends, count \in Counts, up \in BOOLEAN :
        LET r == [File(0, count, from) EXCEPT ![2] = to \div 256, ![3] = to % 256]
            data == [a \in {Cell(e + i) : e \in Ends, i \in -3..3} |-> a % 251]
            Loaded(c) == [c EXCEPT !.mem = data @@ @]
        IN  /\ rig = [kind |-> "block"]
            /\ cpu = [i80 |-> Loaded(Start(I80!PowerOn, r, FALSE, Loop(up))),
                      z80 |-> Loaded(Start(Z80!PowerOn, r, FALSE, Block(up)))]
            /\ seen = [i80 |-> Origin + 10, z80 |-> Origin + 2]

Moving ==
    /\ rig.kind = "block"
    /\ \/ /\ cpu.i80.pc # seen.i80
          /\ cpu' = [cpu EXCEPT !.i80 = I80!Step(@, FALSE)]
       \/ /\ cpu.i80.pc = seen.i80 /\ cpu.z80.pc # seen.z80
          /\ cpu' = [cpu EXCEPT !.z80 = Z80!Step(@, FALSE, FALSE)]
    /\ UNCHANGED <<rig, seen>>

(* ---- A prefix ----------------------------------------------------------------------- *)

\* EX DE,HL and EXX mean the real HL whatever stands before them.
Renames(op) == ~Z80!MemForm(op) /\ op \notin {235, 217}
Prefix(idx) == IF idx = "ix" THEN 221 ELSE 253
InIndex(c, idx, v) == IF idx = "ix" THEN [c EXCEPT !.ix = v] ELSE [c EXCEPT !.iy = v]
Hl(c) == 256 * c.r[4] + c.r[5]

\* One core runs the plain instruction, the other the prefixed one two or three bytes
\* earlier, with its index register where the first one's HL points.  A renaming
\* instruction finds HL and the index register exchanged.
InitIndex ==
    \E r \in Files, op \in (0..255) \ {203, 221, 237, 253}, d \in Offsets, idx \in {"ix", "iy"} :
        LET c    == [Start(Z80!PowerOn, r, FALSE, <<>>) EXCEPT !.mem = (Hl([r |-> r]) :> 90)]
            byte == d % 256
            near == IF Z80!MemForm(op) THEN <<Prefix(idx), op, byte, 37>> ELSE <<Prefix(idx), op, 37, 0>>
            from == IF Z80!MemForm(op) THEN Origin + 2 ELSE Origin + 1
            other == 4660
            plain == Lay([InIndex(c, idx, other) EXCEPT !.pc = from], <<op, 37, 0>>)
            q == IF Renames(op) THEN InIndex([c EXCEPT !.r[4] = other \div 256, !.r[5] = other % 256],
                                             idx, Hl(c))
                 ELSE InIndex(c, idx, (Hl(c) - d) % 65536)
        IN  /\ rig = [kind |-> "index", op |-> op, idx |-> idx, renames |-> Renames(op), bits |-> FALSE]
            /\ cpu = [plain |-> plain, prefixed |-> Lay(q, near)]
            /\ seen = [left |-> 1]

\* DD CB d op beside CB op on (HL).
InitIndexBits ==
    \E r \in Files, op \in 0..255, d \in Offsets, idx \in {"ix", "iy"} :
        LET c == [Start(Z80!PowerOn, r, FALSE, <<>>) EXCEPT !.mem = (Hl([r |-> r]) :> 90)]
            q == InIndex(c, idx, (Hl(c) - d) % 65536)
        IN  /\ rig = [kind |-> "index", op |-> op, idx |-> idx, renames |-> FALSE, bits |-> TRUE]
            /\ cpu = [plain |-> Lay([q EXCEPT !.pc = Origin + 2], <<203, 8 * (op \div 8) + 6>>),
                      prefixed |-> Lay(q, <<Prefix(idx), 203, d % 256, op>>)]
            /\ seen = [left |-> 1]

Prefixed ==
    /\ rig.kind = "index"
    /\ seen.left > 0
    /\ cpu' = [plain |-> Z80!Step(cpu.plain, FALSE, FALSE),
               prefixed |-> Z80!Step(cpu.prefixed, FALSE, FALSE)]
    /\ seen' = [left |-> 0]
    /\ UNCHANGED rig

(* ---- Interrupts --------------------------------------------------------------------- *)

\* EI, RET at every place an acknowledge may lead to; RETI behind mode 2's table, and
\* RETN for the NMI.
Table == 16384 + 4096
Handlers == [a \in {44, 56, 60} |-> 251] @@ [a \in {45, 57, 61} |-> 201]
            @@ (102 :> 237) @@ (103 :> 69)
            @@ (Table + 255 :> 0) @@ (Table + 256 :> 96)
            @@ (24576 :> 251) @@ (24577 :> 237) @@ (24578 :> 77)

Handled(core) == [core EXCEPT !.pc = Origin, !.sp = Stack, !.mem = Handlers]

InitInterrupt ==
    \E what \in {"i80", "i85", "z80"} : \E mode \in IF what = "z80" THEN 0..2 ELSE {0} :
        LET c == CASE what = "i80" -> Handled(I80!PowerOn)
                   [] what = "i85" -> [Handled(I85!PowerOn) EXCEPT !.m75 = FALSE, !.m55 = FALSE]
                   [] what = "z80" -> [Handled(Z80!PowerOn) EXCEPT !.im = mode, !.i = Table \div 256]
        IN  /\ rig = [kind |-> "interrupt", what |-> what]
            /\ cpu = [busy |-> c, quiet |-> c]
            /\ seen = [int |-> FALSE, nmi |-> FALSE, nmis |-> 0, frames |-> 0, done |-> 0]

Takes(c) == CASE rig.what = "i80" -> I80!Takes(c, seen.int)
              [] rig.what = "i85" -> I85!Takes(c, seen.int)
              [] rig.what = "z80" -> Z80!Takes(c, seen.int, seen.nmi)
\* The Z80's R counts on whatever happens; nothing here reads it, and it is held.
Stepped(c, int, nmi) ==
    CASE rig.what = "i80" -> I80!Step(c, int)
      [] rig.what = "i85" -> I85!Step(c, int)
      [] rig.what = "z80" -> [Z80!Step(c, int, nmi) EXCEPT !.refresh = 0]

\* The next instruction of the program, on both.  Not DI behind EI: the delayed enable
\* is applied after the DI, and what the pair leaves depends on what comes between.
Chore ==
    /\ rig.kind = "interrupt"
    /\ seen.frames = 0 /\ ~Takes(cpu.busy) /\ ~cpu.busy.halted
    /\ seen.done < Length
    /\ \E op \in IF cpu.quiet.ei THEN Chores \ {243} ELSE Chores :
        cpu' = [busy  |-> Stepped(Lay(cpu.busy, <<op>>), seen.int, seen.nmi),
                quiet |-> Stepped(Lay(cpu.quiet, <<op>>), FALSE, FALSE)]
    /\ seen' = [seen EXCEPT !.done = @ + 1]
    /\ UNCHANGED rig

\* The acknowledge.  What ends the one's HLT ends the other's, for the comparison's sake.
Accept ==
    /\ rig.kind = "interrupt"
    /\ Takes(cpu.busy)
    /\ seen.frames < 3
    /\ cpu' = [busy  |-> Stepped(cpu.busy, seen.int, seen.nmi),
               quiet |-> [cpu.quiet EXCEPT !.halted = FALSE]]
    /\ seen' = [seen EXCEPT !.frames = @ + 1]
    /\ UNCHANGED rig

\* An instruction of the handler: EI, or the return.
Handle ==
    /\ rig.kind = "interrupt"
    /\ seen.frames > 0 /\ ~Takes(cpu.busy)
    /\ LET op == cpu.busy.mem[cpu.busy.pc]
       IN  seen' = [seen EXCEPT !.frames = IF op = 251 THEN @ ELSE @ - 1]
    /\ cpu' = [cpu EXCEPT !.busy = Stepped(@, seen.int, seen.nmi)]
    /\ UNCHANGED rig

\* The lines, and the 8085's pins, as a board or the prompt moves them.
Lines ==
    /\ rig.kind = "interrupt"
    /\ \/ seen' = [seen EXCEPT !.int = ~@] /\ UNCHANGED cpu
       \/ /\ rig.what = "z80" /\ seen.nmis < Nmis
          /\ seen' = [seen EXCEPT !.nmi = ~@, !.nmis = IF seen.nmi THEN @ + 1 ELSE @]
          /\ UNCHANGED cpu
       \/ /\ rig.what = "i85"
          /\ \/ cpu' = [cpu EXCEPT !.busy.p75 = TRUE]
             \/ cpu' = [cpu EXCEPT !.busy.p55 = ~@]
          /\ UNCHANGED seen
    /\ UNCHANGED rig

(* ---- The specification ------------------------------------------------------------ *)

Init == InitDecimal \/ InitOrder \/ InitWide \/ InitProgram \/ InitBlock \/ InitIndex \/ InitIndexBits
        \/ InitInterrupt
Next == RunOn \/ Instruction \/ Moving \/ Prefixed \/ Chore \/ Accept \/ Handle \/ Lines
Spec == Init /\ [][Next]_vars

(* ---- What must hold --------------------------------------------------------------- *)

\* DAA after an addition, on each processor, and after a subtraction on the Z80, which
\* has the N flag for it: the digits and the carry are those of the decimal numbers.
DecimalIsDecimal ==
    rig.kind \in {"add", "subtract"} /\ seen.left = 0 =>
        LET n == IF rig.kind = "add" THEN rig.x + rig.y + rig.cin ELSE rig.x - rig.y - rig.cin
        IN  \A who \in IF rig.kind = "add" THEN DOMAIN cpu ELSE {"z80"} :
                /\ cpu[who].r[A] = Packed(n % 100)
                /\ cpu[who].cy = (n \notin 0..99)

Signed(v, top) == IF v >= top \div 2 THEN v - top ELSE v

\* After a compare or a subtraction, of bytes or of words, carry is the unsigned order,
\* Z is equality, and the signed order is K on the 8085 and S # P/V on the Z80.
CompareIsOrder ==
    rig.kind \in {"order", "wide"} /\ seen.left = 0 =>
        LET top  == IF rig.kind = "wide" THEN 65536 ELSE 256
            less == Signed(rig.x, top) < Signed(rig.y, top)
        IN  /\ \A who \in IF rig.kind = "wide" THEN {"i85", "z80"} ELSE DOMAIN cpu :
                  cpu[who].cy = (rig.x < rig.y) /\ cpu[who].z = (rig.x = rig.y)
            /\ cpu.i85.k = less
            /\ (cpu.z80.s # cpu.z80.p) = less

\* Decimal adjustment gives the digits, and a compare the order, on every processor.
ArithmeticIsExact == DecimalIsDecimal /\ CompareIsOrder

Cells(c) == {<<a, c.mem[a]>> : a \in {a \in DOMAIN c.mem : a \notin Origin .. Origin + 9}}

\* The 8085 and the Z80 run an 8080 program as the 8080 does: the same registers, memory
\* and port cycles, the same flags as far as the three define them alike, at every step;
\* and a block move does what the loop does, overlapping or across the end of memory.
OneProgramThreeProcessors ==
    /\ rig.kind = "block" /\ cpu.i80.pc = seen.i80 /\ cpu.z80.pc = seen.z80 =>
          /\ \A i \in 0..5 : cpu.i80.r[i] = cpu.z80.r[i]
          /\ Cells(cpu.i80) = Cells(cpu.z80)
    /\ rig.kind = "program" =>
        LET e == cpu.i80 IN
        /\ \A who \in {"i85", "z80"} :
            LET c == cpu[who] IN
            /\ <<c.r, c.sp, c.pc, c.mem, c.out>> = <<e.r, e.sp, e.pc, e.mem, e.out>>
            /\ <<c.ie, c.ei, c.halted>> = <<e.ie, e.ei, e.halted>>
            /\ <<c.cy, c.z, c.s>> = <<e.cy, e.z, e.s>>
            /\ seen.p => c.p = e.p
        /\ seen.ac => e.ac = cpu.i85.ac /\ (e.ac # cpu.z80.n) = cpu.z80.ac

Rest(c) == <<c.s, c.z, c.p, c.ac, c.cy, c.n, c.sp, c.pc, c.out, c.r2, c.f2, c.halted, c.ei>>
\* A prefixed instruction does with IX or IY what the plain one does with HL; with a
\* displacement it reaches the cell and leaves H and L alone.
IndexIsHL ==
    rig.kind = "index" /\ seen.left = 0 =>
        LET p == cpu.plain
            q == cpu.prefixed
            Idx(c) == IF rig.idx = "ix" THEN c.ix ELSE c.iy
            copied == rig.op % 8
        IN  /\ Rest(p) = Rest(q) /\ Cells(p) = Cells(q)
            /\ \A i \in {0, 1, 2, 3, 7} :
                  q.r[i] = IF rig.bits /\ i = copied /\ rig.op \notin 64..127
                           THEN p.mem[Hl(p)] ELSE p.r[i]
            /\ IF rig.renames THEN Hl(q) = Idx(p) /\ Idx(q) = Hl(p)
               ELSE \A i \in {4, 5} :
                      q.r[i] = IF rig.bits /\ i = copied /\ rig.op \notin 64..127
                               THEN p.mem[Hl(p)] ELSE p.r[i]

\* An interrupt between any two instructions leaves no trace: behind EI and RET the
\* program finds its registers, its stack, its place and its enable as if nothing had
\* come, and a line that stays up nests no handler in another, an NMI apart.
InterruptLeavesNoTrace ==
    rig.kind = "interrupt" =>
        LET c == cpu.busy
            q == cpu.quiet
        IN  /\ <<c.r, c.cy, c.z, c.s>> = <<q.r, q.cy, q.z, q.s>>
            /\ c.sp = q.sp - 2 * seen.frames
            /\ seen.frames <= 1 + 2 * seen.nmis + (IF seen.nmi THEN 1 ELSE 0)
            /\ \A a \in {a \in DOMAIN q.mem : a >= q.sp} : c.mem[a] = q.mem[a]
            /\ IF seen.frames = 0
               THEN c.pc = q.pc /\ c.halted = q.halted /\ (c.ie \/ c.ei) = (q.ie \/ q.ei)
               ELSE c.mem[q.sp - 2] + 256 * c.mem[q.sp - 1] = q.pc
=============================================================================
