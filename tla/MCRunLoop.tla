----------------------------- MODULE MCRunLoop -----------------------------
(* A guest that starts a transfer, halts for its interrupt, takes the byte in
   the handler at rst, and pops a pair. *)
EXTENDS RunLoop, TLC

Insn(cycles, does, next, to) == [cycles |-> cycles, does |-> does, next |-> next, to |-> to]
Wr(at, reg) == Cycle("MemWrite", at, reg)
Rd(at, reg) == Cycle("MemRead", at, reg)
Out == Insn(<<Cycle("IoWrite", "dcom", "none")>>, "plain", "hlt", {})
Handler == [rst |-> Insn(<<Cycle("IoRead", "rx", "none")>>, "plain", "rei", {}),
            rei |-> Insn(<<>>, "ei", "ret", {}),
            ret |-> Insn(<<Rd("s0", "pc"), Rd("s1", "pc")>>, "plain", "ret", {})]

DmaProg ==
  [ei   |-> Insn(<<>>, "ei", "out", {}),
   out  |-> Out,
   hlt  |-> Insn(<<>>, "hlt", "pop", {}),
   pop  |-> Insn(<<Rd("s0", "hl"), Rd("s1", "hl")>>, "plain", "ei", {"ei"})] @@ Handler

\* Polls a port that is not there, between two halts.
VoidProg ==
  [ei   |-> Insn(<<>>, "ei", "out", {}),
   out  |-> Out,
   hlt  |-> Insn(<<>>, "hlt", "void", {}),
   void |-> Insn(<<Cycle("IoRead", "hole", "none")>>, "plain", "hlt", {"ei", "hlt"})] @@ Handler

Bp(kind, at, cond, hl) == [kind |-> kind, at |-> at, cond |-> cond, hl |-> hl]
DmaBreaks ==
  <<Bp("IoRead", {"rx"}, "none", "any"), Bp("MemRead", {"s1", "pop"}, "none", "any"),
    Bp("MemWrite", {"buf"}, "none", "any")>>
VoidBreaks ==
  <<Bp("IoRead", {"rx"}, "after", "junk"), Bp("Pc", {"out"}, "none", "any"),
    Bp("TapeStop", {}, "none", "any")>>

Cells == [s0 |-> "ei", s1 |-> "ei", buf |-> "junk"]

\* Halts and polls; no DMA card.
Poller ==
  [prog |-> VoidProg, breaks |-> VoidBreaks, pc0 |-> "ei", entries |-> {"ei"}, mem |-> Cells,
   cards |-> <<>>, burst |-> 1, target |-> <<>>, arms |-> [dcom |-> {"uart"}], void |-> {"hole"},
   deck |-> TRUE, ackDrops |-> FALSE, vector |-> "rst", rst7 |-> "rst", slice |-> 2, steps |-> 2,
   toggles |-> {1}, gestures |-> {"run", "step", "ctrl-c", "poke", "rewind", "reset"}]

\* Takes interrupts with a DMA card beside it, with breakpoints set and cleared.
Sharer ==
  [Poller EXCEPT !.prog = DmaProg, !.breaks = DmaBreaks, !.entries = {"pop"},
     !.cards = <<"tarbell">>, !.target = [tarbell |-> "buf"],
     !.arms = [dcom |-> {"uart", "tarbell"}], !.void = {}, !.deck = FALSE,
     !.slice = 1, !.steps = 1, !.toggles = {1, 2}, !.gestures = {"run", "step"}]

\* The same, its PC moved; and its card enabled and disabled.
Mover == [Sharer EXCEPT !.toggles = {2}, !.gestures = {"run", "examine"}]
Switcher == [Sharer EXCEPT !.toggles = {2}, !.gestures = {"run", "step", "tarbell"}]
MCGuests == {Poller, Sharer, Mover, Switcher}
=============================================================================
