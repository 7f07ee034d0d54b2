---------------------------- MODULE MCSerialCards ----------------------------
EXTENDS SerialCards

Rig(name, chips, jump) ==
  [card |-> name, chips |-> chips, jump |-> jump, jumps |-> {}, straps |-> {}, always |-> {},
   clock |-> "none", resets |-> TRUE, paces |-> {}, paced |-> {}, control |-> ControlBytes,
   bounds |-> [bytes |-> [ch \in DOMAIN chips |-> 2], calls |-> 0, saves |-> 0, line |-> CharT]]

Ab(a, b) == [x \in {"a", "b"} |-> IF x = "a" THEN a ELSE b]
One(a) == [x \in {"a"} |-> a]
Rx == <<"a", "rx">>
Tx == <<"a", "tx">>
NoJumper == [x \in {} |-> "none"]

\* Receiver on pin 73, transmitter on VI3, parallel input on VI5; SET moves the receiver.  And a
\* snapshot of it, with nothing on the parallel input.
Io4 ==
  [Rig("io4", [x \in {"a", "p"} |-> IF x = "a" THEN Fresh1602 ELSE FreshLatch],
       (Rx :> "int") @@ (Tx :> "vi3") @@ (<<"p", "rx">> :> "vi5")) EXCEPT
     !.jumps = {(Rx :> "vi3") @@ (Tx :> "vi3")},
     !.bounds.line = 0, !.bounds.bytes = [x \in {"a", "p"} |-> IF x = "a" THEN 2 ELSE 1]]
Io4Saved == [Io4 EXCEPT !.bounds.saves = 1, !.bounds.bytes = [x \in {"a", "p"} |-> IF x = "a" THEN 1 ELSE 0]]

\* Both channels; a terminal that keeps its own time on the second.
Io4Pair ==
  [Rig("io4", Ab(Fresh1602, Fresh1602), (Rx :> "int") @@ (<<"b", "rx">> :> "int") @@ (<<"b", "tx">> :> "vi3"))
     EXCEPT !.paces = {"b"}]

\* The strap turns the sense of the receiver's enable round.
Interfacer1 ==
  [Rig("interfacer1", Ab(Fresh1602, Fresh1602), (Rx :> "vi2") @@ (Tx :> "vi3") @@ (<<"b", "rx">> :> "vi2"))
     EXCEPT !.straps = {Rx}, !.bounds.bytes = Ab(1, 1), !.bounds.line = 0]

Bitstreamer2 ==
  [Rig("bitstreamer2", One(Fresh8251), (Rx :> "vi1") @@ (Tx :> "int")) EXCEPT
     !.resets = FALSE, !.clock = "vi1", !.control = {"b40", "b27", "b01"}]

Sbc ==
  [Rig("sbc", One(Fresh8251), (Rx :> "int")) EXCEPT
     !.resets = FALSE, !.always = {Rx, Tx}, !.control = {"b40", "b27", "b01"}]

Zcb == [Rig("zcb", One(Fresh8251), NoJumper) EXCEPT !.always = {Rx}]

LineOf(real) == [Rig("fdc", One(Fresh5501(real, [room |-> TRUE])), NoJumper) EXCEPT !.paced = {"a"}]

\* Two calls, in and out; one that brings a byte; and one with a snapshot, while the chip sends nothing.
Pmmi ==
  [Rig("pmmi", One(Fresh1602), NoJumper) EXCEPT
     !.bounds.calls = 2, !.bounds.line = 0, !.bounds.bytes = One(0)]
PmmiBytes == [Pmmi EXCEPT !.bounds.calls = 1, !.bounds.bytes = One(1)]
PmmiSaved == [Pmmi EXCEPT !.bounds.calls = 1, !.bounds.saves = 1, !.bounds.line = -1]

MCRigs == {Io4, Io4Saved, Io4Pair, Interfacer1, Bitstreamer2, Sbc, Zcb, LineOf(TRUE),
           LineOf(FALSE), Pmmi, PmmiBytes, PmmiSaved}
=============================================================================
