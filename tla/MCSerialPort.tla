---------------------------- MODULE MCSerialPort ----------------------------
(***************************************************************************)
(* Cards of one channel and characters of two T-states, the one with its   *)
(* modem pins wired, the other with an endpoint that can be full; and a    *)
(* grounded 2SIO with a channel jumpered and one not.                      *)
(***************************************************************************)
EXTENDS SerialPort

Turnkey == [channels |-> {"a"}, jumpered |-> {"a"}, wired |-> {"a"}, full |-> {},
            charT |-> 2, bitT |-> 1]
TwoSio == [channels |-> {"a", "b"}, jumpered |-> {"a", "b"}, wired |-> {}, full |-> {},
           charT |-> 1, bitT |-> 0]
Sio == [Turnkey EXCEPT !.wired = {}, !.full = {"a"}]
MCCards == {Turnkey, Sio, TwoSio}
=============================================================================
