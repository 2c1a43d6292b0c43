---------------------------- MODULE MCPollValues ----------------------------
(***************************************************************************)
(* Four-bit words.  Frames vary one thing at a time: the power balance, the   *)
(* strings, the meter; each fully against the small values it is compared to. *)
(***************************************************************************)
EXTENDS PollValues, TLC

SomeNameplates == {0, 1, 16, 127, 128, 255}
SomeRequests == {-300, -128, -17, -1, 0, 1, 16, 127, 300}

Dark == [s \in Strings |-> [volts |-> 0, amps |-> 0]]

Calm == [connected |-> TRUE, pv |-> 0, third |-> 0, ac |-> 0, battery |-> 0, status |-> 1,
         strings |-> Dark, online |-> FALSE, fine |-> TRUE, mains |-> [p \in Phases |-> 0]]

Balances ==
  {[Calm EXCEPT !.connected = c, !.pv = pv, !.third = t, !.ac = ac, !.battery = b, !.status = s] :
     c \in BOOLEAN, pv \in {0, 3}, t \in {0, 2}, ac \in {-5, -4, 0, 4},
     b \in {-5, -2, -1, 0, 3}, s \in 0..4}

Readings == {-8, -7, -1, 0, 1, 3, 7}

Suns == {[Calm EXCEPT !.connected = c,
                      !.strings = (1 :> [volts |-> v, amps |-> a]) @@ (2 :> [volts |-> 7, amps |-> -1])] :
           c \in BOOLEAN, v \in Readings, a \in Readings}

Mains == {[Calm EXCEPT !.online = o, !.fine = f, !.mains = m] :
            o \in BOOLEAN, f \in BOOLEAN, m \in [Phases -> {0, 3, 8, 11, 15}]}

SomeFrames == Balances \cup Suns \cup Mains
=============================================================================
