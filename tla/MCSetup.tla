------------------------------ MODULE MCSetup -------------------------------
(* Two pots, one to a row, two gains and two gestures to a measurement.    *)
(* The sensor measures nothing, a faint touch and a firm one: a firm touch *)
(* calls for more gain when there is noise, a faint one is noise itself.   *)
EXTENDS Setup

MCDeltas == {0, 4, 16}
MCDetents == {-90, 90}
MCPrefs == {10}
MCCalibrations == {[valid |-> {1}, config |-> [p \in Knobs |->
                     IF p = 1 THEN [threshold |-> 4, gain |-> 1] ELSE Factory]]}
=============================================================================
