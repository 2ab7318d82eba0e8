------------------------------- MODULE MCBdf -------------------------------
(* Values of the options of the time loop for model checking               *)
EXTENDS BdfCheckpoint

SameDofs == [r \in Proc |-> 5]

(* Orders that ramp up at once or slowly, saved at each step or less often *)
MCSettings == [order : 1 .. 3, freq : 1 .. 3, between : 1 .. 2,
               atLast : BOOLEAN, rankInName : {TRUE}]

(* Two states are needed to go on and every second one is saved            *)
MCOrderTwo == [order : {2}, freq : {2}, between : {1}, atLast : {TRUE},
               rankInName : {TRUE}]

MCSimple == [order : {1}, freq : {1}, between : {1}, atLast : {TRUE},
             rankInName : {TRUE}]
=============================================================================
