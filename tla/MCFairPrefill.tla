---------------------------- MODULE MCFairPrefill ----------------------------
(* Small instances of FairPrefill for TLC.                                  *)
EXTENDS FairPrefill

(* Estimates for one and two token units: cold, a cheap fit, a dear fit.    *)
Est(one, two, fitted) == [cost |-> [n \in 1..2 |-> IF n = 1 THEN one ELSE two],
                          fit |-> fitted]
MCTwoSizes == {Est(1, 2, FALSE), Est(2, 4, TRUE)}
MCCold == {[cost |-> <<1>>, fit |-> FALSE]}
MCColdTwo == {Est(1, 2, FALSE)}
MCOneSize == {[cost |-> <<1>>, fit |-> FALSE], [cost |-> <<2>>, fit |-> TRUE]}

MCFlatTier == [r \in Rids |-> 0]
MCTwoTiers == [r \in Rids |-> IF r = 1 THEN 0 ELSE 1]
=============================================================================
