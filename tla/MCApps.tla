-------------------------------- MODULE MCApps --------------------------------
(* A small instance of Apps for TLC.                                         *)
EXTENDS Apps, TLC

CONSTANTS s1, s2, steam, office, w1, w2, games, tools, mail

TwoSlots == {s1, s2}
TwoBottles == {steam, office}
TwoWorkers == {w1, w2}
ThreeNames == {games, tools, mail}
AppSymmetry == Permutations(TwoSlots) \cup Permutations(TwoBottles)
                 \cup Permutations(TwoWorkers)
=============================================================================
