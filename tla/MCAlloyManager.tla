--------------------------- MODULE MCAlloyManager ---------------------------
(* Small instances of AlloyManager for TLC.                                  *)
EXTENDS AlloyManager, TLC

CONSTANTS t1, t2, steam, office, setup, tweak

OneTask == {t1}
TwoTasks == {t1, t2}
OneName == {steam}
TwoNames == {steam, office}
OneRecipe == {setup}
TwoRecipes == {setup, tweak}

(* A program between other steps; a recipe that starts only winecfg.         *)
MCSteps == [r \in {setup, tweak} |->
              IF r = setup THEN <<"env", "run", "winecfg">> ELSE <<"note", "winecfg">>]
NoRecipes == {}
NoSteps == [r \in {} |-> <<>>]
SetupSteps == [r \in {setup} |-> <<"env", "run", "winecfg">>]

TaskSymmetry == Permutations({t1, t2})
=============================================================================
