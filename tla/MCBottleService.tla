--------------------------- MODULE MCBottleService ---------------------------
(* Small instances of BottleService for TLC.                                 *)
EXTENDS BottleService, TLC

CONSTANTS t1, t2, b1, b2, tool, game, dxvk, hud, on, off

MCKey == {dxvk, hud}
MCVal == {on, off}
MCTask == {t1, t2}
OneTask == {t1}
OneBottle == {b1}
TwoBottles == {b1, b2}
MCRecipe == {tool, game}

(* A step that switches the variables of K on and those of L off.            *)
Sets(K, L) == [k \in MCKey |-> IF k \in K THEN on ELSE IF k \in L THEN off ELSE Unset]
Plain(kind) == [kind |-> kind, vars |-> Sets({}, {})]

(* Two variables, one of them set twice, in separate steps with a program    *)
(* between them; a recipe that records a version and starts winecfg.         *)
MCSteps == [r \in MCRecipe |->
    IF r = tool
      THEN << [kind |-> "env", vars |-> Sets({dxvk}, {hud})], Plain("run"),
              [kind |-> "env", vars |-> Sets({hud}, {})] >>
      ELSE << Plain("wait"), [kind |-> "winecfg", vars |-> Sets({}, {hud})] >>]

(* The same with a copy step.                                                *)
CopySteps == [r \in MCRecipe |->
    IF r = tool
      THEN << [kind |-> "env", vars |-> Sets({dxvk}, {hud})], Plain("copy"),
              [kind |-> "env", vars |-> Sets({hud}, {})] >>
      ELSE << Plain("wait"), [kind |-> "env", vars |-> Sets({}, {hud})] >>]

StoreSymmetry == Permutations({t1, t2}) \cup Permutations({b1, b2})
=============================================================================
