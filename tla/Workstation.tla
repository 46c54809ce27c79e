------------------------------ MODULE Workstation ------------------------------
(* One machine with both generations: they meet in the directory of recipes, *)
(* which its user edits while either daemon reads it.                        *)
EXTENDS DaemonHost, AlloyHost

vars == <<recipes, budget, daemonVars, alloyVars>>

AddRecipe(f) ==
    /\ Spend("recipe")
    /\ \A g \in recipes : g.form # f.form \/ g.stem # f.stem
    /\ recipes' = recipes \cup {f}
    /\ WatchRecipes /\ AlloyWatchRecipes
    /\ UNCHANGED <<procVars, trees, diskVars, asock, adaemon, staged, build, aupset>>

RemoveRecipe(f) ==
    /\ Spend("recipe")
    /\ f \in recipes
    /\ recipes' = recipes \ {f}
    /\ WatchRecipes /\ AlloyWatchRecipes
    /\ UNCHANGED <<procVars, trees, diskVars, asock, adaemon, staged, build, aupset>>

TypeOK == FilesTypeOK /\ DaemonTypeOK /\ AlloyTypeOK

Init == FilesInit /\ DaemonInit /\ AlloyInit

(* Nothing is in progress: whether anything happens next is for users.       *)
Quiescent ==
    /\ \A d \in Daemon : daemon[d].pc \in {"off", "serving"}
    /\ \A c \in Client : CallAt(c, "idle")
    /\ \A d \in AlloyDaemon : adaemon[d].pc \in {"off", "serving"}
    /\ \A c \in AlloyClient : AlloyCallAt(c, "idle")
    /\ UNCHANGED vars

Next ==
    \/ DaemonNext /\ UNCHANGED alloyVars
    \/ AlloyNext /\ UNCHANGED daemonVars
    \/ \E f \in RecipeFile : AddRecipe(f) \/ RemoveRecipe(f)
    \/ Quiescent

Spec == Init /\ [][Next]_vars
=============================================================================
