------------------------------ MODULE HostFiles ------------------------------
(* What both daemons of a machine share: the directory of recipe manifests,  *)
(* which SILICON_ALLOY_RECIPES names for either of them, and the bounds of   *)
(* the model.                                                                *)
EXTENDS RecipeCatalog

CONSTANTS
    None,           \* no daemon, no bottle, no file
    Budgets,        \* how often each kind of event may happen, one per scenario
    StartRecipes    \* what the directory may hold at first

Event == {"start", "end", "error", "tree", "recipe",
          "create", "recipes", "shortcut", "other",
          "astart", "aend", "acall", "build", "package"}

ASSUME HostAssumption ==
    /\ Budgets \subseteq [Event -> Nat]
    /\ StartRecipes \subseteq SUBSET RecipeFile

VARIABLES
    recipes,        \* the manifest files that are in the directory
    budget          \* how often each kind of event may still happen

FilesTypeOK ==
    /\ recipes \subseteq RecipeFile
    /\ budget \in [Event -> Nat]

FilesInit ==
    /\ recipes \in StartRecipes
    /\ budget \in Budgets

(* The guard of every event that the model bounds.                           *)
Spend(e) == budget[e] > 0 /\ budget' = [budget EXCEPT ![e] = @ - 1]
=============================================================================
