------------------------- MODULE Workstation_proofs -------------------------
(* Theorems about Workstation, for every number of processes, clients,       *)
(* bottles, names, versions, trees and manifests.                            *)
EXTENDS Workstation, DaemonHost_proofs, AlloyHost_proofs

(* No property is inductive by itself; the conjunction of the two daemons'   *)
(* invariants is.                                                            *)
Inv == FilesTypeOK /\ DaemonInv /\ AlloyInv

(* The invariant holds at first.                                             *)
LEMMA InvInit == Init => Inv
<1> SUFFICES ASSUME Init PROVE Inv
  OBVIOUS
<1>1. FilesTypeOK
  BY HostAssumption DEF Init, FilesInit, FilesTypeOK
<1> QED BY <1>1, DaemonInvInit, AlloyInvInit DEF Init, Inv

(* A change of the directory of recipes, of which both daemons see theirs.   *)
LEMMA InvWatches ==
    ASSUME Inv, NEW f \in RecipeFile, AddRecipe(f) \/ RemoveRecipe(f)
    PROVE  Inv'
<1>1. FilesTypeOK'
  <2>1. "recipe" \in Event
    BY DEF Event
  <2> QED BY <2>1 DEF Inv, FilesTypeOK, AddRecipe, RemoveRecipe, Spend
<1>2. recipes' \in SUBSET RecipeFile /\ WatchRecipes /\ AlloyWatchRecipes
  BY DEF AddRecipe, RemoveRecipe, Inv, FilesTypeOK
<1>3. UNCHANGED <<procVars, trees, diskVars>>
  BY DEF AddRecipe, RemoveRecipe
<1>4. UNCHANGED <<asock, adaemon, staged, build, aupset>>
  BY DEF AddRecipe, RemoveRecipe
<1>5. DaemonInv'
  BY <1>2, <1>3, DaemonInvWatches DEF Inv
<1>6. AlloyInv'
  BY <1>2, <1>4, AlloyInvWatches DEF Inv
<1> QED BY <1>1, <1>5, <1>6 DEF Inv

(* A step of one generation leaves the other's state and the recipes alone.  *)
LEMMA InvStep == Inv /\ [Next]_vars => Inv'
<1> SUFFICES ASSUME Inv, [Next]_vars PROVE Inv'
  OBVIOUS
<1>1. CASE DaemonNext /\ UNCHANGED alloyVars
  <2>1. FilesTypeOK' /\ DaemonInv' /\ recipes' = recipes
    BY <1>1, DaemonInvStep, DaemonFiles DEF Inv, DaemonInv
  <2>2. AlloyInv'
    BY <1>1, <2>1, AlloyInvKept DEF Inv
  <2> QED BY <2>1, <2>2 DEF Inv
<1>2. CASE AlloyNext /\ UNCHANGED daemonVars
  <2>1. FilesTypeOK' /\ AlloyInv'
    BY <1>2, AlloyInvStep DEF Inv
  <2>3. recipes' = recipes
    BY <1>2, AlloyFiles DEF Inv
  <2>2. DaemonInv'
    BY <1>2, <2>3, DaemonInvKept DEF Inv
  <2> QED BY <2>1, <2>2 DEF Inv
<1>3. CASE \E f \in RecipeFile : AddRecipe(f) \/ RemoveRecipe(f)
  BY <1>3, InvWatches
<1>4. CASE UNCHANGED vars
  <2>1. UNCHANGED <<daemonVars, recipes>> /\ UNCHANGED <<alloyVars, recipes>>
        /\ UNCHANGED <<recipes, budget>>
    BY <1>4 DEF vars
  <2>2. FilesTypeOK'
    BY <2>1 DEF Inv, FilesTypeOK
  <2> QED BY <2>1, <2>2, DaemonInvKept, AlloyInvKept DEF Inv
<1> QED BY <1>1, <1>2, <1>3, <1>4 DEF Next, Quiescent

(* The invariant always holds.                                               *)
LEMMA InvAlways == Spec => []Inv
  BY InvInit, InvStep, PTL DEF Spec

-----------------------------------------------------------------------------
(* Every variable of the two daemons and their clients keeps its type.       *)
THEOREM TypeCorrect == Spec => []TypeOK
<1>1. Inv => TypeOK
  BY DaemonInvShows, AlloyInvShows DEF Inv, TypeOK
<1> QED BY <1>1, InvAlways, PTL

(* Once no start is in progress a new client reaches a daemon that serves,   *)
(* whoever raced for the socket file, unless the last start met a failure    *)
(* (daemon/src/main.rs:22-31).                                               *)
THEOREM Reachable == Spec => []ReachableWhenSettled
<1>1. Inv => ReachableWhenSettled
  BY DaemonInvShows DEF Inv
<1> QED BY <1>1, InvAlways, PTL

(* The same of alloy-daemon, whose start may find no runtime after it has    *)
(* removed the old socket file (alloy-daemon/src/main.rs:22-33).             *)
THEOREM ReachableAlloy == Spec => []AlloyReachable
<1>1. Inv => AlloyReachable
  BY AlloyInvShows DEF Inv
<1> QED BY <1>1, InvAlways, PTL

(* A bottle gets the runtime it names, whatever else is installed, when that *)
(* runtime has been there since before the daemon started, and never one of  *)
(* another channel while its own has any (service.rs:37, 383-396).           *)
THEOREM RequestsHonoured == Spec => []RuntimeHonoured
<1>1. Inv => RuntimeHonoured
  BY DaemonInvShows DEF Inv
<1> QED BY <1>1, InvAlways, PTL

(* A listing of recipes misses nothing that is there all the time and shows  *)
(* nothing that never was, however files come and go meanwhile, and fails    *)
(* only over a file that is bad or comes and goes (recipes.rs:43-69).        *)
THEOREM ListingsWhole == Spec => []RecipesWhole
<1>1. Inv => RecipesWhole
  BY DaemonInvShows DEF Inv
<1> QED BY <1>1, InvAlways, PTL

(* A shortcut's bundle that nobody writes is whole and belongs to the bottle *)
(* that was acknowledged last, unless requests for its path overlapped or    *)
(* failed (service.rs:255-274).                                              *)
THEOREM ShortcutsWhole == Spec => []BundleWhole
<1>1. Inv => BundleWhole
  BY DaemonInvShows DEF Inv
<1> QED BY <1>1, InvAlways, PTL

(* No daemon works with half a runtime, in the middle of whatever build it   *)
(* starts (runtime.rs:84-98, build_wine.sh:107-164), and what it tells of    *)
(* its runtime is true or says that it is unknown.                           *)
THEOREM RuntimesComplete == Spec => []RuntimeComplete
<1>1. Inv => RuntimeComplete
  BY AlloyInvShows DEF Inv
<1> QED BY <1>1, InvAlways, PTL

(* The catalogue lists every file that is good and there all the time, and   *)
(* loads a recipe from the file of its name (alloy-core/src/recipes.rs:      *)
(* 80-117), whatever comes and goes between its two looks.                   *)
THEOREM CatalogueCorrect == Spec => []CatalogueWhole
<1>1. Inv => CatalogueWhole
  BY AlloyInvShows DEF Inv
<1> QED BY <1>1, InvAlways, PTL
=============================================================================
