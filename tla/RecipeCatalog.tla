---------------------------- MODULE RecipeCatalog ----------------------------
(* What the two generations make of a directory of recipe manifests:         *)
(* core/shared/src/recipes.rs with the manifest type of its own, and         *)
(* core/alloy-core/src/recipes.rs with another.  A manifest file is          *)
(*                                                                           *)
(*   form     "dir" for <stem>/recipe.yaml, else the extension of the file   *)
(*   stem     the name of the directory or file                              *)
(*   header   whether it has both an id and a name                           *)
(*   id       the id it carries                                              *)
(*   name     the rank of its name in byte order                             *)
(*   listed   whether it has a list of steps at all                          *)
(*   steps    the kinds of its steps                                         *)
EXTENDS Integers

CONSTANT RecipeFile  \* the manifest files that can exist

(* "runobject" is a run step that names its program by file or path and      *)
(* "emptyrun" one that names none, "nowait" is wait_for_exit: false.         *)
StepKind == {"run", "runobject", "emptyrun", "wait", "nowait",
             "winecfg", "env", "copy", "note"}

Manifest == [form: {"dir", "yaml", "yml"}, stem: STRING, header: BOOLEAN,
             id: STRING, name: Nat, listed: BOOLEAN, steps: SUBSET StepKind]

(* Of any files that there are, some carry the first of their names.         *)
ASSUME RecipeAssumption ==
    /\ RecipeFile \subseteq Manifest
    /\ \A some \in (SUBSET RecipeFile) \ {{}} :
          \E f \in some : \A g \in some : f.name <= g.name

-----------------------------------------------------------------------------
(* The first generation.  Kinds that RecipeStepRaw has no variant for, and   *)
(* kinds that normalize refuses, make the whole manifest fail.               *)
Accepted == {"run", "runobject", "wait", "winecfg", "env", "copy"}

Loads(f) == f.header /\ f.listed /\ f.steps \subseteq Accepted

(* load_all looks at directories and at files that end in .yaml.             *)
Scanned(f) == f.form \in {"dir", "yaml"}

(* The recipes with an id are tried in the order of their names; recipes of  *)
(* one name stay in the order in which the directory was read.               *)
FindIn(got, id) ==
    {f \in got : f.id = id /\ \A g \in got : g.id = id => f.name <= g.name}

-----------------------------------------------------------------------------
(* The second generation.  Steps may be left out, and a file that does not   *)
(* parse is skipped.                                                         *)
AlloyAccepted == {"run", "winecfg", "env", "note"}

AlloyLoads(f) == f.header /\ (f.listed => f.steps \subseteq AlloyAccepted)

AlloyScanned(f) == f.form \in {"yml", "yaml"}

(* load goes by the name of the file, whatever id the manifest carries.      *)
Named(files, id, form) == {f \in files : f.stem = id /\ f.form = form}
=============================================================================
