----------------------------- MODULE BottleFile -----------------------------
(* The metadata file of a bottle (bottle.json) and the record it holds.      *)
(* core/shared/src/lib.rs writes it with File::create, which truncates, and  *)
(* one write of the whole record at offset 0; nothing is appended or         *)
(* renamed.  Two writers that both opened the file before either wrote       *)
(* therefore overlay each other.                                             *)
EXTENDS Integers, FiniteSets

CONSTANTS
    Key,     \* environment variable names
    Val,     \* their values
    Unset,   \* "this variable is not set"
    Recipe   \* recipe ids

ASSUME FileAssumption == Unset \notin Val /\ IsFiniteSet(Key)

(* The environment of a record as wine sees it: the last entry of a key in   *)
(* the vector wins, so the vector is the function of its last entries.       *)
Env == [Key -> Val \cup {Unset}]
NoVars == [k \in Key |-> Unset]

(* `by` is history: the recipes whose complete effect the record holds.      *)
Record == [env : Env, by : SUBSET Recipe]
NewRecord == [env |-> NoVars, by |-> {}]

(* Variant with a bug, as elsewhere: a variable that is set keeps its value. *)
Overlay_KeepsFirst(env, new) == [k \in Key |-> IF env[k] = Unset THEN new[k] ELSE env[k]]

(* Setting variables: each one set in `new` replaces its former value.       *)
Overlay(env, new) == [k \in Key |-> IF new[k] = Unset THEN env[k] ELSE new[k]]

(* Length of the serialised record: it grows with every variable set.        *)
Size(r) == 1 + Cardinality({k \in Key : r.env[k] # Unset})

File == [state : {"absent", "empty", "whole", "torn"}, len : Nat, rec : Record]
Absent == [state |-> "absent", len |-> 0, rec |-> NewRecord]

(* File::create: the file exists and has length zero.                        *)
Truncated == [state |-> "empty", len |-> 0, rec |-> NewRecord]

(* A write of r at offset 0 reaches the file.  If the file is longer, because *)
(* another writer's data came first, the tail of that data stays behind the   *)
(* shorter record and the file no longer parses.                              *)
Land(file, r) ==
    IF file.len > Size(r)
      THEN [state |-> "torn", len |-> file.len, rec |-> NewRecord]
      ELSE [state |-> "whole", len |-> Size(r), rec |-> r]

(* serde_json::from_slice succeeds exactly on a whole record.                *)
Readable(file) == file.state = "whole"
=============================================================================
