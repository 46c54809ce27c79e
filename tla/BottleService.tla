---------------------------- MODULE BottleService ----------------------------
(* The bottle half of silicon-alloy-daemon: DaemonService (core/daemon/src/  *)
(* service.rs) over BottleStore (core/shared/src/lib.rs).  One task serves   *)
(* one client connection and handles its requests one after the other; tasks *)
(* run in parallel on tokio's thread pool, and no lock guards the store, so  *)
(* every file system call is an atomic step and calls of different tasks     *)
(* interleave freely.                                                        *)
EXTENDS BottleFile, Sequences

CONSTANTS
    Task,         \* connection tasks (handle_connection)
    Bottle,       \* the uuids that can be generated; bounds the creations
    None,         \* no bottle, no recipe
    Steps,        \* the normalised steps of each recipe
    MaxRequests,  \* bound on the requests of all clients together
    MaxMishaps    \* bound on I/O errors and daemon crashes

StepKind == {"run", "wait", "winecfg", "env", "copy"}
Step == [kind : StepKind, vars : Env]

(* Only env and winecfg steps carry variables.                               *)
ASSUME ServiceAssumption ==
    /\ None \notin Bottle /\ None \notin Recipe
    /\ Steps \in [Recipe -> Seq(Step)]
    /\ \A r \in Recipe : \A i \in 1..Len(Steps[r]) :
          Steps[r][i].kind \in {"run", "wait", "copy"} => Steps[r][i].vars = NoVars
    /\ MaxRequests \in Nat /\ MaxMishaps \in Nat

VARIABLES
    (* the store's directory tree *)
    dir,      \* bottles whose directory exists
    prefix,   \* bottles whose wine prefix directory exists
    meta,     \* the metadata file of each bottle
    pend,     \* writes handed to the blocking pool, not yet in the file
    (* the daemon *)
    task,     \* what each connection task is doing
    (* the clients *)
    used,     \* uuids generated so far
    known,    \* uuids some reply has told to a client
    (* history *)
    created,  \* bottles whose creation was acknowledged
    deleted,  \* bottles whose deletion was acknowledged
    applied,  \* <<bottle, recipe>> pairs whose application was acknowledged
    raced,    \* bottles on which conflicting requests overlapped
    faulted,  \* bottles an I/O error or a crash has left as they were
    requests, mishaps

fs == <<dir, prefix, meta, pend>>
clients == <<used, known>>
acks == <<created, deleted, applied>>
causes == <<raced, faulted>>
bounds == <<requests, mishaps>>
vars == <<fs, task, clients, acks, causes, bounds>>

-----------------------------------------------------------------------------
(* Task state: the local variables of the handlers.                          *)

Op == {"none", "create", "delete", "run", "apply", "list"}
Location == {"idle", "mkdir", "mkprefix", "open", "write", "check", "scan",
             "unlink", "read", "spawn", "steps", "copy", "wine", "readdir",
             "probe", "readmeta"}

TaskState ==
    [op   : Op, pc : Location,
     b    : Bottle \cup {None},          \* the bottle at hand
     r    : Recipe \cup {None},          \* the recipe being applied
     step : Nat, rec : Record,           \* its next step, the record in memory
     orphan : BOOLEAN,                   \* the open metadata file was unlinked
     kids : SUBSET {"prefix", "meta"},   \* directory entries still to unlink
     ids  : SUBSET Bottle,               \* listing: directories still to visit
     seen : SUBSET Bottle,               \* listing: records collected
     hit  : SUBSET Bottle]               \* history: bottles changed meanwhile

Idle == [op |-> "none", pc |-> "idle", b |-> None, r |-> None, step |-> 0,
         rec |-> NewRecord, orphan |-> FALSE, kids |-> {}, ids |-> {},
         seen |-> {}, hit |-> {}]

Mutating(u) == task[u].op \in {"create", "delete", "apply"} /\ task[u].b # None
Busy == {b \in Bottle : \/ \E u \in Task : Mutating(u) /\ task[u].b = b
                        \/ \E w \in pend : w.b = b}

(* Requests that interfere on one bottle: two read-modify-writes of its      *)
(* record, or a removal and anything else.                                   *)
Conflict(o, p) == "delete" \in {o, p} \/ (o = "apply" /\ p = "apply")

(* History: every listing in progress notes that b is being changed.         *)
Noting(b) ==
    [u \in Task |-> IF task[u].op = "list"
                      THEN [task[u] EXCEPT !.hit = @ \cup {b}] ELSE task[u]]

Children(b) == (IF b \in prefix THEN {"prefix"} ELSE {})
               \cup (IF meta[b].state # "absent" THEN {"meta"} ELSE {})

Goto(t, loc) == task' = [task EXCEPT ![t].pc = loc]
Reply(t) == task' = [task EXCEPT ![t] = Idle]

Init ==
    /\ dir = {} /\ prefix = {} /\ meta = [b \in Bottle |-> Absent] /\ pend = {}
    /\ task = [t \in Task |-> Idle]
    /\ used = {} /\ known = {}
    /\ created = {} /\ deleted = {} /\ applied = {}
    /\ raced = {} /\ faulted = {}
    /\ requests = 0 /\ mishaps = 0

-----------------------------------------------------------------------------
(* A client's request reaches its connection task.                           *)

Accept(t) == /\ task[t].op = "none" /\ requests < MaxRequests
             /\ requests' = requests + 1
             /\ UNCHANGED <<fs, clients, acks, faulted, mishaps>>

StartCreate(t) ==
    /\ Accept(t)
    /\ Cardinality(used) + Cardinality({u \in Task : task[u].pc = "mkdir"})
          < Cardinality(Bottle)
    /\ task' = [task EXCEPT ![t] = [Idle EXCEPT !.op = "create", !.pc = "mkdir"]]
    /\ UNCHANGED raced

StartList(t) ==
    /\ Accept(t)
    /\ task' = [task EXCEPT ![t] =
                  [Idle EXCEPT !.op = "list", !.pc = "readdir", !.hit = Busy]]
    /\ UNCHANGED raced

(* Requests name a bottle the client has been told of.                       *)
StartOn(t, o, loc, b, r) ==
    /\ Accept(t)
    /\ b \in known
    /\ task' = [(IF o = "run" THEN task ELSE Noting(b)) EXCEPT ![t] =
                  [Idle EXCEPT !.op = o, !.pc = loc, !.b = b, !.r = r]]
    /\ raced' = IF \E u \in Task : task[u].b = b /\ task[u].op # "list"
                                     /\ Conflict(o, task[u].op)
                  THEN raced \cup {b} ELSE raced

StartDelete(t) == \E b \in Bottle : StartOn(t, "delete", "check", b, None)
StartRun(t)    == \E b \in Bottle : StartOn(t, "run", "read", b, None)
StartApply(t)  == \E b \in Bottle, r \in Recipe : StartOn(t, "apply", "read", b, r)

-----------------------------------------------------------------------------
(* BottleStore::create                                                       *)

(* Variants with a bug, here and below, show that a property can fail.  This *)
(* one does not keep the id it has generated.                                *)
MakeBottleDir_ForgetsId(t) ==
    /\ task[t].pc = "mkdir"
    /\ \E b \in Bottle \ used : used' = used \cup {b} /\ dir' = dir \cup {b}
    /\ Goto(t, "mkprefix")
    /\ UNCHANGED <<prefix, meta, pend, known, acks, causes, bounds>>

(* Variant: the id is any that names no directory, not a new one.            *)
MakeBottleDir_ReusesId(t) ==
    /\ task[t].pc = "mkdir"
    /\ \E b \in Bottle \ dir :
         /\ used' = used \cup {b}
         /\ dir' = dir \cup {b}
         /\ task' = [Noting(b) EXCEPT ![t].pc = "mkprefix", ![t].b = b]
    /\ UNCHANGED <<prefix, meta, pend, known, acks, causes, bounds>>

MakeBottleDir(t) ==
    /\ task[t].pc = "mkdir"
    /\ \E b \in Bottle \ used :
         /\ used' = used \cup {b}
         /\ dir' = dir \cup {b}
         /\ task' = [Noting(b) EXCEPT ![t].pc = "mkprefix", ![t].b = b]
    /\ UNCHANGED <<prefix, meta, pend, known, acks, causes, bounds>>

MakePrefixDir(t) ==
    /\ task[t].pc = "mkprefix"
    /\ dir' = dir \cup {task[t].b}
    /\ prefix' = prefix \cup {task[t].b}
    /\ Goto(t, "open")
    /\ UNCHANGED <<meta, pend, clients, acks, causes, bounds>>

(* BottleStore::write_record, for create and update_record                   *)

(* Variant: the file is opened without truncating it.                        *)
OpenMeta_KeepsContent(t) ==
    /\ task[t].pc = "open" /\ task[t].b \in dir
    /\ meta' = [meta EXCEPT ![task[t].b] = IF @.state = "absent" THEN Truncated ELSE @]
    /\ Goto(t, "write")
    /\ UNCHANGED <<dir, prefix, pend, clients, acks, causes, bounds>>

OpenMeta(t) ==
    /\ task[t].pc = "open" /\ task[t].b \in dir
    /\ meta' = [meta EXCEPT ![task[t].b] = Truncated]
    /\ Goto(t, "write")
    /\ UNCHANGED <<dir, prefix, pend, clients, acks, causes, bounds>>

(* Variant: a missing directory is made again.                               *)
OpenMetaFails_MakesDir(t) ==
    /\ task[t].pc = "open" /\ task[t].b \notin dir
    /\ dir' = dir \cup {task[t].b}
    /\ UNCHANGED <<prefix, meta, pend, task, clients, acks, causes, bounds>>

OpenMetaFails(t) ==
    /\ task[t].pc = "open" /\ task[t].b \notin dir
    /\ Reply(t)
    /\ UNCHANGED <<fs, clients, acks, causes, bounds>>

(* write_all on a tokio File returns once the data is handed to the blocking *)
(* pool; the file is dropped without a flush, and the reply goes out.        *)
WriteMeta(t) ==
    /\ task[t].pc = "write"
    /\ pend' = IF task[t].orphan THEN pend
               ELSE pend \cup {[by |-> t, b |-> task[t].b, rec |-> task[t].rec]}
    /\ IF task[t].op = "create"
         THEN /\ created' = created \cup {task[t].b}
              /\ known' = known \cup {task[t].b}
              /\ UNCHANGED applied
         ELSE /\ applied' = applied \cup {<<task[t].b, task[t].r>>}
              /\ UNCHANGED <<created, known>>
    /\ Reply(t)
    /\ UNCHANGED <<dir, prefix, meta, used, deleted, causes, bounds>>

LandWrite ==
    /\ \E w \in pend : /\ meta' = [meta EXCEPT ![w.b] = Land(@, w.rec)]
                       /\ pend' = pend \ {w}
    /\ UNCHANGED <<dir, prefix, task, clients, acks, causes, bounds>>

-----------------------------------------------------------------------------
(* BottleStore::remove: exists(), then remove_dir_all, which unlinks the     *)
(* entries it reads, in the order of the directory, and removes the          *)
(* directory last.                                                           *)

RemoveCheck(t) ==
    /\ task[t].pc = "check"
    /\ IF task[t].b \in dir THEN Goto(t, "scan") ELSE Reply(t)
    /\ UNCHANGED <<fs, clients, acks, causes, bounds>>

RemoveScan(t) ==
    /\ task[t].pc = "scan"
    /\ IF task[t].b \in dir
         THEN task' = [task EXCEPT ![t].pc = "unlink", ![t].kids = Children(task[t].b)]
         ELSE Reply(t)
    /\ UNCHANGED <<fs, clients, acks, causes, bounds>>

(* An unlinked file lives on for those who have it open, unseen by others.   *)
UnlinkMeta(t) ==
    /\ task[t].pc = "unlink" /\ meta[task[t].b].state # "absent"
    /\ meta' = [meta EXCEPT ![task[t].b] = Absent]
    /\ pend' = {w \in pend : w.b # task[t].b}
    /\ task' = [u \in Task |->
                  IF u = t THEN [task[u] EXCEPT !.kids = @ \ {"meta"}]
                  ELSE IF task[u].pc = "write" /\ task[u].b = task[t].b
                    THEN [task[u] EXCEPT !.orphan = TRUE] ELSE task[u]]
    /\ UNCHANGED <<dir, prefix, clients, acks, causes, bounds>>

UnlinkPrefix(t) ==
    /\ task[t].pc = "unlink" /\ task[t].b \in prefix
    /\ prefix' = prefix \ {task[t].b}
    /\ task' = [task EXCEPT ![t].kids = @ \ {"prefix"}]
    /\ UNCHANGED <<dir, meta, pend, clients, acks, causes, bounds>>

(* A program that keeps writing into the prefix makes its removal fail.      *)
UnlinkPrefixBusy(t) ==
    /\ task[t].pc = "unlink" /\ task[t].b \in prefix
    /\ \E u \in Task : task[u].pc = "wine" /\ task[u].b = task[t].b
    /\ Reply(t)
    /\ UNCHANGED <<fs, clients, acks, causes, bounds>>

(* Variant of UnlinkGone: an entry that is gone is tried again for ever.     *)
UnlinkGone_Retries(t) ==
    /\ task[t].pc = "unlink" /\ task[t].kids \ Children(task[t].b) # {}
    /\ UNCHANGED vars

(* Someone else removed an entry first: an error in older releases of the    *)
(* standard library, ignored in newer ones.                                  *)
UnlinkGone(t) ==
    /\ task[t].pc = "unlink"
    /\ \E k \in task[t].kids \ Children(task[t].b) :
         \/ task' = [task EXCEPT ![t].kids = @ \ {k}]
         \/ Reply(t)
    /\ UNCHANGED <<fs, clients, acks, causes, bounds>>

(* rmdir succeeds on an empty directory, or, in newer releases, on a missing *)
(* one.                                                                      *)
RemoveDir(t) ==
    /\ task[t].pc = "unlink" /\ task[t].kids = {} /\ Children(task[t].b) = {}
    /\ dir' = dir \ {task[t].b}
    /\ deleted' = deleted \cup {task[t].b}
    /\ Reply(t)
    /\ UNCHANGED <<prefix, meta, pend, clients, created, applied, causes, bounds>>

RemoveDirFails(t) ==
    /\ task[t].pc = "unlink" /\ task[t].kids = {}
    /\ Children(task[t].b) # {} \/ task[t].b \notin dir
    /\ Reply(t)
    /\ UNCHANGED <<fs, clients, acks, causes, bounds>>

-----------------------------------------------------------------------------
(* BottleStore::record, for bottle.run and recipe.apply                      *)

(* Variant: a record that cannot be read is taken to be a new one.           *)
ReadRecord_Defaults(t) ==
    /\ task[t].pc = "read"
    /\ task' = [task EXCEPT ![t].rec = meta[task[t].b].rec,
                            ![t].pc = IF task[t].op = "run" THEN "spawn" ELSE "steps",
                            ![t].step = 1]
    /\ UNCHANGED <<fs, clients, acks, causes, bounds>>

ReadRecord(t) ==
    /\ task[t].pc = "read"
    /\ IF Readable(meta[task[t].b])
         THEN task' = [task EXCEPT
                ![t].rec = meta[task[t].b].rec,
                ![t].pc = IF task[t].op = "run" THEN "spawn" ELSE "steps",
                ![t].step = 1]
         ELSE Reply(t)
    /\ UNCHANGED <<fs, clients, acks, causes, bounds>>

(* Variant of Spawn: a recipe that cannot start a program saves its record.  *)
Spawn_SavesOnError(t) ==
    /\ task[t].pc = "spawn"
    /\ IF task[t].b \in prefix THEN Goto(t, "wine")
       ELSE IF task[t].op = "apply" THEN Goto(t, "open") ELSE Reply(t)
    /\ UNCHANGED <<fs, clients, acks, causes, bounds>>

(* run_wine_command: the child starts in the prefix, so spawning it fails    *)
(* when the prefix is gone; a program's failure is not an error.             *)
Spawn(t) ==
    /\ task[t].pc = "spawn"
    /\ IF task[t].b \in prefix THEN Goto(t, "wine") ELSE Reply(t)
    /\ UNCHANGED <<fs, clients, acks, causes, bounds>>

WineExit(t) ==
    /\ task[t].pc = "wine"
    /\ IF task[t].op = "run" THEN Reply(t)
       ELSE task' = [task EXCEPT ![t].pc = "steps", ![t].step = @ + 1]
    /\ UNCHANGED <<fs, clients, acks, causes, bounds>>

-----------------------------------------------------------------------------
(* DaemonService::apply_recipe: the steps change the record in memory; it is *)
(* written back when all of them have succeeded.                             *)

AtStep(t, kind) == /\ task[t].pc = "steps"
                   /\ task[t].step <= Len(Steps[task[t].r])
                   /\ Steps[task[t].r][task[t].step].kind = kind
WithStepVars(t) ==
    [task[t].rec EXCEPT !.env = Overlay(@, Steps[task[t].r][task[t].step].vars)]

ApplyRun(t) ==
    /\ AtStep(t, "run")
    /\ Goto(t, "spawn")
    /\ UNCHANGED <<fs, clients, acks, causes, bounds>>

ApplyWait(t) ==
    /\ AtStep(t, "wait")
    /\ task' = [task EXCEPT ![t].step = @ + 1]
    /\ UNCHANGED <<fs, clients, acks, causes, bounds>>

ApplyWineCfg(t) ==
    /\ AtStep(t, "winecfg")
    /\ task' = [task EXCEPT ![t].rec = WithStepVars(t), ![t].pc = "spawn"]
    /\ UNCHANGED <<fs, clients, acks, causes, bounds>>

ApplyEnv(t) ==
    /\ AtStep(t, "env")
    /\ task' = [task EXCEPT ![t].rec = WithStepVars(t), ![t].step = @ + 1]
    /\ UNCHANGED <<fs, clients, acks, causes, bounds>>

(* create_dir_all of the destination's parent makes the bottle's directory   *)
(* and prefix as well when they are missing.                                 *)
ApplyCopy(t) ==
    /\ AtStep(t, "copy")
    /\ dir' = dir \cup {task[t].b}
    /\ prefix' = prefix \cup {task[t].b}
    /\ Goto(t, "copy")
    /\ UNCHANGED <<meta, pend, clients, acks, causes, bounds>>

ApplyCopyMissing(t) ==
    /\ AtStep(t, "copy")
    /\ Reply(t)
    /\ UNCHANGED <<fs, clients, acks, causes, bounds>>

CopyFile(t) ==
    /\ task[t].pc = "copy"
    /\ IF task[t].b \in prefix
         THEN task' = [task EXCEPT ![t].pc = "steps", ![t].step = @ + 1]
         ELSE Reply(t)
    /\ UNCHANGED <<fs, clients, acks, causes, bounds>>

(* BottleStore::update_record                                                *)
UpdateRecord(t) ==
    /\ task[t].pc = "steps" /\ task[t].step > Len(Steps[task[t].r])
    /\ IF task[t].b \in dir
         THEN task' = [task EXCEPT ![t].pc = "open",
                                   ![t].rec.by = @ \cup {task[t].r}]
         ELSE Reply(t)
    /\ UNCHANGED <<fs, clients, acks, causes, bounds>>

-----------------------------------------------------------------------------
(* BottleStore::list                                                         *)

ListDir(t) ==
    /\ task[t].pc = "readdir"
    /\ task' = [task EXCEPT ![t].pc = "probe", ![t].ids = dir]
    /\ UNCHANGED <<fs, clients, acks, causes, bounds>>

(* Variant of ListProbe: the file is read without asking whether it exists.  *)
ListProbe_Blind(t) ==
    /\ task[t].pc = "probe"
    /\ \E b \in task[t].ids :
         task' = [task EXCEPT ![t].ids = @ \ {b}, ![t].b = b, ![t].pc = "readmeta"]
    /\ UNCHANGED <<fs, clients, acks, causes, bounds>>

ListProbe(t) ==
    /\ task[t].pc = "probe"
    /\ \E b \in task[t].ids :
         IF meta[b].state # "absent"
           THEN task' = [task EXCEPT ![t].ids = @ \ {b}, ![t].b = b,
                                     ![t].pc = "readmeta"]
           ELSE task' = [task EXCEPT ![t].ids = @ \ {b}]
    /\ UNCHANGED <<fs, clients, acks, causes, bounds>>

(* Variant of ListRead: a record that does not parse ends the listing.       *)
ListRead_Stops(t) ==
    /\ task[t].pc = "readmeta" /\ meta[task[t].b].state # "absent"
    /\ task' = IF Readable(meta[task[t].b])
                 THEN [task EXCEPT ![t].pc = "probe", ![t].b = None,
                                   ![t].seen = @ \cup {task[t].b}]
                 ELSE [task EXCEPT ![t].pc = "probe", ![t].b = None, ![t].ids = {}]
    /\ UNCHANGED <<fs, clients, acks, causes, bounds>>

(* Variant of ListRead: a record that does not parse is listed as it is.     *)
ListRead_KeepsBroken(t) ==
    /\ task[t].pc = "readmeta" /\ meta[task[t].b].state # "absent"
    /\ task' = [task EXCEPT ![t].pc = "probe", ![t].b = None,
                            ![t].seen = @ \cup {task[t].b}]
    /\ UNCHANGED <<fs, clients, acks, causes, bounds>>

(* A record that does not parse is skipped.                                  *)
ListRead(t) ==
    /\ task[t].pc = "readmeta" /\ meta[task[t].b].state # "absent"
    /\ task' = [task EXCEPT ![t].pc = "probe", ![t].b = None,
                  ![t].seen = IF Readable(meta[task[t].b])
                                THEN @ \cup {task[t].b} ELSE @]
    /\ UNCHANGED <<fs, clients, acks, causes, bounds>>

(* A file that vanished since the probe fails the whole request.             *)
ListReadFails(t) ==
    /\ task[t].pc = "readmeta" /\ meta[task[t].b].state = "absent"
    /\ Reply(t)
    /\ UNCHANGED <<fs, clients, acks, causes, bounds>>

ListDone(t) ==
    /\ task[t].pc = "probe" /\ task[t].ids = {}
    /\ known' = known \cup task[t].seen
    /\ Reply(t)
    /\ UNCHANGED <<fs, used, acks, causes, bounds>>

-----------------------------------------------------------------------------
(* I/O errors and crashes                                                    *)

(* A file system call of a handler fails and the handler answers the error.  *)
IoError(t) ==
    /\ mishaps < MaxMishaps
    /\ task[t].pc \in Location \ {"idle", "write", "wine", "probe"}
    /\ mishaps' = mishaps + 1
    /\ faulted' = IF task[t].op \in {"create", "delete"}
                    THEN faulted \cup ({task[t].b} \ {None}) ELSE faulted
    /\ Reply(t)
    /\ UNCHANGED <<fs, clients, acks, raced, requests>>

(* A write fails in the blocking pool, after the reply: nobody is told.      *)
LostWrite ==
    /\ mishaps < MaxMishaps
    /\ \E w \in pend : pend' = pend \ {w} /\ faulted' = faulted \cup {w.b}
    /\ mishaps' = mishaps + 1
    /\ UNCHANGED <<dir, prefix, meta, task, clients, acks, raced, requests>>

(* The daemon dies and is started again; it keeps no state of its own.       *)
Crash ==
    /\ mishaps < MaxMishaps
    /\ Busy # {} \/ \E t \in Task : task[t] # Idle
    /\ task' = [t \in Task |-> Idle]
    /\ pend' = {}
    /\ faulted' = faulted \cup Busy
    /\ mishaps' = mishaps + 1
    /\ UNCHANGED <<dir, prefix, meta, clients, acks, raced, requests>>

-----------------------------------------------------------------------------
Start(t) == StartCreate(t) \/ StartList(t) \/ StartDelete(t) \/ StartRun(t)
            \/ StartApply(t)

Serve(t) ==
    \/ MakeBottleDir(t) \/ MakePrefixDir(t) \/ OpenMeta(t) \/ OpenMetaFails(t)
    \/ WriteMeta(t)
    \/ RemoveCheck(t) \/ RemoveScan(t) \/ UnlinkMeta(t) \/ UnlinkPrefix(t)
    \/ UnlinkPrefixBusy(t) \/ UnlinkGone(t) \/ RemoveDir(t) \/ RemoveDirFails(t)
    \/ ReadRecord(t) \/ Spawn(t) \/ WineExit(t)
    \/ ApplyRun(t) \/ ApplyWait(t) \/ ApplyWineCfg(t) \/ ApplyEnv(t)
    \/ ApplyCopy(t) \/ ApplyCopyMissing(t) \/ CopyFile(t) \/ UpdateRecord(t)
    \/ ListDir(t) \/ ListProbe(t) \/ ListRead(t) \/ ListReadFails(t) \/ ListDone(t)

(* Clients may stop asking; this keeps TLC's deadlock check for tasks that   *)
(* are stuck in a request.                                                   *)
Quiescent == /\ \A t \in Task : task[t].op = "none"
             /\ pend = {} /\ UNCHANGED vars

Next == \/ \E t \in Task : Start(t) \/ Serve(t) \/ IoError(t)
        \/ LandWrite \/ LostWrite \/ Crash \/ Quiescent

Spec == Init /\ [][Next]_vars

(* The runtime polls every ready task and runs every write it was handed.    *)
(* For a task inside run_wine_command this also says that the program ends.  *)
Fairness == (\A t \in Task : WF_vars(Serve(t))) /\ WF_vars(LandWrite)
FairSpec == Spec /\ Fairness

-----------------------------------------------------------------------------
(* Properties                                                                *)

(* The locations of each handler.                                            *)
PlacesOf(op) ==
    CASE op = "none"   -> {"idle"}
      [] op = "create" -> {"mkdir", "mkprefix", "open", "write"}
      [] op = "delete" -> {"check", "scan", "unlink"}
      [] op = "run"    -> {"read", "spawn", "wine"}
      [] op = "apply"  -> {"read", "steps", "spawn", "wine", "copy", "open", "write"}
      [] op = "list"   -> {"readdir", "probe", "readmeta"}

(* A task is inside its handler, with the locals that location needs.        *)
WellPlaced(s) ==
    /\ s.pc \in PlacesOf(s.op)
    /\ s.pc \notin {"idle", "mkdir", "readdir", "probe"} => s.b \in Bottle
    /\ s.op = "apply" => s.r \in Recipe
    /\ s.pc \in {"steps", "spawn", "wine", "copy"} => s.step >= 1

TypeOK ==
    /\ dir \subseteq Bottle /\ prefix \subseteq Bottle
    /\ meta \in [Bottle -> File]
    /\ pend \subseteq [by : Task, b : Bottle, rec : Record]
    /\ task \in [Task -> TaskState] /\ \A t \in Task : WellPlaced(task[t])
    /\ used \subseteq Bottle /\ known \subseteq Bottle
    /\ created \subseteq Bottle /\ deleted \subseteq Bottle
    /\ applied \subseteq Bottle \X Recipe
    /\ raced \subseteq Bottle /\ faulted \subseteq Bottle
    /\ requests \in Nat /\ mishaps \in Nat

Settled(b) == b \notin Busy

(* A bottle directory nobody is changing holds a readable record, unless      *)
(* conflicting requests overlapped on it or an error or a crash struck it:    *)
(* create, apply, run and list in any interleaving, with their writes landing *)
(* late, never make a bottle vanish from the listing.                         *)
UnreadableHasCause ==
    \A b \in dir : Settled(b) /\ b \notin raced \cup faulted => Readable(meta[b])

(* Metadata is torn, two writers' data in one file, only where conflicting    *)
(* requests overlapped: no other interleaving, late write, error or crash     *)
(* leaves a file that neither parses nor is empty.                            *)
TornHasCause == \A b \in Bottle : meta[b].state = "torn" => b \in raced

(* The recipes whose application to b was acknowledged.                       *)
Applied(b) == {r \in Recipe : <<b, r>> \in applied}

(* A record that can be read holds exactly the recipes whose application was  *)
(* acknowledged, at every moment and after any error or crash, unless         *)
(* conflicting requests overlapped on the bottle: none is lost, and a recipe  *)
(* that failed or was cut short has left no trace.                            *)
RecordIsAcked ==
    \A b \in Bottle \ raced : Readable(meta[b]) => meta[b].rec.by = Applied(b)

(* The variables a recipe sets, by its env and winecfg steps.                 *)
SetBy(r) == {k \in Key : \E i \in 1..Len(Steps[r]) : Steps[r][i].vars[k] # Unset}

(* Recipe r leaves variable k with value v: its last step that sets k says so. *)
Leaves(r, k, v) ==
    \E i \in 1..Len(Steps[r]) :
        /\ v # Unset /\ Steps[r][i].vars[k] = v
        /\ \A j \in 1..Len(Steps[r]) : j > i => Steps[r][j].vars[k] = Unset

(* Every variable has the final value of a recipe that the record holds, a    *)
(* variable of none is not set, and one recipe, the latest, has all it sets.  *)
AsRecipesLeaveIt(rec) ==
    /\ \A k \in Key : IF rec.env[k] = Unset
                        THEN \A r \in rec.by : k \notin SetBy(r)
                        ELSE \E r \in rec.by : Leaves(r, k, rec.env[k])
    /\ rec.by # {} => \E r \in rec.by : \A k \in SetBy(r) : Leaves(r, k, rec.env[k])

(* A readable record is as the recipes it holds leave it: no interleaving,    *)
(* error or crash leaves half a recipe's environment in it, the value of an   *)
(* early step over that of a later one, or a mixture of two recipes.          *)
AllOrNothing ==
    \A b \in Bottle : Readable(meta[b]) => AsRecipesLeaveIt(meta[b].rec)

(* A bottle whose deletion was acknowledged never has a directory again.      *)
DeletedStaysDeleted == deleted \cap dir = {}

(* Recipes that copy files can bring back the directory of a bottle whose     *)
(* deletion was acknowledged, but only where they overlapped with it.         *)
ResurrectionHasCause == deleted \cap dir \subseteq raced

(* A listing shows every bottle that nobody changed while it went on as it    *)
(* is: it names the bottle if and only if its record can be read, also after  *)
(* errors and crashes.  It may be read as if taken at one moment.             *)
ListExact ==
    [][\A t \in Task : ListDone(t) =>
          \A b \in Bottle \ task[t].hit :
              b \in task[t].seen <=> b \in dir /\ Readable(meta[b])]_vars

(* A listing that is answered names every bottle that was acknowledged and    *)
(* readable when it began and that nobody changed meanwhile.                  *)
ListComplete ==
    [][\A t \in Task : ListDone(t) =>
          created \cap dir \subseteq task[t].seen \cup task[t].hit \cup raced \cup faulted]_vars

(* A listing fails over a bottle only when someone was changing that bottle   *)
(* meanwhile: what creations, errors and crashes leave behind does not break  *)
(* it.                                                                        *)
ListErrorHasCause ==
    [][\A t \in Task : ListReadFails(t) => task[t].b \in task[t].hit]_vars

(* Seen from the ids alone the service implements BottleLifecycle, as long as *)
(* no recipe copies files (ApplyCopy makes directories).                      *)
Status == [b \in Bottle |-> IF b \notin used THEN "fresh"
                            ELSE IF b \in dir THEN "live" ELSE "gone"]
Lifecycle == INSTANCE BottleLifecycle WITH status <- Status
ImplementsLifecycle == Lifecycle!Spec

(* Every request is answered.                                                 *)
EveryRequestAnswered ==
    \A t \in Task : task[t].op # "none" ~> task[t].op = "none"

(* Claims of the documentation that the code does not keep.                   *)

(* A bottle whose creation was acknowledged, and which nobody asked to change *)
(* since, is listed ("list bottles managed by the daemon").                   *)
AckedBottleListed ==
    [][\A t \in Task : ListDone(t) =>
          created \cap dir \subseteq task[t].seen \cup {b \in Bottle : \E u \in Task :
                                      Mutating(u) /\ task[u].b = b} \cup raced \cup faulted]_vars

(* A listing never names a bottle whose deletion was acknowledged and which   *)
(* nobody was changing while the listing went on ("delete a bottle by id").   *)
DeletedNotListed ==
    [][\A t \in Task : ListDone(t) =>
          task[t].seen \cap deleted \subseteq task[t].hit]_vars

(* A recipe whose application was acknowledged stays in a bottle that still   *)
(* exists and is readable, whatever else is applied at the same time.         *)
AckedApplySticks ==
    \A p \in applied : p[1] \in dir /\ Settled(p[1]) /\ Readable(meta[p[1]])
            => p[2] \in meta[p[1]].rec.by
=============================================================================
