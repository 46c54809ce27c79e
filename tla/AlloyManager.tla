---------------------------- MODULE AlloyManager ----------------------------
(* The bottles and recipes of alloy-daemon: BottleManager (core/alloy-core/  *)
(* src/bottle.rs), RecipeExecutor (recipes.rs) and the commands that reach   *)
(* them (core/alloy-daemon/src/main.rs).  A bottle is named by its user; its *)
(* directory is the wine prefix and holds silicon-alloy.json next to what    *)
(* wine writes.  Programs run as children of the daemon and are not killed   *)
(* when their request ends or the daemon dies.                               *)
EXTENDS Naturals, Sequences, FiniteSets

CONSTANTS
    Task,         \* connection tasks (handle_client)
    Name,         \* bottle names, as BottleName::sanitize leaves them
    Recipe,       \* recipe ids
    Steps,        \* the steps of each recipe
    None,         \* no name, no recipe
    MaxRequests,  \* bound on the requests of all clients together
    MaxMishaps    \* bound on I/O errors and daemon crashes

ASSUME AlloyAssumption ==
    /\ None \notin Name /\ None \notin Recipe
    /\ Steps \in [Recipe -> Seq({"run", "env", "winecfg", "note"})]
    /\ MaxRequests \in Nat /\ MaxMishaps \in Nat

VARIABLES
    (* the file system *)
    dir,      \* names whose directory exists
    files,    \* names whose directory holds files of wine
    meta,     \* silicon-alloy.json of each name
    log,      \* names that have a log file
    (* the daemon and the programs it has started *)
    task,     \* what each connection task is doing
    stray,    \* programs that nobody waits for any more
    (* history *)
    made,     \* names whose creation was acknowledged, until their removal
    botched,  \* names that a failure or an overlap may have left unusable
    requests, mishaps

fs == <<dir, files, meta, log>>
history == <<made, botched>>
bounds == <<requests, mishaps>>
vars == <<fs, task, stray, history, bounds>>

-----------------------------------------------------------------------------
Alive == {"starting", "running"}
Exited == {"ok", "failed", "killed"}

TaskState ==
    [op    : {"none", "create", "destroy", "run", "apply", "list"},
     pc    : {"idle", "check", "mkdir", "boot", "bootlog", "drain", "bootwait",
              "openmeta", "writemeta", "openlog", "spawn", "wait", "join", "load",
              "steps", "cfgwait", "unlink", "rmlog", "readdir", "probe", "readmeta"},
     n     : Name \cup {None}, r : Recipe \cup {None}, step : Nat,
     child : {"none"} \cup Alive \cup Exited,         \* the program waited for
     out   : {"none", "open", "ended", "garbled"},    \* its output pipes
     orphan : BOOLEAN,          \* the metadata file being written was unlinked
     bad   : BOOLEAN,           \* history: a program of the recipe failed
     ids   : SUBSET Name, seen : SUBSET Name,         \* listing
     hit   : SUBSET Name]       \* history: names created or destroyed meanwhile

Idle == [op |-> "none", pc |-> "idle", n |-> None, r |-> None, step |-> 0,
         child |-> "none", out |-> "none", orphan |-> FALSE, bad |-> FALSE,
         ids |-> {}, seen |-> {}, hit |-> {}]

Goto(t, loc) == task' = [task EXCEPT ![t].pc = loc]

(* A request ends; a program that still runs is not killed.                  *)
Reply(t) ==
    /\ task' = [task EXCEPT ![t] = Idle]
    /\ stray' = IF task[t].child \in Alive
                  THEN stray \cup {<<task[t].n, task[t].child>>} ELSE stray

Botch(t) == botched' = botched \cup {task[t].n}

Entries(n) == (IF n \in files THEN {"files"} ELSE {})
              \cup (IF meta[n] # "absent" THEN {"meta"} ELSE {})

(* Tasks that create or destroy a bottle.                                    *)
Changing(n) == {u \in Task : task[u].op \in {"create", "destroy"} /\ task[u].n = n}

Init ==
    /\ dir = {} /\ files = {} /\ meta = [n \in Name |-> "absent"] /\ log = {}
    /\ task = [t \in Task |-> Idle] /\ stray = {}
    /\ made = {} /\ botched = {}
    /\ requests = 0 /\ mishaps = 0

-----------------------------------------------------------------------------
(* handle_request: a command reaches its connection task.                    *)

Accept(t) == /\ task[t].op = "none" /\ requests < MaxRequests
             /\ requests' = requests + 1
             /\ UNCHANGED <<fs, stray, history, mishaps>>

(* History: listings in progress note the names that are being changed.      *)
Noting(n) == [u \in Task |-> IF task[u].op = "list"
                               THEN [task[u] EXCEPT !.hit = @ \cup {n}] ELSE task[u]]

StartChange(t, o) ==
    /\ Accept(t)
    /\ \E n \in Name : task' = [Noting(n) EXCEPT ![t] =
                         [Idle EXCEPT !.op = o, !.pc = "check", !.n = n]]
StartCreate(t) == StartChange(t, "create")
StartDestroy(t) == StartChange(t, "destroy")

StartRun(t) ==
    /\ Accept(t)
    /\ \E n \in Name : task' = [task EXCEPT ![t] =
                         [Idle EXCEPT !.op = "run", !.pc = "check", !.n = n]]

StartApply(t) ==
    /\ Accept(t)
    /\ \E n \in Name, r \in Recipe : task' = [task EXCEPT ![t] =
          [Idle EXCEPT !.op = "apply", !.pc = "load", !.n = n, !.r = r]]

StartList(t) ==
    /\ Accept(t)
    /\ task' = [task EXCEPT ![t] = [Idle EXCEPT !.op = "list", !.pc = "readdir",
                                      !.hit = {n \in Name : Changing(n) # {}}]]

(* prefix_path.exists(), asked before anything else.                         *)
Check(t) ==
    /\ task[t].pc = "check"
    /\ IF (task[t].n \in dir) = (task[t].op = "create")
         THEN Reply(t)
         ELSE /\ Goto(t, CASE task[t].op = "create"  -> "mkdir"
                           [] task[t].op = "destroy" -> "unlink"
                           [] OTHER -> "openlog")
              /\ UNCHANGED stray
    /\ UNCHANGED <<fs, history, bounds>>

-----------------------------------------------------------------------------
(* BottleManager::create_bottle and bootstrap_prefix                         *)

(* create_dir_all does not mind that the directory exists.                   *)
MakeDir(t) ==
    /\ task[t].pc = "mkdir"
    /\ dir' = dir \cup {task[t].n}
    /\ Goto(t, "boot")
    /\ UNCHANGED <<files, meta, log, stray, history, bounds>>

SpawnBoot(t) ==
    /\ task[t].pc = "boot"
    /\ task' = [task EXCEPT ![t].pc = "bootlog", ![t].child = "starting",
                            ![t].out = "open"]
    /\ UNCHANGED <<fs, stray, history, bounds>>

OpenBootLog(t) ==
    /\ task[t].pc = "bootlog"
    /\ Goto(t, "drain")
    /\ UNCHANGED <<fs, stray, history, bounds>>

(* Variant of DrainBoot with a bug, as further down: a line that is not      *)
(* UTF-8 is read again and again.                                            *)
DrainBoot_Rereads(t) ==
    /\ task[t].pc = "drain" /\ task[t].out = "ended"
    /\ Goto(t, "bootwait")
    /\ UNCHANGED <<fs, stray, history, bounds>>

(* wineboot's stderr is read to its end, or to a line that is not UTF-8,     *)
(* before the two minutes of the timeout begin.                              *)
DrainBoot(t) ==
    /\ task[t].pc = "drain" /\ task[t].out # "open"
    /\ Goto(t, "bootwait")
    /\ UNCHANGED <<fs, stray, history, bounds>>

BootDone(t) ==
    /\ task[t].pc = "bootwait" /\ task[t].child \in Exited
    /\ IF task[t].child = "ok"
         THEN /\ task' = [task EXCEPT ![t].pc = "openmeta", ![t].child = "none",
                                      ![t].out = "none"]
              /\ UNCHANGED <<stray, botched>>
         ELSE Reply(t) /\ Botch(t)
    /\ UNCHANGED <<fs, made, bounds>>

BootTimeout(t) ==
    /\ task[t].pc = "bootwait" /\ task[t].child \in Alive
    /\ Reply(t) /\ Botch(t)
    /\ UNCHANGED <<fs, made, bounds>>

(* tokio::fs::write: the file is truncated, then written, before it returns. *)
OpenMeta(t) ==
    /\ task[t].pc = "openmeta"
    /\ IF task[t].n \in dir
         THEN /\ meta' = [meta EXCEPT ![task[t].n] = "empty"]
              /\ botched' = IF meta[task[t].n] # "absent"
                              THEN botched \cup {task[t].n} ELSE botched
              /\ Goto(t, "writemeta") /\ UNCHANGED stray
         ELSE Reply(t) /\ Botch(t) /\ UNCHANGED meta
    /\ UNCHANGED <<dir, files, log, made, bounds>>

(* Over the record of another creation the tail of a longer one may stay:    *)
(* the length of created_at varies with its fraction of a second.            *)
WriteMeta(t) ==
    /\ task[t].pc = "writemeta"
    /\ IF task[t].orphan THEN UNCHANGED meta
       ELSE \E s \in IF meta[task[t].n] = "empty" THEN {"whole"} ELSE {"whole", "torn"} :
              meta' = [meta EXCEPT ![task[t].n] = s]
    /\ made' = IF task[t].orphan THEN made ELSE made \cup {task[t].n}
    /\ Reply(t)
    /\ UNCHANGED <<dir, files, log, botched, bounds>>

-----------------------------------------------------------------------------
(* BottleManager::run_in_bottle, for run and for the run steps of a recipe   *)

OpenLog(t) ==
    /\ task[t].pc = "openlog"
    /\ log' = log \cup {task[t].n}
    /\ Goto(t, "spawn")
    /\ UNCHANGED <<dir, files, meta, stray, history, bounds>>

SpawnRun(t) ==
    /\ task[t].pc = "spawn"
    /\ task' = [task EXCEPT ![t].pc = "wait", ![t].child = "starting", ![t].out = "open"]
    /\ UNCHANGED <<fs, stray, history, bounds>>

(* Variant: waiting for the output, not for the program.                     *)
AwaitExit_OutputOnly(t) ==
    /\ task[t].pc = "wait" /\ task[t].out # "open"
    /\ Goto(t, "join")
    /\ UNCHANGED <<fs, stray, history, bounds>>

AwaitExit(t) ==
    /\ task[t].pc = "wait" /\ task[t].child \in Exited
    /\ Goto(t, "join")
    /\ UNCHANGED <<fs, stray, history, bounds>>

NextStep(t) == task' = [task EXCEPT ![t].pc = "steps", ![t].step = @ + 1,
                                    ![t].child = "none", ![t].out = "none",
                                    ![t].bad = @ \/ task[t].child = "failed"]

(* Variant: run_command does not look at the exit code.                      *)
JoinOutput_IgnoresExit(t) ==
    /\ task[t].pc = "join" /\ task[t].out # "open"
    /\ IF task[t].op = "apply" /\ task[t].out = "ended"
         THEN NextStep(t) /\ UNCHANGED stray ELSE Reply(t)
    /\ UNCHANGED <<fs, history, bounds>>

(* Variant: the finished program is kept for the next step.                  *)
JoinOutput_KeepsChild(t) ==
    /\ task[t].pc = "join" /\ task[t].out # "open"
    /\ IF task[t].op = "apply" /\ task[t].out = "ended" /\ task[t].child # "failed"
         THEN /\ task' = [task EXCEPT ![t].pc = "steps", ![t].step = @ + 1]
              /\ UNCHANGED stray
         ELSE Reply(t)
    /\ UNCHANGED <<fs, history, bounds>>

(* The exit status of a killed program counts as zero; a line that is not    *)
(* UTF-8 fails the request after the program has run; a recipe goes on only  *)
(* after exit code zero.                                                     *)
JoinOutput(t) ==
    /\ task[t].pc = "join" /\ task[t].out # "open"
    /\ IF task[t].op = "apply" /\ task[t].out = "ended" /\ task[t].child # "failed"
         THEN NextStep(t) /\ UNCHANGED stray ELSE Reply(t)
    /\ UNCHANGED <<fs, history, bounds>>

-----------------------------------------------------------------------------
(* RecipeCatalog::load and RecipeExecutor::apply                             *)

LoadRecipe(t) ==
    /\ task[t].pc = "load"
    /\ task' = [task EXCEPT ![t].pc = "steps", ![t].step = 1]
    /\ UNCHANGED <<fs, stray, history, bounds>>

(* No such recipe, or one that does not parse.                               *)
LoadFails(t) ==
    /\ task[t].pc = "load"
    /\ Reply(t)
    /\ UNCHANGED <<fs, history, bounds>>

AtStep(t, kinds) == /\ task[t].pc = "steps"
                    /\ task[t].step <= Len(Steps[task[t].r])
                    /\ Steps[task[t].r][task[t].step] \in kinds

StepRun(t) ==
    /\ AtStep(t, {"run"})
    /\ Goto(t, "check")
    /\ UNCHANGED <<fs, stray, history, bounds>>

(* The variables live as long as the request; notes are printed.             *)
StepEnvOrNote(t) ==
    /\ AtStep(t, {"env", "note"})
    /\ task' = [task EXCEPT ![t].step = @ + 1]
    /\ UNCHANGED <<fs, stray, history, bounds>>

(* configure_wine starts winecfg without asking whether the bottle exists.   *)
StepWinecfg(t) ==
    /\ AtStep(t, {"winecfg"})
    /\ task' = [task EXCEPT ![t].pc = "cfgwait", ![t].child = "starting"]
    /\ UNCHANGED <<fs, stray, history, bounds>>

CfgDone(t) ==
    /\ task[t].pc = "cfgwait" /\ task[t].child \in Exited
    /\ IF task[t].child = "ok" THEN NextStep(t) /\ UNCHANGED stray ELSE Reply(t)
    /\ UNCHANGED <<fs, history, bounds>>

ApplyDone(t) ==
    /\ task[t].pc = "steps" /\ task[t].step > Len(Steps[task[t].r])
    /\ Reply(t)
    /\ UNCHANGED <<fs, history, bounds>>

-----------------------------------------------------------------------------
(* BottleManager::destroy_bottle: remove_dir_all unlinks what it finds, then *)
(* the directory; then the log goes.                                         *)

RemoveEntry(t) ==
    /\ task[t].pc = "unlink"
    /\ \/ /\ "files" \in Entries(task[t].n)
          /\ files' = files \ {task[t].n}
          /\ UNCHANGED <<meta, task>>
       \/ /\ "meta" \in Entries(task[t].n)
          /\ meta' = [meta EXCEPT ![task[t].n] = "absent"]
          /\ task' = [u \in Task |->
               IF task[u].pc = "writemeta" /\ task[u].n = task[t].n
                 THEN [task[u] EXCEPT !.orphan = TRUE] ELSE task[u]]
          /\ UNCHANGED files
    /\ UNCHANGED <<dir, log, stray, history, bounds>>

(* Variant: the contents go, the directory stays.                            *)
RemoveDir_KeepsDir(t) ==
    /\ task[t].pc = "unlink" /\ task[t].n \in dir /\ Entries(task[t].n) = {}
    /\ made' = made \ {task[t].n} /\ botched' = botched \ {task[t].n}
    /\ Goto(t, "rmlog")
    /\ UNCHANGED <<fs, stray, bounds>>

RemoveDir(t) ==
    /\ task[t].pc = "unlink" /\ task[t].n \in dir /\ Entries(task[t].n) = {}
    /\ dir' = dir \ {task[t].n}
    /\ made' = made \ {task[t].n} /\ botched' = botched \ {task[t].n}
    /\ Goto(t, "rmlog")
    /\ UNCHANGED <<files, meta, log, stray, bounds>>

(* Someone else has removed it: an error in older releases of the standard   *)
(* library, success in newer ones.                                           *)
RemoveGone(t) ==
    /\ task[t].pc = "unlink" /\ task[t].n \notin dir
    /\ \/ Goto(t, "rmlog") /\ UNCHANGED stray
       \/ Reply(t)
    /\ UNCHANGED <<fs, history, bounds>>

(* What others add to or take from the directory makes the removal fail.     *)
RemoveFails(t) ==
    /\ task[t].pc = "unlink"
    /\ \/ Changing(task[t].n) # {t}
       \/ \E u \in Task : task[u].n = task[t].n /\ task[u].child # "none"
       \/ \E p \in stray : p[1] = task[t].n
    /\ Reply(t) /\ Botch(t)
    /\ UNCHANGED <<fs, made, bounds>>

RemoveLog(t) ==
    /\ task[t].pc = "rmlog"
    /\ log' = log \ {task[t].n}
    /\ Reply(t)
    /\ UNCHANGED <<dir, files, meta, history, bounds>>

-----------------------------------------------------------------------------
(* BottleManager::list_bottles                                               *)

ReadDir(t) ==
    /\ task[t].pc = "readdir"
    /\ task' = [task EXCEPT ![t].pc = "probe", ![t].ids = dir]
    /\ UNCHANGED <<fs, stray, history, bounds>>

Probe(t) ==
    /\ task[t].pc = "probe"
    /\ \E n \in task[t].ids :
         IF meta[n] # "absent"
           THEN task' = [task EXCEPT ![t].ids = @ \ {n}, ![t].n = n, ![t].pc = "readmeta"]
           ELSE task' = [task EXCEPT ![t].ids = @ \ {n}]
    /\ UNCHANGED <<fs, stray, history, bounds>>

(* Variant: metadata that does not parse ends the listing.                   *)
ReadMeta_Stops(t) ==
    /\ task[t].pc = "readmeta"
    /\ IF meta[task[t].n] = "absent" THEN Reply(t)
       ELSE /\ UNCHANGED stray
            /\ task' = [task EXCEPT ![t].pc = "probe", ![t].n = None,
                 ![t].ids = IF meta[task[t].n] = "whole" THEN @ ELSE {},
                 ![t].seen = IF meta[task[t].n] = "whole" THEN @ \cup {task[t].n} ELSE @]
    /\ UNCHANGED <<fs, history, bounds>>

(* Variant: metadata that does not parse is listed as if it did.             *)
ReadMeta_KeepsBroken(t) ==
    /\ task[t].pc = "readmeta"
    /\ IF meta[task[t].n] = "absent" THEN Reply(t)
       ELSE /\ UNCHANGED stray
            /\ task' = [task EXCEPT ![t].pc = "probe", ![t].n = None,
                                    ![t].seen = @ \cup {task[t].n}]
    /\ UNCHANGED <<fs, history, bounds>>

(* Metadata that does not parse is skipped, a file that vanished since the   *)
(* probe fails the listing.                                                  *)
ReadMeta(t) ==
    /\ task[t].pc = "readmeta"
    /\ IF meta[task[t].n] = "absent" THEN Reply(t)
       ELSE /\ UNCHANGED stray
            /\ task' = [task EXCEPT ![t].pc = "probe", ![t].n = None,
                 ![t].seen = IF meta[task[t].n] = "whole" THEN @ \cup {task[t].n} ELSE @]
    /\ UNCHANGED <<fs, history, bounds>>

ListDone(t) ==
    /\ task[t].pc = "probe" /\ task[t].ids = {}
    /\ Reply(t)
    /\ UNCHANGED <<fs, history, bounds>>

-----------------------------------------------------------------------------
(* Programs.  Wine makes its prefix directory when it starts and finds none, *)
(* and writes into it while it runs.                                         *)

MakesPrefix(n) ==
    /\ dir' = dir \cup {n} /\ files' = files \cup {n}
    /\ botched' = IF n \in dir THEN botched ELSE botched \cup {n}
    /\ UNCHANGED <<meta, log, made, bounds>>

WritesPrefix(n) ==
    /\ n \in dir \ files
    /\ files' = files \cup {n}
    /\ UNCHANGED <<dir, meta, log, task, stray, history, bounds>>

ProgramStarts(t) ==
    /\ task[t].child = "starting"
    /\ task' = [task EXCEPT ![t].child = "running"]
    /\ MakesPrefix(task[t].n) /\ UNCHANGED stray

ProgramWrites(t) == task[t].child = "running" /\ WritesPrefix(task[t].n)

ProgramExits(t) ==
    /\ task[t].child \in Alive
    /\ \E s \in Exited : task' = [task EXCEPT ![t].child = s]
    /\ UNCHANGED <<fs, stray, history, bounds>>

(* The last holder of the pipes closes them, a helper of the program maybe   *)
(* long after it; or a line cannot be read.                                  *)
OutputEnds(t) ==
    /\ task[t].out = "open"
    /\ \E s \in {"ended", "garbled"} : task' = [task EXCEPT ![t].out = s]
    /\ UNCHANGED <<fs, stray, history, bounds>>

StrayStarts ==
    \E p \in stray : /\ p[2] = "starting"
                     /\ stray' = (stray \ {p}) \cup {<<p[1], "running">>}
                     /\ MakesPrefix(p[1]) /\ UNCHANGED task
StrayWrites == \E p \in stray : p[2] = "running" /\ WritesPrefix(p[1])
StrayExits ==
    /\ \E p \in stray : stray' = stray \ {p}
    /\ UNCHANGED <<fs, task, history, bounds>>

-----------------------------------------------------------------------------
(* A call of a handler fails.                                                *)
IoError(t) ==
    /\ mishaps < MaxMishaps
    /\ task[t].pc \in {"mkdir", "boot", "bootlog", "openmeta", "writemeta", "openlog",
                       "spawn", "unlink", "readdir", "readmeta"}
    /\ mishaps' = mishaps + 1
    /\ IF task[t].op \in {"create", "destroy"} THEN Botch(t) ELSE UNCHANGED botched
    /\ Reply(t)
    /\ UNCHANGED <<fs, made, requests>>

(* The daemon dies and is started again; the programs live on.               *)
Crash ==
    /\ mishaps < MaxMishaps
    /\ \E t \in Task : task[t].op # "none"
    /\ task' = [t \in Task |-> Idle]
    /\ stray' = stray \cup {<<task[t].n, task[t].child>> :
                              t \in {u \in Task : task[u].child \in Alive}}
    /\ botched' = botched \cup {n \in Name : Changing(n) # {}}
    /\ mishaps' = mishaps + 1
    /\ UNCHANGED <<fs, made, requests>>

-----------------------------------------------------------------------------
Start(t) == StartCreate(t) \/ StartDestroy(t) \/ StartRun(t) \/ StartApply(t)
            \/ StartList(t)

Serve(t) ==
    \/ Check(t)
    \/ MakeDir(t) \/ SpawnBoot(t) \/ OpenBootLog(t) \/ DrainBoot(t) \/ BootDone(t)
    \/ BootTimeout(t) \/ OpenMeta(t) \/ WriteMeta(t)
    \/ OpenLog(t) \/ SpawnRun(t) \/ AwaitExit(t) \/ JoinOutput(t)
    \/ LoadRecipe(t) \/ LoadFails(t) \/ StepRun(t) \/ StepEnvOrNote(t)
    \/ StepWinecfg(t) \/ CfgDone(t) \/ ApplyDone(t)
    \/ RemoveEntry(t) \/ RemoveDir(t) \/ RemoveGone(t) \/ RemoveFails(t) \/ RemoveLog(t)
    \/ ReadDir(t) \/ Probe(t) \/ ReadMeta(t) \/ ListDone(t)

Programs(t) == ProgramStarts(t) \/ ProgramWrites(t) \/ ProgramExits(t) \/ OutputEnds(t)

(* Clients may stop asking.                                                  *)
Quiescent == /\ \A t \in Task : task[t].op = "none"
             /\ stray = {} /\ UNCHANGED vars

Next == \/ \E t \in Task : Start(t) \/ Serve(t) \/ Programs(t) \/ IoError(t)
        \/ StrayStarts \/ StrayWrites \/ StrayExits \/ Crash \/ Quiescent

Spec == Init /\ [][Next]_vars

(* The runtime polls every task that can go on, and its timer fires.         *)
DaemonFairness == \A t \in Task : WF_vars(Serve(t))
(* Programs end and close their output.                                      *)
ProgramFairness == /\ \A t \in Task : WF_vars(ProgramExits(t)) /\ WF_vars(OutputEnds(t))
                   /\ WF_vars(StrayExits)

FairSpec == Spec /\ DaemonFairness /\ ProgramFairness
HangingSpec == Spec /\ DaemonFairness

-----------------------------------------------------------------------------
(* Properties                                                                *)

PlacesOf(op) ==
    CASE op = "none"    -> {"idle"}
      [] op = "create"  -> {"check", "mkdir", "boot", "bootlog", "drain", "bootwait",
                            "openmeta", "writemeta"}
      [] op = "destroy" -> {"check", "unlink", "rmlog"}
      [] op = "run"     -> {"check", "openlog", "spawn", "wait", "join"}
      [] op = "apply"   -> {"load", "steps", "check", "openlog", "spawn", "wait", "join",
                            "cfgwait"}
      [] op = "list"    -> {"readdir", "probe", "readmeta"}

(* A task is inside its handler; it has a program exactly where it waits for  *)
(* one, pipes only with a program, and only a writer loses its file.          *)
WellPlaced(s) ==
    /\ s.pc \in PlacesOf(s.op)
    /\ s.pc \notin {"idle", "readdir", "probe"} => s.n \in Name
    /\ s.op = "apply" => s.r \in Recipe
    /\ (s.child # "none") = (s.pc \in {"bootlog", "drain", "bootwait", "wait", "join", "cfgwait"})
    /\ (s.out # "none") = (s.pc \in {"bootlog", "drain", "bootwait", "wait", "join"})
    /\ s.pc = "join" => s.child \in Exited
    /\ s.orphan => s.pc = "writemeta"

TypeOK ==
    /\ dir \subseteq Name /\ files \subseteq dir /\ log \subseteq Name
    /\ meta \in [Name -> {"absent", "empty", "whole", "torn"}]
    /\ \A n \in Name \ dir : meta[n] = "absent"
    /\ task \in [Task -> TaskState] /\ \A t \in Task : WellPlaced(task[t])
    /\ stray \subseteq Name \X Alive
    /\ made \subseteq Name /\ botched \subseteq Name
    /\ requests \in Nat /\ mishaps \in Nat

(* A directory that nobody is creating or destroying is a bottle with        *)
(* readable metadata, unless a creation or a removal of it failed or         *)
(* overlapped with another, or a program made it; removing it makes its name *)
(* good again.                                                               *)
DirectoryHasBottle ==
    \A n \in dir : Changing(n) = {} /\ n \notin botched => meta[n] = "whole"

(* A request that runs a program is answered after the program has exited,   *)
(* unless an I/O error or a crash cuts it short.                             *)
RunAnswerMeansExited ==
    [][\A t \in Task :
         /\ task[t].op \in {"run", "apply"} /\ task'[t].op = "none"
         /\ mishaps' = mishaps
         => task[t].child \notin Alive]_vars

(* A recipe that is acknowledged had no program that exited with an error.   *)
RecipeStopsAtFailure == [][\A t \in Task : ApplyDone(t) => ~task[t].bad]_vars

(* A listing that is answered holds, of the names that nobody created or      *)
(* destroyed while it was put together, exactly those with metadata that can *)
(* be read now: the steps of the listing are one look at the directories,    *)
(* although programs run, requests fail and others come and go between them. *)
ListExact ==
    [][\A t \in Task : ListDone(t) =>
          \A n \in Name \ task[t].hit : n \in task[t].seen <=> meta[n] = "whole"]_vars

(* A listing that is answered names every bottle that was acknowledged and   *)
(* that nobody created or destroyed meanwhile.                               *)
ListComplete ==
    [][\A t \in Task : ListDone(t) =>
          made \subseteq task[t].seen \cup task[t].hit \cup botched]_vars

(* Every request is answered when programs end.                              *)
EveryRequestAnswered ==
    \A t \in Task : task[t].op # "none" ~> task[t].op = "none"

(* What messages in the code say and the code does not keep.                 *)

(* "bottle {} already exists": a name is created once.                       *)
CreatedOnce == [][\A t \in Task : WriteMeta(t) => task[t].n \notin made]_vars

(* "wineboot timed out": a creation ends although wineboot hangs.            *)
CreationEnds == \A t \in Task : task[t].op = "create" ~> task[t].op # "create"

(* "exited with code": a recipe goes on only after a program that succeeded. *)
RecipeProgramsSucceed ==
    [][\A t \in Task :
         task[t].pc \in {"join", "cfgwait"} /\ task'[t].pc = "steps"
         => task[t].child = "ok"]_vars
=============================================================================
