# Silicon Alloy in TLA+

A model of silicon-alloy's own logic: how its daemons keep bottles (wine
prefixes with a metadata file) while several clients create, list, run, change
and delete them at once, how they find their socket, their wine and their
recipes while all of these change, and what survives when a step fails, a
program hangs or a daemon dies. The modules are translated from the source; TLC checks them
on small instances and TLAPS proves the main results for every size.

## 1. The system

The repository holds two generations of the product in one tree. Both have a
daemon on a unix socket, a command line client and a SwiftUI app; they share
no code, and of the data only the directory of recipes. `core/Cargo.toml` concatenates the two workspaces.

| Part | Source | State it keeps | Operations |
|---|---|---|---|
| bottle store | `core/shared/src/lib.rs` | `<data>/bottles/<uuid>/bottle.json`, `<uuid>/prefix/` | create, list, record, update_record, remove |
| daemon service | `core/daemon/src/service.rs` | runtimes found at start; nothing else | ten RPC methods; apply_recipe and run_wine_command run programs |
| RPC server | `core/daemon/src/main.rs`, `rpc.rs` | the socket, one task per connection | accept, read a line, answer a line |
| recipe manifests | `core/shared/src/recipes.rs`, `recipes/` | yaml files | load_all, find_recipe, normalize |
| runtime discovery and selection | `lib.rs:178-223`, `service.rs:32-61, 363-419` | runtime directories | discover_runtimes, select_runtime |
| shortcut bundles | `service.rs:114-133, 249-361` | `<destination>/<name>.app/` | create_shortcut_bundle |
| cli | `core/cli/` | none | one RPC call per command |
| alloy bottles | `core/alloy-core/src/bottle.rs` | `<data>/bottles/<name>/silicon-alloy.json`, a log file per bottle | create with wineboot, list, run, destroy |
| alloy recipes | `core/alloy-core/src/recipes.rs` | yml files; variables for one application | list, load, apply |
| alloy runtime | `core/alloy-core/src/runtime.rs` | one runtime directory, BUILDINFO | detect, read_metadata |
| alloy daemon and cli | `core/alloy-daemon/`, `core/alloy-cli/`, `alloy-core/src/rpc.rs` | the socket | seven commands |
| app | `gui/Sources/` | published lists and flags of AppState | refresh, create, delete, run, apply, shortcut |
| alloy app | `gui/SiliconAlloyApp/` | published list and flags of BottleStore | each runs the alloy cli in a process |
| runtime scripts | `runtime/` | cache, source and dist directories | fetch, patch, build |
| launcher scripts | `scripts/` | none | bootstrap; run-exe starts a daemon if none answers |
| packaging | `build/`, `.github/` | none | not modelled |

How they interact: clients send newline-terminated JSON over the socket and wait
for the answer; a connection's requests are served one after the other, and
connections in parallel on tokio's thread pool. There is no lock in the daemon:
connections meet in the file system. A wine program is a child process that the
request waits for. The apps and scripts only talk to the daemon or its cli.

What is hard here: every file operation is an await point, so requests of two
connections interleave between any two of them; writes are handed to a thread
pool and land after the answer has been sent; a record is read, programs run for
minutes, and then the record is written back; directories are checked first and
used later; a removal is a series of unlinks; any step may fail, and a crash
leaves what was done so far.

What makes each part correct:

* store and service: a bottle that was acknowledged stays readable and listed
  until somebody deletes it; a recipe that was acknowledged is in the record,
  whole; a deleted bottle does not return; a listing is neither broken nor cut
  short by what others do; every request is answered.
* alloy bottles: a name is created once; a run is answered with the outcome of
  its program; a creation ends, if need be by its timeout; programs that nobody
  waits for any more disturb no listing; a failed step ends its recipe.
* recipes, runtimes, shortcuts: a scan misses nothing that stays where it is and
  fails only over a bad or changing file; the chosen runtime is the one asked
  for, and complete; the bundle on disk belongs to one bottle.
* processes: whichever starts race for a socket file, a daemon that serves is
  left behind it.
* apps: once nothing is in progress, the list shown is the daemon's but for
  changes the app cannot know of and, in the first generation, bottles whose
  record was still being written when it was read; and the busy flag is clear.

## 2. Modules

| Module | Models |
|---|---|
| `BottleFile` | the metadata file and the record in it, as operators |
| `BottleService` | the bottle half of the daemon: service over store, tasks, crashes |
| `BottleLifecycle` | the abstract promise: an id is made once, removed once |
| `MCBottleService` | instances of BottleService for TLC |
| `BottleService_proofs`, `BottleRecords_proofs` | its theorems |
| `AlloyManager` | the second generation: bottles, recipes and commands of alloy-daemon with the programs they start |
| `MCAlloyManager` | instances of AlloyManager for TLC |
| `AlloyManager_proofs` | its theorems |
| `AppState` | the app's lists, flags and overlapping calls, over a daemon reduced to whether records can be read |
| `AppState_proofs` | its theorems |
| `AlloyApp` | BottleStore's list, flags and overlapping tasks, over alloyctl and an abstract alloy-daemon |
| `AlloyApp_proofs` | its theorems |
| `Apps` | a machine that runs one of the two apps |
| `MCApps` | an instance of Apps for TLC |
| `RecipeCatalog` | what either generation makes of recipe manifests, as operators |
| `RuntimeCatalog` | how wine is found and chosen, and BUILDINFO read, as operators |
| `HostFiles` | the recipe directory both generations read; the bounds |
| `DaemonHost` | the first daemon as a process: socket, runtimes, recipes, shortcuts; the cli |
| `AlloyHost` | alloy-daemon as a process: socket, runtime, recipes; builds; alloyctl |
| `Workstation` | one machine with both, and a user who edits the recipes |
| `MCWorkstation` | an instance of Workstation for TLC |
| `DaemonHost_proofs`, `AlloyHost_proofs` | the lemmas about each daemon |
| `Workstation_proofs` | the theorems about the machine |

BottleService and AlloyManager look at the requests about bottles and treat the
daemon as a thing that is there or crashes; DaemonHost and AlloyHost look at
everything else a daemon does, and a request about bottles is one that occupies
its connection for a while and then succeeds or fails.

### BottleService

`dir`, `prefix` and `meta` are the store's directory tree: which bottles have a
directory, a prefix directory, and what their `bottle.json` holds. `pend` is the
writes that tokio has accepted and not performed. `task` is what each connection
is doing: the handler (`op`), where it is (`pc`) and its locals. `used` and
`known` are the ids generated and the ids told to clients. `created`, `deleted`
and `applied` record acknowledgements; `raced` and `faulted` record why a bottle
may be in a bad state and appear in properties only.

One action is one file system call, or the computation between two of them. The
handlers are sequences of actions:

| Request | Actions |
|---|---|
| bottle.create | StartCreate, MakeBottleDir, MakePrefixDir, OpenMeta, WriteMeta |
| bottle.list | StartList, ListDir, then per entry ListProbe, ListRead or ListReadFails, ListDone |
| bottle.delete | StartDelete, RemoveCheck, RemoveScan, UnlinkMeta / UnlinkPrefix / UnlinkGone / UnlinkPrefixBusy, RemoveDir or RemoveDirFails |
| bottle.run | StartRun, ReadRecord, Spawn, WineExit |
| recipe.apply | StartApply, ReadRecord, per step ApplyRun / ApplyWait / ApplyWineCfg / ApplyEnv / ApplyCopy / CopyFile / ApplyCopyMissing, UpdateRecord, OpenMeta, WriteMeta |

`LandWrite` is the thread pool performing a write; `IoError`, `LostWrite` and
`Crash` are the mishaps. A write that lands on a file that is already longer
leaves the longer tail behind (`Land`), which is what two writers without
truncation in between produce.

Facts from outside the repository, all about code that `src/` calls:
`tokio::fs::File::write_all` returns when the data is in the file's buffer and a
thread of the blocking pool performs the write, also after the file was dropped;
`remove_dir_all` unlinks entries and then the directory, and whether it ignores
entries that vanished depends on the release of the standard library (both are
allowed); a child process starts in its current directory, which must exist.

Abstractions: a bottle is its uuid (name, timestamp and runtime of a record
never change after creation); a record's environment is the function of its
last entries, which is what a child process sees; a record's length is one plus
the number of variables set; a program does nothing but run and exit, or keep
its prefix from being removed; copied files are not represented, only the
directories that a copy creates.

### AlloyManager

`dir`, `files`, `meta` and `log` are the data directory: which names have a
directory, whether wine's files are in it, what `silicon-alloy.json` holds, and
the log files. A task carries the program it waits for (`child`: starting,
running, or how it ended) and that program's output pipes (`out`). `stray` is the
programs nobody waits for any more. `made` and `botched` are history: the names
that were acknowledged, and those that a failure or an overlap of creations and
removals may have left unusable.

| Command | Actions |
|---|---|
| create | StartCreate, Check, MakeDir, SpawnBoot, OpenBootLog, DrainBoot, BootDone or BootTimeout, OpenMeta, WriteMeta |
| destroy | StartDestroy, Check, RemoveEntry, RemoveDir / RemoveGone / RemoveFails, RemoveLog |
| run | StartRun, Check, OpenLog, SpawnRun, AwaitExit, JoinOutput |
| apply | StartApply, LoadRecipe or LoadFails, per step StepRun (then as run) / StepEnvOrNote / StepWinecfg and CfgDone, ApplyDone |
| list | StartList, ReadDir, Probe, ReadMeta, ListDone |

Programs move on their own: ProgramStarts, ProgramWrites, ProgramExits,
OutputEnds, and the Stray actions for those nobody waits for. Facts from outside
the repository: wine makes its prefix directory when it starts and finds none,
and writes into it while it runs; a child process is not killed when its handle
is dropped or the daemon dies; a pipe ends when the last process that holds it
closes it, which may be long after the program has exited, or before.
`tokio::fs::write` truncates and writes in one call of the blocking pool and
returns after it: unlike BottleService there are no late writes here.

Abstractions: names are what `BottleName::sanitize` returns; a recipe is the
kinds of its steps, since variables live as long as the request and only
programs can fail; parsing a recipe succeeds or fails; an id or a time stamp of
a bottle is never compared.

### AppState

`bottles`, `isLoading`, `alert` and `sheet` are the published properties (the two
flags for sheets are one variable, as a sheet blocks the window that could open
another; of an alert only whether it tells of a failure). `request` holds the
operations in progress: the calls each still has to make, the answer it waits for
and, once served, the listing.

The daemon is BottleService reduced to what these answers depend on: `record` says of
each bottle whether its metadata can be read (`kept`), is emptied with a write on its
way (`writing`), or is not there to be read (`husk`, `gone`).

| Code | Actions |
|---|---|
| controls of the views | Launch, Refresh, CreateBottle, DeleteBottle, ApplyRecipe, RunExecutable, CreateShortcut, SwitchSheet |
| `bottle.list` | ListBegins, ServeList |
| `bottle.create`, `bottle.delete` | ServeCreate, ServeDelete |
| `recipe.apply` | ApplyBegins, ServeApply |
| other calls; calls that fail | ServeOther; ServeFails |
| `write_all`, after the answer | WriteLands |
| the main actor, after an await | ResumeList, ResumeCreate, ResumeDelete, ResumeOther, ResumeError |
| another client | OthersChange |

A creation and a recipe answer while their record is `writing`, so the listing that
AppState asks for next may miss the bottle. A listing takes two steps: it shows a
bottle whose record nobody writes or removes in between if it can be read, and any of
the others, which is BottleService's ListExact. A recipe needs a record to begin with
and writes it in the end, also that of a bottle deleted meanwhile, as a copy step makes
its directory again. A change may fail half way, or take effect and lose its answer;
the main actor resumes answers in any order. Service information and recipes are
fetched but their content is left out. `excused` is history: bottles whose record was
being written when the listing on the screen was made, and bottles that changed since
and that no operation has told the app of. `since` collects them for a listing in
progress.

### AlloyApp

`rows` is `bottles` of BottleStore; the flags and messages have its names, a message
being the operation it is about. `work` is each detached task: the command that
its alloyctl runs, for which name, and how far it is: running, printing, exited
or failed. `there` is alloy-daemon's bottles. `since` and `astray` are history, as
in AppState; a listing that a creation or a removal starts carries its name, so
that its failure counts as one to show that change.

| Code | Actions |
|---|---|
| controls of ContentView, `perform` | OnAppear, RefreshBottles, EnsureDaemonReachable, RunIn, DestroyBottle, Submit, ToggleSheet, over Perform |
| `runCommand` and alloy-daemon | AnswerList, AnswerChange, AnswerOther, CommandFails, CommandExits |
| ends in `MainActor.run` | Listed, ChangeMade, OtherDone, Fails |

`ChangeMade` is one turn of the main actor: success() sets its message, calls
refresh, which clears it and starts a task, and then `isBusy` is cleared while
that task is in progress. A pipe holds `PipeSize` bottles; alloyctl with more to
print is `Blocked` for good, as runCommand reads only after the exit. The file
panel of runExecutable is part of RunIn.

### DaemonHost

`sock` is the socket file: the process that bound it. `daemon` is each process:
how far its start is and the runtimes it listed. `call` is what each client waits
for: the connection's daemon, the command line, where the handler is and what it
has read. `trees` is the runtime directory and `bundle` the application bundles.
`recipes`, from HostFiles, is the recipe directory.

| Code | Actions |
|---|---|
| `main` | StartDaemon, CheckSocket, RemoveSocket or RemoveSocketFails, BindSocket or BindSocketFails, ConstructService or ConstructFails |
| cli and `handle_connection` | Call or CallRefused, Accept, CallEnds |
| service.info, runtime.list | TellRuntimes |
| bottle.create | SelectForBottle |
| other bottle requests | BottleRequestEnds |
| recipe.list, recipe.apply | OpenRecipes, per entry SkipEntry / LoadRecipe / LoadRecipeFails, then ListDone, FindRecipe or RecipeNotFound |
| shortcut.create | ReadRecord, ProbeBundle, ClearBundle or ClearBundleFails, MakeBundle, WritePlist, WriteLauncher, SetMode; BundleGone |
| outside | EndDaemon (a kill: run-exe kills its daemon when it exits), IoError, InstallTree, RemoveTree |

A daemon that has lost the socket file to another start goes on serving its open
connections. A connection waits in the listener's backlog from the moment the
socket is bound, before the service exists. `upset` records that the last start
met a failure or a kill; `tangled` the bundles on which requests overlapped or
failed; `owner` the bottle acknowledged last for a bundle; `kept` the trees that
have stayed since a daemon listed them; `must` and `may` the manifests that were
there all the time and at some time of a scan. They appear in properties only.

### AlloyHost

`asock`, `adaemon`, `acall` as above. `staged` is how much of each runtime is
installed and its BUILDINFO; `build` is where the build of each version is.

| Code | Actions |
|---|---|
| `main` | StartAlloy, AlloyCheckSocket, AlloyRemoveSocket, DetectRuntime or DetectFails, AlloyBind or AlloyBindFails |
| alloyctl and `handle_client` | AlloyCall or AlloyCallRefused, AlloyAccept, AlloyCallEnds |
| commands about bottles | AlloyBottleEnds |
| recipes | AlloyOpenRecipes, per entry AlloyScan, AlloyListDone |
| apply, up to its first step | ProbeYml, ProbeYaml, AlloyLoadRecipe or AlloyLoadFails |
| `runtime/scripts/build_wine.sh` | StartBuild, BeginInstall, FinishInstall, OpenBuildInfo, WriteBuildInfo; BuildFails |
| outside | EndAlloy, InstallSystem |

The order differs from the first daemon's: the old socket file goes first, then a
runtime is looked for, then the new socket is bound. `saw` and `again` are
history: the runtime as it was when the daemon settled on it, and that files are
replaced below the BUILDINFO of an earlier build.

### Workstation

The two meet in `recipes`, which AddRecipe and RemoveRecipe change while either
reads it. `Next` interleaves the steps of both generations and the user's.

Abstractions: a manifest is its file name, whether it has a header, the id and
the rank of its name, and the kinds of its steps; a version is its rank in byte
order of names, which is what the code sorts by. A directory is listed in one
go and its entries are then read one by one; the recipe directory exists. A
bundle goes to the default destination, and the content of a file in it is the
bottle it is for. The data directory exists. A removal of a bundle that fails
has removed some of its files. `ConstructFails` is the only failure of a start
after the socket is bound; an address in use is the only failure of a bind.

## 3. Runs

| Run | Instance | Shows |
|---|---|---|
| `store` | 2 connections, 2 bottles, 6 requests, 1 mishap | TypeOK, UnreadableHasCause, TornHasCause, RecordIsAcked, AllOrNothing, DeletedStaysDeleted, ListExact, ListComplete, ListErrorHasCause; BottleService implements BottleLifecycle |
| `answers` | 2 connections, 1 bottle, 5 requests, 1 mishap, recipes that copy | every request is answered; ResurrectionHasCause |
| `unflushed_create` | 1 connection, 2 requests | finding: an acknowledged bottle is missing from the next listing |
| `overlapping_applies` | 2 connections, 3 requests | finding: an acknowledged recipe is lost |
| `resurrected_bottle` | 2 connections, 4 requests, a recipe that copies | finding: a deleted bottle is listed again (DeletedNotListed) |
| `alloy_directories` | 2 connections, 2 names, 4 commands, 1 mishap, no recipes | DirectoryHasBottle, ListExact, ListComplete |
| `alloy_requests` | 2 connections, 1 name, 2 recipes, 3 commands, 1 mishap | TypeOK, RunAnswerMeansExited, RecipeStopsAtFailure, every command is answered |
| `created_twice` | 2 connections, 2 commands | finding: one name is created twice |
| `hanging_wineboot` | 1 connection, 1 command, programs may hang | finding: the timeout of wineboot does not end a creation |
| `killed_program` | 1 connection, 1 recipe, 2 commands | finding: a recipe goes on after a killed program |
| `app_lists` | either app, 2 operations at once, 4 actions, 2 bottles (AlloyApp: 3 names), 1 change by others | TypeOK, ListTellsDaemon, IdleNotLoading; AlloyAppTypeOK, SettledListTrue, IdleNotBusy |
| `workstation` | 2 processes and 2 clients of each generation, 2 bottles, 2 versions, 5 manifests, 11 scenarios | TypeOK, ReachableWhenSettled, AlloyReachable, RuntimeHonoured, RuntimeComplete, RecipesWhole, CatalogueWhole, BundleWhole |

Bounds. Interference in this code is pairwise: two connections give every pair
of overlapping handlers, with two writes in flight and both orders of landing.
Listings need two bottles, one to miss and one to fail over; the other
properties speak of one bottle, whose handlers share no file with another's. Six
requests on one bottle are a creation, two recipes, a deletion and two more:
enough for a write of an earlier request to land in a later one. The two recipes
have an env step, a program, a second env step that sets one of the variables again;
and a wait step and a winecfg step that gives that variable the other value: between
them every kind of step, with a program between two changes of the record, and an order
of the recipes that the record shows. One mishap per run is one crash or one
error at any point; recovery keeps no state, so a second is like the first.
`MaxRequests` and `MaxMishaps` appear in guards only. Tasks are symmetric in the
runs that check safety, BottleLifecycle's steps among them, whose state does not
depend on tasks; the runs with liveness use no symmetry.

For AlloyManager, three commands on one name let a creation, a recipe and a
removal meet, and four on two names let a listing cross changes of one name
while the other holds still; programs left behind by an earlier command act on
the directories of a later one. In AppState two operations give every pair of
calls that overlap; four actions after the two refreshes of the start are a
creation and a deletion with the sheets they need, or two deletions and a refresh.
Two bottles are enough, as no step relates two of them: one that another operation
or client changes while a listing shows or misses the other. AlloyApp has
the same bounds, and a pipe that holds two of its three bottles.
`Apps` runs one of the apps, as they share nothing; the run uses no liveness, and
its deadlock check excuses idle apps and blocked listings only.

For Workstation, `Budgets` names how often each kind of event may happen, and
`MCBudgets` is the set of scenarios: three starts of a daemon with an end, an
error and a call; a restart while three trees come and go; two scans of the
recipes and one change of them, or one scan and two changes; three shortcuts for
two names of one bundle and another, with a kill, or two with an error; the same
for alloy-daemon; three builds of two versions with a failure and the system's
package; both daemons reading the recipes while they change. What is left out is
the product of these: a step of one kind reads no state of the other kinds,
apart from the process, whose end is part of the scenarios where a handler can
be hit by it. The versions are 10.0 and 9.0 in byte order, the wrong order by
number. The manifests are the shipped ones (`steam.yml`,
`notepad-plus-plus/recipe.yaml`, `schema.yaml`), a second file for the id steam,
and a third whose file name is not its id. Processes, clients and bottles are
symmetric; the versions and manifests are not. There is no liveness in this run:
TLC's deadlock check, with `Quiescent` as the only stutter, shows that no start
and no call is ever stuck.

Exclusions. `upset` excuses daemons out of reach after a start that failed or a
daemon that was killed, until the next start; `tangled` excuses bundles on which
requests overlapped or failed, until a request is alone on the path again;
`again` excuses a runtime that is built over an earlier one of its version. The
recipe properties name what was there all the time and at some time of a scan
instead. `raced` excludes bottles on which two recipes, or a deletion and
another request, overlapped, and `faulted` those that an error or a crash hit:
the code makes no promise there and the violated runs show what happens. What
remains is every overlap of creations, runs, listings and one recipe, with
late writes.

Fairness (`answers`). Weak fairness of each task's handler and of LandWrite:
tokio polls every task that can run and the blocking pool performs every
operation. For a task inside run_wine_command it also says that the program
ends: the daemon has no timeout there, so a program that never exits holds its
request for ever. In `alloy_requests` the same two assumptions are separate:
`DaemonFairness` (tasks are polled, the timer of wineboot fires) and
`ProgramFairness` (programs end, pipes close). `hanging_wineboot` uses
DaemonFairness only, which is when a timeout should matter. `Quiescent` is a
stutter step that is enabled when no request is in progress: it keeps TLC's
deadlock check for handlers that are stuck.

## 4. Proofs

`BottleService_proofs` proves, for any number of connections, bottles, recipes,
steps, requests and mishaps:

* `TypeCorrect`: Spec => []TypeOK. TypeOK is inductive: it includes `WellPlaced`,
  which ties a task's location to its handler and to the locals in use there.
* `NoResurrection`: Spec => []DeletedStaysDeleted, assuming that no recipe
  copies files (`NoCopy`). DeletedStaysDeleted alone is not inductive: a task in
  the middle of a creation could make a directory again. The strengthening
  `RemovalInv` says that directories, prefixes and metadata exist for generated ids
  only, that a bottle past the first step of its creation is known to nobody
  until the creation ends, that no two tasks create the same id, and that what
  was removed has no directory, metadata or creator left.
* `LifecycleRefined`: Spec => ImplementsLifecycle, from the same invariant: a
  step leaves `Status` alone except MakeBottleDir (Make) and RemoveDir (Remove).
  `EvolveOne` reduces the case analysis to the one bottle a step touches.
* `WholeRecipes`: Spec => []AllOrNothing. The strengthening `CompleteInv` follows
  the record through the handler: before step n of a recipe r each variable that r's
  first n - 1 steps set has the value they leave it with (`LeavesUpTo`), and any other
  the value of a recipe already in the record (`Held`); together this is `Partial`.
  `NextSet` is one step of this, `AllDone` the end, when r is added and the record is
  `Complete`; what is in flight or on disk is complete. With `RecordsAcked` below it
  says of a readable record which recipes it holds and which values it has for them.

`BottleRecords_proofs` proves the other properties of the run `store` and the invariant
of `answers`, without `NoCopy`: `ReadableKept` (Spec => []UnreadableHasCause),
`NothingTorn` (TornHasCause), `RecordsAcked` (RecordIsAcked), `ResurrectionsCaused`
(ResurrectionHasCause). None of them is inductive: while requests and writes are under
way the file passes through states from which any of them could break. `GoodInv` says
`GoodBottle(b)` of every bottle on which no requests conflicted, through every error,
lost write and crash:

* `Sole`: two requests on it do not conflict, and a creation is alone. So at most one
  request owns it (may change it); beside an owner only runs of programs go on.
* `Knows`: what the owner may rely on at its location. A creation: nobody has heard of
  the bottle, and the file is absent, or empty for it alone. An apply: from `steps` to
  `open` the file holds a record, and the record in memory has exactly the acknowledged
  recipes, and the one being applied once it is added. A delete: `kids` is exactly what
  is left in the directory.
* while nobody but readers are at it, the bottle is `Kept`: it `Holds` its record with
  exactly the acknowledged recipes (`Applied`) and no write is in flight, or it is
  `Flying` (an empty file and one write in the pool, which has them), or `Gone`, or
  `Marred`: an error or a crash has left it without a record or with an empty file, and
  `faulted` says so. A recipe that finds the bottle Flying cannot read it and answers an
  error: this is why a late write never overtakes a newer record.
* a bottle whose deletion was acknowledged is `Gone`, copy steps or not: the recipe that
  could bring it back would conflict.
* an id not yet used is nobody's.

`Frame` keeps this for a bottle that a step does not concern, `OwnStep` for the bottle
of the task that moves; `InFlight` shows that a landing write meets an empty file, so
that it is never torn. The failures are cases of the same argument: `ErrorKeeps` (a
request ends where it is), `LostKeeps` (the write in the pool comes to nothing) and
`CrashKeeps` (all requests end and the pool is emptied) lead to Holds, Gone or Marred.
`CleanStart` says that a creation without an id yet has an empty record in memory.

Then `ListingsExact` (Spec => ListExact) and `ListErrorsCaused` (Spec =>
ListErrorHasCause), which need nothing of GoodInv, from `ListInv`: a listing in progress
has noted every bottle that is being changed (`Busy`), and of the others its `seen` and
what it has still to visit are, at every moment, the bottles that can be read at that
moment; the file it is about to read is there unless its bottle was noted. Each step of
anybody else leaves the files of bottles outside Busy alone (`Unmoved`). This is the
usual argument for a snapshot that is not taken at one instant. `AppState` takes a
listing to be what ListExact says, and no more: it begins and ends in two steps, and a
bottle that is changed or has a write on its way in between may be in it or not.
`AlloyApp` serves a listing in one step: alloy-daemon has no late writes, so that what
it acknowledged is on disk; that one instant stands also for the bottles that change
while the listing goes on is an abstraction. `ListingsComplete` (Spec =>
ListComplete) follows, as an acknowledged bottle that nothing has disturbed is readable.

`AlloyManager_proofs` proves, for any number of connections, names, recipes and
steps:

* `TypeCorrect`: Spec => []TypeOK. TypeOK is not inductive: that metadata exists
  only inside directories could break when a task writes the file it has open
  after another has removed the directory. `WriterHasFile` says that such a file
  is still there or the writer knows it is orphaned.
* `DirectoriesAreBottles`: Spec => []DirectoryHasBottle. The strengthening
  `SettledIsWhole` also covers tasks that have only checked or only have the log
  left, which do not count as changing the directory (`ActiveState`), and
  `LoneWriter` says that a name with two writers is botched, so that the writer
  of a good name finds the file as it emptied it.
* `AnswersAfterExit`: Spec => RunAnswerMeansExited, from TypeCorrect: a task with
  a live program is at one of two waits, and neither its handler nor another's
  step ends its request there.
* `RecipesStop`: Spec => RecipeStopsAtFailure, from `NoneBad`.
* `ListingsExact`: Spec => ListExact. `ListInv` says that a listing has noted every name
  in change and that, of the others, it has seen only names with readable metadata, and
  has seen, is at, or has still to visit all of them. Programs make directories and
  files under a listing, but metadata is written and removed by those it has noted
  (`Unmoved`).
* `ListingsComplete`: Spec => ListComplete, from that: SettledIsWhole says that the
  metadata of an acknowledged name that nobody changes can be read unless it is botched,
  and an acknowledged bottle has its directory (`MadeHasDir`) because its writer's file
  is still there.

`AlloyInv` joins these; one lemma per action, or per group of actions of one
shape (`Goes`, `Answer`, `PrefixMade`), shows that steps keep it.

`AppState_proofs` proves every property of the run `app_lists`, for any number of
operations at once, bottles, user actions and changes by others: `TypeCorrect`,
`ListTrue`, `ProgressEnds`. ListTellsDaemon is not inductive: a listing that is
resumed replaces the list, so what is on its way to the main actor must be true
as well. `AppInv` adds `Slots`, that each operation satisfies `RequestInv`: what it
has left is one of the ends of its calls (`Left`, written out, since TypeOK's
SubSeq is awkward for the provers); a listing in progress has noted in `since` every
bottle that is being written, and a served one differs from the records by its
`since` only; a bottle whose deletion was served is gone, unless its record was
written again since. It also adds that a bottle being written is excused, for nobody
notes the moment in which a late write lands: `LandInv` is that case for the listings on
their way. There is one lemma per step, over a lemma for what all begins (`BeginKept`),
all calls that change nothing (`AnswerKept`), the app's own changes (`OwnChangeKept`)
and those of others, and all ends (`ProceedKept`) do. That a fresh id was never used
before is the daemon's promise (a uuid), in `ServeCreate`'s guard.

`AlloyApp_proofs` does the same for the other app: `AlloyTypeCorrect`,
`AlloyListTrue`, `AlloyBusyEnds`. SettledListTrue speaks of idle states only;
`ListInv` says for every state that a bottle that is shown wrongly and not astray is
owed (`Owes`) by an operation: a change that was made, or the listing that follows
it. `TaskInv` says that an answered listing is true but for its `since`. The theorems
are about AlloyAppSpec, and AppState's about its Spec; `Apps` adds the choice between
the two for TLC. Its assumption `AlloyAppAssumption` says that NoName is no name.

`Workstation_proofs` proves every property of the run `workstation`, for any
number of processes, clients, bottles, names, trees and manifests:
`TypeCorrect`, `Reachable`, `ReachableAlloy`, `RequestsHonoured`,
`ListingsWhole`, `ShortcutsWhole`, `RuntimesComplete`, `CatalogueCorrect`. The
inductive invariant is `Inv`: types, `DaemonInv` and `AlloyInv`. A step of one
daemon leaves the other's variables alone, so each part is kept by its own
daemon's steps, by a change of the recipes, and by a step that leaves its
variables as they were. The parts:

* `ReachInv`: while the last start is not upset, some process is on its way to a
  socket of its own, or the owner of the socket file comes up or serves
  (`ComesUp`). ReachableWhenSettled says nothing of starts in progress.
* `ListInv` and `HonouredInv`: a daemon lists every tree in `kept`, and nothing
  but trees and the environment's; what SelectRuntime returns of such a list is
  what RuntimeHonoured asks for. They need that the list has a first element.
* `RecipesInv`: at each point of a scan, what is left and what was read cover the
  manifests that were there all the time; what was read loads and was there.
* `BundleInv`: on a path with one request, the bundle holds what the request's
  location says (cleared, made, one file, two files).
* `Built`, `SawInv`: a BUILDINFO exists only over a complete installation or over
  one that is being replaced, and its content is one that the build writes; so
  has a daemon seen it.
* `AlloyReachInv`, `CatalogueInv`: the counterparts for alloy-daemon, whose lookup
  also remembers that it saw no `.yml`.

Their assumptions: `HostAssumption`, `DaemonAssumption` and `AlloyHostAssumption`
say what the constants are and that the special values differ;
`RuntimeAssumption` and `RecipeAssumption` say that versions have a first and a
last among any of them, and manifests one with the first name. These two follow
from finiteness, by an induction that is out of the prover's reach; TLC
evaluates them.

Other assumptions: `AlloyAssumption` (None is no name and no recipe, a recipe is a
sequence of steps), `FileAssumption` and `ServiceAssumption` (Unset is not a value, Key
is finite, None is no id, a recipe is a sequence of steps of which only env and
winecfg carry variables). `NoCopy` is an assumption of two theorems and not of
the module: with copy steps DeletedStaysDeleted is false, as `resurrected_bottle`
shows.

Every safety invariant and action property that a passing run checks is so proved.
Model-checked only: liveness, which is beyond this prover.

## 5. What the code does that its documents do not say

* An acknowledged bottle may be missing from the listing that follows
  (`unflushed_create`). The app makes exactly these two calls after a creation
  and after a recipe (`AppState.swift:38-46, 80-85`): it may end with a list
  that lacks the bottle it has just created or changed, until the next refresh.
* Of two recipes applied to a bottle at once, both acknowledged, one may be lost
  (`overlapping_applies`).
* A recipe with a copy step, in progress while its bottle is deleted, makes the
  bottle's directory again, and then its record: the deleted bottle is listed
  again (`resurrected_bottle`).
* Two creations of one alloy bottle at once are both acknowledged
  (`created_twice`).
* A wineboot that hangs is never timed out (`hanging_wineboot`).
* A program that was killed counts as one that succeeded (`killed_program`).

Read off the code while modelling, and in the model as it is, but without a run
of their own:

* `recipes/README.md:36-46` points SILICON_ALLOY_RECIPES at `recipes/`, where
  `schema.yaml` lies: the first generation loads every `.yaml` there, fails over
  the schema, and then neither lists nor applies any recipe. RecipesWhole allows
  a failure over a bad manifest, which is all the code promises.
* The first generation never looks at `steam.yml`, and the second never at a
  recipe in a directory.
* The second generation lists recipes by the id in the manifest and loads them
  by the name of the file.
* `docs/core.md:15` has the daemon scan `runtime/dist`; the code scans `runtime`
  in the data directory.
* The second app says "created bottle" and "removed bottle" in a turn of the main
  actor that also erases it: the message is never seen.
* Where no runtime of a channel is known, the recorded path is that of an x86_64
  tree, also for native-arm64.

As it stands the tree does not compile in a few places (`main.rs:90` wraps an
Option twice, the two generations' workspaces are concatenated, and
`Models.swift:74` has an array of tuples in a Codable struct); nor would the app
decode the daemon's answers: `DaemonBridge.swift:13` converts keys from snake case
and the coding keys of `Models.swift:76-110` then look for the names in snake case.
The models follow the evident intention there: it compiles, and an answer decodes.

## 6. Plan

What is left:

* `RuntimeCache`: the download, unpack and patch scripts with interruptions and
  repeated runs.

Not modelled: the download scripts (above); the layout of views, packaging and CI,
which keep no state; what wine does beyond starting, writing its prefix and ending;
the text of plists, launchers, logs and messages; the content of copied files.
