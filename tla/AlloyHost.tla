------------------------------ MODULE AlloyHost ------------------------------
(* alloy-daemon as a process and what it serves besides bottles: the wine    *)
(* runtime it settles on, while builds may be in progress, its socket, and   *)
(* the recipes it lists and loads; with alloyctl, which calls it.  The       *)
(* requests about bottles are AlloyManager's and only occupy a connection.   *)
EXTENDS HostFiles, RuntimeCatalog, Sequences

CONSTANTS
    AlloyDaemon,    \* processes that may run alloy-daemon
    AlloyClient,    \* processes that may run alloyctl
    System,         \* the runtime in /Library/SiliconAlloy/runtime
    AlloyCommands   \* the command lines that alloyctl is given

AlloyCommand == [sub: {"create", "list", "run", "destroy", "recipes", "ping"}]
                \cup [sub: {"apply"}, recipe: STRING]

ASSUME AlloyHostAssumption ==
    /\ None \notin AlloyDaemon
    /\ {None, Absent, System} \cap Version = {}
    /\ System \notin {None, Absent}
    /\ Absent # Blank
    /\ AlloyCommands \subseteq AlloyCommand

(* A runtime: a version built below runtime/build/dist, or the system's.     *)
Root == Version \cup {System}

VARIABLES
    asock,          \* the daemon that bound the socket file that is there, or None
    adaemon,        \* per process: location, and the runtime it was given or found
    acall,          \* per client: its call and what the handler knows
    staged,         \* per runtime: how much of it is installed, its BUILDINFO
    build,          \* per version: where its build is
    aupset          \* for properties: the last start met with a failure

alloyVars == <<asock, adaemon, acall, staged, build, aupset>>

(* What build_wine.sh writes to BUILDINFO: the path and version of the SDK    *)
(* are blank where xcrun finds none.                                         *)
Present == <<"sdk", Experimental>>

BuildInfo(v, sdk) ==
    << [key |-> "version",     value |-> <<"version", v>>],
       [key |-> "arch",        value |-> <<"x86_64", Experimental>>],
       [key |-> "built_at",    value |-> <<"date", Experimental>>],
       [key |-> "sdk_path",    value |-> sdk],
       [key |-> "sdk_version", value |-> sdk],
       [key |-> "min_macos",   value |-> <<"11.0", Experimental>>] >>

(* The system's runtime stands for a version that no build has.              *)
VersionOf(r) == IF r = System THEN Experimental ELSE r
BuildInfos(r) == {BuildInfo(VersionOf(r), sdk) : sdk \in {Present, Blank}}

NoRuntime == [files |-> "none", info |-> None, again |-> FALSE]
AlloyStopped == [pc |-> "off", root |-> Absent, meta |-> Absent, saw |-> NoRuntime]
AlloyNoCall == [pc |-> "idle"]

AlloyLocation == {"off", "check", "remove", "detect", "bind", "serving"}

(* Where handle_request begins with a command, and what it goes through.     *)
AlloyHandler(cmd) ==
    CASE cmd.sub = "ping"    -> "ok"
      [] cmd.sub = "recipes" -> "open"
      [] cmd.sub = "apply"   -> "probe"
      [] OTHER               -> "bottle"

AlloySteps(handler) ==
    CASE handler = "open"  -> {"open", "scan"}
      [] handler = "probe" -> {"probe", "probe yaml", "read"}
      [] OTHER             -> {handler}

AlloyCallOf(cmd) ==
    [pc: {"queued", "ok", "failed", "closed"} \cup AlloySteps(AlloyHandler(cmd)),
     to: AlloyDaemon, cmd: {cmd}, left: SUBSET RecipeFile, got: SUBSET RecipeFile,
     must: SUBSET RecipeFile, may: SUBSET RecipeFile]

Staged == [files: {"none", "some", "all"},
           info: {None, <<>>} \cup UNION {BuildInfos(r) : r \in Root}, again: BOOLEAN]

(* The values of the metadata of some runtime.                               *)
Value == {Absent, Unknown, Present, <<"x86_64", Experimental>>,
          <<"date", Experimental>>, <<"11.0", Experimental>>}
         \cup {<<"version", VersionOf(r)>> : r \in Root}

AlloyTypeOK ==
    /\ asock \in AlloyDaemon \cup {None}
    /\ adaemon \in [AlloyDaemon ->
          [pc: AlloyLocation, root: Root \cup {Absent},
           meta: {Absent} \cup [MetadataKey -> Value], saw: Staged]]
    /\ DOMAIN acall = AlloyClient
    /\ \A c \in AlloyClient :
          \/ acall[c] = AlloyNoCall
          \/ acall[c].cmd \in AlloyCommands /\ acall[c] \in AlloyCallOf(acall[c].cmd)
    /\ staged \in [Root -> Staged]
    /\ \A r \in Root :
          /\ staged[r].info # None => staged[r].files # "none"
          /\ staged[r].info \in {None, <<>>} \cup BuildInfos(r)
    /\ build \in [Version -> {"idle", "compile", "install", "stage", "write"}]
    /\ aupset \in BOOLEAN

AlloyInit ==
    /\ asock = None
    /\ adaemon = [d \in AlloyDaemon |-> AlloyStopped]
    /\ acall = [c \in AlloyClient |-> AlloyNoCall]
    /\ staged = [r \in Root |-> NoRuntime]
    /\ build = [v \in Version |-> "idle"]
    /\ aupset = TRUE

-----------------------------------------------------------------------------
(* Start-up: the old socket file is removed before a runtime is looked for,  *)
(* and the socket is bound only after one was found.                         *)
AlloyAt(d, pc) == adaemon[d].pc = pc
AlloyGoes(d, pc) == adaemon' = [adaemon EXCEPT ![d].pc = pc]

(* SILICON_ALLOY_RUNTIME_DIR may name the runtime.                           *)
StartAlloy(d, env) ==
    /\ AlloyAt(d, "off")
    /\ Spend("astart")
    /\ adaemon' = [adaemon EXCEPT ![d].pc = "check", ![d].root = env]
    /\ aupset' = FALSE
    /\ UNCHANGED <<asock, acall, staged, build, recipes>>

(* Mutant: the old socket file is left to bind.                              *)
AlloyCheckSocket_Leaves(d) ==
    /\ AlloyAt(d, "check")
    /\ AlloyGoes(d, "detect")
    /\ UNCHANGED <<asock, acall, staged, build, aupset, recipes, budget>>

AlloyCheckSocket(d) ==
    /\ AlloyAt(d, "check")
    /\ AlloyGoes(d, IF asock = None THEN "detect" ELSE "remove")
    /\ UNCHANGED <<asock, acall, staged, build, aupset, recipes, budget>>

(* That the file is gone already does not matter here.                       *)
AlloyRemoveSocket(d) ==
    /\ AlloyAt(d, "remove")
    /\ asock' = None
    /\ AlloyGoes(d, "detect")
    /\ UNCHANGED <<acall, staged, build, aupset, recipes, budget>>

(* The environment, else the system's runtime, else the last build by name.  *)
Candidate(env) ==
    LET built == {v \in Version : staged[v].files # "none"} IN
    CASE env # Absent -> env
      [] env = Absent /\ staged[System].files # "none" -> System
      [] env = Absent /\ staged[System].files = "none" /\ built # {} ->
            CHOOSE v \in built : \A w \in built : w <= v
      [] OTHER -> None

Usable(root) ==
    root # None /\ staged[root].files # "none" /\ staged[root].info # None

DetectRuntime(d) ==
    LET root == Candidate(adaemon[d].root) IN
    /\ AlloyAt(d, "detect")
    /\ Usable(root)
    /\ adaemon' = [adaemon EXCEPT ![d] =
          [pc |-> "bind", root |-> root, meta |-> ReadMetadata(staged[root].info),
           saw |-> staged[root]]]
    /\ UNCHANGED <<asock, acall, staged, build, aupset, recipes, budget>>

(* No runtime, or the one that was settled on has no metadata: main returns. *)
DetectFails(d) ==
    /\ AlloyAt(d, "detect")
    /\ ~Usable(Candidate(adaemon[d].root))
    /\ adaemon' = [adaemon EXCEPT ![d] = AlloyStopped]
    /\ aupset' = TRUE
    /\ UNCHANGED <<asock, acall, staged, build, recipes, budget>>

AlloyBind(d) ==
    /\ AlloyAt(d, "bind")
    /\ asock = None
    /\ asock' = d
    /\ AlloyGoes(d, "serving")
    /\ UNCHANGED <<acall, staged, build, aupset, recipes, budget>>

AlloyBindFails(d) ==
    /\ AlloyAt(d, "bind")
    /\ asock # None
    /\ adaemon' = [adaemon EXCEPT ![d] = AlloyStopped]
    /\ UNCHANGED <<asock, acall, staged, build, aupset, recipes, budget>>

-----------------------------------------------------------------------------
(* Calls.                                                                    *)
AlloyCallAt(c, pc) == acall[c].pc = pc
AlloyMove(c, pc) == acall' = [acall EXCEPT ![c].pc = pc]
AlloyWaiting(c) == acall[c].pc \notin {"idle", "ok", "failed", "closed"}

AlloyAnswers == asock # None /\ AlloyAt(asock, "serving")

AlloyCall(c, cmd) ==
    /\ AlloyCallAt(c, "idle")
    /\ AlloyAnswers
    /\ Spend("acall")
    /\ acall' = [acall EXCEPT ![c] =
          [pc |-> "queued", to |-> asock, cmd |-> cmd,
           left |-> {}, got |-> {}, must |-> {}, may |-> {}]]
    /\ UNCHANGED <<asock, adaemon, staged, build, aupset, recipes>>

AlloyCallRefused(c) ==
    /\ AlloyCallAt(c, "idle")
    /\ ~AlloyAnswers
    /\ Spend("acall")
    /\ UNCHANGED <<alloyVars, recipes>>

AlloyCallEnds(c) ==
    /\ acall[c].pc \in {"ok", "failed", "closed"}
    /\ acall' = [acall EXCEPT ![c] = AlloyNoCall]
    /\ UNCHANGED <<asock, adaemon, staged, build, aupset, recipes, budget>>

AlloyAccept(c) ==
    /\ AlloyCallAt(c, "queued")
    /\ AlloyAt(acall[c].to, "serving")
    /\ AlloyMove(c, AlloyHandler(acall[c].cmd))
    /\ UNCHANGED <<asock, adaemon, staged, build, aupset, recipes, budget>>

(* A request that AlloyManager models ends, one way or the other.            *)
AlloyBottleEnds(c) ==
    /\ AlloyCallAt(c, "bottle")
    /\ \E end \in {"ok", "failed"} : AlloyMove(c, end)
    /\ UNCHANGED <<asock, adaemon, staged, build, aupset, recipes, budget>>

(* The catalogue's list; must and may as in DaemonHost.                      *)
AlloyOpenRecipes(c) ==
    /\ AlloyCallAt(c, "open")
    /\ acall' = [acall EXCEPT ![c].pc = "scan", ![c].left = recipes,
                              ![c].must = recipes, ![c].may = recipes]
    /\ UNCHANGED <<asock, adaemon, staged, build, aupset, recipes, budget>>

(* Mutant: a file that does not parse fails the listing.                     *)
AlloyScan_Strict(c, f) ==
    /\ AlloyCallAt(c, "scan")
    /\ f \in acall[c].left
    /\ acall' = [acall EXCEPT ![c].left = @ \ {f}, ![c].got = @ \cup ({f} \cap recipes),
          ![c].pc = IF AlloyScanned(f) /\ ~AlloyLoads(f) THEN "failed" ELSE @]
    /\ UNCHANGED <<asock, adaemon, staged, build, aupset, recipes, budget>>

(* Directories, other files, files that are gone and files that do not parse *)
(* are passed over.                                                          *)
AlloyScan(c, f) ==
    /\ AlloyCallAt(c, "scan")
    /\ f \in acall[c].left
    /\ acall' = [acall EXCEPT ![c].left = @ \ {f},
          ![c].got = @ \cup {g \in {f} \cap recipes : AlloyScanned(g) /\ AlloyLoads(g)}]
    /\ UNCHANGED <<asock, adaemon, staged, build, aupset, recipes, budget>>

AlloyListDone(c) ==
    /\ AlloyCallAt(c, "scan")
    /\ acall[c].left = {}
    /\ AlloyMove(c, "ok")
    /\ UNCHANGED <<asock, adaemon, staged, build, aupset, recipes, budget>>

(* load looks for <id>.yml, then for <id>.yaml, and reads what it found.     *)
ProbeYml(c) ==
    LET at == Named(recipes, acall[c].cmd.recipe, "yml") IN
    /\ AlloyCallAt(c, "probe")
    /\ acall' = [acall EXCEPT ![c].pc = IF at = {} THEN "probe yaml" ELSE "read",
          ![c].left = at, ![c].must = recipes, ![c].may = recipes]
    /\ UNCHANGED <<asock, adaemon, staged, build, aupset, recipes, budget>>

ProbeYaml(c) ==
    LET at == Named(recipes, acall[c].cmd.recipe, "yaml") IN
    /\ AlloyCallAt(c, "probe yaml")
    /\ acall' = [acall EXCEPT ![c].pc = IF at = {} THEN "failed" ELSE "read", ![c].left = at]
    /\ UNCHANGED <<asock, adaemon, staged, build, aupset, recipes, budget>>

AlloyLoadRecipe(c) ==
    /\ AlloyCallAt(c, "read")
    /\ \E f \in acall[c].left \cap recipes :
          /\ AlloyLoads(f)
          /\ acall' = [acall EXCEPT ![c].pc = "ok", ![c].got = {f}]
    /\ UNCHANGED <<asock, adaemon, staged, build, aupset, recipes, budget>>

AlloyLoadFails(c) ==
    /\ AlloyCallAt(c, "read")
    /\ \A f \in acall[c].left \cap recipes : ~AlloyLoads(f)
    /\ AlloyMove(c, "failed")
    /\ UNCHANGED <<asock, adaemon, staged, build, aupset, recipes, budget>>

AlloyWatchRecipes ==
    acall' = [c \in AlloyClient |->
        IF acall[c].pc \in {"scan", "probe yaml", "read"}
          THEN [acall[c] EXCEPT !.must = @ \cap recipes', !.may = @ \cup recipes']
          ELSE acall[c]]

-----------------------------------------------------------------------------
(* An error of main or a kill: the process closes its connections and leaves *)
(* its socket file.                                                          *)
EndAlloy(d) ==
    /\ ~AlloyAt(d, "off")
    /\ Spend("aend")
    /\ adaemon' = [adaemon EXCEPT ![d] = AlloyStopped]
    /\ aupset' = (aupset \/ asock = d \/ ~AlloyAt(d, "serving"))
    /\ acall' = [c \in AlloyClient |->
          IF AlloyWaiting(c) /\ acall[c].to = d
            THEN [acall[c] EXCEPT !.pc = "closed"] ELSE acall[c]]
    /\ UNCHANGED <<asock, staged, build, recipes>>

-----------------------------------------------------------------------------
(* runtime/scripts/build_wine.sh: compile, install into the version's own    *)
(* directory, then write BUILDINFO, whose shell redirection empties the file *)
(* first.  again says that files are replaced below a BUILDINFO that an      *)
(* earlier build has left.                                                   *)
BuildGoes(v, pc) == build' = [build EXCEPT ![v] = pc]
Stage(r, runtime) == staged' = [staged EXCEPT ![r] = runtime]

StartBuild(v) ==
    /\ build[v] = "idle"
    /\ Spend("build")
    /\ BuildGoes(v, "compile")
    /\ UNCHANGED <<asock, adaemon, acall, staged, aupset, recipes>>

(* Mutant: the metadata is staged before the files.                          *)
BeginInstall_Labelled(v) ==
    /\ build[v] = "compile"
    /\ BuildGoes(v, "install")
    /\ Stage(v, [files |-> "some", info |-> BuildInfo(v, Present),
                 again |-> staged[v].info # None])
    /\ UNCHANGED <<asock, adaemon, acall, aupset, recipes, budget>>

BeginInstall(v) ==
    /\ build[v] = "compile"
    /\ BuildGoes(v, "install")
    /\ Stage(v, [staged[v] EXCEPT !.files = "some", !.again = staged[v].info # None])
    /\ UNCHANGED <<asock, adaemon, acall, aupset, recipes, budget>>

FinishInstall(v) ==
    /\ build[v] = "install"
    /\ BuildGoes(v, "stage")
    /\ Stage(v, [staged[v] EXCEPT !.files = "all", !.again = FALSE])
    /\ UNCHANGED <<asock, adaemon, acall, aupset, recipes, budget>>

OpenBuildInfo(v) ==
    /\ build[v] = "stage"
    /\ BuildGoes(v, "write")
    /\ Stage(v, [staged[v] EXCEPT !.info = <<>>])
    /\ UNCHANGED <<asock, adaemon, acall, aupset, recipes, budget>>

WriteBuildInfo(v) ==
    /\ build[v] = "write"
    /\ BuildGoes(v, "idle")
    /\ \E sdk \in {Present, Blank} : Stage(v, [staged[v] EXCEPT !.info = BuildInfo(v, sdk)])
    /\ UNCHANGED <<asock, adaemon, acall, aupset, recipes, budget>>

(* The script stops at the first command that fails.                         *)
BuildFails(v) ==
    /\ build[v] # "idle"
    /\ Spend("error")
    /\ BuildGoes(v, "idle")
    /\ UNCHANGED <<asock, adaemon, acall, staged, aupset, recipes>>

(* A package brings the system's runtime.                                    *)
InstallSystem ==
    /\ staged[System].files = "none"
    /\ Spend("package")
    /\ Stage(System, [files |-> "all", info |-> BuildInfo(Experimental, Present),
                      again |-> FALSE])
    /\ UNCHANGED <<asock, adaemon, acall, build, aupset, recipes>>

-----------------------------------------------------------------------------
AlloyStartStep(d) ==
    \/ AlloyCheckSocket(d) \/ AlloyRemoveSocket(d) \/ DetectRuntime(d)
    \/ DetectFails(d) \/ AlloyBind(d) \/ AlloyBindFails(d)

AlloyCallStep(c) ==
    \/ AlloyAccept(c) \/ AlloyBottleEnds(c) \/ AlloyOpenRecipes(c)
    \/ \E f \in RecipeFile : AlloyScan(c, f)
    \/ AlloyListDone(c) \/ ProbeYml(c) \/ ProbeYaml(c)
    \/ AlloyLoadRecipe(c) \/ AlloyLoadFails(c) \/ AlloyCallEnds(c)

BuildStep(v) ==
    \/ StartBuild(v) \/ BeginInstall(v) \/ FinishInstall(v)
    \/ OpenBuildInfo(v) \/ WriteBuildInfo(v) \/ BuildFails(v)

AlloyNext ==
    \/ \E d \in AlloyDaemon :
          \/ \E env \in Version \cup {Absent} : StartAlloy(d, env)
          \/ AlloyStartStep(d) \/ EndAlloy(d)
    \/ \E c \in AlloyClient :
          \/ \E cmd \in AlloyCommands : AlloyCall(c, cmd)
          \/ AlloyCallRefused(c) \/ AlloyCallStep(c)
    \/ \E v \in Version : BuildStep(v)
    \/ InstallSystem

-----------------------------------------------------------------------------
(* As ReachableWhenSettled, with the other order of alloy-daemon/main.rs:    *)
(* 22-33: a start that finds no runtime has removed the old socket file, and *)
(* counts as a failure.                                                      *)
AlloyReachable ==
    (\A d \in AlloyDaemon : adaemon[d].pc \in {"off", "serving"}) /\ ~aupset
        => asock \in AlloyDaemon /\ AlloyAt(asock, "serving")

(* A daemon never works with half a runtime: the one it settled on was       *)
(* installed completely, although it may have started in the middle of a     *)
(* build, because the metadata it insists on (runtime.rs:91-98) is written   *)
(* last (build_wine.sh:157-164).  Only a build that replaces an earlier one  *)
(* of the same version is exempt.  The metadata is that of the runtime, or   *)
(* all unknown where it was read while the file was being written.           *)
RuntimeComplete ==
    \A d \in AlloyDaemon : adaemon[d].pc \in {"bind", "serving"} =>
        LET r == adaemon[d] IN
        /\ r.saw.files = "all" \/ r.saw.again
        /\ \/ /\ r.meta["version"] =
                    <<"version", VersionOf(r.root)>>
              /\ \A k \in OptionalKey : r.meta[k] # Blank
           \/ \A k \in MetadataKey : r.meta[k] \in {Unknown, Absent}

(* What the catalogue answers (alloy-core/src/recipes.rs:80-117): a listing  *)
(* has every file that is there all the time and parses, and is not spoiled  *)
(* by one that does not; a recipe is loaded from the file of its name, and   *)
(* not from .yaml while there is a .yml; a file of that name that is good    *)
(* and there all the time is loaded, unless it is .yaml and a .yml comes in  *)
(* between.                                                                  *)
CatalogueWhole ==
    \A c \in AlloyClient :
        LET good(fs) == {f \in fs : AlloyScanned(f) /\ AlloyLoads(f)}
            named(fs) == {f \in fs : AlloyScanned(f) /\ f.stem = acall[c].cmd.recipe}
        IN
        /\ AlloyCallAt(c, "ok") /\ acall[c].cmd.sub = "recipes" =>
              /\ good(acall[c].must) \subseteq acall[c].got
              /\ acall[c].got \subseteq good(acall[c].may)
        /\ AlloyCallAt(c, "ok") /\ acall[c].cmd.sub = "apply" =>
              \A f \in acall[c].got :
                 /\ f \in good(named(acall[c].may))
                 /\ f.form = "yaml" => \A g \in named(acall[c].must) : g.form # "yml"
        /\ ~(AlloyCallAt(c, "failed") /\ acall[c].cmd.sub = "recipes")
        /\ AlloyCallAt(c, "failed") /\ acall[c].cmd.sub = "apply" =>
              \A f \in good(named(acall[c].must)) :
                 f.form # "yml" /\ \E g \in named(acall[c].may) : g.form = "yml"
=============================================================================
