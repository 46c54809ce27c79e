------------------------------ MODULE DaemonHost ------------------------------
(* silicon-alloy-daemon as a process and what it serves besides bottles: how *)
(* it takes its socket, the runtimes and recipes it finds, and the shortcut  *)
(* bundles it writes; with the cli that calls it.  The bottle requests are   *)
(* BottleService's; here they only occupy a connection.                      *)
EXTENDS HostFiles, RuntimeCatalog, Sequences

CONSTANTS
    Daemon,         \* processes that may run the daemon
    Client,         \* processes that may run the cli
    Bottle,         \* bottles that shortcuts are made for
    ShortcutName,   \* names asked for: sequences of characters
    Commands,       \* the command lines that the cli is given
    Trees           \* the trees that can be installed

(* The subcommands, with the arguments that what follows depends on.         *)
Command ==
    [sub: {"info", "list", "delete", "run", "recipes list", "runtime list"}]
    \cup [sub: {"create"}, version: Version, path: {Absent, ClientPath},
          channel: {Absent} \cup Channels]
    \cup [sub: {"recipes apply"}, recipe: STRING]
    \cup [sub: {"shortcut create"}, bottle: Bottle, name: ShortcutName]

ASSUME DaemonAssumption ==
    /\ None \notin Daemon \cup Bottle
    /\ Commands \subseteq Command
    /\ Trees \subseteq Tree

(* Each subcommand is one call of one method.                                *)
Method(cmd) ==
    CASE cmd.sub = "info"            -> "service.info"
      [] cmd.sub = "list"            -> "bottle.list"
      [] cmd.sub = "create"          -> "bottle.create"
      [] cmd.sub = "delete"          -> "bottle.delete"
      [] cmd.sub = "run"             -> "bottle.run"
      [] cmd.sub = "recipes list"    -> "recipe.list"
      [] cmd.sub = "recipes apply"   -> "recipe.apply"
      [] cmd.sub = "runtime list"    -> "runtime.list"
      [] cmd.sub = "shortcut create" -> "shortcut.create"

(* Which of the bounded events a command is.                                 *)
EventOf(cmd) ==
    CASE cmd.sub = "create"                              -> "create"
      [] cmd.sub \in {"recipes list", "recipes apply"}   -> "recipes"
      [] cmd.sub = "shortcut create"                     -> "shortcut"
      [] OTHER                                           -> "other"

(* Where the daemon begins with a method.                                    *)
Handler(method) ==
    CASE method \in {"service.info", "runtime.list"} -> "tell"
      [] method \in {"bottle.list", "bottle.delete", "bottle.run"} -> "bottle"
      [] method = "bottle.create"                      -> "select"
      [] method \in {"recipe.list", "recipe.apply"}    -> "open"
      [] method = "shortcut.create"                    -> "record"

(* The name of the bundle: other characters become underscores, spaces at    *)
(* the ends go, and nothing left becomes "Windows App".                      *)
Kept == {"a", "b", " ", "-", "_"}

SanitizeName(name) ==
    LET plain == [i \in DOMAIN name |-> IF name[i] \in Kept THEN name[i] ELSE "_"]
        ink == {i \in DOMAIN plain : plain[i] # " "}
        first == CHOOSE i \in ink : \A j \in ink : i <= j
        last  == CHOOSE i \in ink : \A j \in ink : i >= j
    IN IF ink = {} THEN <<"Windows App">> ELSE SubSeq(plain, first, last)

BundlePath == {SanitizeName(n) : n \in ShortcutName}

NoBundle == [there |-> FALSE, plist |-> None, launch |-> None, exec |-> FALSE]

VARIABLES
    sock,           \* the daemon that bound the socket file that is there, or None
    daemon,         \* per process: location, runtimes listed; kept, for properties
    call,           \* per client: its call and what the handler knows
    trees,          \* the directories under the runtime root
    bundle,         \* per path: the files of the shortcut that are there
    upset,          \* for properties: the last start met with a failure
    tangled,        \* for properties: paths hit by failures or overlapping calls
    owner           \* for properties: per path, the bottle acknowledged last

procVars == <<sock, daemon, upset>>
diskVars == <<bundle, tangled, owner>>
daemonVars == <<procVars, diskVars, call, trees>>

Stopped == [pc |-> "off", list |-> {}, kept |-> {}]
NoCall == [pc |-> "idle"]

DaemonLocation == {"off", "check", "remove", "bind", "construct", "serving"}

(* The locations of a handler, by the one it begins at.                      *)
Steps(handler) ==
    CASE handler = "open"   -> {"open", "scan"}
      [] handler = "record" -> {"record", "probe", "clear", "make", "plist",
                                "launch", "chmod"}
      [] OTHER              -> {handler}

CallOf(cmd) == [pc: {"queued", "ok", "failed", "closed"} \cup Steps(Handler(Method(cmd))),
                to: Daemon, cmd: {cmd}, left: SUBSET RecipeFile,
                got: SUBSET (RecipeFile \cup Runtime), must: SUBSET RecipeFile,
                may: SUBSET RecipeFile, kept: SUBSET Trees]

Bundle == [there: BOOLEAN, plist: Bottle \cup {None}, launch: Bottle \cup {None},
           exec: BOOLEAN]

DaemonTypeOK ==
    /\ sock \in Daemon \cup {None}
    /\ daemon \in [Daemon -> [pc: DaemonLocation, list: SUBSET Runtime, kept: SUBSET Trees]]
    /\ upset \in BOOLEAN
    /\ DOMAIN call = Client
    /\ \A c \in Client :
          \/ call[c] = NoCall
          \/ call[c].cmd \in Commands /\ call[c] \in CallOf(call[c].cmd)
    /\ trees \subseteq Trees
    /\ bundle \in [BundlePath -> Bundle]
    /\ \A p \in BundlePath :
          /\ bundle[p].exec => bundle[p].launch # None
          /\ bundle[p].launch # None \/ bundle[p].plist # None => bundle[p].there
    /\ tangled \in [BundlePath -> BOOLEAN]
    /\ owner \in [BundlePath -> Bottle \cup {None}]

DaemonInit ==
    /\ sock = None
    /\ daemon = [d \in Daemon |-> Stopped]
    /\ upset = TRUE
    /\ call = [c \in Client |-> NoCall]
    /\ trees = {}
    /\ bundle = [p \in BundlePath |-> NoBundle]
    /\ tangled = [p \in BundlePath |-> FALSE]
    /\ owner = [p \in BundlePath |-> None]

-----------------------------------------------------------------------------
(* Start-up.  The socket file of whoever was there before is removed, the    *)
(* socket is bound, and only then the service is made, which may fail.       *)
DaemonAt(d, pc) == daemon[d].pc = pc
Goes(d, pc) == daemon' = [daemon EXCEPT ![d].pc = pc]

StartDaemon(d) ==
    /\ DaemonAt(d, "off")
    /\ Spend("start")
    /\ Goes(d, "check")
    /\ upset' = FALSE
    /\ UNCHANGED <<sock, call, trees, diskVars, recipes>>

(* Mutant: the old socket file is left to bind.                              *)
CheckSocket_Leaves(d) ==
    /\ DaemonAt(d, "check")
    /\ Goes(d, "bind")
    /\ UNCHANGED <<sock, upset, call, trees, diskVars, recipes, budget>>

CheckSocket(d) ==
    /\ DaemonAt(d, "check")
    /\ Goes(d, IF sock = None THEN "bind" ELSE "remove")
    /\ UNCHANGED <<sock, upset, call, trees, diskVars, recipes, budget>>

RemoveSocket(d) ==
    /\ DaemonAt(d, "remove")
    /\ sock # None
    /\ sock' = None
    /\ Goes(d, "bind")
    /\ UNCHANGED <<upset, call, trees, diskVars, recipes, budget>>

(* Another start has removed the file since.                                 *)
RemoveSocketFails(d) ==
    /\ DaemonAt(d, "remove")
    /\ sock = None
    /\ Goes(d, "off")
    /\ UNCHANGED <<sock, upset, call, trees, diskVars, recipes, budget>>

BindSocket(d) ==
    /\ DaemonAt(d, "bind")
    /\ sock = None
    /\ sock' = d
    /\ Goes(d, "construct")
    /\ UNCHANGED <<upset, call, trees, diskVars, recipes, budget>>

(* The address is in use: another start has bound it since.                  *)
BindSocketFails(d) ==
    /\ DaemonAt(d, "bind")
    /\ sock # None
    /\ Goes(d, "off")
    /\ UNCHANGED <<sock, upset, call, trees, diskVars, recipes, budget>>

(* The runtimes are listed once; the environment may add the arm64 build.    *)
ConstructService(d) ==
    /\ DaemonAt(d, "construct")
    /\ \E extra \in SUBSET {External} :
          daemon' = [daemon EXCEPT ![d] =
              [pc |-> "serving", list |-> DiscoverRuntimes(trees) \cup extra,
               kept |-> trees]]
    /\ UNCHANGED <<sock, upset, call, trees, diskVars, recipes, budget>>

-----------------------------------------------------------------------------
(* Calls.                                                                    *)
CallAt(c, pc) == call[c].pc = pc
Move(c, pc) == call' = [call EXCEPT ![c].pc = pc]

InHandler(c) == call[c].pc \notin {"idle", "queued", "ok", "failed", "closed"}
Waiting(c) == InHandler(c) \/ CallAt(c, "queued")

(* A shortcut call that has looked at its path and may change it.            *)
OnBundle(c) == call[c].pc \in {"clear", "make", "plist", "launch", "chmod"}
PathOf(c) == SanitizeName(call[c].cmd.name)

(* What a failure leaves of bundles that were being written.                 *)
Spoiled(cs) == [p \in BundlePath |->
    tangled[p] \/ \E c \in cs : OnBundle(c) /\ PathOf(c) = p]

(* connect succeeds as soon as a live process has bound the file.            *)
Answers == sock # None /\ daemon[sock].pc \in {"construct", "serving"}

Call(c, cmd) ==
    /\ CallAt(c, "idle")
    /\ Answers
    /\ Spend(EventOf(cmd))
    /\ call' = [call EXCEPT ![c] =
          [pc |-> "queued", to |-> sock, cmd |-> cmd, left |-> {}, got |-> {},
           must |-> {}, may |-> {}, kept |-> {}]]
    /\ UNCHANGED <<procVars, trees, diskVars, recipes>>

(* The cli prints that it is unable to connect.                              *)
CallRefused(c) ==
    /\ CallAt(c, "idle")
    /\ ~Answers
    /\ Spend("other")
    /\ UNCHANGED <<procVars, call, trees, diskVars, recipes>>

(* The answer, the error or the end of the stream has been read.             *)
CallEnds(c) ==
    /\ call[c].pc \in {"ok", "failed", "closed"}
    /\ call' = [call EXCEPT ![c] = NoCall]
    /\ UNCHANGED <<procVars, trees, diskVars, recipes, budget>>

(* A daemon that no longer owns the socket file still accepts and serves     *)
(* the connections that were made before.                                    *)
Accept(c) ==
    /\ CallAt(c, "queued")
    /\ DaemonAt(call[c].to, "serving")
    /\ Move(c, Handler(Method(call[c].cmd)))
    /\ UNCHANGED <<procVars, trees, diskVars, recipes, budget>>

(* service.info and runtime.list tell what was found at the start.           *)
TellRuntimes(c) ==
    /\ CallAt(c, "tell")
    /\ call' = [call EXCEPT ![c].pc = "ok", ![c].got = daemon[call[c].to].list]
    /\ UNCHANGED <<procVars, trees, diskVars, recipes, budget>>

(* A request that BottleService models ends, one way or the other.           *)
BottleRequestEnds(c) ==
    /\ CallAt(c, "bottle")
    /\ \E end \in {"ok", "failed"} : Move(c, end)
    /\ UNCHANGED <<procVars, trees, diskVars, recipes, budget>>

(* bottle.create chooses the runtime and records it with the bottle.         *)
SelectForBottle(c) ==
    /\ CallAt(c, "select")
    /\ LET d == call[c].to
           cmd == call[c].cmd
       IN call' = [call EXCEPT
              ![c].pc = "ok",
              ![c].got = {SelectRuntime(daemon[d].list, cmd.version, cmd.path, cmd.channel)},
              ![c].kept = daemon[d].kept]
    /\ UNCHANGED <<procVars, trees, diskVars, recipes, budget>>

-----------------------------------------------------------------------------
(* recipe.list and recipe.apply read every manifest, one after the other;    *)
(* must and may follow the files that are there all the time and at some     *)
(* time while they do.                                                       *)
OpenRecipes(c) ==
    /\ CallAt(c, "open")
    /\ call' = [call EXCEPT ![c].pc = "scan", ![c].left = recipes,
                            ![c].must = recipes, ![c].may = recipes]
    /\ UNCHANGED <<procVars, trees, diskVars, recipes, budget>>

(* Mutant: a manifest that does not parse is passed over.                    *)
SkipEntry_Lenient(c, f) ==
    /\ CallAt(c, "scan")
    /\ f \in call[c].left
    /\ ~Scanned(f) \/ ~Loads(f) \/ (f.form = "dir" /\ f \notin recipes)
    /\ call' = [call EXCEPT ![c].left = @ \ {f}]
    /\ UNCHANGED <<procVars, trees, diskVars, recipes, budget>>

(* An entry is passed over: of another kind, or a directory without manifest.*)
SkipEntry(c, f) ==
    /\ CallAt(c, "scan")
    /\ f \in call[c].left
    /\ ~Scanned(f) \/ (f.form = "dir" /\ f \notin recipes)
    /\ call' = [call EXCEPT ![c].left = @ \ {f}]
    /\ UNCHANGED <<procVars, trees, diskVars, recipes, budget>>

LoadRecipe(c, f) ==
    /\ CallAt(c, "scan")
    /\ f \in call[c].left \cap recipes
    /\ Scanned(f) /\ Loads(f)
    /\ call' = [call EXCEPT ![c].left = @ \ {f}, ![c].got = @ \cup {f}]
    /\ UNCHANGED <<procVars, trees, diskVars, recipes, budget>>

(* A manifest that does not parse, or is gone when it is read (that of a     *)
(* directory was still there when it was probed), ends the scan.             *)
LoadRecipeFails(c, f) ==
    /\ CallAt(c, "scan")
    /\ f \in call[c].left
    /\ Scanned(f)
    /\ ~Loads(f) \/ f \notin recipes
    /\ Move(c, "failed")
    /\ UNCHANGED <<procVars, trees, diskVars, recipes, budget>>

ListDone(c) ==
    /\ CallAt(c, "scan")
    /\ call[c].left = {}
    /\ call[c].cmd.sub = "recipes list"
    /\ Move(c, "ok")
    /\ UNCHANGED <<procVars, trees, diskVars, recipes, budget>>

(* The rest of recipe.apply is BottleService's.                              *)
FindRecipe(c) ==
    /\ CallAt(c, "scan")
    /\ call[c].left = {}
    /\ call[c].cmd.sub = "recipes apply"
    /\ \E f \in FindIn(call[c].got, call[c].cmd.recipe) :
          call' = [call EXCEPT ![c].pc = "ok", ![c].got = {f}]
    /\ UNCHANGED <<procVars, trees, diskVars, recipes, budget>>

RecipeNotFound(c) ==
    /\ CallAt(c, "scan")
    /\ call[c].left = {}
    /\ call[c].cmd.sub = "recipes apply"
    /\ FindIn(call[c].got, call[c].cmd.recipe) = {}
    /\ call' = [call EXCEPT ![c].pc = "failed", ![c].got = {}]
    /\ UNCHANGED <<procVars, trees, diskVars, recipes, budget>>

-----------------------------------------------------------------------------
(* shortcut.create reads the record and then works on the bundle: look,      *)
(* remove, make directories, write two files, set the mode of the launcher.  *)
ReadRecord(c) ==
    /\ CallAt(c, "record")
    /\ \E to \in {"probe", "failed"} : Move(c, to)
    /\ UNCHANGED <<procVars, trees, diskVars, recipes, budget>>

ProbeBundle(c) ==
    /\ CallAt(c, "probe")
    /\ Move(c, IF bundle[PathOf(c)].there THEN "clear" ELSE "make")
    /\ tangled' = [tangled EXCEPT ![PathOf(c)] =
          \E o \in Client \ {c} : OnBundle(o) /\ PathOf(o) = PathOf(c)]
    /\ UNCHANGED <<procVars, trees, bundle, owner, recipes, budget>>

(* What the next steps do to the bundle's files.                             *)
Write(c, b) == bundle' = [bundle EXCEPT ![PathOf(c)] = b]

(* Mutant: a removed bundle keeps its launcher.                              *)
ClearBundle_KeepsLauncher(c) ==
    /\ CallAt(c, "clear")
    /\ bundle[PathOf(c)].there
    /\ Write(c, [NoBundle EXCEPT !.launch = bundle[PathOf(c)].launch])
    /\ Move(c, "make")
    /\ UNCHANGED <<procVars, trees, tangled, owner, recipes, budget>>

ClearBundle(c) ==
    /\ CallAt(c, "clear")
    /\ bundle[PathOf(c)].there
    /\ Write(c, NoBundle)
    /\ Move(c, "make")
    /\ UNCHANGED <<procVars, trees, tangled, owner, recipes, budget>>

(* remove_dir_all fails where another request has removed the bundle, or     *)
(* adds to it: some of its files are gone then.                              *)
ClearBundleFails(c) ==
    LET p == PathOf(c) IN
    /\ CallAt(c, "clear")
    /\ \/ ~bundle[p].there /\ UNCHANGED bundle
       \/ /\ bundle[p].there
          /\ \E o \in Client \ {c} : OnBundle(o) /\ PathOf(o) = p
          /\ \E plist \in {bundle[p].plist, None}, launch \in {bundle[p].launch, None} :
                Write(c, [there |-> TRUE, plist |-> plist, launch |-> launch,
                          exec |-> bundle[p].exec /\ launch # None])
    /\ Move(c, "failed")
    /\ tangled' = Spoiled({c})
    /\ UNCHANGED <<procVars, trees, owner, recipes, budget>>

MakeBundle(c) ==
    /\ CallAt(c, "make")
    /\ Write(c, [bundle[PathOf(c)] EXCEPT !.there = TRUE])
    /\ Move(c, "plist")
    /\ UNCHANGED <<procVars, trees, tangled, owner, recipes, budget>>

WritePlist(c) ==
    /\ CallAt(c, "plist")
    /\ bundle[PathOf(c)].there
    /\ Write(c, [bundle[PathOf(c)] EXCEPT !.plist = call[c].cmd.bottle])
    /\ Move(c, "launch")
    /\ UNCHANGED <<procVars, trees, tangled, owner, recipes, budget>>

(* A file that exists already keeps its mode.                                *)
WriteLauncher(c) ==
    /\ CallAt(c, "launch")
    /\ bundle[PathOf(c)].there
    /\ Write(c, [bundle[PathOf(c)] EXCEPT !.launch = call[c].cmd.bottle])
    /\ Move(c, "chmod")
    /\ UNCHANGED <<procVars, trees, tangled, owner, recipes, budget>>

(* Mutant: the mode of the launcher is left as it is.                        *)
SetMode_Forgets(c) ==
    /\ CallAt(c, "chmod")
    /\ bundle[PathOf(c)].launch # None
    /\ owner' = [owner EXCEPT ![PathOf(c)] = call[c].cmd.bottle]
    /\ Move(c, "ok")
    /\ UNCHANGED <<procVars, trees, tangled, bundle, recipes, budget>>

SetMode(c) ==
    /\ CallAt(c, "chmod")
    /\ bundle[PathOf(c)].launch # None
    /\ Write(c, [bundle[PathOf(c)] EXCEPT !.exec = TRUE])
    /\ owner' = [owner EXCEPT ![PathOf(c)] = call[c].cmd.bottle]
    /\ Move(c, "ok")
    /\ UNCHANGED <<procVars, trees, tangled, recipes, budget>>

(* Another request has removed the directory or the launcher.                *)
BundleGone(c) ==
    /\ \/ call[c].pc \in {"plist", "launch"} /\ ~bundle[PathOf(c)].there
       \/ CallAt(c, "chmod") /\ bundle[PathOf(c)].launch = None
    /\ tangled' = Spoiled({c})
    /\ Move(c, "failed")
    /\ UNCHANGED <<procVars, trees, bundle, owner, recipes, budget>>

-----------------------------------------------------------------------------
(* What goes wrong, and what others do.                                      *)
IoError(c) ==
    /\ OnBundle(c)
    /\ Spend("error")
    /\ tangled' = Spoiled({c})
    /\ Move(c, "failed")
    /\ UNCHANGED <<procVars, trees, bundle, owner, recipes>>

(* An error of main or a kill: the process closes its connections and leaves *)
(* its socket file.                                                          *)
Exit(d) ==
    LET lost == {c \in Client : Waiting(c) /\ call[c].to = d} IN
    /\ daemon' = [daemon EXCEPT ![d] = Stopped]
    /\ upset' = (upset \/ sock = d \/ daemon[d].pc # "serving")
    /\ tangled' = Spoiled(lost)
    /\ call' = [c \in Client |->
          IF c \in lost THEN [call[c] EXCEPT !.pc = "closed"] ELSE call[c]]
    /\ UNCHANGED <<sock, trees, bundle, owner, recipes>>

EndDaemon(d) == ~DaemonAt(d, "off") /\ Spend("end") /\ Exit(d)

(* The service cannot be made: main returns, after it has taken the socket.  *)
ConstructFails(d) == DaemonAt(d, "construct") /\ Spend("error") /\ Exit(d)

InstallTree(t) ==
    /\ Spend("tree")
    /\ \A u \in trees : u.arch # t.arch \/ u.version # t.version
    /\ trees' = trees \cup {t}
    /\ UNCHANGED <<procVars, call, diskVars, recipes>>

RemoveTree(t) ==
    /\ Spend("tree")
    /\ t \in trees
    /\ trees' = trees \ {t}
    /\ daemon' = [d \in Daemon |-> [daemon[d] EXCEPT !.kept = @ \ {t}]]
    /\ UNCHANGED <<sock, upset, call, diskVars, recipes>>

(* What the calls in progress see of the directory of recipes from now on.   *)
WatchRecipes ==
    call' = [c \in Client |->
        IF CallAt(c, "scan")
          THEN [call[c] EXCEPT !.must = @ \cap recipes', !.may = @ \cup recipes']
          ELSE call[c]]

-----------------------------------------------------------------------------
StartStep(d) ==
    \/ CheckSocket(d) \/ RemoveSocket(d) \/ RemoveSocketFails(d)
    \/ BindSocket(d) \/ BindSocketFails(d) \/ ConstructService(d)

CallStep(c) ==
    \/ Accept(c) \/ TellRuntimes(c) \/ BottleRequestEnds(c)
    \/ SelectForBottle(c) \/ OpenRecipes(c)
    \/ \E f \in RecipeFile :
          SkipEntry(c, f) \/ LoadRecipe(c, f) \/ LoadRecipeFails(c, f)
    \/ ListDone(c) \/ FindRecipe(c) \/ RecipeNotFound(c)
    \/ ReadRecord(c) \/ ProbeBundle(c) \/ ClearBundle(c) \/ ClearBundleFails(c)
    \/ MakeBundle(c) \/ WritePlist(c) \/ WriteLauncher(c) \/ SetMode(c)
    \/ BundleGone(c) \/ CallEnds(c)

DaemonNext ==
    \/ \E d \in Daemon :
          StartDaemon(d) \/ StartStep(d) \/ EndDaemon(d) \/ ConstructFails(d)
    \/ \E c \in Client :
          \/ \E cmd \in Commands : Call(c, cmd)
          \/ CallRefused(c) \/ CallStep(c) \/ IoError(c)
    \/ \E t \in Trees : InstallTree(t) \/ RemoveTree(t)

-----------------------------------------------------------------------------
(* Once no start is in progress, a new client reaches a daemon that serves,  *)
(* unless the last start met with a failure: whoever loses the race for the  *)
(* socket file of main.rs:22-25 loses it to a daemon that comes up.          *)
ReachableWhenSettled ==
    (\A d \in Daemon : daemon[d].pc \in {"off", "serving"}) /\ ~upset
        => sock \in Daemon /\ daemon[sock].pc = "serving"

(* A bottle that names a channel and a version gets that very runtime when   *)
(* it has been installed since before the daemon started (service.rs:37,     *)
(* 383-391), however many others are there; and while some tree of the       *)
(* channel has been there, it never gets another channel's (396).            *)
RuntimeHonoured ==
    \A c \in Client :
        /\ CallAt(c, "ok")
        /\ call[c].cmd.sub = "create"
        /\ call[c].cmd.path = Absent
        => \A r \in call[c].got, d \in DiscoverRuntimes(call[c].kept) :
              d.channel = (IF call[c].cmd.channel = Absent THEN "rossetta"
                           ELSE call[c].cmd.channel)
              => /\ d.version = call[c].cmd.version => r = d
                 /\ r.channel = d.channel
                 /\ r.path = ExternalPath \/ Channel(r.path[1]) = d.channel

(* What recipe.list and the search of recipe.apply read (recipes.rs:43-69):  *)
(* every manifest that is there all the time, a bad one included, and none   *)
(* that never was; they fail over a manifest only if it is bad or comes and  *)
(* goes.  What recipe.apply finds is the first of its id in every listing    *)
(* of these files, and it finds none only where a listing shows none.        *)
RecipesWhole ==
    \A c \in Client :
        LET steady == {f \in call[c].must : Scanned(f)} IN
        /\ CallAt(c, "ok") /\ call[c].cmd.sub = "recipes list" =>
              /\ steady \subseteq call[c].got
              /\ call[c].got \subseteq {f \in call[c].may : Loads(f)}
        /\ CallAt(c, "ok") /\ call[c].cmd.sub = "recipes apply" =>
              /\ \A f \in call[c].got : f.id = call[c].cmd.recipe
              /\ \A f \in call[c].got, g \in steady : g.id = f.id => f.name <= g.name
        /\ CallAt(c, "failed") /\ call[c].cmd.sub \in {"recipes list", "recipes apply"} =>
              \/ \E f \in call[c].may : Scanned(f) /\ (~Loads(f) \/ f \notin call[c].must)
              \/ /\ call[c].cmd.sub = "recipes apply"
                 /\ \A f \in steady : f.id # call[c].cmd.recipe

(* A bundle that no request is writing is whole and belongs to the bottle    *)
(* that was acknowledged for its path last, whatever was there before: both  *)
(* files, and a launcher that can be executed.  Requests for one path that   *)
(* overlapped or failed are exempt (service.rs:255-274).                     *)
BundleWhole ==
    \A p \in BundlePath :
        /\ ~tangled[p]
        /\ owner[p] # None
        /\ \A c \in Client : OnBundle(c) => PathOf(c) # p
        => bundle[p] = [there |-> TRUE, plist |-> owner[p],
                        launch |-> owner[p], exec |-> TRUE]
=============================================================================
