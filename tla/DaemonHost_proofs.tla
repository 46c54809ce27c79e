-------------------------- MODULE DaemonHost_proofs --------------------------
(* What the daemon, its clients and its runtimes keep, for every number of   *)
(* each: an invariant that gives the properties of DaemonHost.               *)
EXTENDS DaemonHost, TLAPS

(* A call on its own: idle, or of the type that its command gives it.        *)
CallTyped(x) == x = NoCall \/ (x.cmd \in Commands /\ x \in CallOf(x.cmd))
CallsTyped == DOMAIN call = Client /\ \A c \in Client : CallTyped(call[c])

(* Where a call of a command can be.                                         *)
Places(cmd) == {"queued", "ok", "failed", "closed"} \cup Steps(Handler(Method(cmd)))

(* The locations at which a call has looked at its bundle and works on it.   *)
Writing == {"clear", "make", "plist", "launch", "chmod"}

(* A call that is not idle is at a location of its command's own handler,    *)
(* and each handler has all its locations.                                   *)
LEMMA CallPlaces ==
    ASSUME NEW x, CallTyped(x), x.pc # "idle"
    PROVE  /\ x.cmd \in Commands /\ x \in CallOf(x.cmd) /\ x.cmd \in Command
           /\ {"queued", "ok", "failed", "closed"} \subseteq Places(x.cmd)
           /\ x.pc = "queued" => Handler(Method(x.cmd)) \in Places(x.cmd)
           /\ x.pc = "select" => x.cmd.sub = "create"
           /\ x.cmd.sub = "create" =>
                 x.pc \in {"queued", "ok", "failed", "closed", "select"}
           /\ x.cmd.sub \in {"recipes list", "recipes apply"} =>
                 x.pc \in {"queued", "ok", "failed", "closed", "open", "scan"}
           /\ x.pc \in {"open", "scan"} =>
                 "scan" \in Places(x.cmd) /\ x.cmd.sub \in {"recipes list", "recipes apply"}
           /\ x.pc \in {"record", "probe"} \cup Writing =>
                 x.cmd.sub = "shortcut create" /\ {"probe"} \cup Writing \subseteq Places(x.cmd)
<1>1. x.cmd \in Commands /\ x \in CallOf(x.cmd)
  BY DEF CallTyped, NoCall
<1>2. x.cmd \in Command
  BY <1>1, DaemonAssumption
<1>3. x.pc \in Places(x.cmd)
  BY <1>1 DEF CallOf, Places
<1>4. x.cmd.sub \in {"info", "list", "delete", "run", "recipes list", "runtime list",
                     "create", "recipes apply", "shortcut create"}
  BY <1>2 DEF Command
<1>5. Steps(Handler(Method(x.cmd))) =
         CASE x.cmd.sub \in {"info", "runtime list"} -> {"tell"}
           [] x.cmd.sub \in {"list", "delete", "run"} -> {"bottle"}
           [] x.cmd.sub = "create" -> {"select"}
           [] x.cmd.sub \in {"recipes list", "recipes apply"} -> {"open", "scan"}
           [] x.cmd.sub = "shortcut create" -> {"record", "probe"} \cup Writing
  BY <1>4 DEF Steps, Handler, Method, Writing
<1>6. Handler(Method(x.cmd)) \in Steps(Handler(Method(x.cmd)))
  BY DEF Steps
<1> QED BY <1>1, <1>2, <1>3, <1>4, <1>5, <1>6 DEF Places, Writing

(* Replacing one client's call by a typed one keeps the calls typed.         *)
LEMMA CallUpdated ==
    ASSUME CallsTyped, NEW c \in Client, NEW x, CallTyped(x), call' = [call EXCEPT ![c] = x]
    PROVE  CallsTyped'
  BY DEF CallsTyped, CallTyped, CallOf

(* So does moving a call to a location of its command.                       *)
LEMMA Moved ==
    ASSUME CallsTyped, NEW c \in Client, call[c].pc # "idle",
           NEW pc \in Places(call[c].cmd), call' = [call EXCEPT ![c].pc = pc]
    PROVE  CallsTyped'
<1>1. /\ call[c] \in CallOf(call[c].cmd) /\ call[c].cmd \in Commands
      /\ c \in DOMAIN call
  BY CallPlaces DEF CallsTyped
<1> DEFINE x == [call[c] EXCEPT !.pc = pc]
<1>2. call' = [call EXCEPT ![c] = x]
  BY <1>1
<1>3. x.cmd = call[c].cmd /\ x \in CallOf(call[c].cmd)
  BY <1>1 DEF CallOf, Places
<1> HIDE DEF x
<1> QED BY <1>1, <1>2, <1>3, CallUpdated DEF CallTyped


(* So does changing its fields within the type of its command.               *)
LEMMA Rewritten ==
    ASSUME CallsTyped, NEW c \in Client, call[c].pc # "idle",
           NEW x \in CallOf(call[c].cmd), call' = [call EXCEPT ![c] = x]
    PROVE  CallsTyped'
<1>1. call[c].cmd \in Commands /\ x.cmd = call[c].cmd
  BY CallPlaces DEF CallsTyped, CallOf
<1> QED BY <1>1, CallUpdated DEF CallTyped

(* The fields that handlers change keep a call within its type.              *)
LEMMA FieldsTyped ==
    ASSUME NEW cmd, NEW x \in CallOf(cmd), NEW pc \in Places(cmd)
    PROVE  /\ \A got \in SUBSET (RecipeFile \cup Runtime) :
                 [x EXCEPT !.pc = pc, !.got = got] \in CallOf(cmd)
           /\ \A got \in SUBSET (RecipeFile \cup Runtime), kept \in SUBSET Trees :
                 [x EXCEPT !.pc = pc, !.got = got, !.kept = kept] \in CallOf(cmd)
           /\ \A files \in SUBSET RecipeFile :
                 [x EXCEPT !.pc = pc, !.left = files, !.must = files, !.may = files]
                     \in CallOf(cmd)
           /\ \A left \in SUBSET RecipeFile, got \in SUBSET (RecipeFile \cup Runtime) :
                 /\ [x EXCEPT !.left = left] \in CallOf(cmd)
                 /\ [x EXCEPT !.left = left, !.got = got] \in CallOf(cmd)
  BY DEF CallOf, Places

(* The parts of the type invariant: processes and runtimes, and files.       *)
ProcTyped ==
    /\ sock \in Daemon \cup {None}
    /\ daemon \in [Daemon -> [pc: DaemonLocation, list: SUBSET Runtime, kept: SUBSET Trees]]
    /\ upset \in BOOLEAN
    /\ trees \subseteq Trees
Coherent(b) ==
    /\ b.exec => b.launch # None
    /\ b.launch # None \/ b.plist # None => b.there
DiskTyped ==
    /\ bundle \in [BundlePath -> Bundle]
    /\ \A p \in BundlePath : Coherent(bundle[p])
    /\ tangled \in [BundlePath -> BOOLEAN]
    /\ owner \in [BundlePath -> Bottle \cup {None}]

(* The type invariant is the conjunction of its parts.                       *)
LEMMA DaemonTypedParts ==
    DaemonTypeOK <=> ProcTyped /\ CallsTyped /\ DiskTyped
  BY DEF DaemonTypeOK, ProcTyped, CallsTyped, CallTyped, DiskTyped, Coherent

(* What the listing of runtimes makes of a tree is a runtime.                *)
LEMMA DescriptorTyped ==
    /\ \A t \in Tree : Descriptor(t) \in Runtime
    /\ External \in Runtime
<1>1. ASSUME NEW t \in Tree PROVE Descriptor(t) \in Runtime
  BY DEF Tree, Descriptor, Runtime, Channels
<1>2. External \in Runtime
  <2>1. "native-arm64" = Channel("arm64") /\ "arm64" \in Arch
    BY DEF Channel, Arch
  <2> QED BY <2>1 DEF External, Runtime, Channels
<1> QED BY <1>1, <1>2

(* What a daemon lists of the trees that are there are runtimes.             *)
LEMMA DiscoverTyped ==
    ASSUME NEW ts, ts \subseteq Trees
    PROVE  DiscoverRuntimes(ts) \subseteq Runtime
  BY DescriptorTyped, DaemonAssumption DEF DiscoverRuntimes

(* What a daemon lists: trees it found, and the runtime from the environment.*)
Listed(list) ==
    list \subseteq {Descriptor(t) : t \in Tree} \cup {External}

(* A daemon lists every tree that has been there since it started.           *)
ListInv == \A d \in Daemon : /\ Listed(daemon[d].list)
                             /\ DiscoverRuntimes(daemon[d].kept) \subseteq daemon[d].list

(* A step of a start keeps the processes typed (main.rs:14-35).              *)
LEMMA StartTyped ==
    ASSUME ProcTyped, NEW d \in Daemon, StartDaemon(d) \/ StartStep(d)
    PROVE  ProcTyped'
<1> USE DEF DaemonLocation, Goes, DaemonAt, ProcTyped
<1>1. CASE StartDaemon(d)
  BY <1>1 DEF StartDaemon
<1>2. CASE CheckSocket(d)
  BY <1>2 DEF CheckSocket
<1>3. CASE RemoveSocket(d)
  BY <1>3 DEF RemoveSocket
<1>4. CASE RemoveSocketFails(d)
  BY <1>4 DEF RemoveSocketFails
<1>5. CASE BindSocket(d)
  BY <1>5 DEF BindSocket
<1>6. CASE BindSocketFails(d)
  BY <1>6 DEF BindSocketFails
<1>7. CASE ConstructService(d)
  <2>1. PICK extra \in SUBSET {External} :
           daemon' = [daemon EXCEPT ![d] =
              [pc |-> "serving", list |-> DiscoverRuntimes(trees) \cup extra,
               kept |-> trees]]
    BY <1>7 DEF ConstructService
  <2>2. DiscoverRuntimes(trees) \cup extra \subseteq Runtime
    BY DiscoverTyped, DescriptorTyped
  <2> QED BY <1>7, <2>1, <2>2 DEF ConstructService
<1> QED BY <1>1, <1>2, <1>3, <1>4, <1>5, <1>6, <1>7 DEF StartStep

(* The first of a list is in it and none of the list comes before it: the    *)
(* versions of the list have a first, and only the runtime from the          *)
(* environment has none.                                                     *)
LEMMA FirstTyped ==
    ASSUME NEW list, list \subseteq Runtime, list # {},
           \A r \in list : r.version = Experimental => r = External
    PROVE  /\ FirstOf(list) \in list
           /\ \A s \in list : s = External \/ FirstOf(list).version <= s.version
<1> DEFINE first(r) == \A s \in list :
        s = External \/ (r # External /\ r.version <= s.version)
<1>1. \E r \in list : first(r)
  <2>1. CASE list \subseteq {External}
    BY <2>1
  <2>2. CASE ~(list \subseteq {External})
    <3> DEFINE versions == {r.version : r \in list \ {External}}
    <3>1. versions # {} /\ versions \subseteq Version
      BY <2>2 DEF Runtime
    <3> HIDE DEF versions
    <3>2. PICK v \in versions : \A w \in versions : v <= w
      BY <3>1, RuntimeAssumption
    <3>3. PICK r \in list \ {External} : r.version = v
      BY <3>2 DEF versions
    <3>4. \A s \in list \ {External} : s.version \in versions
      BY DEF versions
    <3> QED BY <3>2, <3>3, <3>4
  <2> QED BY <2>1, <2>2
<1>2. FirstOf(list) = CHOOSE r \in list : first(r)
  BY DEF FirstOf
<1> HIDE DEF first
<1>3. FirstOf(list) \in list /\ first(FirstOf(list))
  BY <1>1, <1>2, Zenon
<1> QED BY <1>3 DEF first

(* The first of any part of a daemon's list is in that part.                 *)
LEMMA ListedFirst ==
    ASSUME NEW list, Listed(list), NEW some, some \subseteq list, some # {}
    PROVE  FirstOf(some) \in some
<1>1. \A r \in some : r.version = Experimental => r = External
  <2> SUFFICES ASSUME NEW t \in Tree PROVE Descriptor(t).version # Experimental
    BY DEF Listed
  <2> QED BY RuntimeAssumption DEF Tree, Descriptor
<1>2. some \subseteq Runtime
  BY DescriptorTyped DEF Listed
<1> QED BY <1>1, <1>2, FirstTyped

(* The channel that a request gets when it names none.                       *)
Asked(channel) == IF channel = Absent THEN "rossetta" ELSE channel

(* A request that names no path gets a runtime of its channel where the list *)
(* has one, and the very version where the list has it (service.rs:383-396): *)
(* labels of one channel and version belong to one tree.                     *)
LEMMA Selected ==
    ASSUME NEW list, Listed(list), NEW version \in Version,
           NEW channel \in {Absent} \cup Channels,
           NEW d \in list, d.channel = Asked(channel)
    PROVE  LET r == SelectRuntime(list, version, Absent, channel) IN
           /\ r \in list
           /\ r.channel = d.channel
           /\ d.version = version => r = d
<1> DEFINE asked == IF channel = Absent THEN "rossetta" ELSE channel
           ofChannel == {r \in list : r.channel = asked}
           exact == {r \in ofChannel : r.version = version}
           chosen == SelectRuntime(list, version, Absent, channel)
<1>1. d \in ofChannel
  BY DEF Asked
<1>2. CASE exact # {}
  <2>1. chosen = FirstOf(exact)
    BY <1>2 DEF SelectRuntime
  <2>2. FirstOf(exact) \in exact
    BY <1>2, ListedFirst
  <2>3. ASSUME NEW r \in exact, d.version = version PROVE r = d
    <3>1. r.channel = d.channel /\ r.version = d.version /\ r \in list
      BY <2>3 DEF Asked
    <3>2. d # External /\ r # External
      BY <2>3, <3>1, RuntimeAssumption DEF External
    <3>3. PICK t \in Tree, u \in Tree : d = Descriptor(t) /\ r = Descriptor(u)
      BY <3>1, <3>2 DEF Listed
    <3>4. t.arch = u.arch
      BY <3>1, <3>3 DEF Descriptor, Channel, Tree, Arch
    <3> QED BY <3>1, <3>3, <3>4 DEF Descriptor
  <2> QED BY <1>1, <2>1, <2>2, <2>3
<1>3. CASE exact = {}
  <2>1. chosen = FirstOf(ofChannel)
    BY <1>1, <1>3 DEF SelectRuntime
  <2>2. FirstOf(ofChannel) \in ofChannel
    BY <1>1, ListedFirst
  <2>3. d.version # version
    BY <1>1, <1>3
  <2> QED BY <1>1, <2>1, <2>2, <2>3
<1> QED BY <1>2, <1>3

(* A listed runtime is of the channel that its path shows, or the one from   *)
(* the environment.                                                          *)
LEMMA ListedPath ==
    ASSUME NEW list, Listed(list), NEW r \in list
    PROVE  r \in Runtime /\ (r.path = ExternalPath \/ Channel(r.path[1]) = r.channel)
  BY DescriptorTyped DEF Listed, Descriptor, External, TreePath

(* What select_runtime answers is a runtime.                                 *)
LEMMA SelectTyped ==
    ASSUME NEW list, Listed(list), NEW version \in Version,
           NEW path \in {Absent, ClientPath}, NEW channel \in {Absent} \cup Channels
    PROVE  SelectRuntime(list, version, path, channel) \in Runtime
<1> DEFINE asked == IF channel = Absent THEN "rossetta" ELSE channel
           chosen == SelectRuntime(list, version, path, channel)
<1>1. asked \in Channels /\ "custom" \in Channels
  BY DEF Channels, Channel, Arch
<1>2. CASE path # Absent
  BY <1>1, <1>2 DEF SelectRuntime, Runtime
<1>3. CASE path = Absent /\ \E d \in list : d.channel = asked
  BY <1>3, Selected, ListedPath DEF Asked
<1>4. CASE path = Absent /\ \A d \in list : d.channel # asked
  <2>1. chosen = [channel |-> asked, version |-> version,
                  path |-> TreePath("x86_64", version)]
    BY <1>4 DEF SelectRuntime
  <2>2. "x86_64" \in Arch
    BY DEF Arch
  <2> QED BY <1>1, <2>1, <2>2 DEF Runtime
<1> QED BY <1>2, <1>3, <1>4

(* A start lists every tree that is there (service.rs:37), and nothing else  *)
(* but the runtime from the environment.                                     *)
LEMMA StartLists ==
    ASSUME ProcTyped, ListInv, NEW d \in Daemon, StartDaemon(d) \/ StartStep(d)
    PROVE  ListInv'
<1> USE DEF Goes, DaemonAt, ProcTyped, ListInv
<1>1. CASE StartDaemon(d)
  BY <1>1 DEF StartDaemon
<1>2. CASE CheckSocket(d)
  BY <1>2 DEF CheckSocket
<1>3. CASE RemoveSocket(d)
  BY <1>3 DEF RemoveSocket
<1>4. CASE RemoveSocketFails(d)
  BY <1>4 DEF RemoveSocketFails
<1>5. CASE BindSocket(d)
  BY <1>5 DEF BindSocket
<1>6. CASE BindSocketFails(d)
  BY <1>6 DEF BindSocketFails
<1>7. CASE ConstructService(d)
  <2>1. PICK extra \in SUBSET {External} :
           daemon' = [daemon EXCEPT ![d] =
              [pc |-> "serving", list |-> DiscoverRuntimes(trees) \cup extra,
               kept |-> trees]]
    BY <1>7 DEF ConstructService
  <2>2. Listed(DiscoverRuntimes(trees) \cup extra)
    BY DaemonAssumption DEF Listed, DiscoverRuntimes
  <2> QED BY <2>1, <2>2
<1> QED BY <1>1, <1>2, <1>3, <1>4, <1>5, <1>6, <1>7 DEF StartStep

(* Every step of a call keeps the calls typed.                               *)
LEMMA CallStepTyped ==
    ASSUME FilesTypeOK, ProcTyped, ListInv, CallsTyped, NEW c \in Client,
           \/ \E cmd \in Commands : Call(c, cmd)
           \/ CallRefused(c) \/ CallStep(c) \/ IoError(c)
    PROVE  CallsTyped'
<1> USE DEF CallAt, Move
<1>1. CASE \E cmd \in Commands : Call(c, cmd)
  <2>1. PICK cmd \in Commands : Call(c, cmd)
    BY <1>1
  <2> DEFINE x == [pc |-> "queued", to |-> sock, cmd |-> cmd, left |-> {}, got |-> {},
                   must |-> {}, may |-> {}, kept |-> {}]
  <2>2. x.cmd = cmd /\ x \in CallOf(cmd)
    <3>1. sock \in Daemon
      BY <2>1 DEF Call, Answers, ProcTyped
    <3> QED BY <3>1 DEF CallOf
  <2>3. call' = [call EXCEPT ![c] = x]
    BY <2>1 DEF Call
  <2> HIDE DEF x
  <2> QED BY <2>2, <2>3, CallUpdated DEF CallTyped
<1>2. CASE CallRefused(c)
  BY <1>2 DEF CallRefused, CallsTyped
<1>3. CASE CallEnds(c)
  BY <1>3, CallUpdated DEF CallEnds, CallTyped
<1>4. CASE (CallStep(c) \/ IoError(c)) /\ ~CallEnds(c)
  <2>0. call[c].pc # "idle"
    BY <1>4 DEF CallStep, IoError, OnBundle, Accept, TellRuntimes, BottleRequestEnds,
       SelectForBottle, OpenRecipes, SkipEntry, LoadRecipe, LoadRecipeFails, ListDone,
       FindRecipe, RecipeNotFound, ReadRecord, ProbeBundle, ClearBundle, ClearBundleFails,
       MakeBundle, WritePlist, WriteLauncher, SetMode, BundleGone
  <2>1. /\ call[c].cmd \in Commands /\ call[c] \in CallOf(call[c].cmd)
        /\ call[c].cmd \in Command
        /\ {"queued", "ok", "failed", "closed"} \subseteq Places(call[c].cmd)
        /\ call[c].pc = "queued" => Handler(Method(call[c].cmd)) \in Places(call[c].cmd)
        /\ call[c].pc = "select" => call[c].cmd.sub = "create"
        /\ call[c].pc \in {"open", "scan"} => "scan" \in Places(call[c].cmd)
        /\ call[c].pc \in {"record", "probe"} \cup Writing =>
              {"probe"} \cup Writing \subseteq Places(call[c].cmd)
    BY <2>0, CallPlaces DEF CallsTyped
  <2> DEFINE To(pc) == call' = [call EXCEPT ![c].pc = pc]
  <2>2. ASSUME \E pc \in Places(call[c].cmd) : To(pc) PROVE CallsTyped'
    BY <2>2, <2>0, Moved
  <2> HIDE DEF To
  <2>3. CASE Accept(c)
    BY <2>3, <2>1, <2>2 DEF Accept, To
  <2>4. CASE BottleRequestEnds(c)
    BY <2>4, <2>1, <2>2 DEF BottleRequestEnds, To
  <2>5. CASE ReadRecord(c) \/ ProbeBundle(c) \/ ClearBundle(c) \/ ClearBundleFails(c)
             \/ MakeBundle(c) \/ WritePlist(c) \/ WriteLauncher(c)
    <3>1. call[c].pc \in {"record", "probe"} \cup Writing
      BY <2>5 DEF ReadRecord, ProbeBundle, ClearBundle, ClearBundleFails,
         MakeBundle, WritePlist, WriteLauncher, Writing
    <3>2. \E pc \in {"probe", "failed"} \cup Writing : To(pc)
      BY <2>5 DEF ReadRecord, ProbeBundle, ClearBundle, ClearBundleFails,
         MakeBundle, WritePlist, WriteLauncher, To, Writing
    <3> QED BY <3>1, <3>2, <2>1, <2>2
  <2>6. CASE SetMode(c) \/ BundleGone(c) \/ IoError(c) \/ ListDone(c)
    <3>1. \E pc \in {"ok", "failed"} : To(pc)
      BY <2>6 DEF SetMode, BundleGone, IoError, ListDone, To
    <3> QED BY <3>1, <2>1, <2>2
  <2>7. CASE \E f \in RecipeFile : LoadRecipeFails(c, f)
    BY <2>7, <2>1, <2>2 DEF LoadRecipeFails, To
  <2> DEFINE x == call[c]
  <2>x. c \in DOMAIN call
    BY DEF CallsTyped
  <2>8. CASE TellRuntimes(c)
    <3>1. daemon[x.to].list \in SUBSET Runtime
      BY <2>1 DEF CallOf, ProcTyped
    <3>2. call' = [call EXCEPT ![c] = [x EXCEPT !.pc = "ok", !.got = daemon[x.to].list]]
      BY <2>8, <2>x DEF TellRuntimes
    <3> QED BY <2>0, <2>1, <3>1, <3>2, FieldsTyped, Rewritten
  <2>9. CASE SelectForBottle(c)
    <3> DEFINE r == SelectRuntime(daemon[x.to].list, x.cmd.version, x.cmd.path, x.cmd.channel)
    <3>1. x.to \in Daemon /\ x.cmd.sub = "create"
      BY <2>9, <2>1 DEF CallOf, SelectForBottle
    <3>2. /\ x.cmd.version \in Version /\ x.cmd.path \in {Absent, ClientPath}
          /\ x.cmd.channel \in {Absent} \cup Channels
      BY <2>1, <3>1 DEF Command
    <3>3. Listed(daemon[x.to].list)
      BY <3>1 DEF ListInv
    <3>4. r \in Runtime
      BY <3>2, <3>3, SelectTyped
    <3>5. daemon[x.to].kept \in SUBSET Trees
      BY <3>1 DEF ProcTyped
    <3>6. call' = [call EXCEPT ![c] =
             [x EXCEPT !.pc = "ok", !.got = {r}, !.kept = daemon[x.to].kept]]
      BY <2>9, <2>x DEF SelectForBottle
    <3> HIDE DEF r
    <3>7. {r} \in SUBSET (RecipeFile \cup Runtime) /\ "ok" \in Places(x.cmd)
      BY <2>1, <3>4
    <3>8. [x EXCEPT !.pc = "ok", !.got = {r}, !.kept = daemon[x.to].kept] \in CallOf(x.cmd)
      BY <2>1, <3>5, <3>7, FieldsTyped
    <3> QED BY <2>0, <3>6, <3>8, Rewritten
  <2>10. CASE OpenRecipes(c)
    <3>1. call' = [call EXCEPT ![c] =
             [x EXCEPT !.pc = "scan", !.left = recipes, !.must = recipes, !.may = recipes]]
      BY <2>10, <2>x DEF OpenRecipes
    <3>2. "scan" \in Places(x.cmd) /\ recipes \in SUBSET RecipeFile
      BY <2>10, <2>1 DEF OpenRecipes, FilesTypeOK
    <3>3. [x EXCEPT !.pc = "scan", !.left = recipes, !.must = recipes, !.may = recipes]
             \in CallOf(x.cmd)
      BY <2>1, <3>2, FieldsTyped
    <3> QED BY <2>0, <3>1, <3>3, Rewritten
  <2>11. CASE \E f \in RecipeFile : SkipEntry(c, f)
    <3>1. PICK f \in RecipeFile : SkipEntry(c, f)
      BY <2>11
    <3>2. call' = [call EXCEPT ![c] = [x EXCEPT !.left = @ \ {f}]]
      BY <3>1, <2>x DEF SkipEntry
    <3>3. x.left \ {f} \in SUBSET RecipeFile
      BY <2>1 DEF CallOf
    <3>4. x.pc \in Places(x.cmd)
      BY <2>1 DEF CallOf, Places
    <3>5. [x EXCEPT !.left = @ \ {f}] \in CallOf(x.cmd)
      BY <2>1, <3>3, <3>4, FieldsTyped
    <3> QED BY <2>0, <3>2, <3>5, Rewritten
  <2>12. CASE \E f \in RecipeFile : LoadRecipe(c, f)
    <3>1. PICK f \in RecipeFile : LoadRecipe(c, f)
      BY <2>12
    <3>2. call' = [call EXCEPT ![c] = [x EXCEPT !.left = @ \ {f}, !.got = @ \cup {f}]]
      BY <3>1, <2>x DEF LoadRecipe
    <3>3. x.left \ {f} \in SUBSET RecipeFile /\ x.got \cup {f} \in SUBSET (RecipeFile \cup Runtime)
      BY <2>1 DEF CallOf
    <3>4. x.pc \in Places(x.cmd)
      BY <2>1 DEF CallOf, Places
    <3>5. [x EXCEPT !.left = @ \ {f}, !.got = @ \cup {f}] \in CallOf(x.cmd)
      BY <2>1, <3>3, <3>4, FieldsTyped
    <3> QED BY <2>0, <3>2, <3>5, Rewritten
  <2>13. CASE FindRecipe(c) \/ RecipeNotFound(c)
    <3>1. PICK pc \in {"ok", "failed"}, got \in SUBSET x.got :
             call' = [call EXCEPT ![c].pc = pc, ![c].got = got]
      BY <2>13 DEF FindRecipe, RecipeNotFound, FindIn
    <3>2. call' = [call EXCEPT ![c] = [x EXCEPT !.pc = pc, !.got = got]]
      BY <3>1, <2>x
    <3>3. got \in SUBSET (RecipeFile \cup Runtime)
      BY <2>1 DEF CallOf
    <3>5. [x EXCEPT !.pc = pc, !.got = got] \in CallOf(x.cmd)
      BY <2>1, <3>3, FieldsTyped
    <3> QED BY <2>0, <3>2, <3>5, Rewritten
  <2> QED BY <1>4, <2>3, <2>4, <2>5, <2>6, <2>7, <2>8, <2>9, <2>10, <2>11, <2>12, <2>13
             DEF CallStep
<1> QED BY <1>1, <1>2, <1>3, <1>4

(* No step of a call changes the processes, the trees or the recipes.        *)
LEMMA CallFrame ==
    ASSUME NEW c \in Client,
           \/ \E cmd \in Commands : Call(c, cmd)
           \/ CallRefused(c) \/ CallStep(c) \/ IoError(c)
    PROVE  UNCHANGED <<procVars, trees, recipes>>
  BY DEF Call, CallRefused, CallStep, IoError, Accept, TellRuntimes, BottleRequestEnds,
     SelectForBottle, OpenRecipes, SkipEntry, LoadRecipe, LoadRecipeFails, ListDone,
     FindRecipe, RecipeNotFound, ReadRecord, ProbeBundle, ClearBundle, ClearBundleFails,
     MakeBundle, WritePlist, WriteLauncher, SetMode, BundleGone, CallEnds, procVars

(* The end of a process keeps types and lists.                               *)
LEMMA ExitKeeps ==
    ASSUME FilesTypeOK, ProcTyped, ListInv, CallsTyped, NEW d \in Daemon, Exit(d)
    PROVE  ProcTyped' /\ ListInv' /\ CallsTyped'
<1>1. ProcTyped'
  BY DEF Exit, ProcTyped, Stopped, DaemonLocation
<1>2. ListInv'
  <2>1. Listed({}) /\ DiscoverRuntimes({}) = {}
    BY DEF Listed, DiscoverRuntimes
  <2>2. daemon' = [daemon EXCEPT ![d] = Stopped] /\ Stopped.list = {} /\ Stopped.kept = {}
    BY DEF Exit, Stopped
  <2>3. ASSUME NEW e \in Daemon
        PROVE  Listed(daemon'[e].list)
               /\ DiscoverRuntimes(daemon'[e].kept) \subseteq daemon'[e].list
    <3>1. CASE e = d
      BY <2>1, <2>2, <3>1 DEF ProcTyped
    <3>2. CASE e # d
      BY <2>2, <3>2 DEF ProcTyped, ListInv
    <3> QED BY <3>1, <3>2
  <2> QED BY <2>3 DEF ListInv, Listed, DiscoverRuntimes
<1>3. CallsTyped'
  <2>1. PICK lost \in SUBSET Client :
           /\ \A c \in lost : Waiting(c)
           /\ call' = [c \in Client |->
                 IF c \in lost THEN [call[c] EXCEPT !.pc = "closed"] ELSE call[c]]
    BY DEF Exit
  <2>2. ASSUME NEW c \in Client PROVE CallTyped(call'[c])
    <3>1. CASE c \in lost
      <4>1. call[c].pc # "idle"
        BY <2>1, <3>1 DEF Waiting, InHandler, CallAt
      <4>2. call[c].cmd \in Commands /\ call[c] \in CallOf(call[c].cmd)
            /\ "closed" \in Places(call[c].cmd)
        BY <4>1, CallPlaces DEF CallsTyped
      <4>3. [call[c] EXCEPT !.pc = "closed"] \in CallOf(call[c].cmd)
        BY <4>2 DEF CallOf, Places
      <4>4. [call[c] EXCEPT !.pc = "closed"].cmd = call[c].cmd
        BY <4>2 DEF CallOf
      <4> QED BY <2>1, <3>1, <4>2, <4>3, <4>4 DEF CallTyped
    <3>2. CASE c \notin lost
      BY <2>1, <3>2 DEF CallsTyped
    <3> QED BY <3>1, <3>2
  <2>3. DOMAIN call' = Client
    BY <2>1
  <2> QED BY <2>2, <2>3 DEF CallsTyped, CallTyped, CallOf
<1> QED BY <1>1, <1>2, <1>3

(* So does a tree that is removed: no daemon's list changes, and there is    *)
(* less that it must hold.                                                   *)
LEMMA RemoveTreeKeeps ==
    ASSUME ProcTyped, ListInv, NEW t \in Trees, RemoveTree(t)
    PROVE  ProcTyped' /\ ListInv'
<1>1. /\ sock' = sock /\ upset' = upset /\ trees' \subseteq Trees
      /\ daemon' = [d \in Daemon |-> [daemon[d] EXCEPT !.kept = @ \ {t}]]
  BY DEF RemoveTree, ProcTyped
<1>2. ASSUME NEW d \in Daemon
      PROVE  /\ daemon'[d].pc = daemon[d].pc /\ daemon'[d].list = daemon[d].list
             /\ daemon'[d].kept \subseteq daemon[d].kept
             /\ daemon'[d] \in [pc: DaemonLocation, list: SUBSET Runtime, kept: SUBSET Trees]
  <2>1. daemon[d] \in [pc: DaemonLocation, list: SUBSET Runtime, kept: SUBSET Trees]
    BY DEF ProcTyped
  <2>2. daemon'[d] = [daemon[d] EXCEPT !.kept = @ \ {t}]
    BY <1>1
  <2> QED BY <2>1, <2>2
<1>3. DOMAIN daemon' = Daemon /\ daemon' = [d \in Daemon |-> daemon'[d]]
  BY <1>1
<1>4. ProcTyped'
  BY <1>1, <1>2, <1>3 DEF ProcTyped
<1>5. ListInv'
  BY <1>2 DEF ListInv, DiscoverRuntimes, Listed
<1> QED BY <1>4, <1>5

(* Every step of a daemon or its clients keeps processes, lists and calls    *)
(* typed.                                                                    *)
LEMMA ProcKept ==
    ASSUME FilesTypeOK, ProcTyped, ListInv, CallsTyped, DaemonNext
    PROVE  ProcTyped' /\ ListInv' /\ CallsTyped'
<1>1. ASSUME NEW d \in Daemon, StartDaemon(d) \/ StartStep(d)
      PROVE  ProcTyped' /\ ListInv' /\ CallsTyped'
  <2>1. call' = call
    BY <1>1 DEF StartDaemon, StartStep, CheckSocket, RemoveSocket, RemoveSocketFails,
       BindSocket, BindSocketFails, ConstructService
  <2>2. CallsTyped'
    BY <2>1 DEF CallsTyped, CallTyped
  <2> QED BY <1>1, <2>2, StartTyped, StartLists
<1>2. ASSUME NEW d \in Daemon, EndDaemon(d) \/ ConstructFails(d)
      PROVE  ProcTyped' /\ ListInv' /\ CallsTyped'
  BY <1>2, ExitKeeps DEF EndDaemon, ConstructFails
<1>3. ASSUME NEW c \in Client,
             \/ \E cmd \in Commands : Call(c, cmd)
             \/ CallRefused(c) \/ CallStep(c) \/ IoError(c)
      PROVE  ProcTyped' /\ ListInv' /\ CallsTyped'
  <2>1. CallsTyped'
    BY <1>3, CallStepTyped
  <2>2. sock' = sock /\ daemon' = daemon /\ upset' = upset /\ trees' = trees
    BY <1>3, CallFrame DEF procVars
  <2> QED BY <2>1, <2>2 DEF ProcTyped, ListInv
<1>4. ASSUME NEW t \in Trees, InstallTree(t)
      PROVE  ProcTyped' /\ ListInv' /\ CallsTyped'
  BY <1>4 DEF InstallTree, procVars, ProcTyped, ListInv, CallsTyped, CallTyped
<1>5. ASSUME NEW t \in Trees, RemoveTree(t)
      PROVE  ProcTyped' /\ ListInv' /\ CallsTyped'
  <2>1. call' = call
    BY <1>5 DEF RemoveTree
  <2>2. CallsTyped'
    BY <2>1 DEF CallsTyped, CallTyped
  <2> QED BY <1>5, <2>2, RemoveTreeKeeps
<1> QED BY <1>1, <1>2, <1>3, <1>4, <1>5 DEF DaemonNext

(* A call that looks at a bundle has a bundle's path and a bottle.           *)
LEMMA PathTyped ==
    ASSUME CallsTyped, NEW c \in Client, call[c].pc \in {"probe"} \cup Writing
    PROVE  PathOf(c) \in BundlePath /\ call[c].cmd.bottle \in Bottle
<1>1. call[c].pc # "idle" /\ CallTyped(call[c])
  BY DEF CallsTyped, Writing
<1>2. call[c].cmd \in Command /\ call[c].cmd.sub = "shortcut create"
  BY <1>1, CallPlaces
<1>3. call[c].cmd \in [sub: {"shortcut create"}, bottle: Bottle, name: ShortcutName]
  BY <1>2 DEF Command
<1> QED BY <1>3 DEF PathOf, BundlePath

(* Writing a coherent bundle keeps the bundles typed.                        *)
LEMMA Written ==
    ASSUME DiskTyped, CallsTyped, NEW c \in Client, call[c].pc \in {"probe"} \cup Writing,
           NEW b \in Bundle, Coherent(b), Write(c, b)
    PROVE  bundle' \in [BundlePath -> Bundle] /\ \A p \in BundlePath : Coherent(bundle'[p])
  BY PathTyped DEF Write, DiskTyped

(* What a failure marks is a mark per path.                                  *)
LEMMA SpoiledTyped ==
    ASSUME DiskTyped, NEW cs
    PROVE  Spoiled(cs) \in [BundlePath -> BOOLEAN]
  BY DEF DiskTyped, Spoiled

(* Every step keeps the bundles typed and coherent.                          *)
LEMMA DiskKept ==
    ASSUME ProcTyped, CallsTyped, DiskTyped, DaemonNext
    PROVE  DiskTyped'
<1> USE DEF CallAt
<1> DEFINE BundleTyped == /\ bundle \in [BundlePath -> Bundle]
                          /\ \A p \in BundlePath : Coherent(bundle[p])
           RestTyped == /\ tangled \in [BundlePath -> BOOLEAN]
                        /\ owner \in [BundlePath -> Bottle \cup {None}]
<1>0. /\ BundleTyped /\ RestTyped
      /\ UNCHANGED bundle => BundleTyped'
      /\ UNCHANGED <<tangled, owner>> => RestTyped'
      /\ BundleTyped' /\ RestTyped' => DiskTyped'
  BY DEF DiskTyped
<1>1. ASSUME UNCHANGED diskVars PROVE DiskTyped'
  BY <1>1 DEF diskVars, DiskTyped
<1>2. ASSUME NEW d \in Daemon, StartDaemon(d) \/ StartStep(d) PROVE DiskTyped'
  BY <1>2, <1>1 DEF StartDaemon, StartStep, CheckSocket, RemoveSocket, RemoveSocketFails,
       BindSocket, BindSocketFails, ConstructService
<1>3. ASSUME NEW cs, tangled' = Spoiled(cs), UNCHANGED <<bundle, owner>> PROVE DiskTyped'
  BY <1>3, SpoiledTyped DEF DiskTyped
<1>4. ASSUME NEW d \in Daemon, EndDaemon(d) \/ ConstructFails(d) PROVE DiskTyped'
  BY <1>4, <1>3 DEF EndDaemon, ConstructFails, Exit
<1>5. ASSUME NEW t \in Trees, InstallTree(t) \/ RemoveTree(t) PROVE DiskTyped'
  BY <1>5, <1>1 DEF InstallTree, RemoveTree
<1>6. ASSUME NEW c \in Client, (\E cmd \in Commands : Call(c, cmd)) \/ CallRefused(c)
      PROVE  DiskTyped'
  BY <1>6, <1>1 DEF Call, CallRefused
<1>7. ASSUME NEW c \in Client, IoError(c) \/ BundleGone(c) PROVE DiskTyped'
  BY <1>7, <1>3 DEF IoError, BundleGone
<1>8. ASSUME NEW c \in Client,
             \/ Accept(c) \/ TellRuntimes(c) \/ BottleRequestEnds(c)
             \/ SelectForBottle(c) \/ OpenRecipes(c)
             \/ \E f \in RecipeFile :
                   SkipEntry(c, f) \/ LoadRecipe(c, f) \/ LoadRecipeFails(c, f)
             \/ ListDone(c) \/ FindRecipe(c) \/ RecipeNotFound(c)
             \/ ReadRecord(c) \/ CallEnds(c)
      PROVE  DiskTyped'
  BY <1>8, <1>1 DEF Accept, TellRuntimes, BottleRequestEnds,
     SelectForBottle, OpenRecipes, SkipEntry, LoadRecipe, LoadRecipeFails, ListDone,
     FindRecipe, RecipeNotFound, ReadRecord, CallEnds
<1>9. ASSUME NEW c \in Client, ProbeBundle(c) PROVE DiskTyped'
  <2>1. bundle' = bundle /\ owner' = owner /\ tangled' \in [BundlePath -> BOOLEAN]
    BY <1>9 DEF ProbeBundle, DiskTyped
  <2> QED BY <2>1 DEF DiskTyped
<1>10. ASSUME NEW c \in Client, ClearBundle(c) PROVE DiskTyped'
  <2>1. NoBundle \in Bundle /\ Coherent(NoBundle)
    BY DEF NoBundle, Bundle, Coherent
  <2>2. BundleTyped'
    BY <1>10, <2>1, Written DEF ClearBundle, Writing
  <2> QED BY <1>10, <1>0, <2>2 DEF ClearBundle
<1>11. ASSUME NEW c \in Client, ClearBundleFails(c) PROVE DiskTyped'
  <2>1. RestTyped'
    BY <1>11, SpoiledTyped DEF ClearBundleFails, DiskTyped
  <2>2. CASE UNCHANGED bundle
    BY <2>1, <2>2, <1>0
  <2>3. CASE ~UNCHANGED bundle
    <3> DEFINE p == PathOf(c)
    <3>1. bundle[p] \in Bundle /\ Coherent(bundle[p]) /\ p \in BundlePath
      BY <1>11, PathTyped DEF ClearBundleFails, Writing, DiskTyped
    <3>2. PICK plist \in {bundle[p].plist, None}, launch \in {bundle[p].launch, None} :
             Write(c, [there |-> TRUE, plist |-> plist, launch |-> launch,
                       exec |-> bundle[p].exec /\ launch # None])
      BY <1>11, <2>3 DEF ClearBundleFails
    <3> DEFINE b == [there |-> TRUE, plist |-> plist, launch |-> launch,
                     exec |-> bundle[p].exec /\ launch # None]
    <3>3. bundle[p].plist \in Bottle \cup {None} /\ bundle[p].launch \in Bottle \cup {None}
      BY <3>1 DEF Bundle
    <3>4. plist \in Bottle \cup {None} /\ launch \in Bottle \cup {None}
      BY <3>2, <3>3
    <3>5. (bundle[p].exec /\ launch # None) \in BOOLEAN
      OBVIOUS
    <3>6. b \in Bundle
      BY <3>4, <3>5 DEF Bundle
    <3>7. b.exec = (bundle[p].exec /\ launch # None) /\ b.launch = launch /\ b.there
      OBVIOUS
    <3>8. Coherent(b)
      BY <3>7 DEF Coherent
    <3>9. BundleTyped'
      BY <1>11, <3>2, <3>6, <3>8, Written DEF ClearBundleFails, Writing
    <3> QED BY <2>1, <3>9, <1>0
  <2> QED BY <2>2, <2>3
<1>12. ASSUME NEW c \in Client, MakeBundle(c) \/ WritePlist(c) \/ WriteLauncher(c) \/ SetMode(c)
       PROVE  DiskTyped'
  <2> DEFINE p == PathOf(c)
  <2>1. /\ p \in BundlePath /\ bundle[p] \in Bundle /\ Coherent(bundle[p])
        /\ call[c].cmd.bottle \in Bottle /\ call[c].pc \in {"probe"} \cup Writing
    BY <1>12, PathTyped DEF MakeBundle, WritePlist, WriteLauncher, SetMode, Writing, DiskTyped
  <2>2. RestTyped'
    BY <1>12, <2>1 DEF MakeBundle, WritePlist, WriteLauncher, SetMode, DiskTyped
  <2>3. PICK b \in Bundle : Coherent(b) /\ Write(c, b)
    <3>1. CASE MakeBundle(c)
      <4>1. [bundle[p] EXCEPT !.there = TRUE] \in Bundle
            /\ Coherent([bundle[p] EXCEPT !.there = TRUE])
        BY <2>1 DEF Bundle, Coherent
      <4> QED BY <3>1, <4>1 DEF MakeBundle
    <3>2. CASE WritePlist(c)
      <4>1. [bundle[p] EXCEPT !.plist = call[c].cmd.bottle] \in Bundle
            /\ Coherent([bundle[p] EXCEPT !.plist = call[c].cmd.bottle])
        BY <2>1, <3>2 DEF Bundle, Coherent, WritePlist
      <4> QED BY <3>2, <4>1 DEF WritePlist
    <3>3. CASE WriteLauncher(c)
      <4>1. [bundle[p] EXCEPT !.launch = call[c].cmd.bottle] \in Bundle
            /\ Coherent([bundle[p] EXCEPT !.launch = call[c].cmd.bottle])
        BY <2>1, <3>3, DaemonAssumption DEF Bundle, Coherent, WriteLauncher
      <4> QED BY <3>3, <4>1 DEF WriteLauncher
    <3>4. CASE SetMode(c)
      <4>1. [bundle[p] EXCEPT !.exec = TRUE] \in Bundle
            /\ Coherent([bundle[p] EXCEPT !.exec = TRUE])
        BY <2>1, <3>4 DEF Bundle, Coherent, SetMode
      <4> QED BY <3>4, <4>1 DEF SetMode
    <3> QED BY <1>12, <3>1, <3>2, <3>3, <3>4
  <2>4. BundleTyped'
    BY <2>1, <2>3, Written
  <2> QED BY <2>2, <2>4, <1>0
<1> HIDE DEF BundleTyped, RestTyped
<1> QED BY <1>2, <1>4, <1>5, <1>6, <1>7, <1>8, <1>9, <1>10, <1>11, <1>12 DEF DaemonNext, CallStep

(* Spending an event keeps the bounds typed.                                 *)
LEMMA Spent ==
    ASSUME FilesTypeOK, NEW e \in Event, Spend(e)
    PROVE  budget' \in [Event -> Nat]
  BY DEF FilesTypeOK, Spend

(* No step here changes the recipes, and each keeps the bounds typed.        *)
LEMMA DaemonFiles ==
    ASSUME FilesTypeOK, CallsTyped, DaemonNext
    PROVE  FilesTypeOK' /\ recipes' = recipes
<1>1. ASSUME NEW cmd \in Commands PROVE EventOf(cmd) \in Event
  BY DEF EventOf, Event
<1>2. ASSUME UNCHANGED budget \/ \E e \in Event : Spend(e)
      PROVE  budget' \in [Event -> Nat]
  BY <1>2, Spent DEF FilesTypeOK
<1>3. UNCHANGED budget \/ \E e \in Event : Spend(e)
  <2>1. {"start", "end", "error", "tree", "other"} \subseteq Event
    BY DEF Event
  <2>2. ASSUME NEW d \in Daemon,
               StartDaemon(d) \/ StartStep(d) \/ EndDaemon(d) \/ ConstructFails(d)
        PROVE  UNCHANGED budget \/ \E e \in Event : Spend(e)
    BY <2>1, <2>2 DEF StartDaemon, StartStep, CheckSocket, RemoveSocket, RemoveSocketFails,
       BindSocket, BindSocketFails, ConstructService, EndDaemon, ConstructFails
  <2>3. ASSUME NEW c \in Client, NEW cmd \in Commands, Call(c, cmd)
        PROVE  UNCHANGED budget \/ \E e \in Event : Spend(e)
    BY <1>1, <2>3 DEF Call
  <2>4. ASSUME NEW c \in Client, CallRefused(c) \/ IoError(c)
        PROVE  UNCHANGED budget \/ \E e \in Event : Spend(e)
    BY <2>1, <2>4 DEF CallRefused, IoError
  <2>5. ASSUME NEW c \in Client, CallStep(c) PROVE UNCHANGED budget
    BY <2>5 DEF CallStep, Accept, TellRuntimes, BottleRequestEnds,
     SelectForBottle, OpenRecipes, SkipEntry, LoadRecipe, LoadRecipeFails, ListDone,
     FindRecipe, RecipeNotFound, ReadRecord, ProbeBundle, ClearBundle, ClearBundleFails,
     MakeBundle, WritePlist, WriteLauncher, SetMode, BundleGone, CallEnds
  <2>6. ASSUME NEW t \in Trees, InstallTree(t) \/ RemoveTree(t)
        PROVE  UNCHANGED budget \/ \E e \in Event : Spend(e)
    BY <2>1, <2>6 DEF InstallTree, RemoveTree
  <2> QED BY <2>2, <2>3, <2>4, <2>5, <2>6 DEF DaemonNext
<1>4. recipes' = recipes
  <2>1. ASSUME NEW d \in Daemon,
               StartDaemon(d) \/ StartStep(d) \/ EndDaemon(d) \/ ConstructFails(d)
        PROVE  recipes' = recipes
    BY <2>1 DEF StartDaemon, StartStep, CheckSocket, RemoveSocket, RemoveSocketFails,
       BindSocket, BindSocketFails, ConstructService, EndDaemon, ConstructFails, Exit
  <2>2. ASSUME NEW t \in Trees, InstallTree(t) \/ RemoveTree(t) PROVE recipes' = recipes
    BY <2>2 DEF InstallTree, RemoveTree
  <2> QED BY <2>1, <2>2, CallFrame DEF DaemonNext
<1> QED BY <1>2, <1>3, <1>4 DEF FilesTypeOK

(* While no start has met with a failure, the socket file belongs to a live  *)
(* daemon or some start is about to bind it.                                 *)
ComesUp ==
    \/ sock \in Daemon /\ daemon[sock].pc \in {"construct", "serving"}
    \/ \E d \in Daemon : DaemonAt(d, "bind") /\ sock = None
    \/ \E d \in Daemon : DaemonAt(d, "check")
    \/ \E d \in Daemon : DaemonAt(d, "remove") /\ sock # None
ReachInv == ~upset => ComesUp

(* Every step keeps a socket file on the way to a daemon that serves, unless *)
(* it is a failure of the last start.                                        *)
LEMMA ReachKept ==
    ASSUME ProcTyped, ReachInv, DaemonNext
    PROVE  ReachInv'
<1> SUFFICES ASSUME ~upset' PROVE ComesUp'
  BY DEF ReachInv
<1> USE DEF DaemonAt, Goes
<1>0. /\ daemon \in [Daemon -> [pc: DaemonLocation, list: SUBSET Runtime, kept: SUBSET Trees]]
      /\ sock \in Daemon \cup {None} /\ None \notin Daemon
  BY DaemonAssumption DEF ProcTyped
<1>1. ASSUME UNCHANGED procVars PROVE ComesUp'
  BY <1>1 DEF ReachInv, ComesUp, procVars
<1>2. ASSUME NEW d \in Daemon, StartDaemon(d) PROVE ComesUp'
  BY <1>0, <1>2 DEF StartDaemon, ComesUp
<1>3. ASSUME NEW d \in Daemon, CheckSocket(d) PROVE ComesUp'
  BY <1>0, <1>3 DEF CheckSocket, ComesUp
<1>4. ASSUME NEW d \in Daemon, RemoveSocket(d) PROVE ComesUp'
  BY <1>0, <1>4 DEF RemoveSocket, ComesUp
<1>5. ASSUME NEW d \in Daemon, RemoveSocketFails(d) PROVE ComesUp'
  <2>1. ComesUp /\ sock = None /\ sock' = None
    BY <1>5 DEF RemoveSocketFails, ReachInv
  <2>2. PICK e \in Daemon : daemon[e].pc \in {"bind", "check"}
    BY <1>0, <2>1 DEF ComesUp
  <2>3. daemon'[e] = daemon[e]
    BY <1>0, <1>5, <2>2 DEF RemoveSocketFails
  <2> QED BY <2>1, <2>2, <2>3 DEF ComesUp
<1>6. ASSUME NEW d \in Daemon, BindSocket(d) PROVE ComesUp'
  BY <1>0, <1>6 DEF BindSocket, ComesUp
<1>7. ASSUME NEW d \in Daemon, BindSocketFails(d) PROVE ComesUp'
  <2>1. ComesUp /\ sock # None /\ sock' = sock
    BY <1>7 DEF BindSocketFails, ReachInv
  <2>2. \A e \in Daemon : daemon[e].pc # "bind" => daemon'[e] = daemon[e]
    BY <1>0, <1>7 DEF BindSocketFails
  <2>3. CASE sock \in Daemon /\ daemon[sock].pc \in {"construct", "serving"}
    BY <2>1, <2>2, <2>3 DEF ComesUp
  <2>4. CASE \E e \in Daemon : daemon[e].pc \in {"check", "remove"}
    BY <2>1, <2>2, <2>4 DEF ComesUp
  <2> QED BY <2>1, <2>3, <2>4 DEF ComesUp
<1>8. ASSUME NEW d \in Daemon, ConstructService(d) PROVE ComesUp'
  <2>1. /\ sock' = sock /\ ComesUp /\ daemon[d].pc = "construct"
        /\ daemon'[d].pc = "serving"
        /\ \A e \in Daemon : e # d => daemon'[e] = daemon[e]
    BY <1>0, <1>8 DEF ConstructService, ReachInv
  <2>2. \A e \in Daemon :
           /\ daemon[e].pc \in {"construct", "serving"}
                 => daemon'[e].pc \in {"construct", "serving"}
           /\ daemon[e].pc \in {"bind", "check", "remove"} => daemon'[e] = daemon[e]
    BY <2>1
  <2> HIDE <1>0
  <2> QED BY <2>1, <2>2 DEF ComesUp
<1>9. ASSUME NEW d \in Daemon, Exit(d) PROVE ComesUp'
  <2>1. /\ ~upset /\ sock # d /\ daemon[d].pc = "serving" /\ sock' = sock
        /\ \A e \in Daemon : e # d => daemon'[e] = daemon[e]
    BY <1>0, <1>9 DEF Exit
  <2> QED BY <2>1 DEF ReachInv, ComesUp
<1>10. ASSUME NEW t \in Trees, RemoveTree(t) PROVE ComesUp'
  <2>1. /\ sock' = sock /\ upset' = upset
        /\ \A e \in Daemon : daemon'[e].pc = daemon[e].pc
    BY <1>0, <1>10 DEF RemoveTree
  <2> QED BY <2>1 DEF ReachInv, ComesUp
<1>11. ASSUME NEW t \in Trees, InstallTree(t) PROVE ComesUp'
  BY <1>1, <1>11 DEF InstallTree
<1>12. ASSUME NEW d \in Daemon, EndDaemon(d) \/ ConstructFails(d) PROVE ComesUp'
  BY <1>9, <1>12 DEF EndDaemon, ConstructFails
<1>13. ASSUME NEW c \in Client,
              \/ \E cmd \in Commands : Call(c, cmd)
              \/ CallRefused(c) \/ CallStep(c) \/ IoError(c)
       PROVE  ComesUp'
  BY <1>1, <1>13, CallFrame
<1> QED BY <1>2, <1>3, <1>4, <1>5, <1>6, <1>7, <1>8, <1>10, <1>11, <1>12, <1>13
           DEF DaemonNext, StartStep

(* What a call that ended was given came from what its daemon had listed.    *)
Honoured(x) ==
    x.pc = "ok" /\ x.cmd.sub = "create" /\ x.cmd.path = Absent
    => \A r \in x.got, d \in DiscoverRuntimes(x.kept) :
          d.channel = Asked(x.cmd.channel)
          => /\ d.version = x.cmd.version => r = d
             /\ r.channel = d.channel
             /\ r.path = ExternalPath \/ Channel(r.path[1]) = d.channel
HonouredInv == \A c \in Client : call[c].pc # "idle" => Honoured(call[c])

(* Every step keeps what was answered to bottle.create within what its       *)
(* daemon had listed.                                                        *)
LEMMA HonouredKept ==
    ASSUME CallsTyped, ListInv, ProcTyped, HonouredInv, DaemonNext
    PROVE  HonouredInv'
<1> USE DEF CallAt, Move
<1>0. DOMAIN call = Client
  BY DEF CallsTyped
<1>1. ASSUME UNCHANGED call PROVE HonouredInv'
  BY <1>1 DEF HonouredInv, Honoured
<1>2. ASSUME NEW d \in Daemon, StartDaemon(d) \/ StartStep(d) PROVE HonouredInv'
  BY <1>1, <1>2 DEF StartDaemon, StartStep, CheckSocket, RemoveSocket, RemoveSocketFails,
       BindSocket, BindSocketFails, ConstructService
<1>3. ASSUME NEW t \in Trees, InstallTree(t) \/ RemoveTree(t) PROVE HonouredInv'
  BY <1>1, <1>3 DEF InstallTree, RemoveTree
<1>4. ASSUME NEW d \in Daemon, Exit(d) PROVE HonouredInv'
  <2>1. ASSUME NEW c \in Client, call'[c].pc # "idle", call'[c].pc = "ok"
        PROVE  call'[c] = call[c]
    <3>1. call'[c] = [call[c] EXCEPT !.pc = "closed"] \/ call'[c] = call[c]
      BY <1>4 DEF Exit
    <3>2. call'[c] # call[c] => call[c].pc # "idle"
      BY <1>4 DEF Exit, Waiting, InHandler
    <3>3. call[c].pc # "idle" => [call[c] EXCEPT !.pc = "closed"].pc = "closed"
      <4>1. call[c].pc # "idle" => call[c] \in CallOf(call[c].cmd)
        BY CallPlaces DEF CallsTyped
      <4> QED BY <4>1 DEF CallOf
    <3> QED BY <2>1, <3>1, <3>2, <3>3
  <2> QED BY <2>1 DEF HonouredInv, Honoured
<1>5. ASSUME NEW c \in Client, NEW x, call' = [call EXCEPT ![c] = x],
             x.pc # "idle" => Honoured(x)
      PROVE  HonouredInv'
  <2>1. call'[c] = x /\ \A e \in Client : e # c => call'[e] = call[e]
    BY <1>0, <1>5
  <2> QED BY <1>5, <2>1 DEF HonouredInv, Honoured
<1>6. ASSUME NEW c \in Client, call[c].pc # "idle", call[c].cmd.sub # "create",
             \A e \in Client : e # c => call'[e] = call[e],
             call'[c].cmd = call[c].cmd
      PROVE  HonouredInv'
  BY <1>6 DEF HonouredInv, Honoured
<1>7. ASSUME NEW c \in Client, NEW pc, pc # "ok", call[c].pc # "idle",
             call' = [call EXCEPT ![c].pc = pc]
      PROVE  HonouredInv'
  <2>1. call[c] \in CallOf(call[c].cmd)
    BY <1>7, CallPlaces DEF CallsTyped
  <2>2. call'[c] = [call[c] EXCEPT !.pc = pc] /\ \A e \in Client : e # c => call'[e] = call[e]
    BY <1>0, <1>7
  <2>3. call'[c].pc = pc
    BY <2>1, <2>2 DEF CallOf
  <2> QED BY <1>7, <2>2, <2>3 DEF HonouredInv, Honoured
<1>8. ASSUME NEW c \in Client, SelectForBottle(c) PROVE HonouredInv'
  <2> DEFINE x == call[c]
             r == SelectRuntime(daemon[x.to].list, x.cmd.version, x.cmd.path, x.cmd.channel)
             y == [x EXCEPT !.pc = "ok", !.got = {r}, !.kept = daemon[x.to].kept]
  <2>1. /\ x \in CallOf(x.cmd) /\ x.cmd \in Command /\ x.cmd.sub = "create"
    BY <1>8, CallPlaces DEF SelectForBottle, CallsTyped
  <2>2. /\ x.to \in Daemon /\ x.cmd.version \in Version
        /\ x.cmd.channel \in {Absent} \cup Channels
    BY <2>1 DEF CallOf, Command
  <2>3. Listed(daemon[x.to].list)
        /\ DiscoverRuntimes(daemon[x.to].kept) \subseteq daemon[x.to].list
    BY <2>2 DEF ListInv
  <2>4. call' = [call EXCEPT ![c] = y]
    BY <1>0, <1>8 DEF SelectForBottle
  <2> HIDE DEF r
  <2>5. y.cmd = x.cmd /\ y.got = {r} /\ y.kept = daemon[x.to].kept
    BY <2>1 DEF CallOf
  <2> HIDE DEF y
  <2>6. ASSUME x.cmd.path = Absent, NEW d \in DiscoverRuntimes(daemon[x.to].kept),
               d.channel = Asked(x.cmd.channel)
        PROVE  /\ d.version = x.cmd.version => r = d
               /\ r.channel = d.channel
               /\ r.path = ExternalPath \/ Channel(r.path[1]) = d.channel
    <3>1. d \in daemon[x.to].list
      BY <2>3
    <3>2. /\ r \in daemon[x.to].list /\ r.channel = d.channel
          /\ d.version = x.cmd.version => r = d
      BY <2>2, <2>3, <2>6, <3>1, Selected DEF r
    <3> QED BY <2>3, <3>2, ListedPath
  <2>7. Honoured(y)
    BY <2>5, <2>6 DEF Honoured
  <2> QED BY <1>5, <2>4, <2>7
<1>9. ASSUME NEW c \in Client, NEW cmd \in Commands, Call(c, cmd) PROVE HonouredInv'
  <2> DEFINE x == [pc |-> "queued", to |-> sock, cmd |-> cmd, left |-> {}, got |-> {},
                   must |-> {}, may |-> {}, kept |-> {}]
  <2>1. call' = [call EXCEPT ![c] = x] /\ x.pc = "queued"
    BY <1>9 DEF Call
  <2> HIDE DEF x
  <2>2. Honoured(x)
    BY <2>1 DEF Honoured
  <2> QED BY <1>5, <2>1, <2>2
<1>10. ASSUME NEW c \in Client, CallEnds(c) PROVE HonouredInv'
  <2>1. call' = [call EXCEPT ![c] = NoCall] /\ NoCall.pc = "idle"
    BY <1>10 DEF CallEnds, NoCall
  <2> QED BY <1>5, <2>1
<1>11. ASSUME NEW c \in Client, Accept(c) PROVE HonouredInv'
  <2>1. call[c].pc # "idle" /\ CallTyped(call[c])
    BY <1>11 DEF Accept, CallsTyped
  <2>2. call[c].cmd \in Command
    BY <2>1, CallPlaces
  <2>3. Handler(Method(call[c].cmd)) # "ok"
    BY <2>2 DEF Command, Handler, Method
  <2> QED BY <1>7, <1>11, <2>1, <2>3 DEF Accept
<1>12. ASSUME NEW c \in Client, CallStep(c) \/ IoError(c),
              ~SelectForBottle(c), ~CallEnds(c), ~Accept(c)
       PROVE  HonouredInv'
  <2>1. call[c].pc \notin {"idle", "queued", "ok", "failed", "closed", "select"}
    BY <1>12 DEF CallStep, IoError, OnBundle, TellRuntimes, BottleRequestEnds,
       OpenRecipes, SkipEntry, LoadRecipe, LoadRecipeFails, ListDone,
       FindRecipe, RecipeNotFound, ReadRecord, ProbeBundle, ClearBundle, ClearBundleFails,
       MakeBundle, WritePlist, WriteLauncher, SetMode, BundleGone
  <2>2. /\ call[c] \in CallOf(call[c].cmd) /\ call[c].cmd.sub # "create"
    BY <2>1, CallPlaces DEF CallsTyped
  <2>3. ASSUME NEW pc, call' = [call EXCEPT ![c].pc = pc] PROVE HonouredInv'
    BY <1>0, <1>6, <2>1, <2>2, <2>3 DEF CallOf
  <2>4. CASE \/ BottleRequestEnds(c) \/ (\E f \in RecipeFile : LoadRecipeFails(c, f))
             \/ ListDone(c) \/ ReadRecord(c) \/ ProbeBundle(c) \/ ClearBundle(c)
             \/ ClearBundleFails(c) \/ MakeBundle(c) \/ WritePlist(c) \/ WriteLauncher(c)
             \/ SetMode(c) \/ BundleGone(c) \/ IoError(c)
    BY <2>3, <2>4 DEF BottleRequestEnds, LoadRecipeFails, ListDone, ReadRecord, ProbeBundle,
       ClearBundle, ClearBundleFails, MakeBundle, WritePlist, WriteLauncher, SetMode,
       BundleGone, IoError
  <2>5. CASE TellRuntimes(c)
    BY <1>0, <1>6, <2>1, <2>2, <2>5 DEF CallOf, TellRuntimes
  <2>6. CASE OpenRecipes(c)
    BY <1>0, <1>6, <2>1, <2>2, <2>6 DEF CallOf, OpenRecipes
  <2>7. CASE \E f \in RecipeFile : SkipEntry(c, f)
    BY <1>0, <1>6, <2>1, <2>2, <2>7 DEF CallOf, SkipEntry
  <2>8. CASE \E f \in RecipeFile : LoadRecipe(c, f)
    BY <1>0, <1>6, <2>1, <2>2, <2>8 DEF CallOf, LoadRecipe
  <2>9. CASE FindRecipe(c)
    BY <1>0, <1>6, <2>1, <2>2, <2>9, ZenonT(40) DEF CallOf, FindRecipe
  <2>10. CASE RecipeNotFound(c)
    BY <1>0, <1>6, <2>1, <2>2, <2>10 DEF CallOf, RecipeNotFound
  <2> QED BY <1>12, <2>4, <2>5, <2>6, <2>7, <2>8, <2>9, <2>10 DEF CallStep
<1>13. ASSUME NEW c \in Client, CallRefused(c) PROVE HonouredInv'
  BY <1>1, <1>13 DEF CallRefused
<1> QED BY <1>2, <1>3, <1>4, <1>8, <1>9, <1>10, <1>11, <1>12, <1>13
           DEF DaemonNext, EndDaemon, ConstructFails

-----------------------------------------------------------------------------
(* The files that load_all looks at, and those that load.                    *)
Steady(files) == {f \in files : Scanned(f)}
Loadable(files) == {f \in files : Loads(f)}

(* What a call that ended has read.                                          *)
HasRead(x) ==
    /\ x.pc = "ok" /\ x.cmd.sub = "recipes list" =>
          Steady(x.must) \subseteq x.got /\ x.got \subseteq Loadable(x.may)
    /\ x.pc = "ok" /\ x.cmd.sub = "recipes apply" =>
          /\ \A f \in x.got : f.id = x.cmd.recipe
          /\ \A f \in x.got, g \in Steady(x.must) : g.id = f.id => f.name <= g.name
    /\ x.pc = "failed" /\ x.cmd.sub \in {"recipes list", "recipes apply"} =>
          \/ \E f \in x.may : Scanned(f) /\ (~Loads(f) \/ f \notin x.must)
          \/ /\ x.cmd.sub = "recipes apply"
             /\ \A f \in Steady(x.must) : f.id # x.cmd.recipe

(* How far a call has read, with these files in the directory.               *)
Reading(x, files) ==
    /\ x.pc \in {"queued", "open"} => x.got = {}
    /\ x.pc = "scan" =>
          /\ x.must \subseteq files /\ files \subseteq x.may /\ x.left \subseteq x.may
          /\ Steady(x.must) \subseteq x.got \cup x.left
          /\ x.got \subseteq Loadable(x.may)
RecipesInv == \A c \in Client : call[c].pc # "idle" => Reading(call[c], recipes) /\ HasRead(call[c])

(* A step of a call keeps what it has read of the recipes complete and true  *)
(* (recipes.rs:43-69).                                                       *)
LEMMA ReadingStep ==
    ASSUME FilesTypeOK, CallsTyped, RecipesInv, NEW c \in Client,
           CallStep(c), ~CallEnds(c)
    PROVE  Reading(call'[c], recipes) /\ HasRead(call'[c])
<1> USE DEF CallAt
<1> DEFINE x == call[c]
<1> SUFFICES ASSUME NEW y, y = call'[c] PROVE Reading(y, recipes) /\ HasRead(y)
  OBVIOUS
<1>0. x.pc # "idle" /\ c \in DOMAIN call
  BY DEF CallStep, Accept, TellRuntimes, BottleRequestEnds,
     SelectForBottle, OpenRecipes, SkipEntry, LoadRecipe, LoadRecipeFails, ListDone,
     FindRecipe, RecipeNotFound, ReadRecord, ProbeBundle, ClearBundle, ClearBundleFails,
     MakeBundle, WritePlist, WriteLauncher, SetMode, BundleGone, CallsTyped
<1>1. /\ x \in CallOf(x.cmd) /\ x.cmd \in Command
      /\ x.pc = "select" => x.cmd.sub = "create"
      /\ x.pc \in {"open", "scan"} => x.cmd.sub \in {"recipes list", "recipes apply"}
      /\ x.cmd.sub \in {"recipes list", "recipes apply"} =>
            x.pc \in {"queued", "ok", "failed", "closed", "open", "scan"}
      /\ Reading(x, recipes)
  BY <1>0, CallPlaces DEF CallsTyped, RecipesInv
<1>2. ASSUME NEW pc, call' = [call EXCEPT ![c].pc = pc]
      PROVE  /\ y.pc = pc /\ y.cmd = x.cmd /\ y.got = x.got /\ y.left = x.left
             /\ y.must = x.must /\ y.may = x.may
  BY <1>0, <1>1, <1>2 DEF CallOf
<1>3. ASSUME y.cmd = x.cmd, x.cmd.sub \notin {"recipes list", "recipes apply"},
             y.pc \notin {"queued", "open", "scan"}
      PROVE  Reading(y, recipes) /\ HasRead(y)
  BY <1>3 DEF Reading, HasRead
<1>4. CASE Accept(c)
  <2>1. Handler(Method(x.cmd)) \notin {"queued", "scan", "ok", "failed"}
    BY <1>1 DEF Command, Handler, Method
  <2>2. y.pc = Handler(Method(x.cmd)) /\ x.pc = "queued" /\ y.got = x.got
    BY <1>2, <1>4 DEF Accept, Move
  <2> QED BY <1>1, <2>1, <2>2 DEF Reading, HasRead
<1>5. CASE \/ BottleRequestEnds(c) \/ ReadRecord(c) \/ ProbeBundle(c) \/ ClearBundle(c)
           \/ ClearBundleFails(c) \/ MakeBundle(c) \/ WritePlist(c) \/ WriteLauncher(c)
           \/ SetMode(c) \/ BundleGone(c)
  <2>1. x.pc \notin {"queued", "ok", "failed", "closed", "open", "scan"}
    BY <1>5 DEF BottleRequestEnds, ReadRecord, ProbeBundle, ClearBundle, ClearBundleFails,
       MakeBundle, WritePlist, WriteLauncher, SetMode, BundleGone
  <2>2. PICK pc \in {"ok", "failed", "probe"} \cup Writing : call' = [call EXCEPT ![c].pc = pc]
    BY <1>5 DEF BottleRequestEnds, ReadRecord, ProbeBundle, ClearBundle, ClearBundleFails,
       MakeBundle, WritePlist, WriteLauncher, SetMode, BundleGone, Move, Writing
  <2>3. y.pc = pc /\ y.cmd = x.cmd
    BY <1>2, <2>2
  <2> QED BY <1>1, <1>3, <2>1, <2>2, <2>3 DEF Writing
<1>6. CASE TellRuntimes(c)
  <2>1. x.pc = "tell" /\ y.pc = "ok" /\ y.cmd = x.cmd
    BY <1>0, <1>1, <1>6 DEF TellRuntimes, CallOf
  <2> QED BY <1>1, <1>3, <2>1
<1>7. CASE SelectForBottle(c)
  <2>1. x.pc = "select" /\ y.pc = "ok" /\ y.cmd = x.cmd
    BY <1>0, <1>1, <1>7 DEF SelectForBottle, CallOf
  <2> QED BY <1>1, <1>3, <2>1
<1>8. CASE OpenRecipes(c)
  <2>1. x.pc = "open" /\ call' = [call EXCEPT ![c] = [x EXCEPT !.pc = "scan", !.left = recipes,
            !.must = recipes, !.may = recipes]]
    BY <1>0, <1>8 DEF OpenRecipes
  <2>2. /\ y.pc = "scan" /\ y.cmd = x.cmd /\ y.got = x.got /\ y.left = recipes
        /\ y.must = recipes /\ y.may = recipes
    BY <1>0, <1>1, <2>1 DEF CallOf
  <2> QED BY <1>1, <2>1, <2>2 DEF Reading, HasRead, Steady
<1>9. CASE \E f \in RecipeFile : SkipEntry(c, f)
  <2>1. PICK f \in RecipeFile : SkipEntry(c, f)
    BY <1>9
  <2>2. x.pc = "scan" /\ call' = [call EXCEPT ![c] = [x EXCEPT !.left = @ \ {f}]]
    BY <1>0, <2>1 DEF SkipEntry
  <2>3. /\ y.pc = "scan" /\ y.cmd = x.cmd /\ y.got = x.got /\ y.left = x.left \ {f}
        /\ y.must = x.must /\ y.may = x.may
    BY <1>0, <1>1, <2>2 DEF CallOf
  <2>4. ~Scanned(f) \/ f \notin recipes
    BY <2>1 DEF SkipEntry
  <2> QED BY <1>1, <2>2, <2>3, <2>4 DEF Reading, HasRead, Steady
<1>10. CASE \E f \in RecipeFile : LoadRecipe(c, f)
  <2>1. PICK f \in RecipeFile : LoadRecipe(c, f)
    BY <1>10
  <2>2. x.pc = "scan" /\ call' = [call EXCEPT ![c] =
            [x EXCEPT !.left = @ \ {f}, !.got = @ \cup {f}]]
    BY <1>0, <2>1 DEF LoadRecipe
  <2>3. /\ y.pc = "scan" /\ y.cmd = x.cmd /\ y.got = x.got \cup {f} /\ y.left = x.left \ {f}
        /\ y.must = x.must /\ y.may = x.may
    BY <1>0, <1>1, <2>2 DEF CallOf
  <2>4. f \in recipes /\ Loads(f)
    BY <2>1 DEF LoadRecipe
  <2> QED BY <1>1, <2>2, <2>3, <2>4 DEF Reading, HasRead, Steady, Loadable
<1>11. CASE \E f \in RecipeFile : LoadRecipeFails(c, f)
  <2>1. PICK f \in RecipeFile : LoadRecipeFails(c, f)
    BY <1>11
  <2>2. x.pc = "scan" /\ f \in x.left /\ Scanned(f) /\ (~Loads(f) \/ f \notin recipes)
        /\ call' = [call EXCEPT ![c].pc = "failed"]
    BY <2>1 DEF LoadRecipeFails, Move
  <2>3. y.pc = "failed" /\ y.cmd = x.cmd /\ y.must = x.must /\ y.may = x.may
    BY <1>2, <2>2
  <2> QED BY <1>1, <2>2, <2>3 DEF Reading, HasRead
<1>12. CASE ListDone(c)
  <2>1. x.pc = "scan" /\ x.left = {} /\ x.cmd.sub = "recipes list"
        /\ call' = [call EXCEPT ![c].pc = "ok"]
    BY <1>12 DEF ListDone, Move
  <2>2. y.pc = "ok" /\ y.cmd = x.cmd /\ y.got = x.got /\ y.must = x.must /\ y.may = x.may
    BY <1>2, <2>1
  <2> QED BY <1>1, <2>1, <2>2 DEF Reading, HasRead
<1>13. CASE FindRecipe(c)
  <2>1. PICK f \in FindIn(x.got, x.cmd.recipe) :
            call' = [call EXCEPT ![c].pc = "ok", ![c].got = {f}]
    BY <1>13 DEF FindRecipe
  <2>2. x.pc = "scan" /\ x.left = {} /\ x.cmd.sub = "recipes apply"
    BY <1>13 DEF FindRecipe
  <2>3. y.pc = "ok" /\ y.cmd = x.cmd /\ y.got = {f} /\ y.must = x.must /\ y.may = x.may
    BY <1>0, <1>1, <2>1 DEF CallOf
  <2> QED BY <1>1, <2>1, <2>2, <2>3, ZenonT(40) DEF Reading, HasRead, FindIn
<1>14. CASE RecipeNotFound(c)
  <2>1. x.pc = "scan" /\ x.left = {} /\ x.cmd.sub = "recipes apply"
        /\ call' = [call EXCEPT ![c] = [x EXCEPT !.pc = "failed", !.got = {}]]
    BY <1>0, <1>14 DEF RecipeNotFound
  <2>2. y.pc = "failed" /\ y.cmd = x.cmd /\ y.must = x.must /\ y.may = x.may
    BY <1>0, <1>1, <2>1 DEF CallOf
  <2>3. ASSUME NEW f \in x.got, f.id = x.cmd.recipe PROVE FALSE
    <3> DEFINE some == {g \in x.got : g.id = x.cmd.recipe}
    <3>1. some \in (SUBSET RecipeFile) \ {{}}
      <4>1. x.got \subseteq x.may /\ x.may \subseteq RecipeFile
        BY <1>1, <2>1 DEF Reading, Loadable, CallOf
      <4> QED BY <2>3, <4>1
    <3>2. PICK g \in some : \A h \in some : g.name <= h.name
      BY <3>1, RecipeAssumption
    <3>3. g \in FindIn(x.got, x.cmd.recipe)
      BY <3>2 DEF FindIn
    <3> QED BY <1>14, <3>3 DEF RecipeNotFound
  <2> QED BY <1>1, <2>1, <2>2, <2>3 DEF Reading, HasRead
<1> QED BY <1>4, <1>5, <1>6, <1>7, <1>8, <1>9, <1>10, <1>11, <1>12, <1>13, <1>14 DEF CallStep

(* A step of one client's call leaves the others alone.                      *)
LEMMA OthersKept ==
    ASSUME CallsTyped, NEW c \in Client,
           \/ \E cmd \in Commands : Call(c, cmd)
           \/ CallStep(c) \/ IoError(c)
    PROVE  \A e \in Client : e # c => call'[e] = call[e]
<1> QED BY DEF CallsTyped, Call, CallStep, IoError, Accept, TellRuntimes, BottleRequestEnds,
     SelectForBottle, OpenRecipes, SkipEntry, LoadRecipe, LoadRecipeFails, ListDone,
     FindRecipe, RecipeNotFound, ReadRecord, ProbeBundle, ClearBundle, ClearBundleFails,
     MakeBundle, WritePlist, WriteLauncher, SetMode, BundleGone, CallEnds, Move

(* The end of a process closes the calls it has not answered, and no others. *)
LEMMA Closes ==
    ASSUME CallsTyped, NEW d \in Daemon, Exit(d), NEW c \in Client
    PROVE  \/ call'[c] = call[c] /\ ~(Waiting(c) /\ call[c].to = d)
           \/ /\ Waiting(c) /\ call[c].to = d
              /\ call[c].pc # "idle" /\ call'[c].pc = "closed" /\ call'[c].cmd = call[c].cmd
<1>1. CASE Waiting(c) /\ call[c].to = d
  <2>1. call'[c] = [call[c] EXCEPT !.pc = "closed"]
    BY <1>1 DEF Exit
  <2>2. call[c].pc # "idle"
    BY <1>1 DEF Waiting, InHandler, CallAt
  <2>3. call[c] \in CallOf(call[c].cmd)
    BY <2>2, CallPlaces DEF CallsTyped
  <2> QED BY <1>1, <2>1, <2>2, <2>3 DEF CallOf
<1>2. CASE ~(Waiting(c) /\ call[c].to = d)
  <2>1. call'[c] = call[c]
    BY <1>2 DEF Exit
  <2> QED BY <1>2, <2>1
<1> QED BY <1>1, <1>2

(* Every step of a daemon or its clients keeps what is read complete and     *)
(* true.                                                                     *)
LEMMA RecipesKept ==
    ASSUME FilesTypeOK, CallsTyped, RecipesInv, DaemonNext, recipes' = recipes
    PROVE  RecipesInv'
<1>1. ASSUME call' = call PROVE RecipesInv'
  BY <1>1 DEF RecipesInv
<1>2. ASSUME NEW d \in Daemon, StartDaemon(d) \/ StartStep(d) PROVE RecipesInv'
  BY <1>1, <1>2 DEF StartDaemon, StartStep, CheckSocket, RemoveSocket, RemoveSocketFails,
       BindSocket, BindSocketFails, ConstructService
<1>3. ASSUME NEW t \in Trees, InstallTree(t) \/ RemoveTree(t) PROVE RecipesInv'
  BY <1>1, <1>3 DEF InstallTree, RemoveTree
<1>4. ASSUME NEW d \in Daemon, Exit(d) PROVE RecipesInv'
  <2>1. ASSUME NEW c \in Client, call'[c].pc # "idle"
        PROVE  Reading(call'[c], recipes) /\ HasRead(call'[c])
    <3>1. CASE call'[c] = call[c]
      BY <2>1, <3>1 DEF RecipesInv
    <3>2. CASE call'[c].pc = "closed"
      BY <3>2 DEF Reading, HasRead
    <3> QED BY <1>4, <3>1, <3>2, Closes
  <2> QED BY <2>1 DEF RecipesInv
<1>5. ASSUME NEW c \in Client, \A e \in Client : e # c => call'[e] = call[e],
             call'[c].pc # "idle" => Reading(call'[c], recipes) /\ HasRead(call'[c])
      PROVE  RecipesInv'
  BY <1>5 DEF RecipesInv
<1>6. ASSUME NEW c \in Client, NEW cmd \in Commands, Call(c, cmd) PROVE RecipesInv'
  <2>1. call'[c].pc = "queued" /\ call'[c].got = {}
    BY <1>6 DEF Call, CallsTyped
  <2>2. \A e \in Client : e # c => call'[e] = call[e]
    BY <1>6, OthersKept
  <2> QED BY <1>5, <2>1, <2>2 DEF Reading, HasRead
<1>7. ASSUME NEW c \in Client, CallEnds(c) PROVE RecipesInv'
  <2>1. call'[c].pc = "idle"
    BY <1>7 DEF CallEnds, CallsTyped, NoCall
  <2>2. \A e \in Client : e # c => call'[e] = call[e]
    BY <1>7, OthersKept DEF CallStep
  <2> QED BY <1>5, <2>1, <2>2
<1>8. ASSUME NEW c \in Client, CallStep(c), ~CallEnds(c) PROVE RecipesInv'
  BY <1>5, <1>8, OthersKept, ReadingStep
<1>9. ASSUME NEW c \in Client, CallRefused(c) PROVE RecipesInv'
  BY <1>1, <1>9 DEF CallRefused
<1>10. ASSUME NEW c \in Client, IoError(c) PROVE RecipesInv'
  <2>1. call[c].pc \in Writing /\ call' = [call EXCEPT ![c].pc = "failed"]
    BY <1>10 DEF IoError, OnBundle, Move, Writing
  <2>2. call[c] \in CallOf(call[c].cmd) /\ call[c].cmd.sub = "shortcut create"
    BY <2>1, CallPlaces DEF CallsTyped, Writing
  <2>3. call'[c].pc = "failed" /\ call'[c].cmd = call[c].cmd
    BY <2>1, <2>2 DEF CallOf, CallsTyped
  <2>4. Reading(call'[c], recipes) /\ HasRead(call'[c])
    BY <2>2, <2>3 DEF Reading, HasRead
  <2> QED BY <1>5, <1>10, <2>4, OthersKept
<1> QED BY <1>2, <1>3, <1>4, <1>6, <1>7, <1>8, <1>9, <1>10
           DEF DaemonNext, EndDaemon, ConstructFails

(* So does a change of the directory, which also moves no call.              *)
LEMMA WatchKeeps ==
    ASSUME CallsTyped, RecipesInv, HonouredInv, recipes' \in SUBSET RecipeFile, WatchRecipes
    PROVE  /\ CallsTyped' /\ RecipesInv' /\ HonouredInv'
           /\ \A c \in Client : call'[c].pc = call[c].pc /\ call'[c].cmd = call[c].cmd
<1>1. ASSUME NEW c \in Client
      PROVE  /\ CallTyped(call'[c]) /\ call'[c].pc = call[c].pc /\ call'[c].cmd = call[c].cmd
             /\ call'[c].pc # "idle" =>
                   /\ Reading(call'[c], recipes') /\ HasRead(call'[c]) /\ Honoured(call'[c])
  <2> DEFINE x == call[c]
  <2>0. CallTyped(x) /\ (x.pc # "idle" => Reading(x, recipes) /\ HasRead(x) /\ Honoured(x))
    BY DEF CallsTyped, RecipesInv, HonouredInv
  <2>1. CASE x.pc = "scan"
    <3> DEFINE y == [x EXCEPT !.must = @ \cap recipes', !.may = @ \cup recipes']
    <3>1. x.cmd \in Commands /\ x \in CallOf(x.cmd)
      BY <2>0, <2>1, CallPlaces
    <3>2. call'[c] = y
      BY <2>1 DEF WatchRecipes, CallAt
    <3>3. /\ y \in CallOf(x.cmd) /\ y.cmd = x.cmd /\ y.pc = "scan" /\ y.got = x.got
          /\ y.left = x.left /\ y.must = x.must \cap recipes' /\ y.may = x.may \cup recipes'
      BY <2>1, <3>1 DEF CallOf
    <3> HIDE DEF y
    <3>4. Reading(y, recipes')
      BY <2>0, <2>1, <3>3 DEF Reading, Steady, Loadable
    <3>5. HasRead(y) /\ Honoured(y)
      BY <3>3 DEF HasRead, Honoured
    <3> QED BY <2>1, <3>1, <3>2, <3>3, <3>4, <3>5 DEF CallTyped
  <2>2. CASE x.pc # "scan"
    <3>1. call'[c] = x
      BY <2>2 DEF WatchRecipes, CallAt
    <3> QED BY <2>0, <2>2, <3>1 DEF Reading
  <2> QED BY <2>1, <2>2
<1>2. DOMAIN call' = Client
  BY DEF WatchRecipes
<1>3. CallsTyped'
  BY <1>1, <1>2 DEF CallsTyped, CallTyped, CallOf
<1>4. RecipesInv' /\ HonouredInv'
  BY <1>1 DEF RecipesInv, HonouredInv
<1> QED BY <1>1, <1>3, <1>4

-----------------------------------------------------------------------------
(* The call has looked at this bundle and works on it.                       *)
OnPath(c, p) == OnBundle(c) /\ PathOf(c) = p

(* What a call that is alone on a bundle has made of it so far.              *)
Reached(x, b) ==
    /\ x.pc = "clear" => b.there
    /\ x.pc = "make" => ~b.there
    /\ x.pc = "plist" => b.there /\ b.plist = None /\ b.launch = None
    /\ x.pc = "launch" => b.there /\ b.plist = x.cmd.bottle /\ b.launch = None
    /\ x.pc = "chmod" => b.there /\ b.plist = x.cmd.bottle /\ b.launch = x.cmd.bottle

(* A bundle with everything it needs to start this bottle.                   *)
WholeFor(b, bottle) == b = [there |-> TRUE, plist |-> bottle, launch |-> bottle, exec |-> TRUE]

(* What holds of a path unless it is tangled: one call at most works on the  *)
(* bundle, which is as far as that call is; and with none at work it is      *)
(* whole for the bottle acknowledged last.                                   *)
BundleAt(p) == ~tangled[p] =>
    /\ \A c, e \in Client : OnPath(c, p) /\ OnPath(e, p) => c = e
    /\ \A c \in Client : OnPath(c, p) => Reached(call[c], bundle[p])
    /\ owner[p] # None /\ (\A c \in Client : ~OnPath(c, p)) => WholeFor(bundle[p], owner[p])
BundleInv == \A p \in BundlePath : BundleAt(p)

(* A path keeps its bundle when only calls on other paths move.              *)
LEMMA BundleApart ==
    ASSUME NEW p, BundleAt(p), tangled'[p] = tangled[p] \/ tangled'[p],
           bundle'[p] = bundle[p], owner'[p] = owner[p],
           \A c \in Client : \/ call'[c] = call[c]
                             \/ ~OnPath(c, p)' /\ ~OnPath(c, p)
    PROVE  BundleAt(p)'
<1> SUFFICES ASSUME ~tangled'[p] PROVE BundleAt(p)'
  BY DEF BundleAt
<1>1. \A c \in Client : OnPath(c, p)' <=> OnPath(c, p)
  BY DEF OnPath, OnBundle, PathOf
<1>2. \A c \in Client : OnPath(c, p) => call'[c] = call[c]
  OBVIOUS
<1> QED BY <1>1, <1>2 DEF BundleAt

(* A step of a call on its bundle keeps every bundle, tangled paths apart.   *)
LEMMA WriterStep ==
    ASSUME CallsTyped, DiskTyped, BundleInv, NEW c \in Client,
           ProbeBundle(c) \/ ClearBundle(c) \/ MakeBundle(c) \/ WritePlist(c)
             \/ WriteLauncher(c) \/ SetMode(c)
    PROVE  BundleInv'
<1> USE DEF CallAt, Move
<1>a. call[c].pc \in {"probe"} \cup Writing
  BY DEF ProbeBundle, ClearBundle, MakeBundle, WritePlist, WriteLauncher, SetMode, Writing
<1>b. PathOf(c) \in BundlePath
  BY <1>a, PathTyped
<1> SUFFICES ASSUME NEW q \in BundlePath, q = PathOf(c) PROVE BundleInv'
  BY <1>b
<1> DEFINE x == call[c]
           b == bundle[q]
           y == call'[c]
<1>0. /\ x.pc \in {"probe"} \cup Writing /\ x.pc # "idle"
      /\ q \in BundlePath /\ b \in Bundle /\ Coherent(b) /\ x.cmd.bottle \in Bottle
      /\ x \in CallOf(x.cmd) /\ None # x.cmd.bottle
  <2>1. x.pc \in {"probe"} \cup Writing
    BY <1>a
  <2>2. x.pc # "idle"
    BY <2>1 DEF Writing
  <2>3. x \in CallOf(x.cmd)
    BY <2>2, CallPlaces DEF CallsTyped
  <2> QED BY <2>1, <2>2, <2>3, PathTyped, DaemonAssumption DEF DiskTyped
<1>1. /\ \A e \in Client : e # c => call'[e] = call[e]
      /\ \A e \in Client, p \in BundlePath : e # c => (OnPath(e, p)' <=> OnPath(e, p))
  <2>1. \A e \in Client : e # c => call'[e] = call[e]
    BY OthersKept DEF CallStep
  <2> QED BY <2>1 DEF OnPath, OnBundle, PathOf
<1>2. PICK pc \in Writing \cup {"ok"} : call' = [call EXCEPT ![c].pc = pc]
  BY DEF ProbeBundle, ClearBundle, MakeBundle, WritePlist, WriteLauncher, SetMode, Writing
<1>3. y.cmd = x.cmd /\ y.pc = pc /\ PathOf(c)' = q
  BY <1>0, <1>2 DEF CallOf, CallsTyped, PathOf
<1>4. ASSUME NEW p \in BundlePath, p # q PROVE BundleAt(p)'
  <2>1. tangled'[p] = tangled[p] /\ bundle'[p] = bundle[p] /\ owner'[p] = owner[p]
    BY <1>0, <1>4 DEF ProbeBundle, ClearBundle, MakeBundle, WritePlist, WriteLauncher, SetMode,
       Write, DiskTyped
  <2>2. ~OnPath(c, p)' /\ ~OnPath(c, p)
    BY <1>3, <1>4 DEF OnPath
  <2> QED BY <1>1, <1>4, <2>1, <2>2, BundleApart DEF BundleInv
<1>5. ASSUME ~tangled'[q], \A e \in Client : e # c => ~OnPath(e, q),
             \/ OnPath(c, q)' /\ Reached(y, bundle'[q])
             \/ WholeFor(bundle'[q], owner'[q])
                /\ ~OnPath(c, q)'
      PROVE  BundleAt(q)'
  BY <1>0, <1>1, <1>5 DEF BundleAt
<1>6. CASE ProbeBundle(c)
  <2>1. /\ tangled'[q] = (\E e \in Client \ {c} : OnPath(e, q)) /\ bundle' = bundle
        /\ y.pc = (IF b.there THEN "clear" ELSE "make")
    BY <1>0, <1>6 DEF ProbeBundle, DiskTyped, OnPath, CallsTyped, CallOf
  <2>2. Reached(y, bundle'[q]) /\ OnPath(c, q)'
    BY <1>3, <2>1 DEF Reached, OnPath, OnBundle
  <2>3. BundleAt(q)'
    <3>1. CASE tangled'[q]
      BY <3>1 DEF BundleAt
    <3>2. CASE ~tangled'[q]
      BY <1>5, <2>1, <2>2, <3>2
    <3> QED BY <3>1, <3>2
  <2> QED BY <1>4, <2>3 DEF BundleInv
<1>7. CASE ~ProbeBundle(c)
  <2>1. x.pc \in Writing /\ OnPath(c, q) /\ tangled' = tangled
    BY <1>7 DEF ClearBundle, MakeBundle, WritePlist, WriteLauncher, SetMode, Writing,
       OnPath, OnBundle
  <2>2. ASSUME ~tangled[q]
        PROVE  /\ \A e \in Client : e # c => ~OnPath(e, q)
               /\ Reached(x, b)
    BY <1>0, <2>1, <2>2 DEF BundleInv, BundleAt
  <2>3. ASSUME ~tangled[q], ClearBundle(c)
        PROVE  OnPath(c, q)' /\ Reached(y, bundle'[q])
    <3>1. y.pc = "make" /\ bundle'[q] = NoBundle
      BY <1>0, <2>3 DEF ClearBundle, Write, DiskTyped, CallsTyped, CallOf
    <3> QED BY <1>3, <3>1 DEF Reached, OnPath, OnBundle, NoBundle
  <2>4. ASSUME ~tangled[q], MakeBundle(c)
        PROVE  OnPath(c, q)' /\ Reached(y, bundle'[q])
    <3>1. /\ y.pc = "plist" /\ bundle'[q] = [b EXCEPT !.there = TRUE] /\ x.pc = "make"
      BY <1>0, <2>4 DEF MakeBundle, Write, DiskTyped, CallsTyped, CallOf
    <3>2. b.plist = None /\ b.launch = None
      BY <1>0, <2>2, <2>4, <3>1 DEF Reached, Coherent
    <3>3. bundle'[q].there /\ bundle'[q].plist = None /\ bundle'[q].launch = None
      BY <1>0, <3>1, <3>2 DEF Bundle
    <3> QED BY <1>3, <3>1, <3>3 DEF Reached, OnPath, OnBundle
  <2>5. ASSUME ~tangled[q], WritePlist(c)
        PROVE  OnPath(c, q)' /\ Reached(y, bundle'[q])
    <3>1. /\ y.pc = "launch" /\ bundle'[q] = [b EXCEPT !.plist = x.cmd.bottle] /\ x.pc = "plist"
      BY <1>0, <2>5 DEF WritePlist, Write, DiskTyped, CallsTyped, CallOf
    <3>2. b.there /\ b.launch = None
      BY <2>2, <2>5, <3>1 DEF Reached
    <3>3. bundle'[q].there /\ bundle'[q].plist = x.cmd.bottle /\ bundle'[q].launch = None
      BY <1>0, <3>1, <3>2 DEF Bundle
    <3> QED BY <1>3, <3>1, <3>3 DEF Reached, OnPath, OnBundle
  <2>6. ASSUME ~tangled[q], WriteLauncher(c)
        PROVE  OnPath(c, q)' /\ Reached(y, bundle'[q])
    <3>1. /\ y.pc = "chmod" /\ bundle'[q] = [b EXCEPT !.launch = x.cmd.bottle] /\ x.pc = "launch"
      BY <1>0, <2>6 DEF WriteLauncher, Write, DiskTyped, CallsTyped, CallOf
    <3>2. b.there /\ b.plist = x.cmd.bottle
      BY <2>2, <2>6, <3>1 DEF Reached
    <3>3. bundle'[q].there /\ bundle'[q].plist = x.cmd.bottle /\ bundle'[q].launch = x.cmd.bottle
      BY <1>0, <3>1, <3>2 DEF Bundle
    <3> QED BY <1>3, <3>1, <3>3 DEF Reached, OnPath, OnBundle
  <2>7. ASSUME ~tangled[q], SetMode(c)
        PROVE  ~OnPath(c, q)' /\ WholeFor(bundle'[q], owner'[q])
    <3>1. /\ y.pc = "ok" /\ bundle'[q] = [b EXCEPT !.exec = TRUE] /\ x.pc = "chmod"
          /\ owner'[q] = x.cmd.bottle
      BY <1>0, <2>7 DEF SetMode, Write, DiskTyped, CallsTyped, CallOf
    <3>2. b.there = TRUE /\ b.plist = x.cmd.bottle /\ b.launch = x.cmd.bottle
      BY <1>0, <2>2, <2>7, <3>1 DEF Reached, Bundle
    <3>3. WholeFor(bundle'[q], owner'[q])
      BY <1>0, <3>1, <3>2 DEF WholeFor, Bundle
    <3> QED BY <3>1, <3>3 DEF OnPath, OnBundle
  <2>8. BundleAt(q)'
    <3>1. CASE tangled[q]
      BY <2>1, <3>1 DEF BundleAt
    <3>2. CASE ~tangled[q]
      <4>1. \/ OnPath(c, q)' /\ Reached(y, bundle'[q])
            \/ WholeFor(bundle'[q], owner'[q]) /\ ~OnPath(c, q)'
        BY <1>7, <2>3, <2>4, <2>5, <2>6, <2>7, <3>2
      <4> QED BY <1>5, <2>1, <2>2, <3>2, <4>1
    <3> QED BY <3>1, <3>2
  <2> QED BY <1>4, <2>8 DEF BundleInv
<1> QED BY <1>6, <1>7

(* A call that fails leaves its path tangled and the others alone.           *)
LEMMA FailedWriter ==
    ASSUME CallsTyped, DiskTyped, BundleInv, NEW c \in Client,
           ClearBundleFails(c) \/ BundleGone(c) \/ IoError(c)
    PROVE  BundleInv'
<1> USE DEF CallAt, Move
<1>a. call[c].pc \in Writing
  BY DEF ClearBundleFails, BundleGone, IoError, OnBundle, Writing
<1>b. PathOf(c) \in BundlePath
  BY <1>a, PathTyped
<1> SUFFICES ASSUME NEW q \in BundlePath, q = PathOf(c) PROVE BundleInv'
  BY <1>b
<1>1. /\ OnPath(c, q) /\ tangled' = Spoiled({c}) /\ owner' = owner
      /\ call' = [call EXCEPT ![c].pc = "failed"]
  BY DEF ClearBundleFails, BundleGone, IoError, OnPath, OnBundle
<1>2. \A p \in BundlePath : p # q => bundle'[p] = bundle[p]
  BY DEF ClearBundleFails, BundleGone, IoError, Write, DiskTyped
<1>3. call[c].pc \in Writing /\ call[c] \in CallOf(call[c].cmd)
  <2>1. call[c].pc \in Writing
    BY <1>1 DEF OnPath, OnBundle, Writing
  <2>2. call[c].pc # "idle"
    BY <2>1 DEF Writing
  <2> QED BY <2>1, <2>2, CallPlaces DEF CallsTyped
<1>4. call'[c].pc = "failed" /\ \A e \in Client : e # c => call'[e] = call[e]
  BY <1>1, <1>3 DEF CallsTyped, CallOf
<1>5. ASSUME NEW p \in BundlePath PROVE BundleAt(p)'
  <2>1. CASE p = q
    <3>1. tangled'[p]
      BY <1>1, <1>5, <2>1 DEF Spoiled, OnPath
    <3> QED BY <3>1 DEF BundleAt
  <2>2. CASE p # q
    <3>1. tangled'[p] = tangled[p] \/ tangled'[p]
      BY <1>1, <1>5 DEF Spoiled, DiskTyped
    <3>2. ~OnPath(c, p)' /\ ~OnPath(c, p)
      BY <1>4, <2>2 DEF OnPath, OnBundle
    <3>3. \A e \in Client : call'[e] = call[e] \/ (~OnPath(e, p)' /\ ~OnPath(e, p))
      BY <1>4, <3>2
    <3> QED BY <1>1, <1>2, <1>5, <2>2, <3>1, <3>3, BundleApart DEF BundleInv
  <2> QED BY <2>1, <2>2
<1> QED BY <1>5 DEF BundleInv

(* Every step keeps every bundle, tangled paths apart.                       *)
LEMMA BundleKept ==
    ASSUME CallsTyped, DiskTyped, BundleInv, DaemonNext
    PROVE  BundleInv'
<1> USE DEF CallAt
<1>1. ASSUME UNCHANGED diskVars,
             \A c \in Client : \/ call'[c] = call[c]
                               \/ ~OnBundle(c)' /\ ~OnBundle(c)
      PROVE  BundleInv'
  <2>1. ASSUME NEW p \in BundlePath PROVE BundleAt(p)'
    BY <1>1, <2>1, BundleApart DEF BundleInv, diskVars, OnPath
  <2> QED BY <2>1 DEF BundleInv
<1>2. ASSUME NEW d \in Daemon, StartDaemon(d) \/ StartStep(d) PROVE BundleInv'
  BY <1>1, <1>2 DEF StartDaemon, StartStep, CheckSocket, RemoveSocket, RemoveSocketFails,
       BindSocket, BindSocketFails, ConstructService
<1>3. ASSUME NEW t \in Trees, InstallTree(t) \/ RemoveTree(t) PROVE BundleInv'
  BY <1>1, <1>3 DEF InstallTree, RemoveTree
<1>4. ASSUME NEW d \in Daemon, Exit(d) PROVE BundleInv'
  <2>1. ASSUME NEW p \in BundlePath PROVE BundleAt(p)'
    <3>1. CASE tangled'[p]
      BY <3>1 DEF BundleAt
    <3>2. CASE ~tangled'[p]
      <4>1. /\ tangled' = Spoiled({c \in Client : Waiting(c) /\ call[c].to = d})
            /\ bundle' = bundle /\ owner' = owner
        BY <1>4 DEF Exit
      <4>2. ~tangled[p] /\ \A c \in Client : Waiting(c) /\ call[c].to = d => ~OnPath(c, p)
        BY <2>1, <3>2, <4>1 DEF Spoiled, OnPath
      <4>3. ASSUME NEW c \in Client PROVE call'[c] = call[c] \/ (~OnPath(c, p)' /\ ~OnPath(c, p))
        <5>1. CASE Waiting(c) /\ call[c].to = d /\ call'[c].pc = "closed"
          <6>1. ~OnPath(c, p)
            BY <4>2, <5>1
          <6>2. ~OnPath(c, p)'
            BY <5>1 DEF OnPath, OnBundle
          <6> QED BY <6>1, <6>2
        <5> QED BY <1>4, <5>1, Closes
      <4>4. tangled'[p] = tangled[p]
        BY <2>1, <3>2, <4>1, <4>2 DEF Spoiled, DiskTyped
      <4> QED BY <2>1, <4>1, <4>3, <4>4, BundleApart DEF BundleInv
    <3> QED BY <3>1, <3>2
  <2> QED BY <2>1 DEF BundleInv
<1>5. ASSUME NEW c \in Client, (\E cmd \in Commands : Call(c, cmd)) \/ CallRefused(c)
      PROVE  BundleInv'
  <2>1. /\ UNCHANGED diskVars /\ ~OnBundle(c)
        /\ call'[c] = call[c] \/ call'[c].pc = "queued"
        /\ \A e \in Client : e # c => call'[e] = call[e]
    BY <1>5 DEF Call, CallRefused, CallsTyped, OnBundle
  <2> QED BY <1>1, <2>1 DEF OnBundle
<1>6. ASSUME NEW c \in Client,
             \/ Accept(c) \/ TellRuntimes(c) \/ BottleRequestEnds(c)
             \/ SelectForBottle(c) \/ OpenRecipes(c)
             \/ \E f \in RecipeFile :
                   SkipEntry(c, f) \/ LoadRecipe(c, f) \/ LoadRecipeFails(c, f)
             \/ ListDone(c) \/ FindRecipe(c) \/ RecipeNotFound(c)
             \/ ReadRecord(c) \/ CallEnds(c)
      PROVE  BundleInv'
  <2>1. UNCHANGED diskVars /\ call[c].pc \notin Writing
    BY <1>6 DEF Accept, TellRuntimes, BottleRequestEnds,
     SelectForBottle, OpenRecipes, SkipEntry, LoadRecipe, LoadRecipeFails, ListDone,
     FindRecipe, RecipeNotFound, ReadRecord, CallEnds, Writing
  <2>2. \A e \in Client : e # c => call'[e] = call[e]
    BY <1>6, OthersKept DEF CallStep
  <2>3. call'[c].pc \notin Writing
    <3>1. CASE Accept(c)
      <4>1. call[c].pc # "idle" /\ CallTyped(call[c])
        BY <3>1 DEF Accept, CallsTyped
      <4>2. call[c].cmd \in Command /\ call[c] \in CallOf(call[c].cmd)
        BY <4>1, CallPlaces
      <4>3. Handler(Method(call[c].cmd)) \notin Writing
        BY <4>2 DEF Command, Handler, Method, Writing
      <4>4. call'[c].pc = Handler(Method(call[c].cmd))
        BY <3>1, <4>2 DEF Accept, Move, CallsTyped, CallOf
      <4> QED BY <4>3, <4>4
    <3>2. CASE CallEnds(c)
      BY <3>2 DEF CallEnds, CallsTyped, NoCall, Writing
    <3>3. CASE ~Accept(c) /\ ~CallEnds(c)
      <4>1. call[c].pc # "idle" /\ CallTyped(call[c])
        BY <1>6, <3>3 DEF TellRuntimes, BottleRequestEnds,
           SelectForBottle, OpenRecipes, SkipEntry, LoadRecipe, LoadRecipeFails, ListDone,
           FindRecipe, RecipeNotFound, ReadRecord, CallsTyped
      <4>2. call[c] \in CallOf(call[c].cmd) /\ c \in DOMAIN call
        BY <4>1, CallPlaces DEF CallsTyped
      <4>3. CASE TellRuntimes(c) \/ SelectForBottle(c) \/ OpenRecipes(c)
        BY <4>2, <4>3 DEF TellRuntimes, SelectForBottle, OpenRecipes, CallOf, Writing
      <4>4. CASE \E f \in RecipeFile : SkipEntry(c, f)
        BY <4>2, <4>4 DEF SkipEntry, CallOf, Writing
      <4>5. CASE \E f \in RecipeFile : LoadRecipe(c, f)
        BY <4>2, <4>5 DEF LoadRecipe, CallOf, Writing
      <4>6. CASE FindRecipe(c) \/ RecipeNotFound(c)
        BY <4>2, <4>6, ZenonT(40) DEF FindRecipe, RecipeNotFound, CallOf, Writing
      <4>7. CASE \/ BottleRequestEnds(c) \/ ListDone(c) \/ ReadRecord(c)
                 \/ \E f \in RecipeFile : LoadRecipeFails(c, f)
        <5>1. PICK pc \in {"ok", "failed", "probe"} : call' = [call EXCEPT ![c].pc = pc]
          BY <4>7 DEF BottleRequestEnds, ListDone, ReadRecord, LoadRecipeFails, Move
        <5> QED BY <4>2, <5>1 DEF CallOf, Writing
      <4> QED BY <1>6, <3>3, <4>3, <4>4, <4>5, <4>6, <4>7
    <3> QED BY <3>1, <3>2, <3>3
  <2> QED BY <1>1, <2>1, <2>2, <2>3 DEF OnBundle, Writing
<1>7. ASSUME NEW c \in Client,
             \/ ProbeBundle(c) \/ ClearBundle(c) \/ MakeBundle(c) \/ WritePlist(c)
             \/ WriteLauncher(c) \/ SetMode(c)
      PROVE  BundleInv'
  BY <1>7, WriterStep
<1>8. ASSUME NEW c \in Client, ClearBundleFails(c) \/ BundleGone(c) \/ IoError(c)
      PROVE  BundleInv'
  BY <1>8, FailedWriter
<1> QED BY <1>2, <1>3, <1>4, <1>5, <1>6, <1>7, <1>8
           DEF DaemonNext, CallStep, EndDaemon, ConstructFails

-----------------------------------------------------------------------------
(* The invariant that is inductive: types, how a socket file comes up, what  *)
(* is listed and what was selected of it, how far recipes are read, and how  *)
(* far bundles are written.                                                  *)
DaemonInv == /\ ProcTyped /\ CallsTyped /\ DiskTyped
             /\ ReachInv /\ ListInv /\ HonouredInv /\ RecipesInv /\ BundleInv

(* The invariant holds at first.                                             *)
LEMMA DaemonInvInit ==
    ASSUME FilesInit, DaemonInit
    PROVE  DaemonInv
<1>1. ProcTyped
  BY DEF DaemonInit, ProcTyped, Stopped, DaemonLocation
<1>2. CallsTyped
  BY DEF DaemonInit, CallsTyped, CallTyped
<1>3. DiskTyped
  BY DEF DaemonInit, DiskTyped, NoBundle, Bundle, Coherent
<1>4. ReachInv
  BY DEF DaemonInit, ReachInv
<1>5. ListInv
  BY DEF DaemonInit, ListInv, Stopped, Listed, DiscoverRuntimes
<1>6. HonouredInv /\ RecipesInv
  BY DEF DaemonInit, HonouredInv, RecipesInv, NoCall
<1>7. BundleInv
  BY DEF DaemonInit, BundleInv, BundleAt, OnPath, OnBundle, NoCall
<1> QED BY <1>1, <1>2, <1>3, <1>4, <1>5, <1>6, <1>7 DEF DaemonInv

(* Every step of a daemon, its clients and its runtimes keeps it.            *)
LEMMA DaemonInvStep ==
    ASSUME FilesTypeOK, DaemonInv, DaemonNext
    PROVE  FilesTypeOK' /\ DaemonInv'
<1>1. FilesTypeOK' /\ recipes' = recipes
  BY DaemonFiles DEF DaemonInv
<1> QED BY <1>1, ProcKept, DiskKept, ReachKept, HonouredKept, RecipesKept, BundleKept
        DEF DaemonInv

(* It needs nothing of the other generation's state.                         *)
LEMMA DaemonInvKept ==
    ASSUME DaemonInv, UNCHANGED <<daemonVars, recipes>>
    PROVE  DaemonInv'
<1>1. /\ sock' = sock /\ daemon' = daemon /\ upset' = upset /\ bundle' = bundle
      /\ tangled' = tangled /\ owner' = owner /\ call' = call /\ trees' = trees
      /\ recipes' = recipes
  BY DEF daemonVars, procVars, diskVars
<1>2. ProcTyped' /\ CallsTyped' /\ DiskTyped' /\ ReachInv' /\ ListInv'
  BY <1>1 DEF DaemonInv, ProcTyped, CallsTyped, CallTyped, DiskTyped, ReachInv, ComesUp,
     DaemonAt, ListInv
<1>3. HonouredInv' /\ RecipesInv'
  BY <1>1 DEF DaemonInv, HonouredInv, RecipesInv
<1>4. BundleInv'
  BY <1>1 DEF DaemonInv, BundleInv, BundleAt, OnPath, OnBundle, PathOf
<1> QED BY <1>2, <1>3, <1>4 DEF DaemonInv

(* A change of the directory of recipes keeps it.                            *)
LEMMA DaemonInvWatches ==
    ASSUME DaemonInv, recipes' \in SUBSET RecipeFile, WatchRecipes,
           UNCHANGED <<procVars, trees, diskVars>>
    PROVE  DaemonInv'
<1>1. /\ sock' = sock /\ daemon' = daemon /\ upset' = upset /\ bundle' = bundle
      /\ tangled' = tangled /\ owner' = owner /\ trees' = trees
  BY DEF procVars, diskVars
<1>2. /\ CallsTyped' /\ RecipesInv' /\ HonouredInv'
      /\ \A c \in Client : call'[c].pc = call[c].pc /\ call'[c].cmd = call[c].cmd
  BY WatchKeeps DEF DaemonInv
<1>3. ProcTyped' /\ DiskTyped' /\ ReachInv' /\ ListInv'
  BY <1>1 DEF DaemonInv, ProcTyped, DiskTyped, ReachInv, ComesUp, DaemonAt, ListInv
<1>4. BundleInv'
  <2>1. \A c \in Client, p \in BundlePath : OnPath(c, p)' <=> OnPath(c, p)
    BY <1>2 DEF OnPath, OnBundle, PathOf
  <2>2. ASSUME NEW c \in Client, NEW b, Reached(call[c], b) PROVE Reached(call'[c], b)
    BY <1>2, <2>2 DEF Reached
  <2>3. ASSUME NEW p \in BundlePath PROVE BundleAt(p)'
    BY <1>1, <2>1, <2>2, <2>3 DEF DaemonInv, BundleInv, BundleAt
  <2> QED BY <2>3 DEF BundleInv
<1> QED BY <1>2, <1>3, <1>4 DEF DaemonInv

(* It gives the type invariant and the four properties.                      *)
LEMMA DaemonInvShows ==
    ASSUME DaemonInv
    PROVE  /\ DaemonTypeOK /\ ReachableWhenSettled /\ RuntimeHonoured
           /\ RecipesWhole /\ BundleWhole
<1> USE DEF DaemonInv, CallAt
<1>1. DaemonTypeOK
  BY DaemonTypedParts
<1>2. ReachableWhenSettled
  BY DEF ReachInv, ComesUp, DaemonAt, ReachableWhenSettled
<1>3. RuntimeHonoured
  <2>1. ASSUME NEW c \in Client, call[c].pc # "idle" PROVE Honoured(call[c])
    BY <2>1 DEF HonouredInv
  <2> QED BY <2>1 DEF RuntimeHonoured, Honoured, Asked
<1>4. RecipesWhole
  <2>1. ASSUME NEW c \in Client, call[c].pc # "idle" PROVE HasRead(call[c])
    BY <2>1 DEF RecipesInv
  <2> QED BY <2>1 DEF RecipesWhole, HasRead, Steady, Loadable
<1>5. BundleWhole
  BY DEF BundleInv, BundleAt, OnPath, WholeFor, BundleWhole
<1> QED BY <1>1, <1>2, <1>3, <1>4, <1>5
=============================================================================
