-------------------------- MODULE AlloyHost_proofs ---------------------------
(* What alloy-daemon, its clients and the builds keep, for every number of   *)
(* each: an invariant that gives the properties of AlloyHost.                *)
EXTENDS AlloyHost, TLAPS

(* A call on its own: idle, or of the type that its command gives it.        *)
AlloyCallTyped(x) ==
    x = AlloyNoCall \/ (x.cmd \in AlloyCommands /\ x \in AlloyCallOf(x.cmd))
AlloyCallsTyped == DOMAIN acall = AlloyClient /\ \A c \in AlloyClient : AlloyCallTyped(acall[c])

(* Where a call of a command can be.                                         *)
AlloyPlaces(cmd) == {"queued", "ok", "failed", "closed"} \cup AlloySteps(AlloyHandler(cmd))

Located == [pc: AlloyLocation, root: Root \cup {Absent},
            meta: {Absent} \cup [MetadataKey -> Value], saw: Staged]

(* The parts of the type invariant: processes, and runtimes with their       *)
(* builds.                                                                   *)
AlloyProcTyped ==
    /\ asock \in AlloyDaemon \cup {None}
    /\ adaemon \in [AlloyDaemon -> Located]
    /\ aupset \in BOOLEAN
StagedTyped ==
    /\ staged \in [Root -> Staged]
    /\ \A r \in Root :
          /\ staged[r].info # None => staged[r].files # "none"
          /\ staged[r].info \in {None, <<>>} \cup BuildInfos(r)
    /\ build \in [Version -> {"idle", "compile", "install", "stage", "write"}]

(* The type invariant is the conjunction of its parts.                       *)
LEMMA AlloyTypedParts ==
    AlloyTypeOK <=> AlloyProcTyped /\ AlloyCallsTyped /\ StagedTyped
  BY DEF AlloyTypeOK, AlloyProcTyped, AlloyCallsTyped, StagedTyped, AlloyCallTyped, Located

(* A call that is not idle is at a location of its command's own handler,    *)
(* and each handler has all its locations.                                   *)
LEMMA AlloyCallPlaces ==
    ASSUME NEW x, AlloyCallTyped(x), x.pc # "idle"
    PROVE  /\ x.cmd \in AlloyCommands /\ x \in AlloyCallOf(x.cmd) /\ x.cmd \in AlloyCommand
           /\ {"queued", "ok", "failed", "closed"} \subseteq AlloyPlaces(x.cmd)
           /\ AlloyHandler(x.cmd) \in AlloyPlaces(x.cmd)
           /\ x.pc \in {"open", "scan"} =>
                 "scan" \in AlloyPlaces(x.cmd) /\ x.cmd.sub = "recipes"
           /\ x.pc \in {"probe", "probe yaml", "read"} =>
                 {"probe yaml", "read"} \subseteq AlloyPlaces(x.cmd) /\ x.cmd.sub = "apply"
           /\ x.cmd.sub = "recipes" =>
                 x.pc \in {"queued", "ok", "failed", "closed", "open", "scan"}
           /\ x.cmd.sub = "apply" =>
                 x.pc \in {"queued", "ok", "failed", "closed", "probe", "probe yaml", "read"}
<1>1. x.cmd \in AlloyCommands /\ x \in AlloyCallOf(x.cmd)
  BY DEF AlloyCallTyped, AlloyNoCall
<1>2. x.cmd \in AlloyCommand
  BY <1>1, AlloyHostAssumption
<1>3. x.pc \in AlloyPlaces(x.cmd)
  BY <1>1 DEF AlloyCallOf, AlloyPlaces
<1>4. x.cmd.sub \in {"create", "list", "run", "destroy", "recipes", "ping", "apply"}
  BY <1>2 DEF AlloyCommand
<1>5. AlloySteps(AlloyHandler(x.cmd)) =
         CASE x.cmd.sub = "ping" -> {"ok"}
           [] x.cmd.sub = "recipes" -> {"open", "scan"}
           [] x.cmd.sub = "apply" -> {"probe", "probe yaml", "read"}
           [] x.cmd.sub \in {"create", "list", "run", "destroy"} -> {"bottle"}
  BY <1>4 DEF AlloySteps, AlloyHandler
<1>6. AlloyHandler(x.cmd) \in AlloySteps(AlloyHandler(x.cmd))
  BY DEF AlloySteps
<1> QED BY <1>1, <1>2, <1>3, <1>4, <1>5, <1>6 DEF AlloyPlaces

(* A BUILDINFO read while it is empty tells nothing.                         *)
LEMMA ReadEmpty ==
    /\ ReadMetadata(<<>>) \in [MetadataKey -> {Unknown, Absent}]
  BY DEF ReadMetadata

(* A BUILDINFO that is written is read back: version, architecture and date  *)
(* as they were, and no blank SDK (runtime.rs:108-141).                      *)
LEMMA ReadWritten ==
    ASSUME NEW v \in Version \cup {Experimental}, NEW sdk \in {Present, Blank}
    PROVE  LET meta == ReadMetadata(BuildInfo(v, sdk)) IN
           /\ meta = [k \in MetadataKey |-> meta[k]]
           /\ meta["version"] = <<"version", v>>
           /\ meta["arch"] = <<"x86_64", Experimental>>
           /\ meta["built_at"] = <<"date", Experimental>>
           /\ meta["min_macos"] = <<"11.0", Experimental>>
           /\ meta["sdk_path"] \in {Present, Absent}
           /\ meta["sdk_version"] \in {Present, Absent}
<1> DEFINE lines == BuildInfo(v, sdk)
           at(k) == {i \in DOMAIN lines :
                 /\ lines[i].key = k
                 /\ k \in OptionalKey => lines[i].value # Blank}
           meta == ReadMetadata(lines)
<1>1. /\ DOMAIN lines = 1..6
      /\ lines[1] = [key |-> "version",     value |-> <<"version", v>>]
      /\ lines[2] = [key |-> "arch",        value |-> <<"x86_64", Experimental>>]
      /\ lines[3] = [key |-> "built_at",    value |-> <<"date", Experimental>>]
      /\ lines[4] = [key |-> "sdk_path",    value |-> sdk]
      /\ lines[5] = [key |-> "sdk_version", value |-> sdk]
      /\ lines[6] = [key |-> "min_macos",   value |-> <<"11.0", Experimental>>]
  BY DEF BuildInfo
<1> HIDE DEF lines
<1>2. \A i \in 1..6 : i \in {1, 2, 3, 4, 5, 6}
  OBVIOUS
<1>3. <<"11.0", Experimental>> # Blank
  BY DEF Blank
<1>4. /\ at("version") = {1} /\ at("arch") = {2} /\ at("built_at") = {3}
      /\ at("min_macos") = {6}
      /\ at("sdk_path") = (IF sdk = Blank THEN {} ELSE {4})
      /\ at("sdk_version") = (IF sdk = Blank THEN {} ELSE {5})
  BY <1>1, <1>2, <1>3 DEF OptionalKey
<1>5. \A k \in MetadataKey : meta[k] =
         CASE at(k) # {} -> lines[CHOOSE i \in at(k) : \A j \in at(k) : j <= i].value
           [] at(k) = {} /\ k \in {"version", "arch"} -> Unknown
           [] OTHER -> Absent
  BY DEF ReadMetadata
<1> HIDE DEF at
<1>6. ASSUME NEW n \in 1..6 PROVE (CHOOSE i \in {n} : \A j \in {n} : j <= i) = n
  BY <1>6
<1>7. /\ "version" \in MetadataKey /\ "arch" \in MetadataKey /\ "built_at" \in MetadataKey
      /\ "min_macos" \in MetadataKey /\ "sdk_path" \in MetadataKey
      /\ "sdk_version" \in MetadataKey
  BY DEF MetadataKey, OptionalKey
<1>8. meta["version"] = <<"version", v>> /\ meta["arch"] = <<"x86_64", Experimental>>
  BY <1>1, <1>4, <1>5, <1>6, <1>7
<1>9. meta["built_at"] = <<"date", Experimental>> /\ meta["min_macos"] = <<"11.0", Experimental>>
  BY <1>1, <1>4, <1>5, <1>6, <1>7
<1>10. meta["sdk_path"] \in {Present, Absent}
  BY <1>1, <1>4, <1>5, <1>6, <1>7
<1>11. meta["sdk_version"] \in {Present, Absent}
  BY <1>1, <1>4, <1>5, <1>6, <1>7
<1>12. meta = [k \in MetadataKey |-> meta[k]]
  BY DEF ReadMetadata
<1> QED BY <1>8, <1>9, <1>10, <1>11, <1>12 DEF lines

(* What a daemon that settled on runtime r may know of it.                   *)
Told(meta, r) ==
    \/ /\ meta["version"] = <<"version", VersionOf(r)>>
       /\ \A k \in OptionalKey : meta[k] # Blank
    \/ \A k \in MetadataKey : meta[k] \in {Unknown, Absent}

(* Either is metadata, and true of its runtime.                              *)
LEMMA ReadTold ==
    ASSUME NEW r \in Root, NEW info \in {<<>>} \cup BuildInfos(r)
    PROVE  ReadMetadata(info) \in [MetadataKey -> Value] /\ Told(ReadMetadata(info), r)
<1>1. CASE info = <<>>
  BY <1>1, ReadEmpty DEF Told, Value
<1>2. CASE info \in BuildInfos(r)
  <2>1. VersionOf(r) \in Version \cup {Experimental}
    BY DEF VersionOf, Root
  <2>2. PICK sdk \in {Present, Blank} : info = BuildInfo(VersionOf(r), sdk)
    BY <1>2 DEF BuildInfos
  <2> DEFINE meta == ReadMetadata(info)
  <2>3. /\ meta = [k \in MetadataKey |-> meta[k]]
        /\ meta["version"] = <<"version", VersionOf(r)>>
        /\ meta["arch"] = <<"x86_64", Experimental>>
        /\ meta["built_at"] = <<"date", Experimental>>
        /\ meta["min_macos"] = <<"11.0", Experimental>>
        /\ meta["sdk_path"] \in {Present, Absent}
        /\ meta["sdk_version"] \in {Present, Absent}
    BY <2>1, <2>2, ReadWritten
  <2> HIDE DEF meta
  <2>4. \A k \in MetadataKey : meta[k] \in Value
    BY <2>3 DEF MetadataKey, OptionalKey, Value
  <2>5. meta \in [MetadataKey -> Value]
    BY <2>3, <2>4
  <2>6. <<"11.0", Experimental>> # Blank /\ Present # Blank /\ Absent # Blank
    BY AlloyHostAssumption DEF Blank, Present
  <2>7. Told(meta, r)
    BY <2>3, <2>6 DEF Told, OptionalKey
  <2> QED BY <2>5, <2>7 DEF meta
<1> QED BY <1>1, <1>2

-----------------------------------------------------------------------------
(* What is settled on is a runtime or none: of the versions that are built   *)
(* one is the last.                                                          *)
LEMMA CandidateTyped ==
    ASSUME NEW env \in Root \cup {Absent}
    PROVE  Candidate(env) \in Root \cup {None}
<1> DEFINE built == {v \in Version : staged[v].files # "none"}
<1>1. CASE env # Absent
  BY <1>1 DEF Candidate
<1>2. CASE env = Absent /\ staged[System].files # "none"
  BY <1>2 DEF Candidate, Root
<1>3. CASE env = Absent /\ staged[System].files = "none" /\ built # {}
  <2>1. \E v \in built : \A w \in built : w <= v
    BY <1>3, RuntimeAssumption
  <2>2. Candidate(env) = CHOOSE v \in built : \A w \in built : w <= v
    BY <1>3 DEF Candidate
  <2>3. Candidate(env) \in built
    BY <2>1, <2>2
  <2> QED BY <2>3 DEF Root
<1>4. CASE env = Absent /\ staged[System].files = "none" /\ built = {}
  BY <1>4 DEF Candidate
<1> QED BY <1>1, <1>2, <1>3, <1>4

(* A process that does not run is typed.                                     *)
LEMMA StoppedTyped == AlloyStopped \in Located
  BY DEF AlloyStopped, Located, NoRuntime, Staged, AlloyLocation

(* A daemon that passes the check of its runtime has one with metadata, and  *)
(* has read it truly.                                                        *)
LEMMA Detected ==
    ASSUME AlloyProcTyped, StagedTyped, NEW d \in AlloyDaemon, DetectRuntime(d)
    PROVE  /\ AlloyProcTyped'
           /\ adaemon'[d].pc = "bind"
           /\ \E r \in Root : /\ adaemon'[d].root = r /\ adaemon'[d].saw = staged[r]
                              /\ staged[r].info # None
                              /\ Told(adaemon'[d].meta, r)
<1> DEFINE r == Candidate(adaemon[d].root)
           x == [pc |-> "bind", root |-> r, meta |-> ReadMetadata(staged[r].info),
                 saw |-> staged[r]]
<1>1. adaemon[d].root \in Root \cup {Absent}
  BY DEF AlloyProcTyped, Located
<1>2. r \in Root /\ staged[r].info # None
  BY <1>1, CandidateTyped DEF DetectRuntime, Usable
<1>3. adaemon' = [adaemon EXCEPT ![d] = x] /\ asock' = asock /\ aupset' = aupset
  BY DEF DetectRuntime
<1> HIDE DEF r
<1>4. staged[r].info \in {<<>>} \cup BuildInfos(r) /\ staged[r] \in Staged
  BY <1>2 DEF StagedTyped
<1>5. ReadMetadata(staged[r].info) \in [MetadataKey -> Value]
      /\ Told(ReadMetadata(staged[r].info), r)
  BY <1>2, <1>4, ReadTold
<1>6. x \in Located
  BY <1>2, <1>4, <1>5 DEF Located, AlloyLocation
<1>7. /\ x.pc = "bind" /\ x.root = r /\ x.saw = staged[r]
      /\ x.meta = ReadMetadata(staged[r].info)
  OBVIOUS
<1> HIDE DEF x
<1>8. adaemon'[d] = x /\ AlloyProcTyped'
  BY <1>3, <1>6 DEF AlloyProcTyped
<1> QED BY <1>2, <1>5, <1>7, <1>8

(* What no step of a call changes.                                           *)
AllButCalls == <<asock, adaemon, staged, build, aupset, recipes>>

(* No step of a call changes processes, runtimes or recipes.                 *)
LEMMA AlloyCallFrame ==
    ASSUME NEW c \in AlloyClient,
           \/ \E cmd \in AlloyCommands : AlloyCall(c, cmd)
           \/ AlloyCallRefused(c) \/ AlloyCallStep(c)
    PROVE  UNCHANGED AllButCalls
  BY DEF AlloyCall, AlloyCallRefused, AlloyCallStep, AlloyAccept, AlloyBottleEnds,
     AlloyOpenRecipes, AlloyScan, AlloyListDone, ProbeYml, ProbeYaml, AlloyLoadRecipe,
     AlloyLoadFails, AlloyCallEnds, alloyVars, AllButCalls

(* No build or package changes processes, calls or recipes.                  *)
LEMMA BuildFrame ==
    ASSUME (\E v \in Version : BuildStep(v)) \/ InstallSystem
    PROVE  UNCHANGED <<asock, adaemon, acall, aupset, recipes>>
  BY DEF BuildStep, StartBuild, BeginInstall, FinishInstall, OpenBuildInfo, WriteBuildInfo,
     BuildFails, InstallSystem

(* Every step keeps the processes typed.                                     *)
LEMMA AlloyProcKept ==
    ASSUME AlloyProcTyped, StagedTyped, AlloyNext
    PROVE  AlloyProcTyped'
<1> USE DEF AlloyAt, AlloyGoes
<1>0. /\ asock \in AlloyDaemon \cup {None} /\ aupset \in BOOLEAN
      /\ adaemon \in [AlloyDaemon -> Located]
  BY DEF AlloyProcTyped
<1>1. ASSUME NEW d \in AlloyDaemon, NEW x \in Located, adaemon' = [adaemon EXCEPT ![d] = x],
             asock' \in AlloyDaemon \cup {None}, aupset' \in BOOLEAN
      PROVE  AlloyProcTyped'
  BY <1>1 DEF AlloyProcTyped
<1>2. ASSUME NEW d \in AlloyDaemon, NEW pc \in AlloyLocation, AlloyGoes(d, pc),
             asock' \in AlloyDaemon \cup {None}, aupset' \in BOOLEAN
      PROVE  AlloyProcTyped'
  BY <1>0, <1>2 DEF AlloyProcTyped, Located
<1>3. ASSUME NEW d \in AlloyDaemon, NEW env \in Version \cup {Absent}, StartAlloy(d, env)
      PROVE  AlloyProcTyped'
  <2>1. [adaemon[d] EXCEPT !.pc = "check", !.root = env] \in Located
    BY <1>0 DEF Located, AlloyLocation, Root
  <2>2. adaemon' = [adaemon EXCEPT ![d] = [adaemon[d] EXCEPT !.pc = "check", !.root = env]]
    BY <1>0, <1>3 DEF StartAlloy
  <2>3. asock' = asock /\ aupset' = FALSE
    BY <1>3 DEF StartAlloy
  <2> QED BY <1>0, <1>1, <2>1, <2>2, <2>3
<1>4. ASSUME NEW d \in AlloyDaemon,
             AlloyCheckSocket(d) \/ AlloyRemoveSocket(d) \/ AlloyBind(d)
      PROVE  AlloyProcTyped'
  BY <1>0, <1>2, <1>4 DEF AlloyCheckSocket, AlloyRemoveSocket, AlloyBind, AlloyLocation
<1>5. ASSUME NEW d \in AlloyDaemon, DetectFails(d) \/ AlloyBindFails(d) \/ EndAlloy(d)
      PROVE  AlloyProcTyped'
  <2>1. /\ adaemon' = [adaemon EXCEPT ![d] = AlloyStopped] /\ asock' = asock
        /\ aupset' \in BOOLEAN
    BY <1>0, <1>5 DEF DetectFails, AlloyBindFails, EndAlloy
  <2> QED BY <1>0, <1>1, <2>1, StoppedTyped
<1>6. ASSUME NEW c \in AlloyClient,
             \/ \E cmd \in AlloyCommands : AlloyCall(c, cmd)
             \/ AlloyCallRefused(c) \/ AlloyCallStep(c)
      PROVE  AlloyProcTyped'
  BY <1>6, AlloyCallFrame DEF AllButCalls, AlloyProcTyped
<1>7. ASSUME (\E v \in Version : BuildStep(v)) \/ InstallSystem PROVE AlloyProcTyped'
  BY <1>7, BuildFrame DEF AlloyProcTyped
<1> QED BY <1>3, <1>4, <1>5, <1>6, <1>7, Detected DEF AlloyNext, AlloyStartStep

(* Whatever has metadata is whole, unless its build is being repeated.       *)
Built ==
    /\ \A v \in Version : build[v] \in {"stage", "write"} => staged[v].files = "all"
    /\ \A r \in Root : staged[r].info # None => staged[r].files = "all" \/ staged[r].again

(* A runtime that its builder's step makes of what was there.                *)
Restaged(r, x) ==
    /\ x \in Staged
    /\ x.info \in {None, <<>>} \cup BuildInfos(r)
    /\ x.info # None => x.files # "none" /\ (x.files = "all" \/ x.again)

(* What the script and the package write is metadata of their runtime.       *)
LEMMA InfoTyped ==
    /\ \A v \in Version, sdk \in {Present, Blank} : BuildInfo(v, sdk) \in BuildInfos(v)
    /\ BuildInfo(Experimental, Present) \in BuildInfos(System)
    /\ \A r \in Root : BuildInfos(r) \subseteq UNION {BuildInfos(s) : s \in Root}
<1>1. \A v \in Version : VersionOf(v) = v
  BY AlloyHostAssumption DEF VersionOf
<1>2. VersionOf(System) = Experimental
  BY DEF VersionOf
<1> QED BY <1>1, <1>2 DEF BuildInfos

(* A build step keeps the order: files first, metadata last                  *)
(* (build_wine.sh:107-164).                                                  *)
LEMMA Restages ==
    ASSUME StagedTyped, Built, NEW v \in Version,
           BeginInstall(v) \/ FinishInstall(v) \/ OpenBuildInfo(v) \/ WriteBuildInfo(v)
    PROVE  \E x \in Staged : /\ Restaged(v, x) /\ Stage(v, x)
                             /\ build'[v] \in {"stage", "write"} => x.files = "all"
<1>1. /\ staged[v] \in Staged /\ staged[v].info \in {None, <<>>} \cup BuildInfos(v)
      /\ staged[v].info # None => staged[v].files # "none"
      /\ staged[v].info # None => staged[v].files = "all" \/ staged[v].again
      /\ build[v] \in {"stage", "write"} => staged[v].files = "all"
      /\ build \in [Version -> {"idle", "compile", "install", "stage", "write"}]
  BY DEF StagedTyped, Built, Root
<1>2. CASE BeginInstall(v)
  <2> DEFINE x == [staged[v] EXCEPT !.files = "some", !.again = staged[v].info # None]
  <2>1. (staged[v].info # None) \in BOOLEAN
    OBVIOUS
  <2>2. x \in Staged /\ x.files = "some" /\ x.info = staged[v].info
        /\ x.again = (staged[v].info # None)
    BY <1>1, <2>1 DEF Staged
  <2>3. Stage(v, x) /\ build'[v] = "install"
    BY <1>1, <1>2 DEF BeginInstall, BuildGoes
  <2> HIDE DEF x
  <2> QED BY <1>1, <2>2, <2>3 DEF Restaged
<1>3. CASE FinishInstall(v)
  <2> DEFINE x == [staged[v] EXCEPT !.files = "all", !.again = FALSE]
  <2>1. x \in Staged /\ x.files = "all" /\ x.info = staged[v].info
    BY <1>1 DEF Staged
  <2>2. Stage(v, x)
    BY <1>3 DEF FinishInstall
  <2> HIDE DEF x
  <2> QED BY <1>1, <2>1, <2>2 DEF Restaged
<1>4. CASE OpenBuildInfo(v)
  <2> DEFINE x == [staged[v] EXCEPT !.info = <<>>]
  <2>1. x \in Staged /\ x.files = "all" /\ x.info = <<>>
    BY <1>1, <1>4 DEF Staged, OpenBuildInfo
  <2>2. Stage(v, x)
    BY <1>4 DEF OpenBuildInfo
  <2> HIDE DEF x
  <2> QED BY <1>1, <2>1, <2>2 DEF Restaged
<1>5. CASE WriteBuildInfo(v)
  <2>1. PICK sdk \in {Present, Blank} : Stage(v, [staged[v] EXCEPT !.info = BuildInfo(v, sdk)])
    BY <1>5 DEF WriteBuildInfo
  <2>2. PICK info \in BuildInfos(v) : Stage(v, [staged[v] EXCEPT !.info = info])
    BY <2>1, InfoTyped
  <2> DEFINE x == [staged[v] EXCEPT !.info = info]
  <2>3. info \in UNION {BuildInfos(s) : s \in Root}
    BY <2>2, InfoTyped DEF Root
  <2>4. x \in Staged /\ x.files = "all" /\ x.info = info
    BY <1>1, <1>5, <2>3 DEF Staged, WriteBuildInfo
  <2> HIDE DEF x
  <2> QED BY <1>1, <2>2, <2>4 DEF Restaged, x
<1> QED BY <1>2, <1>3, <1>4, <1>5

(* Every step keeps the runtimes typed, and whole where they have metadata.  *)
LEMMA StagedKept ==
    ASSUME StagedTyped, Built, AlloyNext
    PROVE  StagedTyped' /\ Built'
<1>0. System \notin Version /\ Version \subseteq Root /\ System \in Root
  BY AlloyHostAssumption DEF Root
<1>1. ASSUME UNCHANGED <<staged, build>> PROVE StagedTyped' /\ Built'
  BY <1>1 DEF StagedTyped, Built
<1>2. ASSUME NEW r \in Root, NEW x \in Staged, Stage(r, x), Restaged(r, x),
             build' \in [Version -> {"idle", "compile", "install", "stage", "write"}],
             \A v \in Version : v # r => build'[v] = build[v],
             r \in Version /\ build'[r] \in {"stage", "write"} => x.files = "all"
      PROVE  StagedTyped' /\ Built'
  <2>1. StagedTyped'
    BY <1>2 DEF StagedTyped, Restaged, Stage
  <2>2. staged'[r] = x /\ \A s \in Root : s # r => staged'[s] = staged[s]
    BY <1>2 DEF StagedTyped, Stage
  <2> QED BY <1>0, <1>2, <2>1, <2>2 DEF Built, Restaged
<1>3. ASSUME NEW v \in Version, StartBuild(v) \/ BuildFails(v) PROVE StagedTyped' /\ Built'
  <2>1. /\ staged' = staged
        /\ build' \in [Version -> {"idle", "compile", "install", "stage", "write"}]
        /\ \A w \in Version : build'[w] \in {"idle", "compile", build[w]}
    BY <1>3 DEF StartBuild, BuildFails, BuildGoes, StagedTyped
  <2> QED BY <2>1 DEF StagedTyped, Built
<1>4. ASSUME NEW v \in Version,
             BeginInstall(v) \/ FinishInstall(v) \/ OpenBuildInfo(v) \/ WriteBuildInfo(v)
      PROVE  StagedTyped' /\ Built'
  <2>1. /\ build' \in [Version -> {"idle", "compile", "install", "stage", "write"}]
        /\ \A w \in Version : w # v => build'[w] = build[w]
    BY <1>4 DEF BeginInstall, FinishInstall, OpenBuildInfo, WriteBuildInfo, BuildGoes,
       StagedTyped
  <2> QED BY <1>0, <1>2, <1>4, <2>1, Restages
<1>5. ASSUME InstallSystem PROVE StagedTyped' /\ Built'
  <2> DEFINE x == [files |-> "all", info |-> BuildInfo(Experimental, Present), again |-> FALSE]
  <2>1. PICK info \in BuildInfos(System) : info = BuildInfo(Experimental, Present)
    BY InfoTyped
  <2>2. info \in UNION {BuildInfos(s) : s \in Root}
    BY <1>0, <2>1, InfoTyped
  <2>3. x \in Staged /\ x.info = info /\ x.files = "all"
    BY <2>1, <2>2 DEF Staged
  <2>4. Stage(System, x) /\ build' = build
    BY <1>5 DEF InstallSystem
  <2> HIDE DEF x
  <2>5. Restaged(System, x)
    BY <2>1, <2>3 DEF Restaged
  <2> QED BY <1>0, <1>2, <2>3, <2>4, <2>5 DEF StagedTyped
<1>6. ASSUME NEW d \in AlloyDaemon, NEW env \in Version \cup {Absent}, StartAlloy(d, env)
      PROVE  StagedTyped' /\ Built'
  BY <1>1, <1>6 DEF StartAlloy
<1>7. ASSUME NEW d \in AlloyDaemon, AlloyStartStep(d) \/ EndAlloy(d)
      PROVE  StagedTyped' /\ Built'
  BY <1>1, <1>7 DEF AlloyStartStep, EndAlloy, AlloyCheckSocket, AlloyRemoveSocket,
     DetectRuntime, DetectFails, AlloyBind, AlloyBindFails
<1>8. ASSUME NEW c \in AlloyClient,
             \/ \E cmd \in AlloyCommands : AlloyCall(c, cmd)
             \/ AlloyCallRefused(c) \/ AlloyCallStep(c)
      PROVE  StagedTyped' /\ Built'
  BY <1>1, <1>8, AlloyCallFrame DEF AllButCalls
<1> QED BY <1>3, <1>4, <1>5, <1>6, <1>7, <1>8 DEF AlloyNext, BuildStep

-----------------------------------------------------------------------------
(* While no start has met with a failure, the socket file belongs to a       *)
(* daemon that serves or some start is about to bind it.                     *)
AlloyComesUp ==
    \/ asock \in AlloyDaemon /\ adaemon[asock].pc = "serving"
    \/ \E d \in AlloyDaemon : adaemon[d].pc \in {"detect", "bind"} /\ asock = None
    \/ \E d \in AlloyDaemon : adaemon[d].pc \in {"check", "remove"}
AlloyReachInv == ~aupset => AlloyComesUp

(* What a daemon that found a runtime has seen of it.                        *)
SawInv == \A d \in AlloyDaemon : adaemon[d].pc \in {"bind", "serving"} =>
    LET r == adaemon[d] IN
    /\ r.saw.files = "all" \/ r.saw.again
    /\ Told(r.meta, r.root)

(* Every step keeps the socket on the way, and what daemons have seen of     *)
(* their runtime whole.                                                      *)
LEMMA AlloyReachKept ==
    ASSUME AlloyProcTyped, StagedTyped, Built, AlloyReachInv, SawInv, AlloyNext
    PROVE  AlloyReachInv' /\ SawInv'
<1> USE DEF AlloyAt, AlloyGoes
<1>0. /\ asock \in AlloyDaemon \cup {None} /\ aupset \in BOOLEAN
      /\ adaemon \in [AlloyDaemon -> Located] /\ None \notin AlloyDaemon
  BY AlloyHostAssumption DEF AlloyProcTyped
<1>1. ASSUME UNCHANGED <<asock, adaemon, aupset>> PROVE AlloyReachInv' /\ SawInv'
  BY <1>1 DEF AlloyReachInv, AlloyComesUp, SawInv, Told
<1>2. ASSUME NEW d \in AlloyDaemon, \A e \in AlloyDaemon : e # d => adaemon'[e] = adaemon[e],
             \/ adaemon'[d].pc \notin {"bind", "serving"}
             \/ /\ adaemon[d].pc = "bind"
                /\ adaemon'[d].saw = adaemon[d].saw /\ adaemon'[d].meta = adaemon[d].meta
                /\ adaemon'[d].root = adaemon[d].root
      PROVE  SawInv'
  BY <1>2 DEF SawInv, Told
<1>3. ASSUME NEW d \in AlloyDaemon, NEW env \in Version \cup {Absent}, StartAlloy(d, env)
      PROVE  AlloyReachInv' /\ SawInv'
  <2>1. adaemon'[d].pc = "check" /\ \A e \in AlloyDaemon : e # d => adaemon'[e] = adaemon[e]
    BY <1>0, <1>3 DEF StartAlloy, Located
  <2> QED BY <1>2, <2>1 DEF AlloyReachInv, AlloyComesUp
<1>4. ASSUME NEW d \in AlloyDaemon, AlloyCheckSocket(d) PROVE AlloyReachInv' /\ SawInv'
  <2>1. /\ adaemon'[d].pc = (IF asock = None THEN "detect" ELSE "remove") /\ asock' = asock
        /\ \A e \in AlloyDaemon : e # d => adaemon'[e] = adaemon[e]
    BY <1>0, <1>4 DEF AlloyCheckSocket, Located
  <2>2. SawInv'
    BY <1>2, <2>1
  <2> QED BY <2>1, <2>2 DEF AlloyReachInv, AlloyComesUp
<1>5. ASSUME NEW d \in AlloyDaemon, AlloyRemoveSocket(d) PROVE AlloyReachInv' /\ SawInv'
  <2>1. /\ adaemon'[d].pc = "detect" /\ asock' = None
        /\ \A e \in AlloyDaemon : e # d => adaemon'[e] = adaemon[e]
    BY <1>0, <1>5 DEF AlloyRemoveSocket, Located
  <2>2. SawInv'
    BY <1>2, <2>1
  <2> QED BY <2>1, <2>2 DEF AlloyReachInv, AlloyComesUp
<1>6. ASSUME NEW d \in AlloyDaemon, DetectRuntime(d) PROVE AlloyReachInv' /\ SawInv'
  <2>1. /\ adaemon'[d].pc = "bind" /\ asock' = asock /\ aupset' = aupset
        /\ adaemon[d].pc = "detect"
        /\ \A e \in AlloyDaemon : e # d => adaemon'[e] = adaemon[e]
    BY <1>0, <1>6, Detected DEF DetectRuntime
  <2>2. PICK r \in Root : /\ adaemon'[d].root = r /\ adaemon'[d].saw = staged[r]
                          /\ staged[r].info # None /\ Told(adaemon'[d].meta, r)
    BY <1>6, Detected
  <2>3. staged[r].files = "all" \/ staged[r].again
    BY <2>2 DEF Built
  <2>4. SawInv'
    BY <2>1, <2>2, <2>3 DEF SawInv, Told
  <2> QED BY <2>1, <2>4 DEF AlloyReachInv, AlloyComesUp
<1>7. ASSUME NEW d \in AlloyDaemon, DetectFails(d) PROVE AlloyReachInv' /\ SawInv'
  <2>1. /\ adaemon'[d].pc = "off" /\ aupset' = TRUE
        /\ \A e \in AlloyDaemon : e # d => adaemon'[e] = adaemon[e]
    BY <1>0, <1>7 DEF DetectFails, AlloyStopped
  <2> QED BY <1>2, <2>1 DEF AlloyReachInv
<1>8. ASSUME NEW d \in AlloyDaemon, AlloyBind(d) PROVE AlloyReachInv' /\ SawInv'
  <2>1. /\ adaemon[d].pc = "bind" /\ adaemon'[d] = [adaemon[d] EXCEPT !.pc = "serving"]
        /\ asock' = d /\ \A e \in AlloyDaemon : e # d => adaemon'[e] = adaemon[e]
    BY <1>0, <1>8 DEF AlloyBind
  <2>2. /\ adaemon'[d].pc = "serving" /\ adaemon'[d].saw = adaemon[d].saw
        /\ adaemon'[d].meta = adaemon[d].meta /\ adaemon'[d].root = adaemon[d].root
    BY <1>0, <2>1 DEF Located
  <2>3. SawInv'
    BY <1>2, <2>1, <2>2
  <2> QED BY <2>1, <2>2, <2>3 DEF AlloyReachInv, AlloyComesUp
<1>9. ASSUME NEW d \in AlloyDaemon, AlloyBindFails(d) PROVE AlloyReachInv' /\ SawInv'
  <2>1. /\ adaemon[d].pc = "bind" /\ adaemon'[d].pc = "off" /\ asock' = asock
        /\ asock # None /\ aupset' = aupset
        /\ \A e \in AlloyDaemon : e # d => adaemon'[e] = adaemon[e]
    BY <1>0, <1>9 DEF AlloyBindFails, AlloyStopped
  <2>2. SawInv'
    BY <1>2, <2>1
  <2> QED BY <2>1, <2>2 DEF AlloyReachInv, AlloyComesUp
<1>10. ASSUME NEW d \in AlloyDaemon, EndAlloy(d) PROVE AlloyReachInv' /\ SawInv'
  <2>1. /\ adaemon'[d].pc = "off" /\ asock' = asock
        /\ ~aupset' => ~aupset /\ asock # d /\ adaemon[d].pc = "serving"
        /\ \A e \in AlloyDaemon : e # d => adaemon'[e] = adaemon[e]
    BY <1>0, <1>10 DEF EndAlloy, AlloyStopped
  <2>2. SawInv'
    BY <1>2, <2>1
  <2> QED BY <2>1, <2>2 DEF AlloyReachInv, AlloyComesUp
<1>11. ASSUME NEW c \in AlloyClient,
              \/ \E cmd \in AlloyCommands : AlloyCall(c, cmd)
              \/ AlloyCallRefused(c) \/ AlloyCallStep(c)
       PROVE  AlloyReachInv' /\ SawInv'
  BY <1>1, <1>11, AlloyCallFrame DEF AllButCalls
<1>12. ASSUME (\E v \in Version : BuildStep(v)) \/ InstallSystem
       PROVE  AlloyReachInv' /\ SawInv'
  BY <1>1, <1>12, BuildFrame
<1> QED BY <1>3, <1>4, <1>5, <1>6, <1>7, <1>8, <1>9, <1>10, <1>11, <1>12
           DEF AlloyNext, AlloyStartStep

-----------------------------------------------------------------------------
(* The files that the catalogue lists, and those it finds under a name.      *)
Good(files) == {f \in files : AlloyScanned(f) /\ AlloyLoads(f)}
NamedBy(files, id) == {f \in files : AlloyScanned(f) /\ f.stem = id}

(* What a call that ended has answered.                                      *)
Answered(x) ==
    /\ x.pc = "ok" /\ x.cmd.sub = "recipes" =>
          Good(x.must) \subseteq x.got /\ x.got \subseteq Good(x.may)
    /\ x.pc = "ok" /\ x.cmd.sub = "apply" =>
          \A f \in x.got :
             /\ f \in Good(NamedBy(x.may, x.cmd.recipe))
             /\ f.form = "yaml" => \A g \in NamedBy(x.must, x.cmd.recipe) : g.form # "yml"
    /\ ~(x.pc = "failed" /\ x.cmd.sub = "recipes")
    /\ x.pc = "failed" /\ x.cmd.sub = "apply" =>
          \A f \in Good(NamedBy(x.must, x.cmd.recipe)) :
             f.form # "yml" /\ \E g \in NamedBy(x.may, x.cmd.recipe) : g.form = "yml"

(* How far a call has come, with these files in the directory.               *)
Looking(x, files) ==
    /\ x.pc \in {"queued", "open"} => x.got = {}
    /\ x.pc \in {"scan", "probe yaml", "read"} => x.must \subseteq files /\ files \subseteq x.may
    /\ x.pc = "scan" =>
          Good(x.must) \subseteq x.got \cup x.left /\ x.got \subseteq Good(x.may)
    /\ x.pc = "probe yaml" => \A g \in NamedBy(x.must, x.cmd.recipe) : g.form # "yml"
    /\ x.pc = "read" =>
          /\ x.left \subseteq NamedBy(x.may, x.cmd.recipe)
          /\ \A g \in NamedBy(x.must, x.cmd.recipe) :
                g \in x.left \/ (g.form # "yml" /\ \E h \in x.left : h.form = "yml")
          /\ \A f \in x.left : f.form = "yaml" =>
                \A g \in NamedBy(x.must, x.cmd.recipe) : g.form # "yml"
Progress(x, files) == x.pc # "idle" => Looking(x, files) /\ Answered(x)

(* Every call is as far as it can be, and has answered what it may.          *)
CatalogueInv == \A c \in AlloyClient : Progress(acall[c], recipes)

(* A change of the directory keeps a call that is reading truthful.          *)
LEMMA Watched ==
    ASSUME NEW cmd, NEW x \in AlloyCallOf(cmd), NEW files, Progress(x, files), x.pc # "idle",
           NEW later \in SUBSET RecipeFile, x.pc \in {"scan", "probe yaml", "read"}
    PROVE  LET y == [x EXCEPT !.must = @ \cap later, !.may = @ \cup later] IN
           y \in AlloyCallOf(cmd) /\ Progress(y, later)
<1> DEFINE y == [x EXCEPT !.must = @ \cap later, !.may = @ \cup later]
<1>1. y \in AlloyCallOf(cmd)
  BY DEF AlloyCallOf
<1>2. /\ y.pc = x.pc /\ y.cmd = x.cmd /\ y.left = x.left /\ y.got = x.got
      /\ y.must = x.must \cap later /\ y.may = x.may \cup later
  BY DEF AlloyCallOf
<1> HIDE DEF y
<1>3. Looking(y, later)
  BY <1>2 DEF Progress, Looking, Good, NamedBy
<1>4. Answered(y)
  BY <1>2 DEF Answered
<1> QED BY <1>1, <1>3, <1>4 DEF Progress, y

(* The fields that handlers change keep a call within its type.              *)
LEMMA AlloyFieldsTyped ==
    ASSUME NEW cmd, NEW x \in AlloyCallOf(cmd), NEW pc \in AlloyPlaces(cmd)
    PROVE  /\ [x EXCEPT !.pc = pc] \in AlloyCallOf(cmd)
           /\ \A files \in SUBSET RecipeFile :
                 /\ [x EXCEPT !.pc = pc, !.got = files] \in AlloyCallOf(cmd)
                 /\ [x EXCEPT !.pc = pc, !.left = files] \in AlloyCallOf(cmd)
                 /\ \A left \in SUBSET RecipeFile :
                       [x EXCEPT !.pc = pc, !.left = left, !.must = files, !.may = files]
                           \in AlloyCallOf(cmd)
           /\ \A left, got \in SUBSET RecipeFile :
                 [x EXCEPT !.left = left, !.got = got] \in AlloyCallOf(cmd)
  BY DEF AlloyCallOf, AlloyPlaces

(* Changing a call so that it is typed and truthful keeps all calls so.      *)
LEMMA AlloyRewritten ==
    ASSUME AlloyCallsTyped, CatalogueInv, NEW c \in AlloyClient, acall[c].pc # "idle",
           NEW y \in AlloyCallOf(acall[c].cmd), acall' = [acall EXCEPT ![c] = y],
           Progress(y, recipes), recipes' = recipes
    PROVE  AlloyCallsTyped' /\ CatalogueInv'
<1>1. acall[c].cmd \in AlloyCommands /\ y.cmd = acall[c].cmd
  BY AlloyCallPlaces DEF AlloyCallsTyped, AlloyCallOf
<1>2. /\ DOMAIN acall' = AlloyClient /\ acall'[c] = y
      /\ \A e \in AlloyClient : e # c => acall'[e] = acall[e]
  BY DEF AlloyCallsTyped
<1>3. AlloyCallsTyped'
  BY <1>1, <1>2 DEF AlloyCallsTyped, AlloyCallTyped, AlloyCallOf
<1>4. ASSUME NEW e \in AlloyClient PROVE Progress(acall'[e], recipes')
  BY <1>2 DEF CatalogueInv
<1>5. CatalogueInv'
  BY <1>4 DEF CatalogueInv, Progress, Looking, Answered
<1> QED BY <1>3, <1>5

(* Every step of a call keeps it typed and truthful (recipes.rs:80-117).     *)
LEMMA AlloyCallKept ==
    ASSUME FilesTypeOK, AlloyProcTyped, AlloyCallsTyped, CatalogueInv, NEW c \in AlloyClient,
           \/ \E cmd \in AlloyCommands : AlloyCall(c, cmd)
           \/ AlloyCallRefused(c) \/ AlloyCallStep(c)
    PROVE  AlloyCallsTyped' /\ CatalogueInv'
<1> USE DEF AlloyCallAt
<1> DEFINE x == acall[c]
<1>0. recipes' = recipes /\ c \in DOMAIN acall
  BY AlloyCallFrame DEF AllButCalls, AlloyCallsTyped
<1>1. CASE AlloyCallRefused(c)
  <2>1. acall' = acall
    BY <1>1 DEF AlloyCallRefused, alloyVars
  <2> QED BY <1>0, <2>1 DEF AlloyCallsTyped, AlloyCallTyped, CatalogueInv, Progress
<1>2. CASE AlloyCallEnds(c)
  <2>1. acall' = [acall EXCEPT ![c] = AlloyNoCall]
    BY <1>2 DEF AlloyCallEnds
  <2>2. /\ DOMAIN acall' = AlloyClient /\ acall'[c] = AlloyNoCall
        /\ \A e \in AlloyClient : e # c => acall'[e] = acall[e]
    BY <2>1 DEF AlloyCallsTyped
  <2>3. AlloyCallsTyped'
    BY <2>2 DEF AlloyCallsTyped, AlloyCallTyped, AlloyCallOf
  <2>4. ASSUME NEW e \in AlloyClient PROVE Progress(acall'[e], recipes')
    BY <1>0, <2>2 DEF CatalogueInv, Progress, AlloyNoCall
  <2> QED BY <2>3, <2>4 DEF CatalogueInv
<1>3. CASE \E cmd \in AlloyCommands : AlloyCall(c, cmd)
  <2>1. PICK cmd \in AlloyCommands : AlloyCall(c, cmd)
    BY <1>3
  <2> DEFINE y == [pc |-> "queued", to |-> asock, cmd |-> cmd,
                   left |-> {}, got |-> {}, must |-> {}, may |-> {}]
  <2>2. acall' = [acall EXCEPT ![c] = y] /\ asock \in AlloyDaemon
    BY <2>1 DEF AlloyCall, AlloyAnswers, AlloyProcTyped
  <2>3. y \in AlloyCallOf(cmd) /\ y.cmd = cmd /\ y.pc = "queued" /\ y.got = {}
    BY <2>2 DEF AlloyCallOf
  <2> HIDE DEF y
  <2>4. Progress(y, recipes)
    BY <2>3 DEF Progress, Looking, Answered
  <2>5. /\ DOMAIN acall' = AlloyClient /\ acall'[c] = y
        /\ \A e \in AlloyClient : e # c => acall'[e] = acall[e]
    BY <2>2 DEF AlloyCallsTyped
  <2>6. AlloyCallsTyped'
    BY <2>1, <2>3, <2>5 DEF AlloyCallsTyped, AlloyCallTyped, AlloyCallOf
  <2>7. ASSUME NEW e \in AlloyClient PROVE Progress(acall'[e], recipes')
    BY <1>0, <2>4, <2>5 DEF CatalogueInv
  <2> QED BY <2>6, <2>7 DEF CatalogueInv
<1>4. CASE AlloyCallStep(c) /\ ~AlloyCallEnds(c)
  <2>0. x.pc # "idle"
    BY <1>4 DEF AlloyCallStep, AlloyAccept, AlloyBottleEnds,
     AlloyOpenRecipes, AlloyScan, AlloyListDone, ProbeYml, ProbeYaml, AlloyLoadRecipe,
     AlloyLoadFails
  <2>1. /\ x.cmd \in AlloyCommands /\ x \in AlloyCallOf(x.cmd) /\ x.cmd \in AlloyCommand
        /\ {"queued", "ok", "failed", "closed"} \subseteq AlloyPlaces(x.cmd)
        /\ AlloyHandler(x.cmd) \in AlloyPlaces(x.cmd)
        /\ x.pc \in {"open", "scan"} =>
                 "scan" \in AlloyPlaces(x.cmd) /\ x.cmd.sub = "recipes"
        /\ x.pc \in {"probe", "probe yaml", "read"} =>
                 {"probe yaml", "read"} \subseteq AlloyPlaces(x.cmd) /\ x.cmd.sub = "apply"
        /\ x.cmd.sub = "recipes" =>
                 x.pc \in {"queued", "ok", "failed", "closed", "open", "scan"}
        /\ x.cmd.sub = "apply" =>
                 x.pc \in {"queued", "ok", "failed", "closed", "probe", "probe yaml", "read"}
    BY <2>0, AlloyCallPlaces DEF AlloyCallsTyped
  <2>2. Looking(x, recipes) /\ x.pc \in AlloyPlaces(x.cmd) /\ recipes \in SUBSET RecipeFile
        /\ x.left \in SUBSET RecipeFile /\ x.got \in SUBSET RecipeFile
    BY <2>0, <2>1 DEF CatalogueInv, Progress, AlloyCallOf, AlloyPlaces, FilesTypeOK
  <2>3. ASSUME NEW y \in AlloyCallOf(x.cmd), acall' = [acall EXCEPT ![c] = y],
               Looking(y, recipes), Answered(y)
        PROVE  AlloyCallsTyped' /\ CatalogueInv'
    BY <1>0, <2>0, <2>3, AlloyRewritten DEF Progress
  <2>4. CASE AlloyAccept(c)
    <3> DEFINE y == [x EXCEPT !.pc = AlloyHandler(x.cmd)]
    <3>1. y \in AlloyCallOf(x.cmd) /\ acall' = [acall EXCEPT ![c] = y] /\ x.pc = "queued"
      BY <1>0, <2>1, <2>4, AlloyFieldsTyped DEF AlloyAccept, AlloyMove
    <3>2. /\ y.pc = AlloyHandler(x.cmd) /\ y.got = x.got /\ y.cmd = x.cmd
          /\ y.pc \in {"ok", "open", "probe", "bottle"}
          /\ y.pc = "ok" => y.cmd.sub = "ping"
      BY <2>1 DEF AlloyCallOf, AlloyHandler
    <3> HIDE DEF y
    <3>3. Looking(y, recipes) /\ Answered(y)
      BY <2>2, <3>1, <3>2 DEF Looking, Answered
    <3> QED BY <2>3, <3>1, <3>3
  <2>5. CASE AlloyBottleEnds(c)
    <3>1. PICK end \in {"ok", "failed"} : acall' = [acall EXCEPT ![c].pc = end]
      BY <2>5 DEF AlloyBottleEnds, AlloyMove
    <3> DEFINE y == [x EXCEPT !.pc = end]
    <3>2. y \in AlloyCallOf(x.cmd) /\ acall' = [acall EXCEPT ![c] = y] /\ x.pc = "bottle"
      BY <1>0, <2>1, <2>5, <3>1, AlloyFieldsTyped DEF AlloyBottleEnds
    <3>3. y.pc = end /\ y.cmd = x.cmd
      BY <2>1 DEF AlloyCallOf
    <3> HIDE DEF y
    <3>4. Looking(y, recipes) /\ Answered(y)
      BY <2>1, <3>2, <3>3 DEF Looking, Answered
    <3> QED BY <2>3, <3>2, <3>4
  <2>6. CASE AlloyOpenRecipes(c)
    <3> DEFINE y == [x EXCEPT !.pc = "scan", !.left = recipes, !.must = recipes, !.may = recipes]
    <3>1. y \in AlloyCallOf(x.cmd) /\ acall' = [acall EXCEPT ![c] = y] /\ x.pc = "open"
      BY <1>0, <2>1, <2>2, <2>6, AlloyFieldsTyped DEF AlloyOpenRecipes
    <3>2. /\ y.pc = "scan" /\ y.cmd = x.cmd /\ y.got = {} /\ y.left = recipes
          /\ y.must = recipes /\ y.may = recipes
      BY <2>1, <2>2, <3>1 DEF AlloyCallOf, Looking
    <3> HIDE DEF y
    <3>3. Looking(y, recipes) /\ Answered(y)
      BY <3>2 DEF Looking, Answered, Good
    <3> QED BY <2>3, <3>1, <3>3
  <2>7. CASE \E f \in RecipeFile : AlloyScan(c, f)
    <3>1. PICK f \in RecipeFile : AlloyScan(c, f)
      BY <2>7
    <3> DEFINE left == x.left \ {f}
               got == x.got \cup {g \in {f} \cap recipes : AlloyScanned(g) /\ AlloyLoads(g)}
               y == [x EXCEPT !.left = left, !.got = got]
    <3>2. left \in SUBSET RecipeFile /\ got \in SUBSET RecipeFile
      BY <2>2
    <3>3. acall' = [acall EXCEPT ![c] = y] /\ x.pc = "scan"
      BY <1>0, <3>1 DEF AlloyScan
    <3> HIDE DEF left, got
    <3>4. y \in AlloyCallOf(x.cmd)
      BY <2>1, <2>2, <3>2, AlloyFieldsTyped
    <3>5. /\ y.pc = "scan" /\ y.cmd = x.cmd /\ y.got = got /\ y.left = left
          /\ y.must = x.must /\ y.may = x.may
      BY <2>1, <3>3 DEF AlloyCallOf
    <3> HIDE DEF y
    <3>6. /\ x.must \subseteq recipes /\ recipes \subseteq x.may
          /\ Good(x.must) \subseteq x.got \cup x.left /\ x.got \subseteq Good(x.may)
      BY <2>2, <3>3 DEF Looking
    <3>7. Good(x.must) \subseteq got \cup left /\ got \subseteq Good(x.may)
      BY <3>6 DEF Good, got, left
    <3>8. Looking(y, recipes) /\ Answered(y)
      BY <3>5, <3>6, <3>7 DEF Looking, Answered
    <3> QED BY <2>3, <3>3, <3>4, <3>8
  <2>8. CASE AlloyListDone(c)
    <3> DEFINE y == [x EXCEPT !.pc = "ok"]
    <3>1. y \in AlloyCallOf(x.cmd) /\ acall' = [acall EXCEPT ![c] = y] /\ x.pc = "scan"
          /\ x.left = {}
      BY <1>0, <2>1, <2>8, AlloyFieldsTyped DEF AlloyListDone, AlloyMove
    <3>2. /\ y.pc = "ok" /\ y.cmd = x.cmd /\ y.got = x.got /\ y.must = x.must /\ y.may = x.may
      BY <2>1 DEF AlloyCallOf
    <3> HIDE DEF y
    <3>3. Looking(y, recipes) /\ Answered(y)
      BY <2>1, <2>2, <3>1, <3>2 DEF Looking, Answered
    <3> QED BY <2>3, <3>1, <3>3
  <2>9. CASE ProbeYml(c)
    <3> DEFINE at == Named(recipes, x.cmd.recipe, "yml")
               y == [x EXCEPT !.pc = IF at = {} THEN "probe yaml" ELSE "read", !.left = at,
                              !.must = recipes, !.may = recipes]
    <3>1. acall' = [acall EXCEPT ![c] = y] /\ x.pc = "probe"
      BY <1>0, <2>9 DEF ProbeYml
    <3>2. at \in SUBSET RecipeFile
      BY <2>2 DEF Named
    <3> HIDE DEF at
    <3>3. y \in AlloyCallOf(x.cmd)
      BY <2>1, <2>2, <3>1, <3>2, AlloyFieldsTyped
    <3>4. /\ y.pc = (IF at = {} THEN "probe yaml" ELSE "read") /\ y.cmd = x.cmd
          /\ y.left = at /\ y.must = recipes /\ y.may = recipes
      BY <2>1 DEF AlloyCallOf
    <3> HIDE DEF y
    <3>5. at = {f \in recipes : f.stem = x.cmd.recipe /\ f.form = "yml"}
      BY DEF at, Named
    <3>6. Looking(y, recipes)
      BY <3>4, <3>5 DEF Looking, NamedBy, AlloyScanned
    <3>7. Answered(y)
      BY <3>4 DEF Answered
    <3> QED BY <2>3, <3>1, <3>3, <3>6, <3>7
  <2>10. CASE ProbeYaml(c)
    <3> DEFINE at == Named(recipes, x.cmd.recipe, "yaml")
               y == [x EXCEPT !.pc = IF at = {} THEN "failed" ELSE "read", !.left = at]
    <3>1. acall' = [acall EXCEPT ![c] = y] /\ x.pc = "probe yaml"
      BY <1>0, <2>10 DEF ProbeYaml
    <3>2. at \in SUBSET RecipeFile
      BY <2>2 DEF Named
    <3> HIDE DEF at
    <3>3. y \in AlloyCallOf(x.cmd)
      BY <2>1, <3>1, <3>2, AlloyFieldsTyped
    <3>4. /\ y.pc = (IF at = {} THEN "failed" ELSE "read") /\ y.cmd = x.cmd
          /\ y.left = at /\ y.must = x.must /\ y.may = x.may
      BY <2>1 DEF AlloyCallOf
    <3> HIDE DEF y
    <3>5. at = {f \in recipes : f.stem = x.cmd.recipe /\ f.form = "yaml"}
      BY DEF at, Named
    <3>6. /\ x.must \subseteq recipes /\ recipes \subseteq x.may
          /\ \A g \in NamedBy(x.must, x.cmd.recipe) : g.form = "yaml" /\ g \in at
      BY <2>2, <3>1, <3>5 DEF Looking, NamedBy, AlloyScanned
    <3>7. at \subseteq NamedBy(x.may, x.cmd.recipe)
      BY <3>5, <3>6 DEF NamedBy, AlloyScanned
    <3>8. Looking(y, recipes)
      BY <3>4, <3>6, <3>7 DEF Looking
    <3>9. Answered(y)
      BY <2>1, <3>1, <3>4, <3>6 DEF Answered, Good
    <3> QED BY <2>3, <3>1, <3>3, <3>8, <3>9
  <2>11. CASE AlloyLoadRecipe(c)
    <3>1. PICK f \in x.left \cap recipes :
             AlloyLoads(f) /\ acall' = [acall EXCEPT ![c].pc = "ok", ![c].got = {f}]
      BY <2>11 DEF AlloyLoadRecipe
    <3> DEFINE y == [x EXCEPT !.pc = "ok", !.got = {f}]
    <3>2. acall' = [acall EXCEPT ![c] = y] /\ x.pc = "read"
      BY <1>0, <2>11, <3>1 DEF AlloyLoadRecipe
    <3>3. y \in AlloyCallOf(x.cmd)
      BY <2>1, <2>2, AlloyFieldsTyped
    <3>4. /\ y.pc = "ok" /\ y.cmd = x.cmd /\ y.got = {f} /\ y.must = x.must /\ y.may = x.may
      BY <2>1 DEF AlloyCallOf
    <3> HIDE DEF y
    <3>5. Looking(y, recipes)
      BY <3>4 DEF Looking
    <3>6. f \in Good(NamedBy(x.may, x.cmd.recipe))
          /\ (f.form = "yaml" => \A g \in NamedBy(x.must, x.cmd.recipe) : g.form # "yml")
      BY <2>2, <3>1, <3>2 DEF Looking, Good, NamedBy
    <3>7. Answered(y)
      BY <2>1, <3>2, <3>4, <3>6 DEF Answered
    <3> QED BY <2>3, <3>2, <3>3, <3>5, <3>7
  <2>12. CASE AlloyLoadFails(c)
    <3> DEFINE y == [x EXCEPT !.pc = "failed"]
    <3>1. y \in AlloyCallOf(x.cmd) /\ acall' = [acall EXCEPT ![c] = y] /\ x.pc = "read"
          /\ \A f \in x.left \cap recipes : ~AlloyLoads(f)
      BY <1>0, <2>1, <2>12, AlloyFieldsTyped DEF AlloyLoadFails, AlloyMove
    <3>2. /\ y.pc = "failed" /\ y.cmd = x.cmd /\ y.must = x.must /\ y.may = x.may
      BY <2>1 DEF AlloyCallOf
    <3> HIDE DEF y
    <3>3. ASSUME NEW f \in Good(NamedBy(x.must, x.cmd.recipe))
          PROVE  f.form # "yml" /\ \E g \in NamedBy(x.may, x.cmd.recipe) : g.form = "yml"
      <4>1. f \in NamedBy(x.must, x.cmd.recipe) /\ AlloyLoads(f) /\ f \in recipes
        BY <2>2, <3>1 DEF Looking, Good, NamedBy
      <4> QED BY <2>2, <3>1, <4>1 DEF Looking
    <3>4. Looking(y, recipes)
      BY <3>2 DEF Looking
    <3>5. Answered(y)
      BY <2>1, <3>1, <3>2, <3>3 DEF Answered
    <3> QED BY <2>3, <3>1, <3>4, <3>5
  <2> QED BY <1>4, <2>4, <2>5, <2>6, <2>7, <2>8, <2>9, <2>10, <2>11, <2>12 DEF AlloyCallStep
<1> QED BY <1>1, <1>2, <1>3, <1>4

(* No start, build or package changes calls or recipes.                      *)
LEMMA AlloyRestFrame ==
    ASSUME \/ \E d \in AlloyDaemon :
                 \/ \E env \in Version \cup {Absent} : StartAlloy(d, env)
                 \/ AlloyStartStep(d)
           \/ \E v \in Version : BuildStep(v)
           \/ InstallSystem
    PROVE  acall' = acall /\ recipes' = recipes
  BY BuildFrame DEF StartAlloy, AlloyStartStep, AlloyCheckSocket, AlloyRemoveSocket,
     DetectRuntime, DetectFails, AlloyBind, AlloyBindFails

(* The end of a process closes calls and makes none untruthful.              *)
LEMMA EndAlloyKeeps ==
    ASSUME AlloyCallsTyped, CatalogueInv, NEW d \in AlloyDaemon, EndAlloy(d)
    PROVE  AlloyCallsTyped' /\ CatalogueInv'
<1>1. recipes' = recipes /\ DOMAIN acall' = AlloyClient
  BY DEF EndAlloy
<1>2. ASSUME NEW c \in AlloyClient
      PROVE  AlloyCallTyped(acall'[c]) /\ Progress(acall'[c], recipes)
  <2>1. CASE AlloyWaiting(c) /\ acall[c].to = d
    <3> DEFINE y == [acall[c] EXCEPT !.pc = "closed"]
    <3>1. acall[c].cmd \in AlloyCommands /\ acall[c] \in AlloyCallOf(acall[c].cmd)
          /\ "closed" \in AlloyPlaces(acall[c].cmd)
      BY <2>1, AlloyCallPlaces DEF AlloyWaiting, AlloyCallsTyped
    <3>2. y \in AlloyCallOf(acall[c].cmd) /\ y.pc = "closed" /\ y.cmd = acall[c].cmd
      BY <3>1, AlloyFieldsTyped DEF AlloyCallOf
    <3>3. acall'[c] = y
      BY <2>1 DEF EndAlloy
    <3> HIDE DEF y
    <3> QED BY <3>1, <3>2, <3>3 DEF AlloyCallTyped, Progress, Looking, Answered
  <2>2. CASE ~(AlloyWaiting(c) /\ acall[c].to = d)
    <3>1. acall'[c] = acall[c]
      BY <2>2 DEF EndAlloy
    <3> QED BY <3>1 DEF AlloyCallsTyped, CatalogueInv
  <2> QED BY <2>1, <2>2
<1> QED BY <1>1, <1>2 DEF AlloyCallsTyped, AlloyCallTyped, AlloyCallOf, CatalogueInv

(* Every step keeps all calls typed and truthful.                            *)
LEMMA AlloyCallsKept ==
    ASSUME FilesTypeOK, AlloyProcTyped, AlloyCallsTyped, CatalogueInv, AlloyNext
    PROVE  AlloyCallsTyped' /\ CatalogueInv'
<1>1. ASSUME acall' = acall, recipes' = recipes PROVE AlloyCallsTyped' /\ CatalogueInv'
  BY <1>1 DEF AlloyCallsTyped, AlloyCallTyped, CatalogueInv
<1>2. CASE \/ \E d \in AlloyDaemon :
                 \/ \E env \in Version \cup {Absent} : StartAlloy(d, env)
                 \/ AlloyStartStep(d)
           \/ \E v \in Version : BuildStep(v)
           \/ InstallSystem
  BY <1>1, <1>2, AlloyRestFrame
<1>3. CASE \E d \in AlloyDaemon : EndAlloy(d)
  BY <1>3, EndAlloyKeeps
<1>4. ASSUME NEW c \in AlloyClient,
             \/ \E cmd \in AlloyCommands : AlloyCall(c, cmd)
             \/ AlloyCallRefused(c) \/ AlloyCallStep(c)
      PROVE  AlloyCallsTyped' /\ CatalogueInv'
  BY <1>4, AlloyCallKept
<1> QED BY <1>2, <1>3, <1>4 DEF AlloyNext

(* So does a change of the directory of recipes.                             *)
LEMMA AlloyWatched ==
    ASSUME AlloyCallsTyped, CatalogueInv, recipes' \in SUBSET RecipeFile, AlloyWatchRecipes
    PROVE  AlloyCallsTyped' /\ CatalogueInv'
<1>1. ASSUME NEW c \in AlloyClient
      PROVE  AlloyCallTyped(acall'[c]) /\ Progress(acall'[c], recipes')
  <2> DEFINE x == acall[c]
  <2>0. AlloyCallTyped(x) /\ Progress(x, recipes)
    BY DEF AlloyCallsTyped, CatalogueInv
  <2>1. CASE x.pc \in {"scan", "probe yaml", "read"}
    <3> DEFINE y == [x EXCEPT !.must = @ \cap recipes', !.may = @ \cup recipes']
    <3>1. x.cmd \in AlloyCommands /\ x \in AlloyCallOf(x.cmd)
      BY <2>0, <2>1, AlloyCallPlaces
    <3>2. acall'[c] = y
      BY <2>1 DEF AlloyWatchRecipes
    <3>3. y \in AlloyCallOf(x.cmd) /\ Progress(y, recipes')
      BY <2>0, <2>1, <3>1, Watched
    <3>4. y.cmd = x.cmd
      BY <3>1 DEF AlloyCallOf
    <3> HIDE DEF y
    <3> QED BY <3>1, <3>2, <3>3, <3>4 DEF AlloyCallTyped
  <2>2. CASE x.pc \notin {"scan", "probe yaml", "read"}
    <3>1. acall'[c] = x
      BY <2>2 DEF AlloyWatchRecipes
    <3>2. Progress(x, recipes')
      BY <2>0, <2>2 DEF Progress, Looking
    <3> QED BY <2>0, <3>1, <3>2
  <2> QED BY <2>1, <2>2
<1>2. DOMAIN acall' = AlloyClient
  BY DEF AlloyWatchRecipes
<1> QED BY <1>1, <1>2 DEF AlloyCallsTyped, AlloyCallTyped, AlloyCallOf, CatalogueInv

(* No step here changes the recipes, and each keeps the bounds typed.        *)
LEMMA AlloyFiles ==
    ASSUME FilesTypeOK, AlloyNext
    PROVE  FilesTypeOK' /\ recipes' = recipes
<1>1. UNCHANGED budget \/ \E e \in Event : Spend(e)
  <2>1. {"astart", "aend", "acall", "build", "error", "package"} \subseteq Event
    BY DEF Event
  <2>2. ASSUME NEW d \in AlloyDaemon,
               \/ \E env \in Version \cup {Absent} : StartAlloy(d, env)
               \/ AlloyStartStep(d) \/ EndAlloy(d)
        PROVE  UNCHANGED budget \/ \E e \in Event : Spend(e)
    BY <2>1, <2>2 DEF StartAlloy, AlloyStartStep, AlloyCheckSocket, AlloyRemoveSocket,
       DetectRuntime, DetectFails, AlloyBind, AlloyBindFails, EndAlloy
  <2>3. ASSUME NEW c \in AlloyClient,
               (\E cmd \in AlloyCommands : AlloyCall(c, cmd)) \/ AlloyCallRefused(c)
        PROVE  UNCHANGED budget \/ \E e \in Event : Spend(e)
    BY <2>1, <2>3 DEF AlloyCall, AlloyCallRefused
  <2>4. ASSUME NEW c \in AlloyClient, AlloyCallStep(c) PROVE UNCHANGED budget
    BY <2>4 DEF AlloyCallStep, AlloyAccept, AlloyBottleEnds, AlloyOpenRecipes, AlloyScan,
       AlloyListDone, ProbeYml, ProbeYaml, AlloyLoadRecipe, AlloyLoadFails, AlloyCallEnds
  <2>5. ASSUME NEW v \in Version, BuildStep(v)
        PROVE  UNCHANGED budget \/ \E e \in Event : Spend(e)
    BY <2>1, <2>5 DEF BuildStep, StartBuild, BeginInstall, FinishInstall, OpenBuildInfo,
       WriteBuildInfo, BuildFails
  <2>6. ASSUME InstallSystem PROVE \E e \in Event : Spend(e)
    BY <2>1, <2>6 DEF InstallSystem
  <2> QED BY <2>2, <2>3, <2>4, <2>5, <2>6 DEF AlloyNext
<1>2. recipes' = recipes
  <2>1. ASSUME NEW d \in AlloyDaemon, EndAlloy(d) PROVE recipes' = recipes
    BY <2>1 DEF EndAlloy
  <2> QED BY <2>1, AlloyRestFrame, AlloyCallFrame DEF AlloyNext, AllButCalls
<1>3. budget' \in [Event -> Nat]
  BY <1>1 DEF FilesTypeOK, Spend
<1> QED BY <1>2, <1>3 DEF FilesTypeOK

-----------------------------------------------------------------------------
(* The invariant that is inductive: types, runtimes whole where they have    *)
(* metadata, the socket on the way, what daemons have seen, and what calls   *)
(* have read.                                                                *)
AlloyInv == /\ AlloyProcTyped /\ AlloyCallsTyped /\ StagedTyped /\ Built
            /\ AlloyReachInv /\ SawInv /\ CatalogueInv

(* The invariant holds at first.                                             *)
LEMMA AlloyInvInit ==
    ASSUME FilesInit, AlloyInit
    PROVE  AlloyInv
<1>1. AlloyProcTyped
  BY StoppedTyped DEF AlloyInit, AlloyProcTyped
<1>2. AlloyCallsTyped
  BY DEF AlloyInit, AlloyCallsTyped, AlloyCallTyped
<1>3. StagedTyped
  BY DEF AlloyInit, StagedTyped, NoRuntime, Staged
<1>4. Built
  BY DEF AlloyInit, Built, NoRuntime, Root
<1>5. AlloyReachInv /\ SawInv
  BY DEF AlloyInit, AlloyReachInv, SawInv, AlloyStopped
<1>6. CatalogueInv
  BY DEF AlloyInit, CatalogueInv, Progress, AlloyNoCall
<1> QED BY <1>1, <1>2, <1>3, <1>4, <1>5, <1>6 DEF AlloyInv

(* Every step of a daemon, its clients, builds and packages keeps it.        *)
LEMMA AlloyInvStep ==
    ASSUME FilesTypeOK, AlloyInv, AlloyNext
    PROVE  FilesTypeOK' /\ AlloyInv'
  BY AlloyProcKept, AlloyCallsKept, StagedKept, AlloyReachKept, AlloyFiles DEF AlloyInv

(* It needs nothing of the other generation's state.                         *)
LEMMA AlloyInvKept ==
    ASSUME AlloyInv, UNCHANGED <<alloyVars, recipes>>
    PROVE  AlloyInv'
<1>1. /\ asock' = asock /\ adaemon' = adaemon /\ acall' = acall /\ staged' = staged
      /\ build' = build /\ aupset' = aupset /\ recipes' = recipes
  BY DEF alloyVars
<1>2. AlloyProcTyped' /\ AlloyCallsTyped' /\ StagedTyped' /\ Built'
  BY <1>1 DEF AlloyInv, AlloyProcTyped, AlloyCallsTyped, AlloyCallTyped, StagedTyped, Built
<1>3. AlloyReachInv' /\ SawInv' /\ CatalogueInv'
  BY <1>1 DEF AlloyInv, AlloyReachInv, AlloyComesUp, SawInv, CatalogueInv
<1> QED BY <1>2, <1>3 DEF AlloyInv

(* A change of the directory of recipes keeps it.                            *)
LEMMA AlloyInvWatches ==
    ASSUME AlloyInv, recipes' \in SUBSET RecipeFile, AlloyWatchRecipes,
           UNCHANGED <<asock, adaemon, staged, build, aupset>>
    PROVE  AlloyInv'
<1>1. AlloyCallsTyped' /\ CatalogueInv'
  BY AlloyWatched DEF AlloyInv
<1>2. AlloyProcTyped' /\ StagedTyped' /\ Built'
  BY DEF AlloyInv, AlloyProcTyped, StagedTyped, Built
<1>3. AlloyReachInv' /\ SawInv'
  BY DEF AlloyInv, AlloyReachInv, AlloyComesUp, SawInv
<1> QED BY <1>1, <1>2, <1>3 DEF AlloyInv

(* It gives the type invariant and the three properties.                     *)
LEMMA AlloyInvShows ==
    ASSUME AlloyInv
    PROVE  AlloyTypeOK /\ AlloyReachable /\ RuntimeComplete /\ CatalogueWhole
<1>1. AlloyTypeOK
  BY AlloyTypedParts DEF AlloyInv
<1>2. AlloyReachable
  BY DEF AlloyInv, AlloyReachInv, AlloyComesUp, AlloyReachable, AlloyAt
<1>3. RuntimeComplete
  BY DEF AlloyInv, SawInv, Told, RuntimeComplete
<1>4. CatalogueWhole
  <2>1. ASSUME NEW c \in AlloyClient, acall[c].pc # "idle" PROVE Answered(acall[c])
    BY <2>1 DEF AlloyInv, CatalogueInv, Progress
  <2> QED BY <2>1 DEF CatalogueWhole, Answered, Good, NamedBy, AlloyCallAt
<1> QED BY <1>1, <1>2, <1>3, <1>4
=============================================================================
