---------------------------- MODULE RuntimeCatalog ----------------------------
(* How the daemons find wine.  The first generation lists a directory of     *)
(* wine-<arch>-<version> trees and serves requests from that list            *)
(* (discover_runtimes and select_runtime); the second settles on one tree    *)
(* and reads the metadata that the build left there.                         *)
(*                                                                           *)
(* A version is its rank in the byte order of version names, in which 10.0   *)
(* comes before 9.0.  A path is a pair: the tree of an architecture and a    *)
(* version, or a wine64 outside of the runtime directory.                    *)
EXTENDS Integers

CONSTANTS
    Version,        \* the versions that are asked for or installed
    Absent          \* a parameter that was left out, a line that is missing

(* The name that the arm64 runtime from the environment has as its version.  *)
Experimental == 0

(* Versions are finitely many: any of them have a first and a last.          *)
ASSUME RuntimeAssumption ==
    /\ Version \subseteq Nat \ {Experimental}
    /\ \A some \in (SUBSET Version) \ {{}} :
          /\ \E v \in some : \A w \in some : v <= w
          /\ \E v \in some : \A w \in some : w <= v

Arch == {"x86_64", "arm64", "other"}

Channel(arch) == CASE arch = "x86_64" -> "rossetta"
                   [] arch = "arm64"  -> "native-arm64"
                   [] OTHER           -> "custom-other"

TreePath(arch, version) == <<arch, version>>
ExternalPath == <<"environment", Experimental>>
ClientPath == <<"client", Experimental>>

Channels == {Channel(a) : a \in Arch} \cup {"custom"}

Runtime == [channel: Channels, version: Version \cup {Experimental},
            path: {ExternalPath, ClientPath}
                  \cup {TreePath(a, v) : a \in Arch, v \in Version}]

(* What a directory of the runtime root is: a tree may lack its bin/wine64.  *)
Tree == [arch: Arch, version: Version, wine64: BOOLEAN]

Descriptor(t) == [channel |-> Channel(t.arch), version |-> t.version,
                  path    |-> TreePath(t.arch, t.version)]

External == [channel |-> "native-arm64", version |-> Experimental,
             path    |-> ExternalPath]

DiscoverRuntimes(trees) == {Descriptor(t) : t \in {u \in trees : u.wine64}}

(* The list is sorted by label, that is by architecture and version; the     *)
(* runtime from the environment is appended to it.                           *)
FirstOf(list) ==
    CHOOSE r \in list : \A s \in list :
        s = External \/ (r # External /\ r.version <= s.version)

(* Mutant: the version is not looked at.                                     *)
SelectRuntime_AnyVersion(list, version, path, channel) ==
    LET asked == IF channel = Absent THEN "rossetta" ELSE channel
        ofChannel == {r \in list : r.channel = asked}
    IN CASE path # Absent -> [channel |-> asked, version |-> version, path |-> path]
         [] path = Absent /\ ofChannel # {} -> FirstOf(ofChannel)
         [] OTHER -> [channel |-> asked, version |-> version,
                      path    |-> TreePath("x86_64", version)]

(* A client's path wins; then the runtime of the channel and version; then   *)
(* the first of the channel; else the path where such a version would be     *)
(* installed for x86_64, whatever the channel.                               *)
SelectRuntime(list, version, path, channel) ==
    LET asked == IF channel = Absent THEN "rossetta" ELSE channel
        ofChannel == {r \in list : r.channel = asked}
        exact == {r \in ofChannel : r.version = version}
    IN CASE path # Absent ->
              [channel |-> IF channel = Absent THEN "custom" ELSE channel,
               version |-> version, path |-> path]
         [] path = Absent /\ exact # {} -> FirstOf(exact)
         [] path = Absent /\ exact = {} /\ ofChannel # {} -> FirstOf(ofChannel)
         [] OTHER ->
              [channel |-> asked, version |-> version,
               path    |-> TreePath("x86_64", version)]

-----------------------------------------------------------------------------
(* BUILDINFO is a list of key=value lines.  The last line of a key counts;   *)
(* the keys about the SDK count only where they have a value.                *)
OptionalKey == {"sdk_path", "sdk_version", "min_macos"}
MetadataKey == {"version", "arch", "built_at"} \cup OptionalKey
Blank == <<"blank", Experimental>>
Unknown == <<"unknown", Experimental>>

ReadMetadata(lines) == [k \in MetadataKey |->
    LET at == {i \in DOMAIN lines :
                 /\ lines[i].key = k
                 /\ k \in OptionalKey => lines[i].value # Blank}
    IN CASE at # {} ->
              lines[CHOOSE i \in at : \A j \in at : j <= i].value
         [] at = {} /\ k \in {"version", "arch"} -> Unknown
         [] OTHER -> Absent]
=============================================================================
