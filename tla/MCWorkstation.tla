----------------------------- MODULE MCWorkstation -----------------------------
(* Small instances of Workstation for TLC.                                   *)
EXTENDS Workstation, FiniteSets, TLC

CONSTANTS d1, d2, c1, c2, b1, b2, a1, a2, k1, k2

TwoDaemons == {d1, d2}
TwoClients == {c1, c2}
TwoBottles == {b1, b2}
TwoAlloyDaemons == {a1, a2}
TwoAlloyClients == {k1, k2}

(* 10.0, which comes first in byte order, and 9.0.                           *)
V10 == 1
V9 == 2
TwoVersions == {V10, V9}

SomeTrees ==
    [arch: {"x86_64"}, version: TwoVersions, wine64: {TRUE}]
    \cup [arch: {"arm64"}, version: {V9}, wine64: BOOLEAN]

(* The files of recipes/ as they are, a second manifest for an id that is    *)
(* there, and a file whose name is not the id in it.                         *)
Schema == [form |-> "yaml", stem |-> "schema", header |-> FALSE,
           id |-> "", name |-> 0, listed |-> FALSE, steps |-> {}]
Steam == [form |-> "yml", stem |-> "steam", header |-> TRUE, id |-> "steam",
          name |-> 1, listed |-> TRUE, steps |-> {"note", "env", "winecfg", "run"}]
Notepad == [form |-> "dir", stem |-> "notepad-plus-plus", header |-> TRUE,
            id |-> "notepad-plus-plus", name |-> 3, listed |-> TRUE, steps |-> {"run", "wait", "env"}]
SteamToo == [form |-> "yaml", stem |-> "steam", header |-> TRUE, id |-> "steam",
             name |-> 2, listed |-> TRUE, steps |-> {"run"}]
Older == [form |-> "yaml", stem |-> "older", header |-> TRUE, id |-> "steam",
          name |-> 1, listed |-> TRUE, steps |-> {"run"}]
FiveRecipes == {Schema, Steam, Notepad, SteamToo, Older}
Shipped == {{Steam, Notepad, Schema}, {Steam, Notepad, SteamToo, Older}}

(* Two names for one bundle, and a name of spaces.                           *)
Names == {<<" ", "a", "/">>, <<"a", "_">>, <<" ">>}

MCCommands ==
    [sub: {"info", "list", "recipes list"}]
    \cup [sub: {"create"}, version: TwoVersions, path: {Absent},
          channel: {Absent, "native-arm64"}]
    \cup [sub: {"create"}, version: {V9}, path: {ClientPath}, channel: {Absent}]
    \cup [sub: {"recipes apply"}, recipe: {"steam"}]
    \cup [sub: {"shortcut create"}, bottle: TwoBottles, name: Names]

MCAlloyCommands == [sub: {"ping", "recipes", "create"}] \cup [sub: {"apply"}, recipe: {"steam"}]

Swaps(A, B) == {p @@ q : p \in Permutations(A), q \in Permutations(B)}
WorkSymmetry == Swaps(TwoDaemons, TwoClients) \cup Permutations(TwoBottles)
                \cup Swaps(TwoAlloyDaemons, TwoAlloyClients)

Nothing == [e \in Event |-> 0]

(* One scenario each: starts that race, with ends and failures; trees that   *)
(* come and go; recipes that come and go, while they are read and for both   *)
(* daemons at once; shortcuts; the same for alloy-daemon; builds.            *)
MCBudgets == {
    [Nothing EXCEPT !["start"] = 3, !["end"] = 1, !["error"] = 1, !["other"] = 1],
    [Nothing EXCEPT !["start"] = 2, !["tree"] = 3, !["create"] = 1],
    [Nothing EXCEPT !["start"] = 1, !["recipes"] = 2, !["recipe"] = 1],
    [Nothing EXCEPT !["start"] = 1, !["recipes"] = 1, !["recipe"] = 2],
    [Nothing EXCEPT !["start"] = 1, !["shortcut"] = 3, !["end"] = 1],
    [Nothing EXCEPT !["start"] = 1, !["shortcut"] = 2, !["error"] = 1],
    [Nothing EXCEPT !["astart"] = 3, !["aend"] = 1, !["build"] = 1, !["acall"] = 1],
    [Nothing EXCEPT !["astart"] = 1, !["build"] = 3, !["package"] = 1, !["error"] = 1],
    [Nothing EXCEPT !["astart"] = 1, !["package"] = 1, !["acall"] = 2, !["recipe"] = 1],
    [Nothing EXCEPT !["astart"] = 1, !["package"] = 1, !["acall"] = 1, !["recipe"] = 2],
    [Nothing EXCEPT !["start"] = 1, !["recipes"] = 1, !["recipe"] = 1,
                    !["astart"] = 1, !["package"] = 1, !["acall"] = 1]}
=============================================================================
