------------------------------ MODULE AppState ------------------------------
(* The state of the macOS app (gui/Sources/SiliconAlloyApp/AppState.swift)   *)
(* and the daemon as the app sees it.  The app's code runs on the main actor *)
(* and gives it up at every await: each call to the daemon runs in a task of *)
(* its own on a connection of its own (DaemonBridge.rpc,                     *)
(* UnixDomainSocket.request), so calls that overlap are served, and their    *)
(* answers resumed, in any order.  The daemon is BottleService reduced to    *)
(* what its answers depend on: whether each bottle's record can be read.     *)
EXTENDS Naturals, Sequences, FiniteSets

CONSTANTS
    Slot,        \* operations that can be in progress at once
    Bottle,      \* bottle ids
    None,        \* no bottle
    MaxActions,  \* bound on what the user does
    MaxOthers    \* bound on what other clients of the daemon change

ASSUME AppAssumption ==
    None \notin Bottle /\ MaxActions \in Nat /\ MaxOthers \in Nat

VARIABLES
    (* the app *)
    bottles,     \* the list on the screen
    isLoading,   \* the progress flag
    alert,       \* what the last alert told: a failure or a success
    sheet,       \* the sheet that is open; it blocks the window behind it
    launches,    \* refreshes that the start of the app still has to make
    request,     \* the operation in each slot
    (* the daemon *)
    record,      \* the metadata of each bottle, see Records
    (* history *)
    excused,     \* bottles on which the list may differ from the daemon
    actions, others

appVars == <<bottles, isLoading, alert, sheet, launches>>
bounds == <<actions, others>>
vars == <<appVars, request, record, excused, bounds>>

(* fresh: the id is not generated yet.  writing: bottle.json is emptied and  *)
(* a write of its content on its way, which the daemon does not wait for     *)
(* (BottleStore::write_record).  kept: it can be read.  husk: a directory    *)
(* without a record that can be read.  gone: removed.                        *)
Records == {"fresh", "writing", "kept", "husk", "gone"}
Used == {b \in Bottle : record[b] # "fresh"}
Kept == {b \in Bottle : record[b] = "kept"}
Writing == {b \in Bottle : record[b] = "writing"}

(* The calls that each operation awaits, one after the other.                *)
Calls(op) == CASE op = "refresh"  -> <<"service.info", "bottle.list", "recipe.list">>
               [] op = "create"   -> <<"bottle.create", "bottle.list">>
               [] op = "delete"   -> <<"bottle.delete">>
               [] op = "run"      -> <<"bottle.run">>
               [] op = "apply"    -> <<"recipe.apply", "bottle.list">>
               [] op = "shortcut" -> <<"shortcut.create">>
Ops == {"refresh", "create", "delete", "run", "apply", "shortcut"}

Free == [op |-> "none", left |-> <<>>, b |-> None, answer |-> "none",
         list |-> {}, since |-> {}]

Init == /\ bottles = {} /\ isLoading = FALSE /\ alert = "none"
        /\ sheet = "none"
        /\ launches = 2          \* AppState.init and ContentView's task
        /\ request = [s \in Slot |-> Free]
        /\ record \in [Bottle -> {"fresh", "kept"}] /\ excused = Kept
        /\ actions = 0 /\ others = 0

-----------------------------------------------------------------------------
(* The user                                                                  *)

Begin(s, op, b) ==
    /\ request[s].op = "none"
    /\ isLoading' = TRUE
    /\ request' = [request EXCEPT ![s] = [Free EXCEPT !.op = op, !.left = Calls(op), !.b = b]]
    /\ UNCHANGED <<bottles, alert, sheet, record, excused, others>>

Launch(s) == /\ launches > 0 /\ launches' = launches - 1
             /\ Begin(s, "refresh", None)
             /\ UNCHANGED actions

Act == actions < MaxActions /\ actions' = actions + 1
Click(s, op, b) == Act /\ Begin(s, op, b) /\ UNCHANGED launches

(* The refresh button is the only control that isLoading disables.           *)
Refresh(s) == sheet = "none" /\ ~isLoading /\ Click(s, "refresh", None)
CreateBottle(s) == sheet = "create" /\ Click(s, "create", None)
DeleteBottle(s) == sheet = "none" /\ \E b \in bottles : Click(s, "delete", b)
ApplyRecipe(s) == sheet = "recipes" /\ \E b \in bottles : Click(s, "apply", b)
(* Neither of these touches the list.                                        *)
RunExecutable(s) == sheet = "none" /\ Click(s, "run", None)
CreateShortcut(s) == sheet = "none" /\ Click(s, "shortcut", None)

(* The toolbar opens a sheet, cancel and close dismiss it.                   *)
SwitchSheet ==
    /\ Act
    /\ sheet' \in IF sheet = "none" THEN {"create", "recipes"} ELSE {"none"}
    /\ UNCHANGED <<bottles, isLoading, alert, launches, request, record, excused, others>>

-----------------------------------------------------------------------------
(* The daemon                                                                *)

(* History: what changes after a listing began, or after a deletion, is      *)
(* noted with it until the main actor resumes it.                            *)
Noted(r) == \/ r.answer \in {"busy", "ok"} /\ Head(r.left) = "bottle.list"
            \/ r.answer = "ok" /\ Head(r.left) = "bottle.delete"
Noting(b) == [s \in Slot |-> IF Noted(request[s])
                               THEN [request[s] EXCEPT !.since = @ \cup {b}]
                               ELSE request[s]]
Becomes(b, r) == record' = [record EXCEPT ![b] = r] /\ excused' = excused \cup {b}

Waiting(s, calls) == /\ request[s].op # "none" /\ request[s].answer = "none"
                     /\ Head(request[s].left) \in calls
Busy(s, call) == request[s].answer = "busy" /\ Head(request[s].left) = call

(* A listing visits the directories one by one.  Of bottles whose record is  *)
(* not rewritten meanwhile it shows those that can be read; of the others it *)
(* may show any (BottleService's ListExact).                                 *)
ListBegins(s) ==
    /\ Waiting(s, {"bottle.list"})
    /\ request' = [request EXCEPT ![s].answer = "busy", ![s].since = Writing]
    /\ UNCHANGED <<appVars, record, excused, bounds>>

ServeList(s) ==
    /\ Busy(s, "bottle.list")
    /\ \E seen \in SUBSET (request[s].since \cap Used) :
         request' = [request EXCEPT ![s].answer = "ok",
                                    ![s].list = (Kept \ request[s].since) \cup seen]
    /\ UNCHANGED <<appVars, record, excused, bounds>>

(* A change is made, and its answer arrives or is lost; or it fails half way. *)
Change(s, b, r) ==
    \E outcome \in {r, "husk"}, a \in {"ok", "error"} :
        /\ outcome = "husk" => a = "error"
        /\ Becomes(b, outcome)
        /\ request' = [Noting(b) EXCEPT ![s].answer = a]
        /\ UNCHANGED <<appVars, bounds>>

(* The answer does not wait for the write of the record.                     *)
ServeCreate(s) ==
    /\ Waiting(s, {"bottle.create"})
    /\ \E b \in Bottle \ Used : Change(s, b, "writing")

ServeDelete(s) ==
    /\ Waiting(s, {"bottle.delete"})
    /\ record[request[s].b] \in {"writing", "kept", "husk"}
    /\ Change(s, request[s].b, "gone")

(* A recipe needs the record to begin with, and writes it back in the end.   *)
(* Other writes may be on their way then, and a copy step has made the       *)
(* directory again if the bottle was deleted meanwhile.                      *)
ApplyBegins(s) ==
    /\ Waiting(s, {"recipe.apply"})
    /\ record[request[s].b] \in {"writing", "kept"}
    /\ request' = [request EXCEPT ![s].answer = "busy"]
    /\ UNCHANGED <<appVars, record, excused, bounds>>

ServeApply(s) ==
    /\ Busy(s, "recipe.apply")
    /\ Change(s, request[s].b, "writing")

(* These change no record.                                                   *)
ServeOther(s) ==
    /\ Waiting(s, {"service.info", "recipe.list", "bottle.run", "shortcut.create"})
    /\ request' = [request EXCEPT ![s].answer = "ok"]
    /\ UNCHANGED <<appVars, record, excused, bounds>>

(* The call fails at the record, or does not reach it.                       *)
ServeFails(s) ==
    /\ request[s].op # "none" /\ request[s].answer \in {"none", "busy"}
    /\ request' = [request EXCEPT ![s].answer = "error", ![s].since = {}]
    /\ UNCHANGED <<appVars, record, excused, bounds>>

(* The last write on its way to a record lands, or comes to nothing, or is   *)
(* torn by another.                                                          *)
WriteLands(b) ==
    /\ record[b] = "writing"
    /\ record' \in {[record EXCEPT ![b] = r] : r \in {"kept", "husk"}}
    /\ UNCHANGED <<appVars, request, excused, bounds>>

(* Another client creates a bottle, deletes one, or applies a recipe to it.  *)
OthersChange ==
    /\ others < MaxOthers /\ others' = others + 1
    /\ \E b \in Bottle, r \in {"writing", "husk", "gone"} :
         /\ record[b] \in {"fresh", "gone"} => r # "gone"
         /\ Becomes(b, r) /\ request' = Noting(b)
    /\ UNCHANGED <<appVars, actions>>

-----------------------------------------------------------------------------
(* The main actor goes on after an await.                                    *)

Dismissed(op) == IF op = "apply" /\ sheet = "recipes" THEN "none" ELSE sheet

(* Variant of ResumeError with a bug, as further down: the flag is cleared   *)
(* at the end of the function and not in a defer.                            *)
ResumeError_NoDefer(s) ==
    /\ request[s].answer = "error"
    /\ alert' = "failure"
    /\ sheet' = Dismissed(request[s].op)
    /\ request' = [request EXCEPT ![s] = Free]
    /\ UNCHANGED <<bottles, isLoading, launches, record, excused, bounds>>

ResumeError(s) ==
    /\ request[s].answer = "error"
    /\ alert' = "failure"
    /\ sheet' = Dismissed(request[s].op)
    /\ isLoading' = FALSE
    /\ request' = [request EXCEPT ![s] = Free]
    /\ UNCHANGED <<bottles, launches, record, excused, bounds>>

(* Variant: the answer of the last call stays in the operation.              *)
Proceed_KeepsAnswer(s) ==
    IF Len(request[s].left) > 1
      THEN /\ request' = [request EXCEPT ![s].left = Tail(@)]
           /\ UNCHANGED isLoading
      ELSE request' = [request EXCEPT ![s] = Free] /\ isLoading' = FALSE

(* The next call, or the end of the operation.                               *)
Proceed(s) ==
    IF Len(request[s].left) > 1
      THEN /\ request' = [request EXCEPT ![s].left = Tail(@), ![s].answer = "none",
                                         ![s].list = {}, ![s].since = {}]
           /\ UNCHANGED isLoading
      ELSE request' = [request EXCEPT ![s] = Free] /\ isLoading' = FALSE

Resumes(s, call) == request[s].answer = "ok" /\ Head(request[s].left) = call

ResumeList(s) ==
    /\ Resumes(s, "bottle.list")
    /\ bottles' = request[s].list
    /\ excused' = request[s].since
    /\ Proceed(s)
    /\ sheet' = Dismissed(request[s].op)
    /\ UNCHANGED <<alert, launches, record, bounds>>

(* History: the app has been told of the deletion, unless the bottle is back. *)
DeletionKnown(s) == IF request[s].b \in request[s].since
                      THEN excused \cup {request[s].b} ELSE excused \ {request[s].b}

(* Variant: the list is left as it was.                                      *)
ResumeDelete_KeepsRow(s) ==
    /\ Resumes(s, "bottle.delete")
    /\ excused' = DeletionKnown(s)
    /\ Proceed(s)
    /\ UNCHANGED <<bottles, alert, sheet, launches, record, bounds>>

ResumeDelete(s) ==
    /\ Resumes(s, "bottle.delete")
    /\ bottles' = bottles \ {request[s].b}
    /\ excused' = DeletionKnown(s)
    /\ Proceed(s)
    /\ UNCHANGED <<alert, sheet, launches, record, bounds>>

ResumeCreate(s) ==
    /\ Resumes(s, "bottle.create")
    /\ sheet' = IF sheet = "create" THEN "none" ELSE sheet
    /\ Proceed(s)
    /\ UNCHANGED <<bottles, alert, launches, record, excused, bounds>>

(* Success is announced before the list is fetched.                          *)
ResumeOther(s) ==
    /\ \E call \in {"service.info", "recipe.list", "bottle.run", "recipe.apply",
                    "shortcut.create"} : Resumes(s, call)
    /\ alert' = IF request[s].op \in {"apply", "shortcut"}
                  THEN "success" ELSE alert
    /\ Proceed(s)
    /\ UNCHANGED <<bottles, sheet, launches, record, excused, bounds>>

-----------------------------------------------------------------------------
User(s) == \/ Launch(s) \/ Refresh(s) \/ CreateBottle(s) \/ DeleteBottle(s)
           \/ ApplyRecipe(s) \/ RunExecutable(s) \/ CreateShortcut(s)
Daemon(s) == \/ ListBegins(s) \/ ServeList(s) \/ ServeCreate(s) \/ ServeDelete(s)
             \/ ApplyBegins(s) \/ ServeApply(s) \/ ServeOther(s) \/ ServeFails(s)
MainActor(s) == \/ ResumeError(s) \/ ResumeList(s) \/ ResumeDelete(s)
                \/ ResumeCreate(s) \/ ResumeOther(s)

(* The user may stop.                                                        *)
Quiescent == (\A s \in Slot : request[s].op = "none") /\ UNCHANGED vars

Next == \/ \E s \in Slot : User(s) \/ Daemon(s) \/ MainActor(s)
        \/ (\E b \in Bottle : WriteLands(b))
        \/ SwitchSheet \/ OthersChange \/ Quiescent

Spec == Init /\ [][Next]_vars

-----------------------------------------------------------------------------
(* Properties                                                                *)

RequestOK(r) ==
    /\ r.op \in {"none"} \cup Ops
    /\ r.op = "none" => r = Free
    /\ r.op # "none" => \E n \in 0..2 : r.left = SubSeq(Calls(r.op), n + 1, Len(Calls(r.op)))
                                       /\ r.left # <<>>
    /\ r.b \in Bottle \cup {None}
    /\ r.op \in {"delete", "apply"} => r.b \in Used
    /\ r.answer \in {"none", "busy", "ok", "error"}
    /\ r.list \subseteq Used /\ r.since \subseteq Bottle
    (* only the answer to a listing carries a list *)
    /\ r.list # {} => Head(r.left) = "bottle.list" /\ r.answer = "ok"
    /\ r.since # {} => Noted(r)

TypeOK ==
    /\ record \in [Bottle -> Records] /\ bottles \subseteq Used
    /\ isLoading \in BOOLEAN
    /\ alert \in {"none", "failure", "success"}
    /\ sheet \in {"none", "create", "recipes"}
    /\ launches \in 0..2
    /\ DOMAIN request = Slot /\ \A s \in Slot : RequestOK(request[s])
    /\ excused \subseteq Bottle /\ actions \in Nat /\ others \in Nat

(* The list on the screen is what the daemon holds records of, except for    *)
(* bottles whose record was still being written when the listing on the      *)
(* screen was made, or that changed since and of whose change no operation   *)
(* of the app has told it.                                                   *)
ListTellsDaemon ==
    \A b \in Bottle \ excused : b \in bottles <=> record[b] = "kept"

(* The progress indicator does not stay when nothing is in progress.         *)
IdleNotLoading == (\A s \in Slot : request[s].op = "none") => ~isLoading
=============================================================================
