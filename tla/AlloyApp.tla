------------------------------- MODULE AlloyApp -------------------------------
(* The app of the second generation (gui/SiliconAlloyApp): BottleStore, whose *)
(* operations each run an alloyctl in a detached task of their own and end on *)
(* the main actor, and DaemonClient, which reads what alloyctl printed once   *)
(* it has exited.  alloy-daemon is what the app sees of it: the bottles.      *)
EXTENDS Naturals, FiniteSets

CONSTANTS
    Work,        \* detached tasks that can be in progress at once
    Name,        \* names of bottles
    NoName,      \* no name
    PipeSize,    \* bottles that a pipe holds when nobody reads it
    MaxClicks,   \* bound on what the user does
    MaxForeign   \* bound on what other clients of alloy-daemon change

ASSUME AlloyAppAssumption ==
    NoName \notin Name /\ {PipeSize, MaxClicks, MaxForeign} \subseteq Nat

VARIABLES
    (* BottleStore *)
    rows,                    \* bottles
    isBusy,
    errorMessage, statusMessage,
    presentingCreateSheet,
    work,                    \* the task of each operation and its alloyctl
    (* alloy-daemon *)
    there,
    (* history *)
    astray,                  \* names on which the list may be wrong
    appeared, clicks, foreign

store == <<rows, isBusy, errorMessage, statusMessage, presentingCreateSheet>>
alloyAppVars == <<store, work, there, astray, appeared, clicks, foreign>>

Commands == {"list", "create", "destroy", "run", "ping"}

(* at: where alloyctl is.  name: the bottle that a command is about, or whose *)
(* change a listing follows.  since: history, what changed after the listing. *)
Nothing == [op |-> "none", name |-> NoName, at |-> "none", list |-> {}, since |-> {}]
RunCommand(op, n) == [Nothing EXCEPT !.op = op, !.name = n, !.at = "running"]

AlloyAppInit ==
    /\ rows = {} /\ isBusy = FALSE /\ errorMessage = "none" /\ statusMessage = "none"
    /\ presentingCreateSheet = FALSE
    /\ work = [w \in Work |-> Nothing]
    /\ there \in SUBSET Name /\ astray = there
    /\ appeared = FALSE /\ clicks = 0 /\ foreign = 0

-----------------------------------------------------------------------------
(* The user                                                                  *)

Perform(w, op, n) ==
    /\ work[w] = Nothing
    /\ isBusy' = TRUE /\ errorMessage' = "none" /\ statusMessage' = "none"
    /\ work' = [work EXCEPT ![w] = RunCommand(op, n)]
    /\ UNCHANGED <<rows, there, astray, foreign>>

OnAppear(w) == /\ ~appeared /\ appeared' = TRUE
               /\ Perform(w, "list", NoName)
               /\ UNCHANGED <<presentingCreateSheet, clicks>>

Tap == clicks < MaxClicks /\ clicks' = clicks + 1 /\ UNCHANGED appeared

(* No control looks at isBusy; the sheet blocks the window behind it.        *)
Tapped(w, op, n) == /\ ~presentingCreateSheet /\ Tap
                    /\ Perform(w, op, n)
                    /\ UNCHANGED presentingCreateSheet
RefreshBottles(w) == Tapped(w, "list", NoName)
EnsureDaemonReachable(w) == Tapped(w, "ping", NoName)
RunIn(w) == \E n \in rows : Tapped(w, "run", n)
DestroyBottle(w) == \E n \in rows : Tapped(w, "destroy", n)

(* Any name may be typed, also one that is taken.                            *)
Submit(w) == /\ presentingCreateSheet /\ presentingCreateSheet' = FALSE /\ Tap
             /\ \E n \in Name : Perform(w, "create", n)

ToggleSheet ==
    /\ presentingCreateSheet' = ~presentingCreateSheet /\ Tap
    /\ UNCHANGED <<rows, isBusy, errorMessage, statusMessage, work, there, astray, foreign>>

-----------------------------------------------------------------------------
(* alloyctl and alloy-daemon                                                 *)

(* History: a listing that was served before n changed does not know of it.  *)
Unaware(n) == [w \in Work |-> IF work[w].op = "list" /\ work[w].at \in {"printing", "exited"}
                                THEN [work[w] EXCEPT !.since = @ \cup {n}] ELSE work[w]]

Asks(w, ops) == work[w].at = "running" /\ work[w].op \in ops

AnswerList(w) ==
    /\ Asks(w, {"list"})
    /\ work' = [work EXCEPT ![w].at = "printing", ![w].list = there]
    /\ UNCHANGED <<store, there, astray, appeared, clicks, foreign>>

(* The change is made; its answer arrives, or is lost or a failure.  A name   *)
(* that is taken is an error, below, but two creations at once may both be    *)
(* acknowledged.                                                             *)
AnswerChange(w) ==
    /\ Asks(w, {"create", "destroy"})
    /\ LET n == work[w].name IN
         /\ work[w].op = "destroy" => n \in there
         /\ there' = IF work[w].op = "create" THEN there \cup {n} ELSE there \ {n}
         /\ \E at \in {"printing", "failed"} :
              /\ work' = [Unaware(n) EXCEPT ![w].at = at]
              /\ astray' = IF at = "failed" THEN astray \cup {n} ELSE astray
    /\ UNCHANGED <<store, appeared, clicks, foreign>>

AnswerOther(w) ==
    /\ Asks(w, {"run", "ping"})
    /\ work' = [work EXCEPT ![w].at = "printing"]
    /\ UNCHANGED <<store, there, astray, appeared, clicks, foreign>>

(* History: the change of which the app will not learn if w fails now.       *)
Unlearned(w) == IF \/ work[w].op \in {"create", "destroy"} /\ work[w].at = "printing"
                   \/ work[w].op = "list" /\ work[w].name # NoName
                  THEN {work[w].name} ELSE {}

(* Variant of CommandFails with a bug, as further down: what was printed     *)
(* before the failure is kept as if it were the answer.                      *)
CommandFails_KeepsOutput(w) ==
    /\ work[w].at \in {"running", "printing"}
    /\ work' = [work EXCEPT ![w].at = "failed"]
    /\ astray' = astray \cup Unlearned(w)
    /\ UNCHANGED <<store, there, appeared, clicks, foreign>>

(* No alloyctl, no daemon, an error of the daemon's, or an answer that cannot *)
(* be parsed.                                                                *)
CommandFails(w) ==
    /\ work[w].at \in {"running", "printing"}
    /\ work' = [work EXCEPT ![w].at = "failed", ![w].list = {}, ![w].since = {}]
    /\ astray' = astray \cup Unlearned(w)
    /\ UNCHANGED <<store, there, appeared, clicks, foreign>>

(* Nobody reads the pipe before alloyctl has exited.                         *)
Blocked(w) == work[w].at = "printing" /\ Cardinality(work[w].list) > PipeSize
CommandExits(w) ==
    /\ work[w].at = "printing" /\ ~Blocked(w)
    /\ work' = [work EXCEPT ![w].at = "exited"]
    /\ UNCHANGED <<store, there, astray, appeared, clicks, foreign>>

ForeignChange(n) ==
    /\ foreign < MaxForeign /\ foreign' = foreign + 1
    /\ there' = IF n \in there THEN there \ {n} ELSE there \cup {n}
    /\ work' = Unaware(n) /\ astray' = astray \cup {n}
    /\ UNCHANGED <<store, appeared, clicks>>

-----------------------------------------------------------------------------
(* The task ends on the main actor.                                          *)

Resumed(w, ops) == work[w].at = "exited" /\ work[w].op \in ops

(* Variant: the flag is cleared on success only.                             *)
Fails_StaysBusy(w) ==
    /\ work[w].at = "failed"
    /\ errorMessage' = work[w].op
    /\ work' = [work EXCEPT ![w] = Nothing]
    /\ UNCHANGED <<rows, isBusy, statusMessage, presentingCreateSheet, there, astray,
                   appeared, clicks, foreign>>

Fails(w) ==
    /\ work[w].at = "failed"
    /\ errorMessage' = work[w].op /\ isBusy' = FALSE
    /\ work' = [work EXCEPT ![w] = Nothing]
    /\ UNCHANGED <<rows, statusMessage, presentingCreateSheet, there, astray, appeared,
                   clicks, foreign>>

Listed(w) ==
    /\ Resumed(w, {"list"})
    /\ rows' = work[w].list /\ astray' = work[w].since
    /\ statusMessage' = "list" /\ isBusy' = FALSE
    /\ work' = [work EXCEPT ![w] = Nothing]
    /\ UNCHANGED <<errorMessage, presentingCreateSheet, there, appeared, clicks, foreign>>

(* Variant: the list is not fetched again.                                   *)
Changed_NoRefresh(w) ==
    /\ Resumed(w, {"create", "destroy"})
    /\ statusMessage' = work[w].op /\ isBusy' = FALSE
    /\ work' = [work EXCEPT ![w] = Nothing]
    /\ UNCHANGED <<rows, errorMessage, presentingCreateSheet, there, astray, appeared,
                   clicks, foreign>>

(* success() sets its message and calls refresh, which clears the messages   *)
(* and starts a task of its own; only then is isBusy cleared.                *)
ChangeMade(w) ==
    /\ Resumed(w, {"create", "destroy"})
    /\ statusMessage' = "none" /\ errorMessage' = "none" /\ isBusy' = FALSE
    /\ work' = [work EXCEPT ![w] = RunCommand("list", work[w].name)]
    /\ UNCHANGED <<rows, presentingCreateSheet, there, astray, appeared, clicks, foreign>>

OtherDone(w) ==
    /\ Resumed(w, {"run", "ping"})
    /\ statusMessage' = work[w].op /\ isBusy' = FALSE
    /\ work' = [work EXCEPT ![w] = Nothing]
    /\ UNCHANGED <<rows, errorMessage, presentingCreateSheet, there, astray, appeared,
                   clicks, foreign>>

-----------------------------------------------------------------------------
UserTaps(w) == \/ OnAppear(w) \/ RefreshBottles(w) \/ EnsureDaemonReachable(w)
               \/ RunIn(w) \/ DestroyBottle(w) \/ Submit(w)
CommandRuns(w) == \/ AnswerList(w) \/ AnswerChange(w) \/ AnswerOther(w)
                  \/ CommandFails(w) \/ CommandExits(w)
TaskEnds(w) == Fails(w) \/ Listed(w) \/ ChangeMade(w) \/ OtherDone(w)

AlloyAppNext == \/ \E w \in Work : UserTaps(w) \/ CommandRuns(w) \/ TaskEnds(w)
                \/ ToggleSheet \/ \E n \in Name : ForeignChange(n)

AlloyAppSpec == AlloyAppInit /\ [][AlloyAppNext]_alloyAppVars

(* Whatever happens next is for the user: every task has ended, or is behind *)
(* a pipe that is full, for ever.                                            *)
AppAtRest == \A w \in Work : work[w] = Nothing \/ Blocked(w)

-----------------------------------------------------------------------------
(* Properties                                                                *)

WorkOK(r) ==
    /\ r.op \in {"none"} \cup Commands
    /\ r.op = "none" => r = Nothing
    /\ r.op # "none" => r.at \in {"running", "printing", "exited", "failed"}
    /\ r.op \in {"create", "destroy", "run"} => r.name \in Name
    /\ r.name \in Name \cup {NoName}
    /\ r.list \subseteq Name /\ r.since \subseteq Name
    (* only an answered listing carries a list *)
    /\ r.list # {} \/ r.since # {} => r.op = "list" /\ r.at \in {"printing", "exited"}

AlloyAppTypeOK ==
    /\ rows \subseteq Name /\ there \subseteq Name /\ astray \subseteq Name
    /\ isBusy \in BOOLEAN /\ presentingCreateSheet \in BOOLEAN /\ appeared \in BOOLEAN
    /\ errorMessage \in {"none"} \cup Commands /\ statusMessage \in {"none"} \cup Commands
    /\ DOMAIN work = Work /\ \A w \in Work : WorkOK(work[w])
    /\ clicks \in Nat /\ foreign \in Nat

(* When no operation is in progress, the list is alloy-daemon's, except for  *)
(* bottles that others changed after the listing on the screen was served,   *)
(* whose change, or the listing after it, failed as far as the app knows, or *)
(* that an older listing showed again (createBottle and destroyBottle show   *)
(* their result by a refresh of their own, BottleStore.refresh).             *)
SettledListTrue ==
    (\A w \in Work : work[w] = Nothing) =>
      \A n \in Name \ astray : n \in rows <=> n \in there

(* The busy flag does not stay when nothing is in progress: each end clears  *)
(* it after the success of the operation, whose refresh sets it again.       *)
IdleNotBusy == (\A w \in Work : work[w] = Nothing) => ~isBusy
=============================================================================
