--------------------------- MODULE AlloyApp_proofs ---------------------------
(* Theorems about AlloyApp, for every number of tasks, names, user actions   *)
(* and changes by other clients, and every size of a pipe.                   *)
EXTENDS AlloyApp, TLAPS

-----------------------------------------------------------------------------
(* The task of one operation.                                                *)
Tasks == [op: {"none"} \cup Commands, name: Name \cup {NoName},
          at: {"none", "running", "printing", "exited", "failed"},
          list: SUBSET Name, since: SUBSET Name]

Answered(r) == r.op = "list" /\ r.at \in {"printing", "exited"}

(* An answered listing is true, except for what changed since.               *)
TaskInv(r, all) ==
    /\ r \in Tasks /\ WorkOK(r)
    /\ Answered(r) => \A n \in Name \ r.since : n \in r.list <=> n \in all

(* The operation will show n, or say that it failed to.                      *)
Owes(r, n) == /\ r.name = n
              /\ \/ r.op \in {"create", "destroy"} /\ r.at \in {"printing", "exited"}
                 \/ r.op = "list" /\ r.at # "failed"

Shown(n) == n \in rows <=> n \in there

(* The inductive invariant: SettledListTrue speaks of a list at rest, so what *)
(* is wrong on the list must be owed by some operation in progress.          *)
StoreTyped ==
    /\ rows \subseteq Name /\ there \subseteq Name /\ astray \subseteq Name
    /\ isBusy \in BOOLEAN /\ presentingCreateSheet \in BOOLEAN /\ appeared \in BOOLEAN
    /\ errorMessage \in {"none"} \cup Commands /\ statusMessage \in {"none"} \cup Commands
    /\ clicks \in Nat /\ foreign \in Nat

TasksInv == /\ work \in [Work -> Tasks]
            /\ \A w \in Work : TaskInv(work[w], there)

ListInv == \A n \in Name \ astray : Shown(n) \/ \E w \in Work : Owes(work[w], n)

StoreInv == StoreTyped /\ TasksInv /\ ListInv /\ IdleNotBusy

-----------------------------------------------------------------------------
(* What each event makes of one task.                                        *)

(* No task.                                                                  *)
LEMMA NothingInv ==
    ASSUME NEW all
    PROVE  TaskInv(Nothing, all) /\ Nothing.op = "none" /\ Nothing.at = "none"
           /\ \A n : ~Owes(Nothing, n)
  BY DEF TaskInv, Tasks, WorkOK, Nothing, Answered, Owes

(* A task that begins.                                                       *)
LEMMA RunningInv ==
    ASSUME NEW all, NEW op \in Commands, NEW n \in Name \cup {NoName},
           op \in {"create", "destroy", "run"} => n \in Name
    PROVE  /\ TaskInv(RunCommand(op, n), all) /\ RunCommand(op, n) # Nothing
           /\ op = "list" => Owes(RunCommand(op, n), n)
<1>1. ASSUME NEW r, r \in Tasks, r.list = {}, r.since = {},
             NEW x, x = [r EXCEPT !.op = op, !.name = n, !.at = "running"]
      PROVE  /\ x \in Tasks /\ x.op = op /\ x.name = n /\ x.at = "running"
             /\ x.list = {} /\ x.since = {}
  BY <1>1 DEF Tasks
<1>2. Nothing \in Tasks /\ Nothing.list = {} /\ Nothing.since = {} /\ Nothing.at = "none"
  BY DEF Nothing, Tasks
<1>3. PICK x : x = RunCommand(op, n)
  OBVIOUS
<1>4. /\ x \in Tasks /\ x.op = op /\ x.name = n /\ x.at = "running"
      /\ x.list = {} /\ x.since = {}
  BY <1>1, <1>2, <1>3 DEF RunCommand
<1>5. op # "none"
  BY DEF Commands
<1> QED BY <1>2, <1>3, <1>4, <1>5 DEF TaskInv, WorkOK, Answered, Owes

(* A listing that is answered.                                               *)
LEMMA ListAnswered ==
    ASSUME NEW all \in SUBSET Name, NEW r, TaskInv(r, all), r.op = "list", r.at = "running",
           NEW x, x = [r EXCEPT !.at = "printing", !.list = all]
    PROVE  /\ TaskInv(x, all) /\ x # Nothing
           /\ \A n : Owes(r, n) => Owes(x, n)
<1>1. /\ x \in Tasks /\ x.op = "list" /\ x.name = r.name /\ x.at = "printing"
      /\ x.list = all /\ x.since = r.since
  BY DEF TaskInv, Tasks
<1>2. r.since = {}
  BY DEF TaskInv, WorkOK
<1> QED BY <1>1, <1>2 DEF TaskInv, WorkOK, Answered, Owes, Nothing, Tasks

(* Any other task that goes on and carries no list.                          *)
LEMMA GoesOn ==
    ASSUME NEW all, NEW r, TaskInv(r, all), r.op # "none", ~Answered(r),
           NEW at \in {"printing", "exited", "failed"},
           r.op = "list" => at = "failed",
           NEW x, x = [r EXCEPT !.at = at]
    PROVE  /\ TaskInv(x, all) /\ x # Nothing
           /\ x.op = r.op /\ x.name = r.name /\ x.at = at
<1>1. /\ x \in Tasks /\ x.op = r.op /\ x.name = r.name /\ x.at = at
      /\ x.list = r.list /\ x.since = r.since
  BY DEF TaskInv, Tasks
<1>2. r.list = {} /\ r.since = {}
  BY DEF TaskInv, WorkOK, Answered
<1> QED BY <1>1, <1>2 DEF TaskInv, WorkOK, Answered, Nothing, Tasks

(* A process that exits.                                                     *)
LEMMA Exited ==
    ASSUME NEW all, NEW r, TaskInv(r, all), r.at = "printing",
           NEW x, x = [r EXCEPT !.at = "exited"]
    PROVE  /\ TaskInv(x, all) /\ x # Nothing
           /\ \A n : Owes(r, n) => Owes(x, n)
<1>1. /\ x \in Tasks /\ x.op = r.op /\ x.name = r.name /\ x.at = "exited"
      /\ x.list = r.list /\ x.since = r.since
  BY DEF TaskInv, Tasks
<1>2. r.op # "none"
  BY DEF TaskInv, WorkOK, Nothing
<1> QED BY <1>1, <1>2 DEF TaskInv, WorkOK, Answered, Owes, Nothing, Tasks

(* A process that fails.                                                     *)
LEMMA Failed ==
    ASSUME NEW all, NEW r, TaskInv(r, all), r.at \in {"running", "printing"},
           NEW x, x = [r EXCEPT !.at = "failed", !.list = {}, !.since = {}]
    PROVE  TaskInv(x, all) /\ x # Nothing
<1>1. /\ x \in Tasks /\ x.op = r.op /\ x.name = r.name /\ x.at = "failed"
      /\ x.list = {} /\ x.since = {}
  BY DEF TaskInv, Tasks
<1>2. r.op # "none"
  BY DEF TaskInv, WorkOK, Nothing
<1> QED BY <1>1, <1>2 DEF TaskInv, WorkOK, Answered, Nothing, Tasks

(* A bottle that came or went, of which answered listings do not know.       *)
LEMMA ChangeInv ==
    ASSUME NEW all, NEW r, TaskInv(r, all), NEW n \in Name,
           NEW all2, \A o \in Name \ {n} : o \in all <=> o \in all2,
           NEW x, x = IF Answered(r) THEN [r EXCEPT !.since = @ \cup {n}] ELSE r
    PROVE  /\ TaskInv(x, all2)
           /\ x.op = r.op /\ x.name = r.name /\ x.at = r.at
           /\ r # Nothing => x # Nothing
<1>1. CASE Answered(r)
  <2>1. /\ x \in Tasks /\ x.op = r.op /\ x.name = r.name /\ x.at = r.at
        /\ x.list = r.list /\ x.since = r.since \cup {n} /\ r.op = "list"
    BY <1>1 DEF TaskInv, Tasks, Answered
  <2>2. x # Nothing
    BY <2>1 DEF Nothing
  <2> QED BY <1>1, <2>1, <2>2 DEF TaskInv, WorkOK, Answered, Tasks
<1>2. CASE ~Answered(r)
  BY <1>2 DEF TaskInv
<1> QED BY <1>1, <1>2

-----------------------------------------------------------------------------
(* What each step does to the invariant.                                     *)
LEMMA StoreInvInit == AlloyAppInit => StoreInv
<1> SUFFICES ASSUME AlloyAppInit PROVE StoreInv
  OBVIOUS
<1>1. StoreTyped
  <2>1. isBusy \in BOOLEAN /\ presentingCreateSheet \in BOOLEAN /\ appeared \in BOOLEAN
    BY DEF AlloyAppInit
  <2>2. rows \subseteq Name /\ there \subseteq Name /\ astray \subseteq Name
    BY DEF AlloyAppInit
  <2>3. errorMessage \in {"none"} \cup Commands /\ statusMessage \in {"none"} \cup Commands
        /\ clicks \in Nat /\ foreign \in Nat
    BY DEF AlloyAppInit
  <2> QED BY ONLY <2>1, <2>2, <2>3 DEF StoreTyped
<1>2. TasksInv
  BY NothingInv DEF AlloyAppInit, TasksInv, TaskInv
<1>3. ListInv /\ IdleNotBusy
  BY DEF AlloyAppInit, ListInv, Shown, IdleNotBusy
<1> QED BY <1>1, <1>2, <1>3 DEF StoreInv

(* A step of one task, while the list and alloy-daemon stay: what it owed it *)
(* owes still, or the list may be wrong about it from now on.                *)
LEMMA OneTask ==
    ASSUME TasksInv, ListInv, NEW s \in Work, NEW x, TaskInv(x, there),
           work' = [work EXCEPT ![s] = x], rows' = rows, there' = there,
           astray \subseteq astray',
           \A n \in Name : Owes(work[s], n) => Owes(x, n) \/ n \in astray'
    PROVE  /\ TasksInv' /\ ListInv' /\ work'[s] = x
           /\ \A o \in Work : o # s => work'[o] = work[o]
<1>1. x \in Tasks
  BY DEF TaskInv
<1>2. work'[s] = x /\ \A o \in Work : o # s => work'[o] = work[o]
  BY DEF TasksInv
<1>3. TasksInv'
  BY <1>1, <1>2 DEF TasksInv
<1>4. ListInv'
  <2> SUFFICES ASSUME NEW n \in Name \ astray'
               PROVE  Shown(n)' \/ \E w \in Work : Owes(work'[w], n)
    BY DEF ListInv
  <2>1. CASE Shown(n)
    BY <2>1 DEF Shown
  <2>2. CASE \E w \in Work : Owes(work[w], n)
    BY <1>2, <2>2
  <2> QED BY <2>1, <2>2 DEF ListInv
<1> QED BY <1>2, <1>3, <1>4

(* An operation begins.                                                      *)
LEMMA PerformKept ==
    ASSUME StoreInv, NEW w \in Work, NEW op \in Commands, NEW n \in Name \cup {NoName},
           op \in {"create", "destroy", "run"} => n \in Name,
           Perform(w, op, n), presentingCreateSheet' \in BOOLEAN, appeared' \in BOOLEAN,
           clicks' \in Nat
    PROVE  StoreInv'
<1> DEFINE x == RunCommand(op, n)
<1>1. TaskInv(x, there) /\ x # Nothing
  BY RunningInv
<1>2. \A m : ~Owes(work[w], m)
  BY NothingInv DEF Perform
<1> HIDE DEF x
<1>3. TasksInv' /\ ListInv' /\ work'[w] = x
  BY <1>1, <1>2, OneTask DEF StoreInv, Perform, x
<1>4. IdleNotBusy'
  BY <1>1, <1>3 DEF IdleNotBusy
<1>5. StoreTyped'
  BY DEF StoreInv, StoreTyped, Perform
<1> QED BY <1>3, <1>4, <1>5 DEF StoreInv

(* What the user does.                                                       *)
LEMMA UserKept ==
    ASSUME StoreInv, NEW w \in Work, UserTaps(w)
    PROVE  StoreInv'
<1>1. \A op \in {"list", "create", "destroy", "run", "ping"} : op \in Commands
  BY DEF Commands
<1>2. /\ rows \subseteq Name /\ clicks \in Nat
      /\ appeared \in BOOLEAN /\ presentingCreateSheet \in BOOLEAN
  BY DEF StoreInv, StoreTyped
<1>3. CASE OnAppear(w)
  <2>1. appeared' \in BOOLEAN /\ presentingCreateSheet' \in BOOLEAN /\ clicks' \in Nat
    BY <1>2, <1>3 DEF OnAppear
  <2> QED BY <1>1, <1>3, <2>1, PerformKept DEF OnAppear
<1>4. ASSUME NEW op \in Commands, NEW n \in Name \cup {NoName}, Tapped(w, op, n),
             op \in {"create", "destroy", "run"} => n \in Name
      PROVE  StoreInv'
  <2>1. appeared' \in BOOLEAN /\ presentingCreateSheet' \in BOOLEAN /\ clicks' \in Nat
    BY <1>2, <1>4 DEF Tapped, Tap
  <2> QED BY <1>4, <2>1, PerformKept DEF Tapped
<1>5. CASE Submit(w)
  <2>1. appeared' \in BOOLEAN /\ presentingCreateSheet' \in BOOLEAN /\ clicks' \in Nat
    <3>1. presentingCreateSheet' \in BOOLEAN
      BY <1>5 DEF Submit
    <3>2. appeared' \in BOOLEAN /\ clicks' \in Nat
      BY <1>2, <1>5 DEF Submit, Tap
    <3> QED BY <3>1, <3>2
  <2> QED BY <1>1, <1>5, <2>1, PerformKept DEF Submit
<1> QED BY <1>1, <1>2, <1>3, <1>4, <1>5
        DEF UserTaps, RefreshBottles, EnsureDaemonReachable, RunIn, DestroyBottle

(* A step of alloyctl that leaves the app and alloy-daemon as they are.      *)
LEMMA CommandKept ==
    ASSUME StoreInv, NEW w \in Work, NEW x, TaskInv(x, there), x # Nothing,
           work' = [work EXCEPT ![w] = x], UNCHANGED <<store, there, appeared, clicks, foreign>>,
           astray \subseteq astray', astray' \subseteq Name,
           \A n \in Name : Owes(work[w], n) => Owes(x, n) \/ n \in astray'
    PROVE  StoreInv'
<1>1. TasksInv' /\ ListInv' /\ work'[w] = x
  BY OneTask DEF StoreInv, store
<1>2. IdleNotBusy'
  BY <1>1 DEF IdleNotBusy
<1>3. StoreTyped'
  BY DEF StoreInv, StoreTyped, store
<1> QED BY <1>1, <1>2, <1>3 DEF StoreInv

(* An answered listing.                                                      *)
LEMMA AnswerListKept ==
    ASSUME StoreInv, NEW w \in Work, AnswerList(w)
    PROVE  StoreInv'
<1> DEFINE r == work[w]
<1> DEFINE x == [r EXCEPT !.at = "printing", !.list = there]
<1>1. /\ TaskInv(r, there) /\ r.op = "list" /\ r.at = "running" /\ there \in SUBSET Name
      /\ work' = [work EXCEPT ![w] = x]
  BY DEF StoreInv, StoreTyped, TasksInv, AnswerList, Asks
<1> HIDE DEF r
<1>2. /\ TaskInv(x, there) /\ x # Nothing
      /\ \A n : Owes(r, n) => Owes(x, n)
  BY <1>1, ListAnswered
<1> HIDE DEF x
<1>3. astray \subseteq astray' /\ astray' \subseteq Name
  BY DEF StoreInv, StoreTyped, AnswerList
<1> QED BY <1>1, <1>2, <1>3, CommandKept DEF AnswerList, r

(* An answer that carries nothing.                                           *)
LEMMA AnswerOtherKept ==
    ASSUME StoreInv, NEW w \in Work, AnswerOther(w)
    PROVE  StoreInv'
<1> DEFINE r == work[w]
<1> DEFINE x == [r EXCEPT !.at = "printing"]
<1>1. /\ TaskInv(r, there) /\ r.op \in {"run", "ping"} /\ r.at = "running"
      /\ work' = [work EXCEPT ![w] = x]
  BY DEF StoreInv, TasksInv, AnswerOther, Asks
<1> HIDE DEF r
<1>2. TaskInv(x, there) /\ x # Nothing
  BY <1>1, GoesOn DEF Answered
<1> HIDE DEF x
<1>3. \A n : ~Owes(r, n)
  BY <1>1 DEF Owes
<1>4. astray \subseteq astray' /\ astray' \subseteq Name
  BY DEF StoreInv, StoreTyped, AnswerOther
<1> QED BY <1>1, <1>2, <1>3, <1>4, CommandKept DEF AnswerOther, r

(* A failure: what the app will not learn of may be wrong on the list.       *)
LEMMA CommandFailsKept ==
    ASSUME StoreInv, NEW w \in Work, CommandFails(w)
    PROVE  StoreInv'
<1> DEFINE r == work[w]
<1> DEFINE x == [r EXCEPT !.at = "failed", !.list = {}, !.since = {}]
<1>1. /\ TaskInv(r, there) /\ r.at \in {"running", "printing"}
      /\ work' = [work EXCEPT ![w] = x] /\ astray' = astray \cup Unlearned(w)
      /\ astray \subseteq Name
  BY DEF StoreInv, StoreTyped, TasksInv, CommandFails
<1>2. \A n \in Name : Owes(r, n) => n \in Unlearned(w)
  BY <1>1, AlloyAppAssumption DEF Owes, Unlearned
<1>3. Unlearned(w) \subseteq Name
  BY <1>1 DEF Unlearned, TaskInv, WorkOK
<1> HIDE DEF r
<1>4. TaskInv(x, there) /\ x # Nothing
  BY <1>1, Failed
<1> HIDE DEF x
<1> QED BY <1>1, <1>2, <1>3, <1>4, CommandKept DEF CommandFails, r

(* alloyctl exits, and what it printed is read.                              *)
LEMMA CommandExitsKept ==
    ASSUME StoreInv, NEW w \in Work, CommandExits(w)
    PROVE  StoreInv'
<1> DEFINE r == work[w]
<1> DEFINE x == [r EXCEPT !.at = "exited"]
<1>1. /\ TaskInv(r, there) /\ r.at = "printing"
      /\ work' = [work EXCEPT ![w] = x]
  BY DEF StoreInv, TasksInv, CommandExits
<1> HIDE DEF r
<1>2. /\ TaskInv(x, there) /\ x # Nothing
      /\ \A n : Owes(r, n) => Owes(x, n)
  BY <1>1, Exited
<1> HIDE DEF x
<1>3. astray \subseteq astray' /\ astray' \subseteq Name
  BY DEF StoreInv, StoreTyped, CommandExits
<1> QED BY <1>1, <1>2, <1>3, CommandKept DEF CommandExits, r

(* A change of n at alloy-daemon, as the other operations hear of it.        *)
LEMMA Unawares ==
    ASSUME TasksInv, NEW n \in Name, NEW all2, \A o \in Name \ {n} : o \in there <=> o \in all2,
           NEW heard, heard = Unaware(n)
    PROVE  /\ heard \in [Work -> Tasks]
           /\ \A w \in Work : /\ TaskInv(heard[w], all2)
                              /\ heard[w].op = work[w].op /\ heard[w].name = work[w].name
                              /\ heard[w].at = work[w].at
                              /\ work[w] # Nothing => heard[w] # Nothing
<1>1. ASSUME NEW w \in Work
      PROVE  /\ TaskInv(heard[w], all2)
             /\ heard[w].op = work[w].op /\ heard[w].name = work[w].name
             /\ heard[w].at = work[w].at
             /\ work[w] # Nothing => heard[w] # Nothing
  <2> DEFINE r == work[w]
  <2>1. heard[w] = IF Answered(r) THEN [r EXCEPT !.since = @ \cup {n}] ELSE r
    BY DEF Unaware, Answered
  <2>2. TaskInv(r, there)
    BY DEF TasksInv
  <2> HIDE DEF r
  <2>3. /\ TaskInv(heard[w], all2)
        /\ heard[w].op = r.op /\ heard[w].name = r.name /\ heard[w].at = r.at
        /\ r # Nothing => heard[w] # Nothing
    BY <2>1, <2>2, ChangeInv
  <2> QED BY <2>3 DEF r
<1>2. heard \in [Work -> Tasks]
  BY <1>1 DEF Unaware, TaskInv
<1> QED BY <1>1, <1>2

(* A change that alloyctl asked for: it owes the app the news of it.         *)
LEMMA AnswerChangeKept ==
    ASSUME StoreInv, NEW w \in Work, AnswerChange(w)
    PROVE  StoreInv'
<1> DEFINE n == work[w].name
<1> DEFINE heard == Unaware(n)
<1> DEFINE r == heard[w]
<1>1. PICK at \in {"printing", "failed"} :
          /\ work' = [heard EXCEPT ![w].at = at]
          /\ astray' = IF at = "failed" THEN astray \cup {n} ELSE astray
  BY DEF AnswerChange
<1> DEFINE x == [r EXCEPT !.at = at]
<1>2. /\ work[w].op \in {"create", "destroy"} /\ work[w].at = "running"
      /\ n \in Name /\ there' \subseteq Name
      /\ \A o \in Name \ {n} : o \in there <=> o \in there'
      /\ UNCHANGED <<store, appeared, clicks, foreign>>
  <2>1. work[w].op \in {"create", "destroy"} /\ work[w].at = "running" /\ WorkOK(work[w])
    BY DEF StoreInv, TasksInv, TaskInv, AnswerChange, Asks
  <2> QED BY <2>1 DEF AnswerChange, StoreInv, StoreTyped, WorkOK
<1> HIDE DEF n
<1>3. /\ heard \in [Work -> Tasks]
      /\ \A o \in Work : /\ TaskInv(heard[o], there')
                         /\ heard[o].op = work[o].op /\ heard[o].name = work[o].name
                         /\ heard[o].at = work[o].at
                         /\ work[o] # Nothing => heard[o] # Nothing
  <2>1. TasksInv /\ heard = Unaware(n)
    BY DEF StoreInv
  <2> HIDE DEF heard
  <2> QED BY ONLY <1>2, <2>1, Unawares
<1>4. work' = [heard EXCEPT ![w] = x]
  BY <1>1
<1> HIDE DEF heard
<1>5. /\ TaskInv(r, there') /\ r.op \in {"create", "destroy"} /\ r.at = "running" /\ r.name = n
  BY <1>2, <1>3 DEF n
<1> HIDE DEF r
<1>6. TaskInv(x, there') /\ x # Nothing /\ x.op = r.op /\ x.name = n /\ x.at = at
  BY <1>5, GoesOn DEF Answered
<1> HIDE DEF x
<1>7. /\ work'[w] = x /\ \A o \in Work : o # w => work'[o] = heard[o]
      /\ work' \in [Work -> Tasks]
  BY <1>3, <1>4, <1>6 DEF TaskInv
<1>8. TasksInv'
  BY <1>3, <1>6, <1>7 DEF TasksInv
<1>9. ListInv'
  <2> SUFFICES ASSUME NEW m \in Name \ astray'
               PROVE  Shown(m)' \/ \E o \in Work : Owes(work'[o], m)
    BY DEF ListInv
  <2>1. CASE m = n
    BY <1>1, <1>5, <1>6, <1>7, <2>1 DEF Owes
  <2>2. CASE m # n
    <3>1. m \notin astray
      BY <1>1
    <3>2. CASE Shown(m)
      BY <1>2, <2>2, <3>2 DEF Shown, store
    <3>3. ASSUME NEW o \in Work, Owes(work[o], m) PROVE Owes(work'[o], m)
      <4>1. o # w
        BY <1>2, <3>3 DEF Owes
      <4> QED BY <1>3, <1>7, <3>3, <4>1 DEF Owes
    <3> QED BY <3>1, <3>2, <3>3 DEF StoreInv, ListInv
  <2> QED BY <2>1, <2>2
<1>10. StoreTyped'
  BY <1>1, <1>2 DEF StoreInv, StoreTyped, store
<1>11. IdleNotBusy'
  BY <1>6, <1>7 DEF IdleNotBusy
<1> QED BY <1>8, <1>9, <1>10, <1>11 DEF StoreInv

(* A change by another client.                                               *)
LEMMA ForeignKept ==
    ASSUME StoreInv, NEW n \in Name, ForeignChange(n)
    PROVE  StoreInv'
<1>1. /\ there' \subseteq Name /\ \A o \in Name \ {n} : o \in there <=> o \in there'
      /\ work' = Unaware(n) /\ astray' = astray \cup {n}
      /\ UNCHANGED <<store, appeared, clicks>> /\ foreign' = foreign + 1
  BY DEF ForeignChange, StoreInv, StoreTyped
<1>2. /\ work' \in [Work -> Tasks]
      /\ \A o \in Work : /\ TaskInv(work'[o], there')
                         /\ work'[o].op = work[o].op /\ work'[o].name = work[o].name
                         /\ work'[o].at = work[o].at
                         /\ work[o] # Nothing => work'[o] # Nothing
  <2>1. TasksInv
    BY DEF StoreInv
  <2> QED BY ONLY n \in Name, <1>1, <2>1, Unawares
<1>3. TasksInv'
  BY <1>2 DEF TasksInv
<1>4. ListInv'
  <2> SUFFICES ASSUME NEW m \in Name \ astray'
               PROVE  Shown(m)' \/ \E o \in Work : Owes(work'[o], m)
    BY DEF ListInv
  <2>1. m # n /\ m \notin astray
    BY <1>1
  <2>2. CASE Shown(m)
    BY <1>1, <2>1, <2>2 DEF Shown, store
  <2>3. ASSUME NEW o \in Work, Owes(work[o], m) PROVE Owes(work'[o], m)
    BY <1>2, <2>3 DEF Owes
  <2> QED BY <2>1, <2>2, <2>3 DEF StoreInv, ListInv
<1>5. IdleNotBusy'
  BY <1>1, <1>2 DEF StoreInv, IdleNotBusy, store
<1>6. StoreTyped'
  BY <1>1 DEF StoreInv, StoreTyped, store
<1> QED BY <1>3, <1>4, <1>5, <1>6 DEF StoreInv

(* A task that ends, of which the app learns nothing new about bottles.      *)
LEMMA EndKept ==
    ASSUME StoreInv, NEW w \in Work, work' = [work EXCEPT ![w] = Nothing],
           isBusy' = FALSE, UNCHANGED <<rows, presentingCreateSheet, there, astray, appeared,
                                       clicks, foreign>>,
           errorMessage' \in {"none"} \cup Commands, statusMessage' \in {"none"} \cup Commands,
           \A n \in Name : ~Owes(work[w], n)
    PROVE  StoreInv'
<1>1. TasksInv' /\ ListInv'
  BY NothingInv, OneTask DEF StoreInv
<1>2. IdleNotBusy' /\ isBusy' \in BOOLEAN
  BY DEF IdleNotBusy
<1>3. StoreTyped'
  BY <1>2 DEF StoreInv, StoreTyped
<1> QED BY <1>1, <1>2, <1>3 DEF StoreInv

(* The end of an operation on the main actor.                                *)
LEMMA TaskEndsKept ==
    ASSUME StoreInv, NEW w \in Work, TaskEnds(w)
    PROVE  StoreInv'
<1>1. TaskInv(work[w], there) /\ work[w].op \in {"none"} \cup Commands
      /\ errorMessage \in {"none"} \cup Commands /\ statusMessage \in {"none"} \cup Commands
  BY DEF StoreInv, StoreTyped, TasksInv, TaskInv, Tasks
<1>2. CASE Fails(w)
  <2>1. \A n \in Name : ~Owes(work[w], n)
    BY <1>2 DEF Fails, Owes
  <2> QED BY <1>1, <1>2, <2>1, EndKept DEF Fails
<1>3. CASE OtherDone(w)
  <2>1. \A n \in Name : ~Owes(work[w], n)
    BY <1>3 DEF OtherDone, Resumed, Owes
  <2> QED BY <1>1, <1>3, <2>1, EndKept DEF OtherDone
<1>4. CASE Listed(w)
  <2>1. /\ work[w].list \subseteq Name /\ work[w].since \subseteq Name
        /\ \A n \in Name \ work[w].since : n \in work[w].list <=> n \in there
    BY <1>1, <1>4 DEF Listed, Resumed, TaskInv, WorkOK, Answered
  <2>2. ListInv'
    BY <1>4, <2>1 DEF ListInv, Shown, Listed
  <2>3. TasksInv'
    BY <1>4, NothingInv DEF StoreInv, TasksInv, TaskInv, Listed
  <2>4. IdleNotBusy' /\ isBusy' \in BOOLEAN
    BY <1>4 DEF IdleNotBusy, Listed
  <2>5. StoreTyped'
    BY <1>4, <2>1, <2>4 DEF StoreInv, StoreTyped, Listed, Commands
  <2> QED BY <2>2, <2>3, <2>4, <2>5 DEF StoreInv
<1>5. CASE ChangeMade(w)
  <2> DEFINE x == RunCommand("list", work[w].name)
  <2>1. "list" \in Commands /\ work[w].name \in Name
    BY <1>1, <1>5 DEF Commands, ChangeMade, Resumed, TaskInv, WorkOK
  <2>2. TaskInv(x, there) /\ Owes(x, work[w].name)
    BY <2>1, RunningInv
  <2>3. \A n : Owes(work[w], n) => n = work[w].name
    BY DEF Owes
  <2> HIDE DEF x
  <2>4. TasksInv' /\ ListInv'
    BY <1>5, <2>2, <2>3, OneTask DEF StoreInv, ChangeMade, x
  <2>5. IdleNotBusy' /\ isBusy' \in BOOLEAN
    BY <1>5 DEF IdleNotBusy, ChangeMade
  <2>6. StoreTyped'
    BY <1>5, <2>5 DEF StoreInv, StoreTyped, ChangeMade
  <2> QED BY <2>4, <2>5, <2>6 DEF StoreInv
<1> QED BY <1>2, <1>3, <1>4, <1>5 DEF TaskEnds

(* Every step keeps the invariant.                                           *)
LEMMA StoreInvStep == StoreInv /\ [AlloyAppNext]_alloyAppVars => StoreInv'
<1> SUFFICES ASSUME StoreInv, [AlloyAppNext]_alloyAppVars PROVE StoreInv'
  OBVIOUS
<1>1. ASSUME NEW w \in Work, CommandRuns(w) PROVE StoreInv'
  BY <1>1, AnswerListKept, AnswerChangeKept, AnswerOtherKept, CommandFailsKept,
     CommandExitsKept DEF CommandRuns
<1>2. CASE ToggleSheet
  <2>1. presentingCreateSheet' \in BOOLEAN
    BY <1>2 DEF ToggleSheet
  <2>2. StoreTyped'
    BY <1>2, <2>1 DEF StoreInv, StoreTyped, ToggleSheet, Tap
  <2> QED BY <1>2, <2>2 DEF StoreInv, TasksInv, ListInv, Shown, IdleNotBusy, ToggleSheet
<1>3. CASE UNCHANGED alloyAppVars
  BY <1>3 DEF StoreInv, StoreTyped, TasksInv, ListInv, Shown, IdleNotBusy, alloyAppVars, store
<1> QED BY <1>1, <1>2, <1>3, UserKept, TaskEndsKept, ForeignKept DEF AlloyAppNext

(* The invariant always holds.                                               *)
LEMMA StoreInvariant == AlloyAppSpec => []StoreInv
  BY StoreInvInit, StoreInvStep, PTL DEF AlloyAppSpec

-----------------------------------------------------------------------------
(* The results.                                                              *)

(* The state of BottleStore is typed, and only an answered listing carries a *)
(* list: what a command printed before it failed is never taken for one.     *)
THEOREM AlloyTypeCorrect == AlloyAppSpec => []AlloyAppTypeOK
<1>1. StoreInv => AlloyAppTypeOK
  <2> SUFFICES ASSUME StoreInv PROVE AlloyAppTypeOK
    OBVIOUS
  <2>1. DOMAIN work = Work /\ \A w \in Work : WorkOK(work[w])
    BY DEF StoreInv, TasksInv, TaskInv
  <2> QED BY <2>1 DEF StoreInv, StoreTyped, AlloyAppTypeOK
<1> QED BY <1>1, StoreInvariant, PTL

(* Once nothing is in progress the list of BottleStore is alloy-daemon's,    *)
(* but for the exceptions that astray names, however operations overlapped.  *)
THEOREM AlloyListTrue == AlloyAppSpec => []SettledListTrue
<1>1. StoreInv => SettledListTrue
  <2> SUFFICES ASSUME StoreInv, \A w \in Work : work[w] = Nothing, NEW n \in Name \ astray
               PROVE  Shown(n)
    BY DEF SettledListTrue, Shown
  <2>1. \A w \in Work : ~Owes(work[w], n)
    BY NothingInv
  <2> QED BY <2>1 DEF StoreInv, ListInv
<1> QED BY <1>1, StoreInvariant, PTL

(* isBusy is clear whenever no operation of BottleStore is in progress.      *)
THEOREM AlloyBusyEnds == AlloyAppSpec => []IdleNotBusy
<1>1. StoreInv => IdleNotBusy
  BY DEF StoreInv
<1> QED BY <1>1, StoreInvariant, PTL
=============================================================================
