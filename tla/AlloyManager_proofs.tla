------------------------- MODULE AlloyManager_proofs -------------------------
(* Theorems about AlloyManager, for every number of connections, names and   *)
(* recipes.                                                                  *)
EXTENDS AlloyManager, TLAPS

(* The tasks part of the type invariant, by itself.                          *)
TasksOK == task \in [Task -> TaskState] /\ \A t \in Task : WellPlaced(task[t])

(* A task that will write the metadata file it has open.                     *)
WriterState(s) == s.pc = "writemeta" /\ ~s.orphan

(* A task whose creation or removal of a directory is under way: it has      *)
(* checked, has not finished with the directory, and its file is still there. *)
ActiveState(s) ==
    s.op \in {"create", "destroy"} /\ s.pc \notin {"check", "rmlog"} /\ ~s.orphan

WriterHasFile == \A t \in Task : WriterState(task[t]) => meta[task[t].n] # "absent"

(* Unless the name is botched, a writer is alone and its file is still empty. *)
LoneWriter ==
    \A t \in Task : WriterState(task[t]) /\ task[t].n \notin botched =>
        /\ meta[task[t].n] = "empty"
        /\ \A u \in Task : WriterState(task[u]) /\ task[u].n = task[t].n => u = t

SettledIsWhole ==
    \A n \in dir : /\ n \notin botched
                   /\ \A u \in Task : ActiveState(task[u]) => task[u].n # n
                   => meta[n] = "whole"

NoneBad == \A t \in Task : ~task[t].bad

Writers == WriterHasFile /\ LoneWriter /\ SettledIsWhole /\ NoneBad

(* TypeOK is not inductive: that metadata is only in directories needs       *)
(* WriterHasFile.                                                            *)
AlloyInv == TypeOK /\ Writers

-----------------------------------------------------------------------------
LEMMA IdleType == Idle \in TaskState /\ WellPlaced(Idle)
  BY AlloyAssumption DEF Idle, TaskState, WellPlaced, PlacesOf, Alive, Exited

(* Where a task is tells its handler and what it has.                        *)
LEMMA StateOf ==
    ASSUME TypeOK, NEW t \in Task
    PROVE  /\ task[t] \in TaskState /\ WellPlaced(task[t])
           /\ task[t].pc \in {"mkdir", "boot", "bootlog", "drain", "bootwait", "openmeta",
                              "writemeta"} => task[t].op = "create"
           /\ task[t].pc \in {"unlink", "rmlog"} => task[t].op = "destroy"
           /\ task[t].pc \in {"openlog", "spawn", "wait", "join"} =>
                task[t].op \in {"run", "apply"}
           /\ task[t].pc = "check" => task[t].op \in {"create", "destroy", "run", "apply"}
           /\ task[t].pc \in {"load", "steps", "cfgwait"} => task[t].op = "apply"
           /\ task[t].pc \in {"readdir", "probe", "readmeta"} => task[t].op = "list"
           /\ task[t].pc = "idle" => task[t].op = "none"
           /\ task[t].op = "none" => task[t].pc = "idle"
<1>1. task[t] \in TaskState /\ WellPlaced(task[t])
  BY DEF TypeOK
<1>2. /\ task[t].op \in {"none", "create", "destroy", "run", "apply", "list"}
      /\ task[t].pc \in PlacesOf(task[t].op)
  BY <1>1 DEF TaskState, WellPlaced
<1> QED
  BY <1>1, <1>2 DEF PlacesOf

(* A program belongs to a named bottle.                                      *)
LEMMA ChildHasName ==
    ASSUME TypeOK, NEW t \in Task, task[t].child # "none" PROVE task[t].n \in Name
  BY StateOf DEF WellPlaced

LEMMA MoveType ==
    ASSUME TypeOK, NEW t \in Task, NEW s \in TaskState, WellPlaced(s),
           task' = [task EXCEPT ![t] = s]
    PROVE  TasksOK'
  BY DEF TasksOK, TypeOK

LEMMA ReplyType ==
    ASSUME TypeOK, NEW t \in Task, Reply(t)
    PROVE  TasksOK' /\ stray' \subseteq Name \X Alive
<1>1. TasksOK'
  BY IdleType, MoveType DEF Reply
<1>2. ASSUME task[t].child \in Alive
      PROVE  <<task[t].n, task[t].child>> \in Name \X Alive
  BY <1>2, ChildHasName DEF Alive
<1>3. stray \subseteq Name \X Alive
  BY DEF TypeOK
<1> QED
  BY <1>1, <1>2, <1>3 DEF Reply

(* What does not touch metadata and does not end a creation or a removal of  *)
(* a good name keeps what is said about writers.                             *)
LEMMA Frame ==
    ASSUME AlloyInv, TasksOK', meta' = meta, dir' = dir, botched \subseteq botched', NoneBad',
           \A u \in Task :
             /\ WriterState(task'[u]) => WriterState(task[u]) /\ task'[u].n = task[u].n
             /\ ActiveState(task[u]) => \/ ActiveState(task'[u]) /\ task'[u].n = task[u].n
                                        \/ task[u].n \in botched'
                                        \/ task[u].n \notin dir
    PROVE  Writers'
<1>1. WriterHasFile' /\ LoneWriter'
  BY DEF AlloyInv, Writers, WriterHasFile, LoneWriter
<1>2. SettledIsWhole'
  <2> SUFFICES ASSUME NEW n \in dir, n \notin botched',
                      \A u \in Task : ActiveState(task'[u]) => task'[u].n # n
               PROVE  meta[n] = "whole"
    BY DEF SettledIsWhole
  <2>1. \A u \in Task : ActiveState(task[u]) => task[u].n # n
    OBVIOUS
  <2> QED
    BY <2>1 DEF AlloyInv, Writers, SettledIsWhole
<1> QED
  BY <1>1, <1>2 DEF Writers

(* A task goes on within its handler.                                        *)
LEMMA Move ==
    ASSUME AlloyInv, NEW t \in Task, NEW s \in TaskState, WellPlaced(s), ~s.bad,
           task' = [task EXCEPT ![t] = s], s.pc # "writemeta",
           UNCHANGED <<dir, files, meta, stray, history>>,
           log' \subseteq Name, requests' \in Nat, mishaps' \in Nat,
           ActiveState(task[t]) => \/ ActiveState(s) /\ s.n = task[t].n
                                   \/ task[t].n \notin dir
    PROVE  AlloyInv'
<1>1. TasksOK'
  BY MoveType DEF AlloyInv
<1>2. TypeOK'
  BY <1>1 DEF TypeOK, TasksOK, AlloyInv, history
<1>3. \A u \in Task : task'[u] = IF u = t THEN s ELSE task[u]
  BY DEF AlloyInv, TypeOK
<1>4. NoneBad'
  BY <1>3 DEF AlloyInv, Writers, NoneBad
<1>5. Writers'
  BY <1>1, <1>3, <1>4, Frame DEF history, WriterState
<1> QED
  BY <1>2, <1>5 DEF AlloyInv

(* A task answers; if that ends a creation or a removal in the middle, the   *)
(* name is botched or has no directory.                                      *)
LEMMA Answer ==
    ASSUME AlloyInv, NEW t \in Task, Reply(t), UNCHANGED <<dir, files, meta, made>>,
           botched \subseteq botched', botched' \subseteq Name,
           log' \subseteq Name, requests' \in Nat, mishaps' \in Nat,
           ActiveState(task[t]) => task[t].n \in botched' \/ task[t].n \notin dir
    PROVE  AlloyInv'
<1>1. TasksOK' /\ stray' \subseteq Name \X Alive
  BY ReplyType DEF AlloyInv
<1>2. TypeOK'
  BY <1>1 DEF TypeOK, TasksOK, AlloyInv
<1>3. \A u \in Task : task'[u] = IF u = t THEN Idle ELSE task[u]
  BY DEF AlloyInv, TypeOK, Reply
<1>4. ~WriterState(Idle) /\ ~Idle.bad
  BY DEF WriterState, Idle
<1>5. NoneBad'
  BY <1>3, <1>4 DEF AlloyInv, Writers, NoneBad
<1>6. Writers'
  BY <1>1, <1>3, <1>4, <1>5, Frame
<1> QED
  BY <1>2, <1>6 DEF AlloyInv

(* The state of a task that has only noted a name in its listing.            *)
LEMMA NotingState ==
    ASSUME TypeOK, NEW n \in Name, NEW u \in Task
    PROVE  /\ Noting(n)[u] \in TaskState /\ WellPlaced(Noting(n)[u])
           /\ Noting(n)[u].op = task[u].op /\ Noting(n)[u].pc = task[u].pc
           /\ Noting(n)[u].n = task[u].n /\ Noting(n)[u].orphan = task[u].orphan
           /\ Noting(n)[u].bad = task[u].bad
<1>1. task[u] \in TaskState /\ WellPlaced(task[u])
  BY StateOf
<1> DEFINE s == [task[u] EXCEPT !.hit = @ \cup {n}]
<1>2. s \in TaskState
  BY <1>1 DEF TaskState
<1>3. /\ s.pc = task[u].pc /\ s.op = task[u].op /\ s.n = task[u].n /\ s.r = task[u].r
      /\ s.child = task[u].child /\ s.out = task[u].out
      /\ s.orphan = task[u].orphan /\ s.bad = task[u].bad
  BY <1>1 DEF TaskState
<1>4. WellPlaced(s)
  BY <1>1, <1>3 DEF WellPlaced
<1>5. Noting(n)[u] = s \/ Noting(n)[u] = task[u]
  BY DEF Noting
<1> QED
  BY <1>1, <1>2, <1>3, <1>4, <1>5

(* A creation or a removal begins.                                           *)
LEMMA ChangeStarts ==
    ASSUME AlloyInv, NEW t \in Task, NEW o \in {"create", "destroy"}, StartChange(t, o)
    PROVE  AlloyInv'
<1>1. PICK n \in Name : task' = [Noting(n) EXCEPT ![t] =
                              [Idle EXCEPT !.op = o, !.pc = "check", !.n = n]]
  BY DEF StartChange
<1> DEFINE s == [Idle EXCEPT !.op = o, !.pc = "check", !.n = n]
<1>2. s \in TaskState /\ WellPlaced(s) /\ ~s.bad /\ s.pc = "check"
  <2>1. s \in TaskState
    BY IdleType, ZenonT(40) DEF TaskState
  <2>2. /\ s.op = o /\ s.pc = "check" /\ s.n = n /\ ~s.bad
        /\ s.child = "none" /\ s.out = "none" /\ ~s.orphan
    BY DEF Idle
  <2>3. WellPlaced(s)
    BY <2>2 DEF WellPlaced, PlacesOf
  <2> QED  BY <2>1, <2>2, <2>3
<1>3. task[t].op = "none" /\ requests' \in Nat
      /\ UNCHANGED <<fs, stray, history, mishaps>>
  BY DEF StartChange, Accept, AlloyInv, TypeOK
<1>4. TypeOK
  BY DEF AlloyInv
<1>5. /\ task' = [u \in Task |-> task'[u]]
      /\ \A u \in Task : task'[u] = IF u = t THEN s ELSE Noting(n)[u]
  BY <1>1 DEF Noting
<1> HIDE DEF s
<1>6. TasksOK' /\ NoneBad'
  BY <1>2, <1>4, <1>5, NotingState DEF TasksOK, NoneBad, AlloyInv, Writers
<1>7. TypeOK'
  BY <1>3, <1>4, <1>6 DEF TypeOK, TasksOK, fs, history
<1>8. ~WriterState(s) /\ ~ActiveState(task[t])
  BY <1>2, <1>3 DEF WriterState, ActiveState
<1>9. \A u \in Task : u # t => /\ WriterState(task'[u]) = WriterState(task[u])
                              /\ ActiveState(task'[u]) = ActiveState(task[u])
                              /\ task'[u].n = task[u].n
  BY <1>4, <1>5, NotingState DEF WriterState, ActiveState
<1>10. Writers'
  BY <1>3, <1>5, <1>6, <1>8, <1>9, Frame DEF fs, history
<1> QED
  BY <1>7, <1>10 DEF AlloyInv

(* The other commands begin.                                                 *)
LEMMA OthersStart ==
    ASSUME AlloyInv, NEW t \in Task, StartRun(t) \/ StartApply(t) \/ StartList(t)
    PROVE  AlloyInv'
<1>1. \E s \in TaskState : /\ WellPlaced(s) /\ ~s.bad /\ s.pc # "writemeta"
                          /\ task' = [task EXCEPT ![t] = s]
  <2>1. CASE StartRun(t)
    <3>1. PICK n \in Name : task' = [task EXCEPT ![t] =
                               [Idle EXCEPT !.op = "run", !.pc = "check", !.n = n]]
      BY <2>1 DEF StartRun
    <3> DEFINE s == [Idle EXCEPT !.op = "run", !.pc = "check", !.n = n]
    <3>2. s \in TaskState
      BY IdleType, ZenonT(40) DEF TaskState
    <3>3. /\ s.op = "run" /\ s.pc = "check" /\ s.n = n /\ ~s.bad
          /\ s.child = "none" /\ s.out = "none" /\ ~s.orphan
      BY DEF Idle
    <3>4. WellPlaced(s)
      BY <3>3 DEF WellPlaced, PlacesOf
    <3> QED  BY <3>1, <3>2, <3>3, <3>4
  <2>2. CASE StartApply(t)
    <3>1. PICK n \in Name, r \in Recipe : task' = [task EXCEPT ![t] =
                 [Idle EXCEPT !.op = "apply", !.pc = "load", !.n = n, !.r = r]]
      BY <2>2 DEF StartApply
    <3> DEFINE s == [Idle EXCEPT !.op = "apply", !.pc = "load", !.n = n, !.r = r]
    <3>2. s \in TaskState
      BY IdleType, ZenonT(40) DEF TaskState
    <3>3. /\ s.op = "apply" /\ s.pc = "load" /\ s.n = n /\ s.r = r /\ ~s.bad
          /\ s.child = "none" /\ s.out = "none" /\ ~s.orphan
      BY DEF Idle
    <3>4. WellPlaced(s)
      BY <3>3 DEF WellPlaced, PlacesOf
    <3> QED  BY <3>1, <3>2, <3>3, <3>4
  <2>3. CASE StartList(t)
    <3> DEFINE h == {n \in Name : Changing(n) # {}}
    <3> DEFINE s == [Idle EXCEPT !.op = "list", !.pc = "readdir", !.hit = h]
    <3>1. task' = [task EXCEPT ![t] = s]
      BY <2>3 DEF StartList
    <3>2. h \in SUBSET Name
      OBVIOUS
    <3> HIDE DEF h
    <3>3. s \in TaskState
      BY <3>2, IdleType, ZenonT(40) DEF TaskState
    <3>4. /\ s.op = "list" /\ s.pc = "readdir" /\ ~s.bad
          /\ s.child = "none" /\ s.out = "none" /\ ~s.orphan
      BY DEF Idle
    <3>5. WellPlaced(s)
      BY <3>4 DEF WellPlaced, PlacesOf
    <3> QED  BY <3>1, <3>3, <3>4, <3>5
  <2> QED
    BY <2>1, <2>2, <2>3
<1>2. Accept(t)
  BY DEF StartRun, StartApply, StartList
<1>3. ~ActiveState(task[t]) /\ requests' \in Nat /\ mishaps' \in Nat /\ log' \subseteq Name
      /\ UNCHANGED <<dir, files, meta, stray, history>>
  BY <1>2 DEF ActiveState, Accept, AlloyInv, TypeOK, fs, history
<1> QED
  BY <1>1, <1>3, Move
(* Task t goes to p, with program c and pipes o, for step k of its recipe.    *)
GoesTo(t, p, c, o, k) ==
    task' = [task EXCEPT ![t] = [task[t] EXCEPT !.pc = p, !.child = c, !.out = o, !.step = k]]

(* A task goes on to another place of its handler, with or without a program. *)
LEMMA Goes ==
    ASSUME AlloyInv, NEW t \in Task, NEW p \in PlacesOf(task[t].op), NEW k \in Nat,
           NEW c \in {"none"} \cup Alive \cup Exited,
           NEW o \in {"none", "open", "ended", "garbled"},
           task[t].n \in Name, ~task[t].orphan, p # "writemeta",
           (c # "none") = (p \in {"bootlog", "drain", "bootwait", "wait", "join", "cfgwait"}),
           (o # "none") = (p \in {"bootlog", "drain", "bootwait", "wait", "join"}),
           p = "join" => c \in Exited,
           ActiveState(task[t]) => p \notin {"check", "rmlog"} \/ task[t].n \notin dir,
           GoesTo(t, p, c, o, k),
           UNCHANGED <<dir, files, meta, stray, history>>,
           log' \subseteq Name, requests' \in Nat, mishaps' \in Nat
    PROVE  AlloyInv'
<1>1. TypeOK /\ Writers
  BY DEF AlloyInv
<1>2. task[t] \in TaskState /\ WellPlaced(task[t])
  BY <1>1, StateOf
<1> DEFINE s == [task[t] EXCEPT !.pc = p, !.child = c, !.out = o, !.step = k]
<1>3. p \in {"idle", "check", "mkdir", "boot", "bootlog", "drain", "bootwait", "openmeta",
             "writemeta", "openlog", "spawn", "wait", "join", "load", "steps", "cfgwait",
             "unlink", "rmlog", "readdir", "probe", "readmeta"}
  BY <1>2 DEF PlacesOf, TaskState
<1>4. s \in TaskState
  BY <1>2, <1>3, ZenonT(40) DEF TaskState
<1>5. /\ s.pc = p /\ s.child = c /\ s.out = o /\ s.op = task[t].op /\ s.n = task[t].n
      /\ s.r = task[t].r /\ s.orphan = task[t].orphan /\ s.bad = task[t].bad
  BY <1>2 DEF TaskState
<1> HIDE DEF s
<1>6. WellPlaced(s)
  BY <1>2, <1>5 DEF WellPlaced
<1>7. ~s.bad
  BY <1>1, <1>5 DEF Writers, NoneBad
<1>8. ActiveState(task[t]) => (ActiveState(s) /\ s.n = task[t].n) \/ task[t].n \notin dir
  BY <1>5 DEF ActiveState
<1>9. task' = [task EXCEPT ![t] = s]
  BY DEF s, GoesTo
<1> QED
  BY <1>4, <1>5, <1>6, <1>7, <1>8, <1>9, Move

(* The name of a request that is not a listing.                              *)
LEMMA NameOf ==
    ASSUME TypeOK, NEW t \in Task, task[t].pc \notin {"idle", "readdir", "probe"}
    PROVE  task[t].n \in Name
  BY StateOf DEF WellPlaced

(* Every place outside the waits has neither program nor pipes.              *)
LEMMA NoChild ==
    ASSUME TypeOK, NEW t \in Task,
           task[t].pc \notin {"bootlog", "drain", "bootwait", "wait", "join", "cfgwait"}
    PROVE  task[t].child = "none" /\ task[t].out = "none"
  BY StateOf DEF WellPlaced

(* The steps that only bring a task further in its handler.                  *)
LEMMA MovesOn ==
    ASSUME AlloyInv, NEW t \in Task,
           \/ SpawnBoot(t) \/ OpenBootLog(t) \/ DrainBoot(t) \/ OpenLog(t) \/ SpawnRun(t)
           \/ AwaitExit(t) \/ LoadRecipe(t) \/ StepRun(t) \/ StepEnvOrNote(t)
           \/ StepWinecfg(t)
    PROVE  AlloyInv'
<1>1. /\ TypeOK /\ task[t] \in TaskState /\ WellPlaced(task[t])
      /\ task[t].n \in Name /\ ~task[t].orphan
  BY StateOf, NameOf DEF AlloyInv, SpawnBoot, OpenBootLog, DrainBoot, OpenLog, SpawnRun,
     AwaitExit, LoadRecipe, StepRun, StepEnvOrNote, StepWinecfg, AtStep, WellPlaced
<1>2. /\ task[t].step \in Nat /\ task[t].child \in {"none"} \cup Alive \cup Exited
      /\ task[t].out \in {"none", "open", "ended", "garbled"}
  BY <1>1 DEF TaskState
<1>3. /\ UNCHANGED <<dir, files, meta, stray, history>>
      /\ log' \subseteq Name /\ requests' \in Nat /\ mishaps' \in Nat
  BY <1>1 DEF TypeOK, SpawnBoot, OpenBootLog, DrainBoot, OpenLog, SpawnRun, AwaitExit,
     LoadRecipe, StepRun, StepEnvOrNote, StepWinecfg, AtStep, fs, bounds
<1>4. CASE SpawnBoot(t)
  <2>1. GoesTo(t, "bootlog", "starting", "open", task[t].step)
    BY <1>1, <1>4 DEF GoesTo, SpawnBoot, TypeOK, TaskState
  <2>2. "bootlog" \in PlacesOf(task[t].op)
    BY <1>1, <1>4, StateOf DEF SpawnBoot, WellPlaced, PlacesOf
  <2> QED
    BY <1>1, <1>2, <1>3, <2>1, <2>2, Goes DEF Alive
<1>5. CASE OpenBootLog(t)
  <2>1. GoesTo(t, "drain", task[t].child, task[t].out, task[t].step)
    BY <1>1, <1>5 DEF GoesTo, OpenBootLog, Goto, TypeOK, TaskState
  <2>2. /\ "drain" \in PlacesOf(task[t].op) /\ task[t].child # "none"
        /\ task[t].out # "none"
    BY <1>1, <1>5, StateOf DEF OpenBootLog, WellPlaced, PlacesOf
  <2> QED
    BY <1>1, <1>2, <1>3, <2>1, <2>2, Goes DEF Alive
<1>6. CASE DrainBoot(t)
  <2>1. GoesTo(t, "bootwait", task[t].child, task[t].out, task[t].step)
    BY <1>1, <1>6 DEF GoesTo, DrainBoot, Goto, TypeOK, TaskState
  <2>2. /\ "bootwait" \in PlacesOf(task[t].op) /\ task[t].child # "none"
        /\ task[t].out # "none"
    BY <1>1, <1>6, StateOf DEF DrainBoot, WellPlaced, PlacesOf
  <2> QED
    BY <1>1, <1>2, <1>3, <2>1, <2>2, Goes DEF Alive
<1>7. CASE OpenLog(t)
  <2>1. GoesTo(t, "spawn", task[t].child, task[t].out, task[t].step)
    BY <1>1, <1>7 DEF GoesTo, OpenLog, Goto, TypeOK, TaskState
  <2>2. /\ "spawn" \in PlacesOf(task[t].op) /\ task[t].child = "none"
        /\ task[t].out = "none"
    BY <1>1, <1>7, StateOf DEF OpenLog, WellPlaced, PlacesOf
  <2> QED
    BY <1>1, <1>2, <1>3, <2>1, <2>2, Goes DEF Alive
<1>8. CASE SpawnRun(t)
  <2>1. GoesTo(t, "wait", "starting", "open", task[t].step)
    BY <1>1, <1>8 DEF GoesTo, SpawnRun, TypeOK, TaskState
  <2>2. "wait" \in PlacesOf(task[t].op)
    BY <1>1, <1>8, StateOf DEF SpawnRun, WellPlaced, PlacesOf
  <2> QED
    BY <1>1, <1>2, <1>3, <2>1, <2>2, Goes DEF Alive
<1>9. CASE AwaitExit(t)
  <2>1. GoesTo(t, "join", task[t].child, task[t].out, task[t].step)
    BY <1>1, <1>9 DEF GoesTo, AwaitExit, Goto, TypeOK, TaskState
  <2>2. /\ "join" \in PlacesOf(task[t].op) /\ task[t].child # "none"
        /\ task[t].out # "none" /\ task[t].child \in Exited
    BY <1>1, <1>9, StateOf DEF AwaitExit, WellPlaced, PlacesOf
  <2> QED
    BY <1>1, <1>2, <1>3, <2>1, <2>2, Goes DEF Alive
<1>10. CASE LoadRecipe(t)
  <2>1. GoesTo(t, "steps", task[t].child, task[t].out, 1)
    BY <1>1, <1>10 DEF GoesTo, LoadRecipe, TypeOK, TaskState
  <2>2. /\ "steps" \in PlacesOf(task[t].op) /\ task[t].child = "none"
        /\ task[t].out = "none"
    BY <1>1, <1>10, StateOf DEF LoadRecipe, WellPlaced, PlacesOf
  <2> QED
    BY <1>1, <1>2, <1>3, <2>1, <2>2, Goes DEF Alive
<1>11. CASE StepRun(t)
  <2>1. task[t].pc = "steps"
    BY <1>11 DEF StepRun, AtStep
  <2>2. GoesTo(t, "check", task[t].child, task[t].out, task[t].step)
    BY <1>1, <1>11, <2>1 DEF GoesTo, StepRun, Goto, TypeOK, TaskState
  <2>3. /\ "check" \in PlacesOf(task[t].op) /\ ~ActiveState(task[t])
        /\ task[t].child = "none" /\ task[t].out = "none"
    BY <1>1, <2>1, StateOf DEF WellPlaced, PlacesOf, ActiveState
  <2> QED
    BY <1>1, <1>2, <1>3, <2>2, <2>3, Goes DEF Alive
<1>12. CASE StepEnvOrNote(t)
  <2>1. task[t].pc = "steps"
    BY <1>12 DEF StepEnvOrNote, AtStep
  <2>2. GoesTo(t, "steps", task[t].child, task[t].out, task[t].step + 1)
    BY <1>1, <1>12, <2>1 DEF GoesTo, StepEnvOrNote, TypeOK, TaskState
  <2>3. /\ "steps" \in PlacesOf(task[t].op) /\ task[t].child = "none"
        /\ task[t].out = "none"
    BY <1>1, <2>1, StateOf DEF WellPlaced, PlacesOf
  <2> QED
    BY <1>1, <1>2, <1>3, <2>2, <2>3, Goes DEF Alive
<1>13. CASE StepWinecfg(t)
  <2>1. task[t].pc = "steps"
    BY <1>13 DEF StepWinecfg, AtStep
  <2>2. GoesTo(t, "cfgwait", "starting", task[t].out, task[t].step)
    BY <1>1, <1>13, <2>1 DEF GoesTo, StepWinecfg, TypeOK, TaskState
  <2>3. "cfgwait" \in PlacesOf(task[t].op) /\ task[t].out = "none"
    BY <1>1, <2>1, StateOf DEF WellPlaced, PlacesOf
  <2> QED
    BY <1>1, <1>2, <1>3, <2>2, <2>3, Goes DEF Alive
<1> QED
  BY <1>4, <1>5, <1>6, <1>7, <1>8, <1>9, <1>10, <1>11, <1>12, <1>13

(* The steps that end a request and touch no metadata and no directory.      *)
LEMMA Answers ==
    ASSUME AlloyInv, NEW t \in Task,
           \/ BootTimeout(t) \/ LoadFails(t) \/ ApplyDone(t) \/ RemoveFails(t)
           \/ RemoveLog(t) \/ ListDone(t) \/ IoError(t)
    PROVE  AlloyInv'
<1>1. TypeOK
  BY DEF AlloyInv
<1>2. /\ Reply(t) /\ UNCHANGED <<dir, files, meta, made>>
      /\ log' \subseteq Name /\ requests' \in Nat /\ mishaps' \in Nat
  BY <1>1 DEF TypeOK, BootTimeout, LoadFails, ApplyDone, RemoveFails, RemoveLog, ListDone,
     IoError, fs, history, bounds
<1>3. botched \subseteq Name /\ (task[t].pc # "idle" /\ task[t].op # "list" => task[t].n \in Name)
  BY <1>1, NameOf, StateOf DEF TypeOK
<1>4. CASE BootTimeout(t) \/ RemoveFails(t)
  <2>1. task[t].n \in Name /\ botched' = botched \cup {task[t].n}
    BY <1>1, <1>4, NameOf DEF BootTimeout, RemoveFails, Botch
  <2> QED
    BY <1>2, <1>3, <2>1, Answer
<1>5. CASE LoadFails(t) \/ ApplyDone(t) \/ RemoveLog(t) \/ ListDone(t)
  <2>1. botched' = botched /\ ~ActiveState(task[t])
    BY <1>1, <1>5, StateOf DEF LoadFails, ApplyDone, RemoveLog, ListDone, history, ActiveState
  <2> QED
    BY <1>2, <1>3, <2>1, Answer
<1>6. CASE IoError(t)
  <2>1. CASE task[t].op \in {"create", "destroy"}
    <3>1. task[t].n \in Name /\ botched' = botched \cup {task[t].n}
      BY <1>1, <1>6, <2>1, StateOf, NameOf DEF IoError, Botch
    <3> QED
      BY <1>2, <1>3, <3>1, Answer
  <2>2. CASE task[t].op \notin {"create", "destroy"}
    <3>1. botched' = botched /\ ~ActiveState(task[t])
      BY <1>6, <2>2 DEF IoError, ActiveState
    <3> QED
      BY <1>2, <1>3, <3>1, Answer
  <2> QED
    BY <2>1, <2>2
<1> QED
  BY <1>4, <1>5, <1>6

(* A program of a recipe has ended well: the next step.                      *)
LEMMA NextStepGoes ==
    ASSUME AlloyInv, NEW t \in Task, task[t].op = "apply", task[t].child # "failed",
           task[t].n \in Name, ~task[t].orphan, NextStep(t),
           UNCHANGED <<dir, files, meta, stray, history>>,
           log' \subseteq Name, requests' \in Nat, mishaps' \in Nat
    PROVE  AlloyInv'
<1>1. TypeOK /\ task[t] \in TaskState /\ ~task[t].bad
  BY StateOf DEF AlloyInv, Writers, NoneBad
<1>2. task[t].step + 1 \in Nat /\ "steps" \in PlacesOf(task[t].op)
  BY <1>1 DEF TaskState, PlacesOf
<1>3. (task[t].bad \/ task[t].child = "failed") = task[t].bad
  BY <1>1 DEF TaskState
<1>4. GoesTo(t, "steps", "none", "none", task[t].step + 1)
  BY <1>1, <1>3 DEF GoesTo, NextStep, TypeOK, TaskState
<1> QED
  BY <1>2, <1>4, Goes DEF Alive

(* The steps that end a request or bring it further.                         *)
LEMMA MovesOrAnswers ==
    ASSUME AlloyInv, NEW t \in Task,
           Check(t) \/ BootDone(t) \/ JoinOutput(t) \/ CfgDone(t) \/ RemoveGone(t)
    PROVE  AlloyInv'
<1>1. /\ TypeOK /\ task[t] \in TaskState /\ task[t].step \in Nat
      /\ task[t].n \in Name /\ ~task[t].orphan /\ botched \subseteq Name
  BY StateOf, NameOf DEF AlloyInv, Check, BootDone, JoinOutput, CfgDone, RemoveGone, TypeOK,
     TaskState, WellPlaced
<1>2. /\ UNCHANGED <<dir, files, meta, made>>
      /\ log' \subseteq Name /\ requests' \in Nat /\ mishaps' \in Nat
  BY <1>1 DEF TypeOK, Check, BootDone, JoinOutput, CfgDone, RemoveGone, fs, history, bounds
<1>3. CASE Check(t)
  <2>1. /\ history' = history /\ ~ActiveState(task[t])
        /\ task[t].child = "none" /\ task[t].out = "none"
    BY <1>1, <1>3, NoChild DEF Check, ActiveState
  <2>2. CASE Reply(t)
    BY <1>1, <1>2, <2>1, <2>2, Answer DEF history
  <2>3. CASE ~Reply(t)
    <3> DEFINE p == CASE task[t].op = "create"  -> "mkdir"
                      [] task[t].op = "destroy" -> "unlink"
                      [] OTHER -> "openlog"
    <3>1. Goto(t, p) /\ UNCHANGED stray
      BY <1>3, <2>3 DEF Check
    <3>2. \/ task[t].op = "create" /\ p = "mkdir"
          \/ task[t].op = "destroy" /\ p = "unlink"
          \/ task[t].op \in {"run", "apply"} /\ p = "openlog"
      BY <1>1, <1>3, StateOf DEF Check
    <3> HIDE DEF p
    <3>4. p \in PlacesOf(task[t].op)
      BY <3>2 DEF PlacesOf
    <3>3. GoesTo(t, p, "none", "none", task[t].step)
      BY <1>1, <2>1, <3>1 DEF GoesTo, Goto, TypeOK, TaskState
    <3> QED
      BY <1>1, <1>2, <2>1, <3>1, <3>2, <3>3, <3>4, Goes DEF history
  <2> QED
    BY <2>2, <2>3
<1>4. CASE BootDone(t)
  <2>1. CASE task[t].child = "ok"
    <3>1. GoesTo(t, "openmeta", "none", "none", task[t].step)
      BY <1>1, <1>4, <2>1 DEF GoesTo, BootDone, TypeOK, TaskState
    <3>2. "openmeta" \in PlacesOf(task[t].op)
      BY <1>1, <1>4, StateOf DEF BootDone, PlacesOf
    <3>3. UNCHANGED <<stray, history>>
      BY <1>4, <2>1 DEF BootDone, history
    <3> QED
      BY <1>1, <1>2, <3>1, <3>2, <3>3, Goes
  <2>2. CASE task[t].child # "ok"
    <3>1. Reply(t) /\ botched' = botched \cup {task[t].n}
      BY <1>4, <2>2 DEF BootDone, Botch
    <3> QED
      BY <1>1, <1>2, <3>1, Answer
  <2> QED
    BY <2>1, <2>2
<1>5. CASE JoinOutput(t) \/ CfgDone(t)
  <2>1. task[t].op \in {"run", "apply"} /\ history' = history /\ ~ActiveState(task[t])
    BY <1>1, <1>5, StateOf DEF JoinOutput, CfgDone, ActiveState
  <2>2. CASE Reply(t)
    BY <1>1, <1>2, <2>1, <2>2, Answer DEF history
  <2>3. CASE ~Reply(t)
    <3>1. /\ NextStep(t) /\ UNCHANGED stray
          /\ task[t].op = "apply" /\ task[t].child # "failed"
      BY <1>1, <1>5, <2>3, StateOf DEF JoinOutput, CfgDone
    <3> QED
      BY <1>1, <1>2, <2>1, <3>1, NextStepGoes DEF history
  <2> QED
    BY <2>2, <2>3
<1>6. CASE RemoveGone(t)
  <2>1. /\ UNCHANGED history /\ task[t].n \notin dir /\ task[t].op = "destroy"
        /\ task[t].child = "none" /\ task[t].out = "none"
    BY <1>1, <1>6, NoChild, StateOf DEF RemoveGone
  <2>2. CASE Reply(t)
    BY <1>1, <1>2, <2>1, <2>2, Answer DEF history
  <2>3. CASE Goto(t, "rmlog") /\ UNCHANGED stray
    <3>1. GoesTo(t, "rmlog", "none", "none", task[t].step)
      <4>1. task \in [Task -> TaskState] /\ task[t].child = "none" /\ task[t].out = "none"
        BY <1>1, <2>1 DEF TypeOK
      <4>2. task' = [task EXCEPT ![t].pc = "rmlog"]
        BY <2>3 DEF Goto
      <4> QED
        BY <4>1, <4>2, ZenonT(40) DEF GoesTo, TaskState
    <3>2. "rmlog" \in PlacesOf(task[t].op)
      BY <2>1 DEF PlacesOf
    <3>3. UNCHANGED <<stray, history>> /\ "rmlog" # "join" /\ "rmlog" # "writemeta"
      BY <2>1, <2>3
    <3> QED
      BY <1>1, <1>2, <2>1, <3>1, <3>2, <3>3, Goes
  <2> QED
    BY <1>6, <2>2, <2>3 DEF RemoveGone
<1> QED
  BY <1>3, <1>4, <1>5, <1>6

(* The steps of a listing.                                                   *)
LEMMA Lists ==
    ASSUME AlloyInv, NEW t \in Task, ReadDir(t) \/ Probe(t) \/ ReadMeta(t)
    PROVE  AlloyInv'
<1>1. /\ TypeOK /\ task[t] \in TaskState /\ WellPlaced(task[t]) /\ ~task[t].bad
      /\ task[t].op = "list" /\ task[t].pc \in {"readdir", "probe", "readmeta"}
      /\ botched \subseteq Name
  BY StateOf DEF AlloyInv, Writers, NoneBad, ReadDir, Probe, ReadMeta, TypeOK
<1>2. /\ UNCHANGED <<dir, files, meta, history>> /\ ~ActiveState(task[t])
      /\ log' \subseteq Name /\ requests' \in Nat /\ mishaps' \in Nat
  BY <1>1 DEF TypeOK, ReadDir, Probe, ReadMeta, fs, history, bounds, ActiveState
<1>3. CASE Reply(t)
  BY <1>1, <1>2, <1>3, Answer DEF history
<1>4. CASE ~Reply(t)
  <2>1. \E s \in TaskState :
        /\ s.op = "list" /\ s.pc \in {"probe", "readmeta"}
        /\ s.pc = "readmeta" => s.n \in Name
        /\ s.child = task[t].child /\ s.out = task[t].out
        /\ s.orphan = task[t].orphan /\ s.bad = task[t].bad
        /\ task' = [task EXCEPT ![t] = s]
    <3>1. CASE ReadDir(t)
      <4> DEFINE s == [task[t] EXCEPT !.pc = "probe", !.ids = dir]
      <4>1. s \in TaskState
        BY <1>1 DEF TaskState, TypeOK
      <4>2. task' = [task EXCEPT ![t] = s]
        BY <1>1, <3>1 DEF ReadDir, TypeOK
      <4>3. /\ s.op = "list" /\ s.pc = "probe" /\ s.child = task[t].child
            /\ s.out = task[t].out /\ s.orphan = task[t].orphan /\ s.bad = task[t].bad
        BY <1>1 DEF TaskState
      <4> QED
        BY <4>1, <4>2, <4>3
    <3>2. CASE Probe(t)
      <4>1. PICK n \in task[t].ids :
               IF meta[n] # "absent"
                 THEN task' = [task EXCEPT ![t].ids = @ \ {n}, ![t].n = n, ![t].pc = "readmeta"]
                 ELSE task' = [task EXCEPT ![t].ids = @ \ {n}]
        BY <3>2 DEF Probe
      <4>2. n \in Name /\ task[t].ids \ {n} \in SUBSET Name
        BY <1>1 DEF TaskState
      <4>3. task[t].pc = "probe"
        BY <3>2 DEF Probe
      <4>4. CASE meta[n] # "absent"
        <5> DEFINE s == [task[t] EXCEPT !.ids = @ \ {n}, !.n = n, !.pc = "readmeta"]
        <5>1. s \in TaskState
          BY <1>1, <4>2 DEF TaskState
        <5>2. task' = [task EXCEPT ![t] = s]
          BY <1>1, <4>1, <4>4 DEF TypeOK, TaskState
        <5>3. /\ s.op = "list" /\ s.pc = "readmeta" /\ s.n = n /\ s.child = task[t].child
              /\ s.out = task[t].out /\ s.orphan = task[t].orphan /\ s.bad = task[t].bad
          BY <1>1 DEF TaskState
        <5> QED
          BY <4>2, <5>1, <5>2, <5>3
      <4>5. CASE meta[n] = "absent"
        <5> DEFINE s == [task[t] EXCEPT !.ids = @ \ {n}]
        <5>1. s \in TaskState
          BY <1>1, <4>2 DEF TaskState
        <5>2. task' = [task EXCEPT ![t] = s]
          BY <1>1, <4>1, <4>5 DEF TypeOK, TaskState
        <5>3. /\ s.op = "list" /\ s.pc = "probe" /\ s.child = task[t].child
              /\ s.out = task[t].out /\ s.orphan = task[t].orphan /\ s.bad = task[t].bad
          BY <1>1, <4>3 DEF TaskState
        <5> QED
          BY <5>1, <5>2, <5>3
      <4> QED
        BY <4>4, <4>5
    <3>3. CASE ReadMeta(t)
      <4> DEFINE w == IF meta[task[t].n] = "whole" THEN task[t].seen \cup {task[t].n}
                      ELSE task[t].seen
      <4> DEFINE s == [task[t] EXCEPT !.pc = "probe", !.n = None, !.seen = w]
      <4>1. task[t].n \in Name /\ w \in SUBSET Name
        BY <1>1, <3>3, NameOf DEF ReadMeta, TaskState
      <4>2. task' = [task EXCEPT ![t] = s]
        BY <1>1, <3>3, <1>4 DEF ReadMeta, TypeOK, TaskState
      <4> HIDE DEF w
      <4>3. s \in TaskState
        BY <1>1, <4>1 DEF TaskState
      <4>4. /\ s.op = "list" /\ s.pc = "probe" /\ s.child = task[t].child
            /\ s.out = task[t].out /\ s.orphan = task[t].orphan /\ s.bad = task[t].bad
        BY <1>1 DEF TaskState
      <4> QED
        BY <4>2, <4>3, <4>4
    <3> QED
      BY <3>1, <3>2, <3>3
  <2>2. PICK s \in TaskState :
        /\ s.op = "list" /\ s.pc \in {"probe", "readmeta"}
        /\ s.pc = "readmeta" => s.n \in Name
        /\ s.child = task[t].child /\ s.out = task[t].out
        /\ s.orphan = task[t].orphan /\ s.bad = task[t].bad
        /\ task' = [task EXCEPT ![t] = s]
    BY <2>1
  <2>3. s.child = "none" /\ s.out = "none" /\ ~s.orphan /\ ~s.bad /\ s.pc # "writemeta"
    BY <1>1, <2>2 DEF WellPlaced
  <2>4. s.pc \in PlacesOf(s.op)
    BY <2>2 DEF PlacesOf
  <2>5. WellPlaced(s)
    BY <2>2, <2>3, <2>4 DEF WellPlaced
  <2>6. task' = [task EXCEPT ![t] = s]
    BY <2>2
  <2>7. UNCHANGED <<dir, files, meta, stray, history>>
    BY <1>2, <1>4 DEF ReadDir, Probe, ReadMeta
  <2> QED
    BY <1>2, <2>3, <2>5, <2>6, <2>7, Move
<1> QED
  BY <1>3, <1>4

(* What a program does to its prefix, seen from the tasks, which keep their  *)
(* places.                                                                   *)
LEMMA PrefixMade ==
    ASSUME AlloyInv, NEW n \in Name, MakesPrefix(n), TasksOK', NoneBad',
           stray' \subseteq Name \X Alive,
           \A u \in Task : /\ WriterState(task'[u]) = WriterState(task[u])
                           /\ ActiveState(task'[u]) = ActiveState(task[u])
                           /\ task'[u].n = task[u].n
    PROVE  AlloyInv'
<1>1. TypeOK /\ WriterHasFile /\ LoneWriter /\ SettledIsWhole
  BY DEF AlloyInv, Writers
<1>2. /\ dir' = dir \cup {n} /\ files' = files \cup {n} /\ meta' = meta
      /\ botched \subseteq botched' /\ botched' \subseteq Name
      /\ n \notin dir => n \in botched'
  BY <1>1 DEF MakesPrefix, TypeOK
<1>3. TypeOK'
  BY <1>1, <1>2 DEF TypeOK, TasksOK, MakesPrefix, bounds
<1>4. WriterHasFile' /\ LoneWriter'
  BY <1>1, <1>2 DEF WriterHasFile, LoneWriter
<1>5. SettledIsWhole'
  <2> SUFFICES ASSUME NEW m \in dir', m \notin botched',
                      \A u \in Task : ActiveState(task'[u]) => task'[u].n # m
               PROVE  meta'[m] = "whole"
    BY DEF SettledIsWhole
  <2>1. m \in dir /\ m \notin botched
    BY <1>2
  <2>2. \A u \in Task : ActiveState(task[u]) => task[u].n # m
    OBVIOUS
  <2> QED
    BY <1>1, <1>2, <2>1, <2>2 DEF SettledIsWhole
<1> QED
  BY <1>3, <1>4, <1>5 DEF AlloyInv, Writers

(* A program or its pipes change, the task stays where it is.                *)
LEMMA KeepsPlace ==
    ASSUME AlloyInv, NEW t \in Task, NEW s \in TaskState, task' = [task EXCEPT ![t] = s],
           s.pc = task[t].pc, s.op = task[t].op, s.n = task[t].n, s.r = task[t].r,
           s.orphan = task[t].orphan, s.bad = task[t].bad,
           (s.child = "none") = (task[t].child = "none"),
           (s.out = "none") = (task[t].out = "none"),
           task[t].child \in Exited => s.child \in Exited
    PROVE  /\ TasksOK' /\ NoneBad'
           /\ \A u \in Task : /\ WriterState(task'[u]) = WriterState(task[u])
                              /\ ActiveState(task'[u]) = ActiveState(task[u])
                              /\ task'[u].n = task[u].n
<1>1. TypeOK /\ NoneBad /\ WellPlaced(task[t]) /\ task \in [Task -> TaskState]
  BY DEF AlloyInv, Writers, TypeOK
<1>2. WellPlaced(s)
  BY <1>1 DEF WellPlaced
<1>3. TasksOK'
  BY <1>1, <1>2, MoveType
<1>4. \A u \in Task : task'[u] = IF u = t THEN s ELSE task[u]
  BY <1>1
<1>5. NoneBad'
  BY <1>1, <1>4 DEF NoneBad
<1>6. WriterState(s) = WriterState(task[t]) /\ ActiveState(s) = ActiveState(task[t])
  BY DEF WriterState, ActiveState
<1> QED
  BY <1>3, <1>4, <1>5, <1>6

(* A program of a task starts, writes or exits, or its pipes close.          *)
LEMMA ProgramsStep ==
    ASSUME AlloyInv, NEW t \in Task, Programs(t) PROVE AlloyInv'
<1>1. TypeOK /\ task \in [Task -> TaskState] /\ task[t] \in TaskState /\ WellPlaced(task[t])
  BY StateOf DEF AlloyInv, TypeOK
<1>2. CASE ProgramStarts(t)
  <2> DEFINE s == [task[t] EXCEPT !.child = "running"]
  <2>1. s \in TaskState
    BY <1>1 DEF TaskState, Alive
  <2>2. /\ s.pc = task[t].pc /\ s.op = task[t].op /\ s.n = task[t].n /\ s.r = task[t].r
        /\ s.orphan = task[t].orphan /\ s.bad = task[t].bad /\ s.out = task[t].out
        /\ s.child = "running"
    BY <1>1 DEF TaskState
  <2>3. task' = [task EXCEPT ![t] = s] /\ task[t].child = "starting"
    BY <1>2 DEF ProgramStarts
  <2> HIDE DEF s
  <2>4. /\ (s.child = "none") = (task[t].child = "none")
        /\ (s.out = "none") = (task[t].out = "none")
        /\ task[t].child \in Exited => s.child \in Exited
    BY <2>2, <2>3 DEF Exited
  <2>5. /\ TasksOK' /\ NoneBad'
        /\ \A u \in Task : /\ WriterState(task'[u]) = WriterState(task[u])
                           /\ ActiveState(task'[u]) = ActiveState(task[u])
                           /\ task'[u].n = task[u].n
    BY <2>1, <2>2, <2>3, <2>4, KeepsPlace
  <2>6. task[t].n \in Name /\ MakesPrefix(task[t].n) /\ stray' \subseteq Name \X Alive
    BY <1>1, <1>2, <2>3, ChildHasName DEF ProgramStarts, TypeOK
  <2> QED
    BY <2>5, <2>6, PrefixMade
<1>3. CASE ProgramWrites(t)
  <2>1. UNCHANGED <<dir, meta, log, task, stray, history, bounds>> /\ files' \subseteq dir
    BY <1>1, <1>3 DEF ProgramWrites, WritesPrefix, TypeOK
  <2> QED
    BY <2>1 DEF AlloyInv, TypeOK, Writers, WriterHasFile, LoneWriter, SettledIsWhole,
       NoneBad, history, bounds
<1>4. CASE ProgramExits(t) \/ OutputEnds(t)
  <2>1. \E s \in TaskState :
        /\ task' = [task EXCEPT ![t] = s]
        /\ s.pc = task[t].pc /\ s.op = task[t].op /\ s.n = task[t].n /\ s.r = task[t].r
        /\ s.orphan = task[t].orphan /\ s.bad = task[t].bad
        /\ (s.child = "none") = (task[t].child = "none")
        /\ (s.out = "none") = (task[t].out = "none")
        /\ task[t].child \in Exited => s.child \in Exited
    <3>1. CASE ProgramExits(t)
      <4>1. PICK c \in Exited : task' = [task EXCEPT ![t].child = c]
        BY <3>1 DEF ProgramExits
      <4> DEFINE s == [task[t] EXCEPT !.child = c]
      <4>2. s \in TaskState
        BY <1>1 DEF TaskState
      <4>3. /\ s.pc = task[t].pc /\ s.op = task[t].op /\ s.n = task[t].n /\ s.r = task[t].r
            /\ s.orphan = task[t].orphan /\ s.bad = task[t].bad /\ s.out = task[t].out
            /\ s.child = c
        BY <1>1 DEF TaskState
      <4>4. task' = [task EXCEPT ![t] = s]
        BY <4>1
      <4>5. task[t].child # "none" /\ c # "none"
        BY <3>1 DEF ProgramExits, Alive, Exited
      <4> QED
        BY <4>2, <4>3, <4>4, <4>5
    <3>2. CASE OutputEnds(t)
      <4>1. PICK o \in {"ended", "garbled"} : task' = [task EXCEPT ![t].out = o]
        BY <3>2 DEF OutputEnds
      <4> DEFINE s == [task[t] EXCEPT !.out = o]
      <4>2. s \in TaskState
        BY <1>1 DEF TaskState
      <4>3. /\ s.pc = task[t].pc /\ s.op = task[t].op /\ s.n = task[t].n /\ s.r = task[t].r
            /\ s.orphan = task[t].orphan /\ s.bad = task[t].bad
            /\ s.child = task[t].child /\ s.out = o
        BY <1>1 DEF TaskState
      <4>4. task' = [task EXCEPT ![t] = s]
        BY <4>1
      <4>5. task[t].out # "none" /\ o # "none"
        BY <3>2 DEF OutputEnds
      <4> QED
        BY <4>2, <4>3, <4>4, <4>5
    <3> QED
      BY <1>4, <3>1, <3>2
  <2>2. /\ TasksOK' /\ NoneBad'
        /\ \A u \in Task : /\ WriterState(task'[u]) = WriterState(task[u])
                           /\ ActiveState(task'[u]) = ActiveState(task[u])
                           /\ task'[u].n = task[u].n
    <3> PICK s \in TaskState :
          /\ task' = [task EXCEPT ![t] = s]
          /\ s.pc = task[t].pc /\ s.op = task[t].op /\ s.n = task[t].n /\ s.r = task[t].r
          /\ s.orphan = task[t].orphan /\ s.bad = task[t].bad
          /\ (s.child = "none") = (task[t].child = "none")
          /\ (s.out = "none") = (task[t].out = "none")
          /\ task[t].child \in Exited => s.child \in Exited
      BY <2>1
    <3> QED
      BY KeepsPlace
  <2>3. UNCHANGED <<dir, files, meta, log, stray, made, botched, requests, mishaps>>
    BY <1>4 DEF ProgramExits, OutputEnds, fs, history, bounds
  <2>4. TypeOK'
    BY <1>1, <2>2, <2>3 DEF TypeOK, TasksOK
  <2>5. Writers'
    BY <2>2, <2>3, Frame
  <2> QED
    BY <2>4, <2>5 DEF AlloyInv
<1> QED
  BY <1>2, <1>3, <1>4 DEF Programs

(* A creation makes its directory, or finds it there.                        *)
LEMMA MakeDirKeeps ==
    ASSUME AlloyInv, NEW t \in Task, MakeDir(t) PROVE AlloyInv'
<1>1. /\ TypeOK /\ task \in [Task -> TaskState] /\ task[t] \in TaskState
      /\ WellPlaced(task[t]) /\ task[t].n \in Name /\ task[t].op = "create"
      /\ task[t].child = "none" /\ task[t].out = "none"
      /\ WriterHasFile /\ LoneWriter /\ SettledIsWhole /\ NoneBad
  BY StateOf, NameOf, NoChild DEF AlloyInv, MakeDir, TypeOK, Writers
<1> DEFINE s == [task[t] EXCEPT !.pc = "boot"]
<1>2. s \in TaskState /\ task' = [task EXCEPT ![t] = s]
  BY <1>1 DEF TaskState, MakeDir, Goto
<1>3. /\ s.pc = "boot" /\ s.op = "create" /\ s.n = task[t].n /\ s.r = task[t].r
      /\ s.child = "none" /\ s.out = "none" /\ s.bad = task[t].bad /\ s.orphan = task[t].orphan
      /\ ~s.orphan
  BY <1>1 DEF TaskState, WellPlaced, MakeDir
<1> HIDE DEF s
<1>4. WellPlaced(s)
  BY <1>1, <1>3 DEF WellPlaced, PlacesOf
<1>5. TasksOK'
  BY <1>1, <1>2, <1>4, MoveType
<1>6. /\ dir' = dir \cup {task[t].n}
      /\ UNCHANGED <<files, meta, log, stray, made, botched, requests, mishaps>>
  BY DEF MakeDir, history, bounds
<1>7. TypeOK'
  BY <1>1, <1>5, <1>6 DEF TypeOK, TasksOK
<1>8. \A u \in Task : task'[u] = IF u = t THEN s ELSE task[u]
  BY <1>1, <1>2
<1>9. NoneBad'
  BY <1>1, <1>3, <1>8 DEF NoneBad
<1>10. ~WriterState(s) /\ ActiveState(s)
  BY <1>3 DEF WriterState, ActiveState
<1>11. WriterHasFile' /\ LoneWriter'
  BY <1>1, <1>6, <1>8, <1>10 DEF WriterHasFile, LoneWriter
<1>12. SettledIsWhole'
  <2> SUFFICES ASSUME NEW m \in dir', m \notin botched',
                      \A u \in Task : ActiveState(task'[u]) => task'[u].n # m
               PROVE  meta'[m] = "whole"
    BY DEF SettledIsWhole
  <2>1. m # task[t].n /\ m \in dir
    BY <1>3, <1>6, <1>8, <1>10
  <2>2. \A u \in Task : ActiveState(task[u]) => task[u].n # m
    BY <1>8, <2>1
  <2> QED
    BY <1>1, <1>6, <2>1, <2>2 DEF SettledIsWhole
<1> QED
  BY <1>7, <1>9, <1>11, <1>12 DEF AlloyInv, Writers

(* The metadata file is created or truncated; truncating one botches its name. *)
LEMMA OpenMetaKeeps ==
    ASSUME AlloyInv, NEW t \in Task, OpenMeta(t) PROVE AlloyInv'
<1>1. /\ TypeOK /\ task \in [Task -> TaskState] /\ task[t] \in TaskState
      /\ WellPlaced(task[t]) /\ task[t].n \in Name /\ task[t].op = "create"
      /\ task[t].child = "none" /\ task[t].out = "none" /\ botched \subseteq Name
      /\ WriterHasFile /\ LoneWriter /\ SettledIsWhole /\ NoneBad
  BY StateOf, NameOf, NoChild DEF AlloyInv, OpenMeta, TypeOK, Writers
<1>2. CASE task[t].n \notin dir
  <2>1. /\ Reply(t) /\ botched' = botched \cup {task[t].n}
        /\ UNCHANGED <<dir, files, meta, made, log, requests, mishaps>>
    BY <1>2 DEF OpenMeta, Botch, bounds
  <2>2. log' \subseteq Name /\ requests' \in Nat /\ mishaps' \in Nat
    BY <1>1, <2>1 DEF TypeOK
  <2> QED
    BY <1>1, <2>1, <2>2, Answer
<1>3. CASE task[t].n \in dir
  <2> DEFINE s == [task[t] EXCEPT !.pc = "writemeta"]
  <2>1. s \in TaskState /\ task' = [task EXCEPT ![t] = s]
    BY <1>1, <1>3 DEF TaskState, OpenMeta, Goto
  <2>2. /\ s.pc = "writemeta" /\ s.op = "create" /\ s.n = task[t].n /\ s.r = task[t].r
        /\ s.child = "none" /\ s.out = "none" /\ s.bad = task[t].bad /\ ~s.orphan
    BY <1>1 DEF TaskState, WellPlaced, OpenMeta
  <2> HIDE DEF s
  <2>3. WellPlaced(s)
    BY <1>1, <2>2 DEF WellPlaced, PlacesOf
  <2>4. TasksOK'
    BY <1>1, <2>1, <2>3, MoveType
  <2>5. /\ meta' = [meta EXCEPT ![task[t].n] = "empty"]
        /\ botched' = IF meta[task[t].n] # "absent" THEN botched \cup {task[t].n}
                      ELSE botched
        /\ UNCHANGED <<dir, files, log, stray, made, requests, mishaps>>
    BY <1>3 DEF OpenMeta, bounds
  <2>6. meta \in [Name -> {"absent", "empty", "whole", "torn"}]
    BY <1>1 DEF TypeOK
  <2>7. \A m \in Name : meta'[m] = IF m = task[t].n THEN "empty" ELSE meta[m]
    BY <2>5, <2>6
  <2>8. TypeOK'
    BY <1>1, <1>3, <2>4, <2>5, <2>7 DEF TypeOK, TasksOK
  <2>9. \A u \in Task : task'[u] = IF u = t THEN s ELSE task[u]
    BY <1>1, <2>1
  <2>10. NoneBad'
    BY <1>1, <2>2, <2>9 DEF NoneBad
  <2>11. WriterState(s) /\ ActiveState(s)
    BY <2>2 DEF WriterState, ActiveState
  <2>12. \A u \in Task : WriterState(task[u]) => task[u].n \in Name
    BY <1>1, NameOf DEF WriterState
  <2>13. WriterHasFile'
    BY <1>1, <2>2, <2>7, <2>9, <2>12 DEF WriterHasFile
  <2>14. LoneWriter'
    <3> SUFFICES ASSUME NEW v \in Task, WriterState(task'[v]), task'[v].n \notin botched'
                 PROVE  /\ meta'[task'[v].n] = "empty"
                        /\ \A u \in Task : WriterState(task'[u]) /\ task'[u].n = task'[v].n
                                           => u = v
      BY DEF LoneWriter
    <3>1. CASE task'[v].n = task[t].n
      <4>1. meta[task[t].n] = "absent"
        BY <2>5, <3>1
      <4>2. \A u \in Task : WriterState(task[u]) => task[u].n # task[t].n
        BY <1>1, <4>1 DEF WriterHasFile
      <4>3. \A u \in Task : WriterState(task'[u]) /\ task'[u].n = task[t].n => u = t
        BY <2>9, <4>2
      <4> QED
        BY <1>1, <2>7, <3>1, <4>3
    <3>2. CASE task'[v].n # task[t].n
      <4>1. v # t /\ task'[v] = task[v] /\ task[v].n \notin botched
        BY <2>2, <2>5, <2>9, <3>2
      <4>2. /\ meta[task[v].n] = "empty"
            /\ \A u \in Task : WriterState(task[u]) /\ task[u].n = task[v].n => u = v
        BY <1>1, <4>1 DEF LoneWriter
      <4>3. meta'[task[v].n] = "empty"
        BY <2>7, <2>12, <3>2, <4>1, <4>2
      <4> QED
        BY <2>2, <2>9, <3>2, <4>1, <4>2, <4>3
    <3> QED
      BY <3>1, <3>2
  <2>15. SettledIsWhole'
    <3> SUFFICES ASSUME NEW m \in dir', m \notin botched',
                        \A u \in Task : ActiveState(task'[u]) => task'[u].n # m
                 PROVE  meta'[m] = "whole"
      BY DEF SettledIsWhole
    <3>1. m # task[t].n /\ m \in dir /\ m \in Name /\ m \notin botched
      BY <1>1, <2>2, <2>5, <2>9, <2>11 DEF TypeOK
    <3>2. \A u \in Task : ActiveState(task[u]) => task[u].n # m
      BY <2>9, <3>1
    <3> QED
      BY <1>1, <2>7, <3>1, <3>2 DEF SettledIsWhole
  <2> QED
    BY <2>8, <2>10, <2>13, <2>14, <2>15 DEF AlloyInv, Writers
<1> QED
  BY <1>2, <1>3

(* A writer that is alone leaves the whole file.                             *)
LEMMA WriteMetaKeeps ==
    ASSUME AlloyInv, NEW t \in Task, WriteMeta(t) PROVE AlloyInv'
<1>1. /\ TypeOK /\ task \in [Task -> TaskState] /\ task[t].n \in Name /\ botched \subseteq Name
      /\ WriterHasFile /\ LoneWriter /\ SettledIsWhole /\ NoneBad
      /\ meta \in [Name -> {"absent", "empty", "whole", "torn"}] /\ Reply(t)
  BY NameOf DEF AlloyInv, WriteMeta, TypeOK, Writers
<1>2. /\ log' \subseteq Name /\ requests' \in Nat /\ mishaps' \in Nat
      /\ UNCHANGED <<dir, files, botched>>
  BY <1>1 DEF WriteMeta, TypeOK, bounds
<1>3. CASE task[t].orphan
  <2>1. UNCHANGED <<dir, files, meta, made, botched>> /\ ~ActiveState(task[t])
    BY <1>3 DEF WriteMeta, ActiveState
  <2> QED
    BY <1>1, <1>2, <2>1, Answer
<1>4. CASE ~task[t].orphan
  <2>1. WriterState(task[t])
    BY <1>4 DEF WriterState, WriteMeta
  <2>2. PICK w \in {"whole", "torn"} : /\ meta' = [meta EXCEPT ![task[t].n] = w]
                                       /\ meta[task[t].n] = "empty" => w = "whole"
    BY <1>4 DEF WriteMeta
  <2>3. \A m \in Name : meta'[m] = IF m = task[t].n THEN w ELSE meta[m]
    BY <1>1, <2>2
  <2>4. task[t].n \in dir
    BY <1>1, <2>1 DEF WriterHasFile, TypeOK
  <2>5. made' \subseteq Name
    BY <1>1, <1>4 DEF WriteMeta, TypeOK
  <2>6. TasksOK' /\ stray' \subseteq Name \X Alive
    BY <1>1, ReplyType
  <2>7. meta' \in [Name -> {"absent", "empty", "whole", "torn"}]
    BY <1>1, <2>2
  <2>8. TypeOK'
    BY <1>1, <1>2, <2>3, <2>4, <2>5, <2>6, <2>7 DEF TypeOK, TasksOK
  <2>9. \A u \in Task : task'[u] = IF u = t THEN Idle ELSE task[u]
    BY <1>1 DEF Reply
  <2>10. ~WriterState(Idle) /\ ~ActiveState(Idle) /\ ~Idle.bad
    BY DEF WriterState, ActiveState, Idle
  <2>11. NoneBad'
    BY <1>1, <2>9, <2>10 DEF NoneBad
  <2>12. \A u \in Task : WriterState(task[u]) => task[u].n \in Name
    BY <1>1, NameOf DEF WriterState
  <2>13. WriterHasFile'
    BY <1>1, <2>2, <2>3, <2>9, <2>10, <2>12 DEF WriterHasFile
  <2>14. LoneWriter'
    BY <1>1, <1>2, <2>1, <2>3, <2>9, <2>10, <2>12 DEF LoneWriter
  <2>15. SettledIsWhole'
    <3> SUFFICES ASSUME NEW m \in dir', m \notin botched',
                        \A u \in Task : ActiveState(task'[u]) => task'[u].n # m
                 PROVE  meta'[m] = "whole"
      BY DEF SettledIsWhole
    <3>1. CASE m = task[t].n
      BY <1>1, <1>2, <2>1, <2>2, <2>3, <3>1 DEF LoneWriter
    <3>2. CASE m # task[t].n
      <4>1. \A u \in Task : ActiveState(task[u]) => task[u].n # m
        BY <2>9, <3>2
      <4>2. m \in dir /\ m \in Name /\ m \notin botched
        BY <1>1, <1>2 DEF TypeOK
      <4> QED
        BY <1>1, <2>3, <3>2, <4>1, <4>2 DEF SettledIsWhole
    <3> QED
      BY <3>1, <3>2
  <2> QED
    BY <2>8, <2>11, <2>13, <2>14, <2>15 DEF AlloyInv, Writers
<1> QED
  BY <1>3, <1>4

(* A removal unlinks a file; a writer that has it open goes on without it.   *)
LEMMA RemoveEntryKeeps ==
    ASSUME AlloyInv, NEW t \in Task, RemoveEntry(t) PROVE AlloyInv'
<1>1. /\ TypeOK /\ task \in [Task -> TaskState] /\ task[t].n \in Name /\ botched \subseteq Name
      /\ task[t].pc = "unlink" /\ ActiveState(task[t])
      /\ WriterHasFile /\ LoneWriter /\ SettledIsWhole /\ NoneBad
      /\ meta \in [Name -> {"absent", "empty", "whole", "torn"}]
  BY NameOf, StateOf DEF AlloyInv, RemoveEntry, TypeOK, Writers, ActiveState, WellPlaced
<1>2. UNCHANGED <<dir, log, stray, made, botched, requests, mishaps>>
  BY DEF RemoveEntry, history, bounds
<1>3. CASE files' = files \ {task[t].n} /\ UNCHANGED <<meta, task>>
  BY <1>1, <1>2, <1>3 DEF AlloyInv, TypeOK, Writers, WriterHasFile, LoneWriter,
     SettledIsWhole, NoneBad
<1>4. CASE /\ meta' = [meta EXCEPT ![task[t].n] = "absent"]
           /\ task' = [u \in Task |->
                IF task[u].pc = "writemeta" /\ task[u].n = task[t].n
                  THEN [task[u] EXCEPT !.orphan = TRUE] ELSE task[u]]
           /\ UNCHANGED files
  <2>1. \A u \in Task : /\ task'[u] \in TaskState /\ WellPlaced(task'[u])
                        /\ task'[u].pc = task[u].pc /\ task'[u].op = task[u].op
                        /\ task'[u].n = task[u].n /\ task'[u].bad = task[u].bad
                        /\ task'[u].orphan = (\/ task[u].orphan
                                              \/ task[u].pc = "writemeta"
                                                 /\ task[u].n = task[t].n)
    <3> SUFFICES ASSUME NEW u \in Task
                 PROVE  /\ task'[u] \in TaskState /\ WellPlaced(task'[u])
                        /\ task'[u].pc = task[u].pc /\ task'[u].op = task[u].op
                        /\ task'[u].n = task[u].n /\ task'[u].bad = task[u].bad
                        /\ task'[u].orphan = (\/ task[u].orphan
                                              \/ task[u].pc = "writemeta"
                                                 /\ task[u].n = task[t].n)
      OBVIOUS
    <3>1. task[u] \in TaskState /\ WellPlaced(task[u])
      BY <1>1, StateOf
    <3>2. CASE ~(task[u].pc = "writemeta" /\ task[u].n = task[t].n)
      <4>1. task'[u] = task[u]
        BY <1>4, <3>2
      <4>2. task[u].orphan \in BOOLEAN
        BY <3>1 DEF TaskState
      <4> QED
        BY <3>1, <3>2, <4>1, <4>2
    <3>3. CASE task[u].pc = "writemeta" /\ task[u].n = task[t].n
      <4> DEFINE s == [task[u] EXCEPT !.orphan = TRUE]
      <4>1. task'[u] = s
        BY <1>4, <3>3
      <4>2. s \in TaskState
        BY <3>1 DEF TaskState
      <4>3. /\ s.pc = task[u].pc /\ s.op = task[u].op /\ s.n = task[u].n /\ s.r = task[u].r
            /\ s.child = task[u].child /\ s.out = task[u].out /\ s.bad = task[u].bad
            /\ s.orphan = TRUE
        BY <3>1 DEF TaskState
      <4> HIDE DEF s
      <4>4. WellPlaced(s)
        BY <3>1, <3>3, <4>3 DEF WellPlaced
      <4> QED
        BY <3>3, <4>1, <4>2, <4>3, <4>4
    <3> QED
      BY <3>2, <3>3
  <2>2. \A m \in Name : meta'[m] = IF m = task[t].n THEN "absent" ELSE meta[m]
    BY <1>1, <1>4
  <2>3. TasksOK'
    BY <1>4, <2>1 DEF TasksOK
  <2>4. meta' \in [Name -> {"absent", "empty", "whole", "torn"}]
    BY <1>1, <1>4
  <2>5. TypeOK'
    BY <1>1, <1>2, <1>4, <2>2, <2>3, <2>4 DEF TypeOK, TasksOK
  <2>6. NoneBad'
    BY <1>1, <2>1 DEF NoneBad
  <2>7. \A u \in Task : WriterState(task'[u]) =>
                          WriterState(task[u]) /\ task[u].n # task[t].n
    BY <2>1 DEF WriterState
  <2>8. \A u \in Task : WriterState(task[u]) => task[u].n \in Name
    BY <1>1, NameOf DEF WriterState
  <2>9. WriterHasFile' /\ LoneWriter'
    <3>1. \A u \in Task : WriterState(task'[u]) =>
                            /\ WriterState(task[u]) /\ task'[u].n = task[u].n
                            /\ meta'[task[u].n] = meta[task[u].n]
      BY <2>1, <2>2, <2>7, <2>8
    <3> QED
      BY <1>1, <1>2, <3>1 DEF WriterHasFile, LoneWriter
  <2>10. SettledIsWhole'
    <3> SUFFICES ASSUME NEW m \in dir', m \notin botched',
                        \A u \in Task : ActiveState(task'[u]) => task'[u].n # m
                 PROVE  meta'[m] = "whole"
      BY DEF SettledIsWhole
    <3>1. ActiveState(task'[t])
      BY <1>1, <2>1 DEF ActiveState
    <3>2. m # task[t].n /\ m \in dir /\ m \in Name /\ m \notin botched
      BY <1>1, <1>2, <2>1, <3>1 DEF TypeOK
    <3>3. \A u \in Task : ActiveState(task[u]) => task[u].n # m
      BY <2>1, <3>2 DEF ActiveState
    <3> QED
      BY <1>1, <2>2, <3>2, <3>3 DEF SettledIsWhole
  <2> QED
    BY <2>5, <2>6, <2>9, <2>10 DEF AlloyInv, Writers
<1> QED
  BY <1>3, <1>4 DEF RemoveEntry

(* The empty directory goes, and its name is good again.                     *)
LEMMA RemoveDirKeeps ==
    ASSUME AlloyInv, NEW t \in Task, RemoveDir(t) PROVE AlloyInv'
<1>1. /\ TypeOK /\ task \in [Task -> TaskState] /\ task[t] \in TaskState /\ WellPlaced(task[t])
      /\ task[t].n \in Name /\ botched \subseteq Name /\ task[t].op = "destroy"
      /\ task[t].child = "none" /\ task[t].out = "none" /\ ~task[t].orphan
      /\ WriterHasFile /\ LoneWriter /\ SettledIsWhole /\ NoneBad
  BY NameOf, StateOf, NoChild DEF AlloyInv, RemoveDir, TypeOK, Writers, WellPlaced
<1>2. /\ dir' = dir \ {task[t].n} /\ made' \subseteq made /\ botched' = botched \ {task[t].n}
      /\ meta[task[t].n] = "absent" /\ task[t].n \notin files
      /\ UNCHANGED <<files, meta, log, stray, requests, mishaps>>
  BY DEF RemoveDir, Entries, bounds
<1> DEFINE s == [task[t] EXCEPT !.pc = "rmlog"]
<1>3. s \in TaskState /\ task' = [task EXCEPT ![t] = s]
  BY <1>1 DEF TaskState, RemoveDir, Goto
<1>4. /\ s.pc = "rmlog" /\ s.op = "destroy" /\ s.n = task[t].n /\ s.r = task[t].r
      /\ s.child = "none" /\ s.out = "none" /\ s.bad = task[t].bad /\ ~s.orphan
  BY <1>1 DEF TaskState
<1> HIDE DEF s
<1>5. WellPlaced(s)
  BY <1>1, <1>4 DEF WellPlaced, PlacesOf
<1>6. TasksOK'
  BY <1>1, <1>3, <1>5, MoveType
<1>7. TypeOK'
  BY <1>1, <1>2, <1>6 DEF TypeOK, TasksOK
<1>8. \A u \in Task : task'[u] = IF u = t THEN s ELSE task[u]
  BY <1>1, <1>3
<1>9. NoneBad'
  BY <1>1, <1>4, <1>8 DEF NoneBad
<1>10. ~WriterState(s) /\ ~ActiveState(s)
  BY <1>4 DEF WriterState, ActiveState
<1>11. \A u \in Task : WriterState(task[u]) => task[u].n # task[t].n
  BY <1>1, <1>2 DEF WriterHasFile
<1>12. WriterHasFile' /\ LoneWriter'
  BY <1>1, <1>2, <1>8, <1>10, <1>11 DEF WriterHasFile, LoneWriter
<1>13. SettledIsWhole'
  <2> SUFFICES ASSUME NEW m \in dir', m \notin botched',
                      \A u \in Task : ActiveState(task'[u]) => task'[u].n # m
               PROVE  meta'[m] = "whole"
    BY DEF SettledIsWhole
  <2>1. m # task[t].n /\ m \in dir /\ m \notin botched
    BY <1>2
  <2>2. \A u \in Task : ActiveState(task[u]) => task[u].n # m
    BY <1>8, <2>1
  <2> QED
    BY <1>1, <1>2, <2>1, <2>2 DEF SettledIsWhole
<1> QED
  BY <1>7, <1>9, <1>12, <1>13 DEF AlloyInv, Writers

(* The programs that nobody waits for.                                       *)
LEMMA StraysStep ==
    ASSUME AlloyInv, StrayStarts \/ StrayWrites \/ StrayExits PROVE AlloyInv'
<1>1. TypeOK /\ NoneBad /\ TasksOK /\ stray \subseteq Name \X Alive
  BY DEF AlloyInv, TypeOK, TasksOK, Writers
<1>2. CASE StrayStarts
  <2>1. PICK p \in stray : /\ p[2] = "starting"
                           /\ stray' = (stray \ {p}) \cup {<<p[1], "running">>}
                           /\ MakesPrefix(p[1]) /\ UNCHANGED task
    BY <1>2 DEF StrayStarts
  <2>2. p[1] \in Name /\ <<p[1], "running">> \in Name \X Alive
    BY <1>1, <2>1 DEF Alive
  <2>3. stray' \subseteq Name \X Alive
    BY <1>1, <2>1, <2>2
  <2>4. TasksOK' /\ NoneBad'
    BY <1>1, <2>1 DEF TasksOK, NoneBad
  <2> QED
    BY <2>1, <2>2, <2>3, <2>4, PrefixMade
<1>3. CASE StrayWrites
  <2>1. UNCHANGED <<dir, meta, log, task, stray, history, bounds>> /\ files' \subseteq dir
    BY <1>1, <1>3 DEF StrayWrites, WritesPrefix, TypeOK
  <2> QED
    BY <2>1 DEF AlloyInv, TypeOK, Writers, WriterHasFile, LoneWriter, SettledIsWhole,
       NoneBad, history, bounds
<1>4. CASE StrayExits
  <2>1. /\ UNCHANGED <<dir, files, meta, log, task, made, botched, requests, mishaps>>
        /\ stray' \subseteq stray
    BY <1>4 DEF StrayExits, fs, history, bounds
  <2> QED
    BY <1>1, <2>1 DEF AlloyInv, TypeOK, Writers, WriterHasFile, LoneWriter, SettledIsWhole,
       NoneBad
<1> QED
  BY <1>2, <1>3, <1>4

(* After a crash nobody is writing; what was under way is botched.           *)
LEMMA CrashKeeps ==
    ASSUME AlloyInv, Crash PROVE AlloyInv'
<1>1. /\ TypeOK /\ task \in [Task -> TaskState] /\ botched \subseteq Name
      /\ stray \subseteq Name \X Alive
  BY DEF AlloyInv, TypeOK
<1>2. /\ task' = [t \in Task |-> Idle]
      /\ stray' = stray \cup {<<task[t].n, task[t].child>> :
                               t \in {u \in Task : task[u].child \in Alive}}
      /\ botched' = botched \cup {n \in Name : Changing(n) # {}}
      /\ UNCHANGED <<dir, files, meta, log, made, requests>> /\ mishaps' = mishaps + 1
  BY DEF Crash, fs
<1>3. TasksOK'
  BY <1>2, IdleType DEF TasksOK
<1>4. \A t \in Task : task[t].child \in Alive => <<task[t].n, task[t].child>> \in Name \X Alive
  BY <1>1, ChildHasName DEF Alive
<1>5. stray' \subseteq Name \X Alive
  BY <1>1, <1>2, <1>4
<1>6. TypeOK'
  BY <1>1, <1>2, <1>3, <1>5 DEF TypeOK, TasksOK
<1>7. ~WriterState(Idle) /\ ~Idle.bad
  BY DEF WriterState, Idle
<1>8. NoneBad'
  BY <1>2, <1>7 DEF NoneBad
<1>9. \A u \in Task : ActiveState(task[u]) => task[u].n \in botched'
  <2> SUFFICES ASSUME NEW u \in Task, ActiveState(task[u]) PROVE task[u].n \in botched'
    OBVIOUS
  <2>1. task[u].n \in Name
    BY <1>1, NameOf, StateOf DEF ActiveState
  <2>2. u \in Changing(task[u].n)
    BY DEF Changing, ActiveState
  <2> QED
    BY <1>2, <2>1, <2>2
<1>10. Writers'
  BY <1>2, <1>3, <1>7, <1>8, <1>9, Frame
<1> QED
  BY <1>6, <1>10 DEF AlloyInv

-----------------------------------------------------------------------------
(* The inductive invariant.                                                 *)
LEMMA AlloyInvInit == Init => AlloyInv
<1> SUFFICES ASSUME Init PROVE AlloyInv
  OBVIOUS
<1>1. \A t \in Task : task[t] = Idle
  BY DEF Init
<1>2. ~WriterState(Idle) /\ ~Idle.bad
  BY DEF WriterState, Idle
<1>3. TypeOK
  BY <1>1, IdleType, AlloyAssumption DEF Init, TypeOK
<1>4. Writers
  BY <1>1, <1>2 DEF Writers, WriterHasFile, LoneWriter, SettledIsWhole, NoneBad, Init
<1> QED
  BY <1>3, <1>4 DEF AlloyInv

LEMMA AlloyInvStep == AlloyInv /\ [Next]_vars => AlloyInv'
<1> SUFFICES ASSUME AlloyInv, [Next]_vars PROVE AlloyInv'
  OBVIOUS
<1>1. ASSUME NEW t \in Task, Start(t) PROVE AlloyInv'
  BY <1>1, ChangeStarts, OthersStart DEF Start, StartCreate, StartDestroy
<1>2. ASSUME NEW t \in Task, Serve(t) PROVE AlloyInv'
  BY <1>2, MovesOn, Answers, MovesOrAnswers, Lists, MakeDirKeeps, OpenMetaKeeps,
     WriteMetaKeeps, RemoveEntryKeeps, RemoveDirKeeps DEF Serve
<1>3. ASSUME NEW t \in Task, Programs(t) PROVE AlloyInv'
  BY <1>3, ProgramsStep
<1>4. ASSUME NEW t \in Task, IoError(t) PROVE AlloyInv'
  BY <1>4, Answers
<1>5. CASE StrayStarts \/ StrayWrites \/ StrayExits
  BY <1>5, StraysStep
<1>6. CASE Crash
  BY <1>6, CrashKeeps
<1>7. CASE UNCHANGED vars
  BY <1>7 DEF AlloyInv, TypeOK, Writers, WriterHasFile, LoneWriter, SettledIsWhole, NoneBad,
     vars, fs, history, bounds
<1> QED
  BY <1>1, <1>2, <1>3, <1>4, <1>5, <1>6, <1>7 DEF Next, Quiescent

LEMMA AlloyInvariant == Spec => []AlloyInv
<1> QED
  BY AlloyInvInit, AlloyInvStep, PTL DEF Spec

(* The variables have their types: in particular every file is in a          *)
(* directory and every task is at a place of its handler with the program    *)
(* and the pipes that belong there, whatever other tasks, programs, errors   *)
(* and crashes do.                                                           *)
THEOREM TypeCorrect == Spec => []TypeOK
<1>1. AlloyInv => TypeOK
  BY DEF AlloyInv
<1> QED
  BY <1>1, AlloyInvariant, PTL

(* A directory that nobody is changing is a bottle with readable metadata,   *)
(* unless its name is botched: create_bottle and destroy_bottle leave no     *)
(* half-made bottle when they run alone and to their end.                    *)
THEOREM DirectoriesAreBottles == Spec => []DirectoryHasBottle
<1>1. AlloyInv => DirectoryHasBottle
  BY DEF AlloyInv, Writers, SettledIsWhole, DirectoryHasBottle, Changing, ActiveState
<1> QED
  BY <1>1, AlloyInvariant, PTL

(* A recipe is acknowledged only when none of its programs failed.           *)
THEOREM RecipesStop == Spec => RecipeStopsAtFailure
<1>1. AlloyInv => \A t \in Task : ApplyDone(t) => ~task[t].bad
  BY DEF AlloyInv, Writers, NoneBad
<1>2. AlloyInv /\ [Next]_vars => [\A t \in Task : ApplyDone(t) => ~task[t].bad]_vars
  BY <1>1
<1> QED
  BY <1>2, AlloyInvariant, PTL DEF Spec, RecipeStopsAtFailure

(* The other tasks and their programs leave the request of a task alone.     *)
LEMMA OthersKeepOp ==
    ASSUME TypeOK, NEW t \in Task, NEW u \in Task, u # t,
           Start(u) \/ Serve(u) \/ Programs(u)
    PROVE  task'[t].op = task[t].op
<1>1. task \in [Task -> TaskState] /\ task[t] \in TaskState
  BY DEF TypeOK
<1>2. CASE Start(u)
  <2>1. CASE StartCreate(u) \/ StartDestroy(u)
    <3>1. PICK o \in {"create", "destroy"} : StartChange(u, o)
      BY <2>1 DEF StartCreate, StartDestroy
    <3>2. PICK n \in Name : task' = [Noting(n) EXCEPT ![u] =
                                  [Idle EXCEPT !.op = o, !.pc = "check", !.n = n]]
      BY <3>1 DEF StartChange
    <3>3. task'[t] = Noting(n)[t]
      BY <3>2 DEF Noting
    <3> QED
      BY <3>3, NotingState
  <2>2. CASE StartRun(u) \/ StartApply(u) \/ StartList(u)
    BY <1>1, <2>2 DEF StartRun, StartApply, StartList
  <2> QED
    BY <1>2, <2>1, <2>2 DEF Start
<1>3. CASE Serve(u)
  <2>1. CASE \/ Check(u) \/ MakeDir(u) \/ SpawnBoot(u) \/ OpenBootLog(u) \/ DrainBoot(u)
             \/ BootDone(u) \/ BootTimeout(u) \/ OpenMeta(u) \/ WriteMeta(u)
    BY <1>1, <2>1 DEF Check, MakeDir, SpawnBoot, OpenBootLog, DrainBoot, BootDone,
       BootTimeout, OpenMeta, WriteMeta, Goto, Reply
  <2>2. CASE \/ OpenLog(u) \/ SpawnRun(u) \/ AwaitExit(u) \/ JoinOutput(u)
             \/ LoadRecipe(u) \/ LoadFails(u) \/ StepRun(u) \/ StepEnvOrNote(u)
             \/ StepWinecfg(u) \/ CfgDone(u) \/ ApplyDone(u)
    BY <1>1, <2>2 DEF OpenLog, SpawnRun, AwaitExit, JoinOutput, LoadRecipe, LoadFails,
       StepRun, StepEnvOrNote, StepWinecfg, CfgDone, ApplyDone, Goto, Reply, NextStep
  <2>3. CASE \/ RemoveDir(u) \/ RemoveGone(u) \/ RemoveFails(u) \/ RemoveLog(u)
             \/ ReadDir(u) \/ ReadMeta(u) \/ ListDone(u)
    BY <1>1, <2>3 DEF RemoveDir, RemoveGone, RemoveFails, RemoveLog, ReadDir, ReadMeta,
       ListDone, Goto, Reply
  <2>4. CASE Probe(u)
    <3>1. PICK n \in task[u].ids :
             IF meta[n] # "absent"
               THEN task' = [task EXCEPT ![u].ids = @ \ {n}, ![u].n = n, ![u].pc = "readmeta"]
               ELSE task' = [task EXCEPT ![u].ids = @ \ {n}]
      BY <2>4 DEF Probe
    <3> QED
      BY <1>1, <3>1
  <2>5. CASE RemoveEntry(u)
    <3>1. \/ task' = task
          \/ task' = [v \in Task |->
               IF task[v].pc = "writemeta" /\ task[v].n = task[u].n
                 THEN [task[v] EXCEPT !.orphan = TRUE] ELSE task[v]]
      BY <2>5 DEF RemoveEntry
    <3>2. task'[t] = task[t] \/ task'[t] = [task[t] EXCEPT !.orphan = TRUE]
      BY <3>1
    <3> QED
      BY <1>1, <3>2 DEF TaskState
  <2> QED
    BY <1>3, <2>1, <2>2, <2>3, <2>4, <2>5 DEF Serve
<1>4. CASE Programs(u)
  BY <1>1, <1>4 DEF Programs, ProgramStarts, ProgramWrites, WritesPrefix, ProgramExits,
     OutputEnds
<1> QED
  BY <1>2, <1>3, <1>4

(* A run or a recipe is answered after its program has exited, unless an I/O *)
(* error or a crash cuts it short: neither run_in_bottle nor configure_wine  *)
(* answers before the wait.                                                  *)
THEOREM AnswersAfterExit == Spec => RunAnswerMeansExited
<1>1. ASSUME TypeOK, [Next]_vars, NEW t \in Task, task[t].op \in {"run", "apply"},
             mishaps' = mishaps, task[t].child \in Alive
      PROVE  task'[t].op = task[t].op
  <2>1. /\ task \in [Task -> TaskState] /\ task[t] \in TaskState /\ WellPlaced(task[t])
        /\ mishaps \in Nat
    BY <1>1, StateOf DEF TypeOK
  <2>2. task[t].pc \in {"wait", "cfgwait"} /\ task[t].child \notin Exited
    BY <1>1, <2>1, StateOf DEF WellPlaced, Alive, Exited
  <2>3. ASSUME Start(t) \/ Serve(t) PROVE FALSE
    <3>1. ~Start(t)
      BY <1>1 DEF Start, StartCreate, StartDestroy, StartChange, StartRun, StartApply,
         StartList, Accept
    <3>2. ~Serve(t)
      BY <2>2 DEF Serve, Check, MakeDir, SpawnBoot, OpenBootLog, DrainBoot, BootDone,
         BootTimeout, OpenMeta, WriteMeta, OpenLog, SpawnRun, AwaitExit, JoinOutput,
         LoadRecipe, LoadFails, StepRun, StepEnvOrNote, StepWinecfg, AtStep, CfgDone,
         ApplyDone, RemoveEntry, RemoveDir, RemoveGone, RemoveFails, RemoveLog, ReadDir,
         Probe, ReadMeta, ListDone
    <3> QED
      BY <2>3, <3>1, <3>2
  <2>4. CASE Programs(t)
    <3>1. CASE ProgramStarts(t)
      BY <2>1, <3>1 DEF ProgramStarts, TaskState
    <3>2. CASE ProgramWrites(t)
      BY <3>2 DEF ProgramWrites, WritesPrefix
    <3>3. CASE ProgramExits(t)
      <4>1. PICK c \in Exited : task' = [task EXCEPT ![t].child = c]
        BY <3>3 DEF ProgramExits
      <4> QED
        BY <2>1, <4>1 DEF TaskState
    <3>4. CASE OutputEnds(t)
      <4>1. PICK o \in {"ended", "garbled"} : task' = [task EXCEPT ![t].out = o]
        BY <3>4 DEF OutputEnds
      <4> QED
        BY <2>1, <4>1 DEF TaskState
    <3> QED
      BY <2>4, <3>1, <3>2, <3>3, <3>4 DEF Programs
  <2>5. ASSUME NEW u \in Task, u # t, Start(u) \/ Serve(u) \/ Programs(u)
        PROVE  task'[t].op = task[t].op
    BY <1>1, <2>5, OthersKeepOp
  <2>6. CASE Crash \/ \E u \in Task : IoError(u)
    BY <1>1, <2>1, <2>6 DEF Crash, IoError
  <2>7. CASE StrayStarts \/ StrayWrites \/ StrayExits \/ UNCHANGED vars
    BY <2>7 DEF StrayStarts, StrayWrites, WritesPrefix, StrayExits, vars
  <2> QED
    BY <1>1, <2>3, <2>4, <2>5, <2>6, <2>7 DEF Next, Quiescent
<1>2. TypeOK /\ [Next]_vars =>
        [\A t \in Task :
           /\ task[t].op \in {"run", "apply"} /\ task'[t].op = "none"
           /\ mishaps' = mishaps
           => task[t].child \notin Alive]_vars
  BY <1>1
<1> QED
  BY <1>2, TypeCorrect, PTL DEF Spec, RunAnswerMeansExited

-----------------------------------------------------------------------------
(* Listings.  A listing has noted every name that is being created or        *)
(* destroyed; of the others it has seen only such as have readable metadata, *)
(* and it has seen or is going to see every one of them.                     *)

InChange == {n \in Name : Changing(n) # {}}

Finds(s) ==
    /\ InChange \subseteq s.hit
    /\ s.pc \in {"probe", "readmeta"} =>
         \A n \in Name \ s.hit :
            /\ n \in s.seen => meta[n] = "whole"
            /\ meta[n] = "whole" =>
                 n \in s.ids \cup s.seen \/ (s.pc = "readmeta" /\ n = s.n)
    /\ s.pc = "readdir" => s.seen = {}
ListInv == \A t \in Task : task[t].op = "list" => Finds(task[t])

(* Metadata is only written and removed by those who have been noted.        *)
Unmoved == \A n \in Name \ InChange : meta'[n] = meta[n]

(* How a task that is not listing may go on.                                 *)
Steady(u) == \/ task'[u] = task[u]
             \/ task'[u].op = "none"
             \/ task[u].op # "list" /\ task'[u].op = task[u].op /\ task'[u].n = task[u].n

LEMMA SteadyListed ==
    ASSUME TypeOK, ListInv, \A u \in Task : Steady(u), Unmoved
    PROVE  ListInv'
<1>1. InChange' \subseteq InChange
  BY DEF InChange, Changing, Steady
<1> SUFFICES ASSUME NEW u \in Task, task'[u].op = "list" PROVE Finds(task[u])'
  BY DEF ListInv
<1>2. task'[u] = task[u] /\ task[u].op = "list"
  BY DEF Steady
<1>3. Finds(task[u])
  BY <1>2 DEF ListInv
<1> QED BY <1>1, <1>2, <1>3 DEF Finds, Unmoved

(* A listing moves, and nothing else.                                        *)
LEMMA OwnListed ==
    ASSUME TypeOK, ListInv, NEW t \in Task, UNCHANGED <<fs, history>>,
           task[t].op \in {"list", "none"}, NEW x, task' = [task EXCEPT ![t] = x],
           x.op = "list" => Finds(x), x.op \in {"list", "none"}
    PROVE  ListInv'
<1>1. task'[t] = x /\ \A u \in Task \ {t} : task'[u] = task[u]
  BY DEF TypeOK
<1>2. InChange' = InChange
  BY <1>1 DEF InChange, Changing
<1>3. ASSUME NEW u \in Task, task'[u].op = "list" PROVE Finds(task[u])'
  <2>1. Finds(task'[u])
    BY <1>1, <1>3 DEF ListInv
  <2> QED BY <1>2, <2>1 DEF Finds, fs
<1> QED BY <1>3 DEF ListInv

(* What it passes over has no readable metadata, unless somebody changes it. *)
LEMMA ListingsListed ==
    ASSUME AlloyInv, ListInv, NEW t \in Task,
           ReadDir(t) \/ Probe(t) \/ ReadMeta(t) \/ ListDone(t)
    PROVE  ListInv'
<1>1. TypeOK /\ task[t] \in TaskState /\ task[t].op = "list" /\ UNCHANGED <<fs, history>>
  BY StateOf DEF AlloyInv, ReadDir, Probe, ReadMeta, ListDone
<1>2. Finds(task[t])
  BY <1>1 DEF ListInv
<1>3. \A n \in Name : meta[n] = "whole" => n \in dir
  BY <1>1 DEF TypeOK
<1> DEFINE Sees(x) == task' = [task EXCEPT ![t] = x] /\ x.op = "list" /\ x.hit = task[t].hit
<1>4. CASE Reply(t)
  <2>1. Idle.op = "none"
    BY DEF Idle
  <2> QED BY <1>1, <1>4, <2>1, OwnListed DEF Reply
<1>5. CASE ReadDir(t)
  <2> DEFINE x == [task[t] EXCEPT !.pc = "probe", !.ids = dir]
  <2>1. Sees(x) /\ x.pc = "probe" /\ x.ids = dir /\ x.seen = {}
    BY <1>1, <1>2, <1>5 DEF ReadDir, TaskState, Finds
  <2> HIDE DEF x
  <2>2. Finds(x)
    BY <1>2, <1>3, <2>1 DEF Finds
  <2> QED BY <1>1, <2>1, <2>2, OwnListed
<1>6. CASE Probe(t)
  <2>1. PICK c \in task[t].ids :
          IF meta[c] # "absent"
            THEN task' = [task EXCEPT ![t].ids = @ \ {c}, ![t].n = c, ![t].pc = "readmeta"]
            ELSE task' = [task EXCEPT ![t].ids = @ \ {c}]
    BY <1>6 DEF Probe
  <2>2. task[t].pc = "probe"
    BY <1>6 DEF Probe
  <2>3. CASE meta[c] # "absent"
    <3> DEFINE x == [task[t] EXCEPT !.ids = @ \ {c}, !.n = c, !.pc = "readmeta"]
    <3>1. /\ Sees(x) /\ x.pc = "readmeta" /\ x.ids = task[t].ids \ {c} /\ x.n = c
          /\ x.seen = task[t].seen
      BY <1>1, <2>1, <2>3 DEF TaskState
    <3> HIDE DEF x
    <3>2. Finds(x)
      BY <1>2, <2>2, <3>1 DEF Finds
    <3> QED BY <1>1, <3>1, <3>2, OwnListed
  <2>4. CASE meta[c] = "absent"
    <3> DEFINE x == [task[t] EXCEPT !.ids = @ \ {c}]
    <3>1. /\ Sees(x) /\ x.pc = "probe" /\ x.ids = task[t].ids \ {c}
          /\ x.seen = task[t].seen
      BY <1>1, <2>1, <2>2, <2>4 DEF TaskState
    <3> HIDE DEF x
    <3>2. Finds(x)
      BY <1>2, <2>2, <2>4, <3>1 DEF Finds
    <3> QED BY <1>1, <3>1, <3>2, OwnListed
  <2> QED BY <2>3, <2>4
<1>7. CASE ReadMeta(t) /\ ~Reply(t)
  <2> DEFINE x == [task[t] EXCEPT !.pc = "probe", !.n = None,
                     !.seen = IF meta[task[t].n] = "whole" THEN @ \cup {task[t].n} ELSE @]
  <2>1. /\ Sees(x) /\ x.pc = "probe" /\ x.ids = task[t].ids
        /\ x.seen = IF meta[task[t].n] = "whole" THEN task[t].seen \cup {task[t].n}
                                                 ELSE task[t].seen
    BY <1>1, <1>7 DEF ReadMeta, TaskState
  <2> HIDE DEF x
  <2>2. task[t].pc = "readmeta"
    BY <1>7 DEF ReadMeta
  <2>3. Finds(x)
    BY <1>2, <2>1, <2>2 DEF Finds
  <2> QED BY <1>1, <2>1, <2>3, OwnListed
<1> QED BY <1>4, <1>5, <1>6, <1>7 DEF ListDone

(* The handlers that do not list; most of them leave the metadata alone.     *)
LEMMA HandlersListed ==
    ASSUME TypeOK, ListInv, NEW t \in Task,
           Serve(t), ~(ReadDir(t) \/ Probe(t) \/ ReadMeta(t) \/ ListDone(t)),
           ~(OpenMeta(t) \/ WriteMeta(t) \/ RemoveEntry(t))
    PROVE  ListInv'
<1> DEFINE Quiet == (\A u \in Task : Steady(u)) /\ meta' = meta
<1>1. /\ task \in [Task -> TaskState] /\ task[t] \in TaskState
  BY DEF TypeOK
<1>2. ASSUME Reply(t) PROVE \A u \in Task : Steady(u)
  BY <1>1, <1>2 DEF Reply, Idle, Steady
<1>3. CASE \/ Check(t) \/ MakeDir(t) \/ SpawnBoot(t) \/ OpenBootLog(t) \/ DrainBoot(t)
  <2>1. task[t].op # "list"
    BY <1>3, StateOf DEF Check, MakeDir, SpawnBoot, OpenBootLog, DrainBoot
  <2>2. \A u \in Task : Steady(u)
    BY <1>1, <1>2, <1>3, <2>1
       DEF Check, MakeDir, SpawnBoot, OpenBootLog, DrainBoot, Goto, TaskState, Steady
  <2>3. Quiet
    BY <1>3, <2>2 DEF Check, MakeDir, SpawnBoot, OpenBootLog, DrainBoot, fs
  <2> QED BY <2>3, SteadyListed DEF Unmoved
<1>4. CASE BootDone(t) \/ BootTimeout(t)
  <2>1. task[t].op # "list"
    BY <1>4, StateOf DEF BootDone, BootTimeout
  <2>2. \A u \in Task : Steady(u)
    BY <1>1, <1>2, <1>4, <2>1 DEF BootDone, BootTimeout, TaskState, Steady
  <2>3. Quiet
    BY <1>4, <2>2 DEF BootDone, BootTimeout, fs
  <2> QED BY <2>3, SteadyListed DEF Unmoved
<1>5. CASE OpenLog(t) \/ SpawnRun(t) \/ AwaitExit(t) \/ JoinOutput(t)
  <2>1. task[t].op # "list"
    BY <1>5, StateOf DEF OpenLog, SpawnRun, AwaitExit, JoinOutput
  <2>2. \A u \in Task : Steady(u)
    BY <1>1, <1>2, <1>5, <2>1
       DEF OpenLog, SpawnRun, AwaitExit, JoinOutput, NextStep, Goto, TaskState, Steady
  <2>3. Quiet
    BY <1>5, <2>2 DEF OpenLog, SpawnRun, AwaitExit, JoinOutput, fs
  <2> QED BY <2>3, SteadyListed DEF Unmoved
<1>6. CASE \/ LoadRecipe(t) \/ LoadFails(t) \/ StepRun(t) \/ StepEnvOrNote(t)
           \/ StepWinecfg(t) \/ CfgDone(t) \/ ApplyDone(t)
  <2>1. task[t].op # "list"
    BY <1>6, StateOf DEF LoadRecipe, LoadFails, StepRun, StepEnvOrNote, StepWinecfg, CfgDone,
       ApplyDone, AtStep
  <2>2. \A u \in Task : Steady(u)
    BY <1>1, <1>2, <1>6, <2>1
       DEF LoadRecipe, LoadFails, StepRun, StepEnvOrNote, StepWinecfg, CfgDone, ApplyDone,
           NextStep, Goto, TaskState, Steady
  <2>3. Quiet
    BY <1>6, <2>2 DEF LoadRecipe, LoadFails, StepRun, StepEnvOrNote, StepWinecfg, CfgDone,
       ApplyDone, fs
  <2> QED BY <2>3, SteadyListed DEF Unmoved
<1>7. CASE RemoveDir(t) \/ RemoveGone(t) \/ RemoveFails(t) \/ RemoveLog(t)
  <2>1. task[t].op # "list"
    BY <1>7, StateOf DEF RemoveDir, RemoveGone, RemoveFails, RemoveLog
  <2>2. \A u \in Task : Steady(u)
    BY <1>1, <1>2, <1>7, <2>1
       DEF RemoveDir, RemoveGone, RemoveFails, RemoveLog, Goto, TaskState, Steady
  <2>3. Quiet
    BY <1>7, <2>2 DEF RemoveDir, RemoveGone, RemoveFails, RemoveLog, fs
  <2> QED BY <2>3, SteadyListed DEF Unmoved
<1> QED BY <1>3, <1>4, <1>5, <1>6, <1>7 DEF Serve

(* A creation or a removal changes names that the listings have noted.       *)
LEMMA ChangersListed ==
    ASSUME AlloyInv, ListInv, NEW t \in Task, OpenMeta(t) \/ WriteMeta(t) \/ RemoveEntry(t)
    PROVE  ListInv'
<1>1. /\ TypeOK /\ task \in [Task -> TaskState] /\ task[t] \in TaskState
      /\ task[t].op \in {"create", "destroy"}
      /\ task[t].n \in Name
  BY StateOf DEF AlloyInv, OpenMeta, WriteMeta, RemoveEntry, TypeOK, WellPlaced
<1>2. task[t].n \in InChange
  BY <1>1 DEF InChange, Changing
<1>3. Unmoved
  <2>1. \/ meta' = meta
        \/ \E s : meta' = [meta EXCEPT ![task[t].n] = s]
    BY DEF OpenMeta, WriteMeta, RemoveEntry
  <2> QED BY <1>1, <1>2, <2>1 DEF Unmoved, TypeOK
<1>4. CASE OpenMeta(t) \/ WriteMeta(t)
  <2>1. \A u \in Task : Steady(u)
    BY <1>1, <1>4 DEF OpenMeta, WriteMeta, Goto, Reply, Idle, TaskState, Steady
  <2> QED BY <1>1, <1>3, <2>1, SteadyListed
<1>5. CASE RemoveEntry(t)
  <2>1. ASSUME NEW u \in Task PROVE Steady(u)
    <3>1. task[u] \in TaskState
      BY <1>1
    <3>2. \/ task'[u] = task[u]
          \/ task[u].pc = "writemeta" /\ task'[u] = [task[u] EXCEPT !.orphan = TRUE]
      BY <1>5 DEF RemoveEntry
    <3>3. task[u].pc = "writemeta" => task[u].op = "create"
      BY <1>1, StateOf
    <3> QED BY <3>1, <3>2, <3>3 DEF TaskState, Steady
  <2> QED BY <1>1, <1>3, <2>1, SteadyListed
<1> QED BY <1>4, <1>5

LEMMA StartsListed ==
    ASSUME TypeOK, ListInv, NEW t \in Task, Start(t)
    PROVE  ListInv'
<1>1. task[t].op = "none" /\ UNCHANGED <<fs, history>>
  BY DEF Start, StartCreate, StartDestroy, StartChange, StartRun, StartApply, StartList, Accept
<1>2. CASE StartRun(t) \/ StartApply(t)
  <2>1. task'[t].op \in {"run", "apply"} /\ \A u \in Task \ {t} : task'[u] = task[u]
    BY <1>2, ZenonT(40) DEF StartRun, StartApply, Idle, TypeOK
  <2>2. InChange' = InChange
    BY <1>1, <2>1 DEF InChange, Changing
  <2>3. ASSUME NEW u \in Task, task'[u].op = "list" PROVE Finds(task[u])'
    <3>1. Finds(task[u]) /\ task'[u] = task[u]
      BY <2>1, <2>3 DEF ListInv
    <3> QED BY <1>1, <2>2, <3>1 DEF Finds, fs
  <2> QED BY <2>3 DEF ListInv
<1>3. CASE StartList(t)
  <2> DEFINE x == [Idle EXCEPT !.op = "list", !.pc = "readdir",
                               !.hit = {n \in Name : Changing(n) # {}}]
  <2>1. task' = [task EXCEPT ![t] = x]
    BY <1>3 DEF StartList
  <2>2. x.op = "list" /\ x.pc = "readdir" /\ x.hit = InChange /\ x.seen = {}
    BY DEF Idle, InChange
  <2> HIDE DEF x
  <2>3. Finds(x)
    BY <2>2 DEF Finds
  <2> QED BY <1>1, <2>1, <2>2, <2>3, OwnListed
<1>4. ASSUME NEW o \in {"create", "destroy"}, StartChange(t, o) PROVE ListInv'
  <2>1. PICK n \in Name : task' = [Noting(n) EXCEPT ![t] =
                            [Idle EXCEPT !.op = o, !.pc = "check", !.n = n]]
    BY <1>4 DEF StartChange
  <2>2. task'[t].op = o /\ task'[t].n = n /\ \A u \in Task \ {t} : task'[u] = Noting(n)[u]
    BY <2>1 DEF Idle, Noting
  <2>3. ASSUME NEW u \in Task, u # t
        PROVE  /\ task'[u].op = task[u].op /\ task'[u].n = task[u].n
               /\ task'[u].pc = task[u].pc /\ task'[u].ids = task[u].ids
               /\ task'[u].seen = task[u].seen
               /\ task[u].op = "list" => task'[u].hit = task[u].hit \cup {n}
    <3>1. task[u] \in TaskState
      BY DEF TypeOK
    <3> QED BY <2>2, <2>3, <3>1, ZenonT(40) DEF Noting, TaskState
  <2>4. InChange' \subseteq InChange \cup {n}
    BY <1>1, <2>2, <2>3 DEF InChange, Changing
  <2>5. ASSUME NEW u \in Task, task'[u].op = "list" PROVE Finds(task[u])'
    <3>1. u # t
      BY <2>2, <2>5
    <3>2. Finds(task[u]) /\ task'[u].hit = task[u].hit \cup {n}
      BY <2>3, <2>5, <3>1 DEF ListInv
    <3> QED BY <1>1, <2>3, <2>4, <2>5, <3>1, <3>2 DEF Finds, fs
  <2> QED BY <2>5 DEF ListInv
<1> QED BY <1>2, <1>3, <1>4 DEF Start, StartCreate, StartDestroy

LEMMA ProgramsListed ==
    ASSUME TypeOK, ListInv, NEW t \in Task, Programs(t)
    PROVE  ListInv'
<1>1. task \in [Task -> TaskState] /\ task[t] \in TaskState /\ WellPlaced(task[t])
  BY DEF TypeOK
<1>2. task[t].child # "none" \/ task[t].out # "none" => task[t].op # "list"
  BY <1>1, StateOf DEF WellPlaced
<1>3. \A u \in Task : Steady(u)
  <2>1. CASE ProgramStarts(t)
    BY <1>1, <1>2, <2>1 DEF ProgramStarts, TaskState, Steady
  <2>2. CASE ProgramWrites(t)
    BY <2>2 DEF ProgramWrites, WritesPrefix, Steady
  <2>3. CASE ProgramExits(t)
    <3>1. PICK c \in Exited : task' = [task EXCEPT ![t].child = c]
      BY <2>3 DEF ProgramExits
    <3>2. task[t].op # "list"
      BY <1>2, <2>3 DEF ProgramExits, Alive
    <3> QED BY <1>1, <3>1, <3>2 DEF TaskState, Steady
  <2>4. CASE OutputEnds(t)
    <3>1. PICK o \in {"ended", "garbled"} : task' = [task EXCEPT ![t].out = o]
      BY <2>4 DEF OutputEnds
    <3>2. task[t].op # "list"
      BY <1>2, <2>4 DEF OutputEnds
    <3> QED BY <1>1, <3>1, <3>2 DEF TaskState, Steady
  <2> QED BY <2>1, <2>2, <2>3, <2>4 DEF Programs
<1>4. meta' = meta
  BY DEF Programs, ProgramStarts, MakesPrefix, ProgramWrites, WritesPrefix, ProgramExits,
         OutputEnds, fs
<1> QED BY <1>3, <1>4, SteadyListed DEF Unmoved

LEMMA ListStep ==
    ASSUME AlloyInv, ListInv, [Next]_vars
    PROVE  ListInv'
<1>1. TypeOK
  BY DEF AlloyInv
<1>2. ASSUME NEW t \in Task, Start(t) \/ Serve(t) \/ Programs(t) PROVE ListInv'
  BY <1>1, <1>2, StartsListed, HandlersListed, ListingsListed, ChangersListed, ProgramsListed
<1>3. ASSUME NEW t \in Task, IoError(t) PROVE ListInv'
  <2>1. \A u \in Task : Steady(u)
    BY <1>1, <1>3 DEF IoError, Reply, Idle, Steady, TypeOK
  <2>2. meta' = meta
    BY <1>3 DEF IoError, fs
  <2> QED BY <1>1, <2>1, <2>2, SteadyListed DEF Unmoved
<1>4. CASE Crash
  <2>1. \A u \in Task : Steady(u)
    BY <1>4 DEF Crash, Idle, Steady
  <2>2. meta' = meta
    BY <1>4 DEF Crash, fs
  <2> QED BY <1>1, <2>1, <2>2, SteadyListed DEF Unmoved
<1>5. CASE StrayStarts \/ StrayWrites \/ StrayExits \/ UNCHANGED vars
  <2>1. task' = task /\ meta' = meta
    BY <1>5 DEF StrayStarts, MakesPrefix, StrayWrites, WritesPrefix, StrayExits, fs, vars
  <2>2. \A u \in Task : Steady(u)
    BY <2>1 DEF Steady
  <2> QED BY <1>1, <2>1, <2>2, SteadyListed DEF Unmoved
<1> QED BY <1>2, <1>3, <1>4, <1>5 DEF Next, Quiescent

LEMMA ListInvariant == Spec => []ListInv
<1>1. Init => ListInv
  BY DEF Init, Idle, ListInv
<1>2. AlloyInv /\ ListInv /\ [Next]_vars => ListInv'
  BY ListStep
<1> QED BY <1>1, <1>2, AlloyInvariant, PTL DEF Spec

(* An acknowledged bottle has its directory.                                 *)
LEMMA MadeHasDir == Spec => [](made \subseteq dir)
<1>1. Init => made \subseteq dir
  BY DEF Init
<1>2. ASSUME AlloyInv, made \subseteq dir, NEW t \in Task, Serve(t)
      PROVE  made' \subseteq dir'
  <2>1. CASE WriteMeta(t)
    <3>1. ~task[t].orphan => task[t].n \in dir
      BY <1>2, <2>1, StateOf
         DEF AlloyInv, Writers, WriterHasFile, WriterState, WriteMeta, TypeOK, WellPlaced
    <3> QED BY <1>2, <2>1, <3>1 DEF WriteMeta
  <2>2. CASE RemoveDir(t)
    BY <1>2, <2>2 DEF RemoveDir
  <2>3. CASE ~(WriteMeta(t) \/ RemoveDir(t))
    <3>1. made' = made /\ dir \subseteq dir'
      BY <1>2, <2>3
         DEF Serve, Check, MakeDir, SpawnBoot, OpenBootLog, DrainBoot, BootDone, BootTimeout,
             OpenMeta, OpenLog, SpawnRun, AwaitExit, JoinOutput, LoadRecipe, LoadFails,
             StepRun, StepEnvOrNote, StepWinecfg, CfgDone, ApplyDone, RemoveEntry, RemoveGone,
             RemoveFails, RemoveLog, ReadDir, Probe, ReadMeta, ListDone, Botch, fs, history
    <3> QED BY <1>2, <3>1
  <2> QED BY <2>1, <2>2, <2>3
<1>3. ASSUME made \subseteq dir, [Next]_vars, ~\E t \in Task : Serve(t)
      PROVE  made' \subseteq dir'
  <2>1. made' = made /\ dir \subseteq dir'
    BY <1>3 DEF Next, Start, StartCreate, StartDestroy, StartChange, StartRun, StartApply,
           StartList, Accept, Programs, ProgramStarts, ProgramWrites, ProgramExits,
           OutputEnds, IoError, StrayStarts, StrayWrites, StrayExits, Crash, Quiescent,
           MakesPrefix, WritesPrefix, Botch, fs, history, vars
  <2> QED BY <1>3, <2>1
<1>4. AlloyInv /\ made \subseteq dir /\ [Next]_vars => (made \subseteq dir)'
  BY <1>2, <1>3
<1> QED BY <1>1, <1>4, AlloyInvariant, PTL DEF Spec

LEMMA DoneIsExact ==
    ASSUME AlloyInv, ListInv, NEW t \in Task, ListDone(t), NEW n \in Name \ task[t].hit
    PROVE  (n \in task[t].seen) <=> (meta[n] = "whole")
<1>1. task[t].op = "list" /\ task[t].pc = "probe" /\ task[t].ids = {}
  BY StateOf DEF ListDone, AlloyInv
<1> QED BY <1>1 DEF ListInv, Finds

(* A listing (list_bottles) that is answered is one look at the directories: *)
(* of the names that nobody created or destroyed meanwhile it holds exactly  *)
(* those whose metadata can be read when it ends, whatever programs, failing *)
(* requests and crashes come between its steps.                              *)
THEOREM ListingsExact == Spec => ListExact
<1>1. AlloyInv /\ ListInv => [\A t \in Task : ListDone(t) =>
        \A n \in Name \ task[t].hit : n \in task[t].seen <=> meta[n] = "whole"]_vars
  BY DoneIsExact
<1> QED BY <1>1, AlloyInvariant, ListInvariant, PTL DEF ListExact

(* A listing that is answered names every bottle whose creation was          *)
(* acknowledged and that nobody created or destroyed meanwhile, unless a     *)
(* failure or an overlap has botched it.                                     *)
THEOREM ListingsComplete == Spec => ListComplete
<1>1. ASSUME AlloyInv, ListInv, made \subseteq dir, NEW t \in Task, ListDone(t)
      PROVE  made \subseteq task[t].seen \cup task[t].hit \cup botched
  <2> SUFFICES ASSUME NEW n \in made, n \notin task[t].hit, n \notin botched
               PROVE  n \in task[t].seen
    OBVIOUS
  <2>1. task[t].op = "list" /\ n \in dir /\ n \in Name
    BY <1>1, StateOf DEF ListDone, AlloyInv, TypeOK
  <2>2. Changing(n) = {}
    BY <1>1, <2>1 DEF ListInv, Finds, InChange
  <2>3. meta[n] = "whole"
    BY <1>1, <2>1, <2>2 DEF AlloyInv, Writers, SettledIsWhole, Changing, ActiveState
  <2> QED BY <1>1, <2>1, <2>3, DoneIsExact
<1>2. AlloyInv /\ ListInv /\ made \subseteq dir => [\A t \in Task : ListDone(t) =>
        made \subseteq task[t].seen \cup task[t].hit \cup botched]_vars
  BY <1>1
<1> QED BY <1>2, AlloyInvariant, ListInvariant, MadeHasDir, PTL DEF ListComplete
=============================================================================
