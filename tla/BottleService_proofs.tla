------------------------ MODULE BottleService_proofs ------------------------
(* Theorems about BottleService, for every number of connections, bottles    *)
(* and recipes.                                                              *)
EXTENDS BottleService, FiniteSetTheorems, TLAPS

(* What a write leaves in a file is a file.                                  *)
LEMMA LandType ==
    ASSUME NEW f \in File, NEW r \in Record
    PROVE  Land(f, r) \in File
<1>1. IsFiniteSet({k \in Key : r.env[k] # Unset})
  BY FS_Subset, FileAssumption
<1>2. Size(r) \in Nat
  BY <1>1, FS_CardinalityType DEF Size
<1>3. NewRecord \in Record
  BY DEF NewRecord, Record, NoVars, Env
<1> QED
  BY <1>2, <1>3 DEF Land, File

(* Setting variables in an environment gives an environment.                 *)
LEMMA OverlayType ==
    ASSUME NEW e \in Env, NEW n \in Env
    PROVE  Overlay(e, n) \in Env
  BY DEF Overlay, Env

LEMMA ConstantTypes ==
    /\ NewRecord \in Record /\ Idle \in TaskState
    /\ Absent \in File /\ Truncated \in File
<1>1. NewRecord \in Record
  BY DEF NewRecord, Record, NoVars, Env
<1> QED
  BY <1>1, ServiceAssumption DEF Idle, TaskState, Op, Location, Absent, Truncated, File

(* The tasks part of the type invariant, by itself.                          *)
TasksOK == task \in [Task -> TaskState] /\ \A t \in Task : WellPlaced(task[t])

(* Giving one task a new, well placed state keeps the tasks typed.           *)
LEMMA MoveType ==
    ASSUME TasksOK, NEW t \in Task, NEW s \in TaskState, WellPlaced(s),
           task' = [task EXCEPT ![t] = s]
    PROVE  TasksOK'
  BY DEF TasksOK

LEMMA IdleType == Idle \in TaskState /\ WellPlaced(Idle)
  BY ConstantTypes DEF Idle, WellPlaced, PlacesOf

(* The state of one task after Noting is that of a well placed task.         *)
LEMMA NotingType ==
    ASSUME TasksOK, NEW b \in Bottle
    PROVE  /\ Noting(b) \in [Task -> TaskState]
           /\ \A u \in Task : WellPlaced(Noting(b)[u])
<1> SUFFICES ASSUME NEW u \in Task
             PROVE  Noting(b)[u] \in TaskState /\ WellPlaced(Noting(b)[u])
  BY DEF Noting
<1>1. task[u] \in TaskState /\ WellPlaced(task[u])
  BY DEF TasksOK
<1> DEFINE s == [task[u] EXCEPT !.hit = @ \cup {b}]
<1>2. s \in TaskState
  BY <1>1 DEF TaskState
<1>3. s.pc = task[u].pc /\ s.op = task[u].op /\ s.b = task[u].b
      /\ s.r = task[u].r /\ s.step = task[u].step
  BY <1>1 DEF TaskState
<1>4. WellPlaced(s)
  BY <1>1, <1>3 DEF WellPlaced
<1>5. Noting(b)[u] = s \/ Noting(b)[u] = task[u]
  BY DEF Noting
<1> QED
  BY <1>1, <1>2, <1>4, <1>5

(* A location tells the handler.                                             *)
LEMMA OpOf ==
    ASSUME TasksOK, NEW t \in Task
    PROVE  /\ task[t] \in TaskState /\ WellPlaced(task[t])
           /\ task[t].pc \in {"mkdir", "mkprefix"} => task[t].op = "create"
           /\ task[t].pc \in {"steps", "copy"} => task[t].op = "apply"
           /\ task[t].pc \in {"check", "scan", "unlink"} => task[t].op = "delete"
           /\ task[t].pc \in {"read", "spawn", "wine"} => task[t].op \in {"run", "apply"}
           /\ task[t].pc \in {"open", "write"} => task[t].op \in {"create", "apply"}
           /\ task[t].pc \in {"readdir", "probe", "readmeta"} => task[t].op = "list"
           /\ task[t].pc = "idle" => task[t].op = "none"
<1>1. task[t] \in TaskState /\ WellPlaced(task[t])
  BY DEF TasksOK
<1>2. task[t].op \in Op /\ task[t].pc \in PlacesOf(task[t].op)
  BY <1>1 DEF TaskState, WellPlaced
<1> QED
  BY <1>1, <1>2 DEF PlacesOf, Op

(* Beginning a request leaves everything but the task and the count alone.   *)
LEMMA AcceptType ==
    ASSUME NEW t \in Task, TypeOK, Accept(t), TasksOK', raced' \subseteq Bottle
    PROVE  TypeOK'
  BY DEF TypeOK, TasksOK, Accept, fs, clients, acks

(* A task that only moves, or answers, keeps the type invariant.             *)
LEMMA LocalStepType ==
    ASSUME TypeOK, TasksOK', UNCHANGED <<fs, clients, acks, causes, bounds>>
    PROVE  TypeOK'
  BY DEF TypeOK, TasksOK, fs, clients, acks, causes, bounds

LEMMA ReplyType ==
    ASSUME TypeOK, NEW t \in Task, Reply(t)
    PROVE  TasksOK'
  BY IdleType, MoveType DEF Reply, TypeOK, TasksOK

(* A step's variables, set in a record, give a record.                       *)
LEMMA StepVarsType ==
    ASSUME TasksOK, NEW t \in Task, AtStep(t, Steps[task[t].r][task[t].step].kind),
           task[t].op = "apply"
    PROVE  WithStepVars(t) \in Record
<1>1. task[t].r \in Recipe /\ task[t].step \in 1..Len(Steps[task[t].r])
  <2>1. task[t].step \in Nat /\ task[t].step >= 1 /\ task[t].r \in Recipe
    BY OpOf DEF AtStep, TaskState, WellPlaced
  <2>2. task[t].step <= Len(Steps[task[t].r])
    BY DEF AtStep
  <2>3. Len(Steps[task[t].r]) \in Nat
    BY <2>1, ServiceAssumption
  <2> QED
    BY <2>1, <2>2, <2>3
<1>2. Steps[task[t].r][task[t].step].vars \in Env
  <2>1. Steps[task[t].r] \in Seq(Step)
    BY <1>1, ServiceAssumption
  <2>2. Steps[task[t].r][task[t].step] \in Step
    BY <1>1, <2>1
  <2> QED
    BY <2>2 DEF Step
<1>3. task[t].rec \in Record
  BY DEF TasksOK, TaskState
<1> QED
  BY <1>2, <1>3, OverlayType DEF WithStepVars, Record

LEMMA TypeStep == TypeOK /\ [Next]_vars => TypeOK'
<1> SUFFICES ASSUME TypeOK, [Next]_vars PROVE TypeOK'
  OBVIOUS
<1> USE ConstantTypes
<1> TasksOK
  BY DEF TypeOK, TasksOK
<1>0. ASSUME NEW t \in Task, NEW o \in Op, NEW loc \in Location, NEW b \in Bottle,
             NEW r \in Recipe \cup {None}, StartOn(t, o, loc, b, r),
             <<o, loc>> \in {<<"delete", "check">>, <<"run", "read">>, <<"apply", "read">>},
             o = "apply" => r \in Recipe
      PROVE  TypeOK'
  <2> DEFINE s == [Idle EXCEPT !.op = o, !.pc = loc, !.b = b, !.r = r]
  <2>1. s \in TaskState /\ WellPlaced(s)
    BY <1>0 DEF TaskState, WellPlaced, PlacesOf, Idle
  <2> DEFINE base == IF o = "run" THEN task ELSE Noting(b)
  <2>2. base \in [Task -> TaskState] /\ \A u \in Task : WellPlaced(base[u])
    BY NotingType DEF TasksOK
  <2>3. task' = [base EXCEPT ![t] = s]
    BY <1>0 DEF StartOn
  <2>4. TasksOK'
    <3> HIDE DEF s, base
    <3> QED  BY <2>1, <2>2, <2>3 DEF TasksOK
  <2>5. Accept(t) /\ raced' \subseteq Bottle
    BY <1>0 DEF StartOn, TypeOK
  <2> QED
    BY <2>4, <2>5, AcceptType
<1>1. ASSUME NEW t \in Task, StartCreate(t) PROVE TypeOK'
  <2> DEFINE s == [Idle EXCEPT !.op = "create", !.pc = "mkdir"]
  <2>1. s \in TaskState /\ WellPlaced(s)
    BY DEF TaskState, Op, Location, WellPlaced, PlacesOf, Idle
  <2>2. task' = [task EXCEPT ![t] = s] /\ Accept(t) /\ raced' \subseteq Bottle
    BY <1>1 DEF StartCreate, TypeOK
  <2>3. TasksOK'
    BY <2>1, <2>2, MoveType
  <2> QED
    BY <2>2, <2>3, AcceptType
<1>2. ASSUME NEW t \in Task, StartList(t) PROVE TypeOK'
  <2>0. Busy \in SUBSET Bottle
    BY DEF Busy
  <2> DEFINE s == [Idle EXCEPT !.op = "list", !.pc = "readdir", !.hit = Busy]
  <2>1. s \in TaskState /\ WellPlaced(s)
    BY <2>0 DEF TaskState, Op, Location, WellPlaced, PlacesOf, Idle
  <2>2. task' = [task EXCEPT ![t] = s] /\ Accept(t) /\ raced' \subseteq Bottle
    BY <1>2 DEF StartList, TypeOK
  <2>3. TasksOK'
    BY <2>1, <2>2, MoveType
  <2> QED
    BY <2>2, <2>3, AcceptType
<1>3. ASSUME NEW t \in Task, MakeBottleDir(t) PROVE TypeOK'
  <2>1. PICK b \in Bottle \ used :
          /\ used' = used \cup {b}
          /\ dir' = dir \cup {b}
          /\ task' = [Noting(b) EXCEPT ![t].pc = "mkprefix", ![t].b = b]
    BY <1>3 DEF MakeBottleDir
  <2>2. task[t].pc = "mkdir" /\ Noting(b)[t].op = "create"
    BY <1>3 DEF MakeBottleDir, TasksOK, TaskState, WellPlaced, PlacesOf, Op, Noting
  <2>3. TasksOK'
    <3> DEFINE s == [Noting(b)[t] EXCEPT !.pc = "mkprefix", !.b = b]
    <3>1. Noting(b) \in [Task -> TaskState] /\ \A u \in Task : WellPlaced(Noting(b)[u])
      BY NotingType
    <3>2. s \in TaskState
      BY <3>1, ZenonT(40) DEF TaskState, Location
    <3>3. s.op = "create" /\ s.pc = "mkprefix" /\ s.b = b
      BY <2>2, <3>1 DEF TaskState
    <3>4. WellPlaced(s)
      BY <3>3 DEF WellPlaced, PlacesOf
    <3>5. task' = [Noting(b) EXCEPT ![t] = s]
      BY <2>1, <3>1 DEF TaskState
    <3> QED
      <4> HIDE DEF s
      <4> QED  BY <3>1, <3>2, <3>4, <3>5 DEF TasksOK
  <2> QED
    BY <1>3, <2>1, <2>3 DEF TypeOK, TasksOK, MakeBottleDir, acks, causes, bounds
<1>4. ASSUME NEW t \in Task, MakePrefixDir(t) PROVE TypeOK'
  <2> DEFINE s == [task[t] EXCEPT !.pc = "open"]
  <2>1. task[t].op = "create" /\ task[t].b \in Bottle
    BY <1>4, OpOf DEF MakePrefixDir, WellPlaced
  <2>2. s \in TaskState /\ s.op = "create" /\ s.pc = "open" /\ s.b = task[t].b
    BY <2>1, OpOf DEF TaskState, Location
  <2>3. WellPlaced(s)
    BY <2>1, <2>2 DEF WellPlaced, PlacesOf
  <2>4. task' = [task EXCEPT ![t] = s]
    BY <1>4 DEF MakePrefixDir, Goto, TasksOK
  <2>5. TasksOK'
    BY <2>2, <2>3, <2>4, MoveType
  <2> QED
    BY <1>4, <2>1, <2>5 DEF TypeOK, TasksOK, MakePrefixDir, clients, acks, causes, bounds
<1>5. ASSUME NEW t \in Task, OpenMeta(t) PROVE TypeOK'
  <2>1. TasksOK'
    BY <1>5 DEF TasksOK, OpenMeta, Goto, TaskState, Op, Location, WellPlaced, PlacesOf
  <2> QED
    BY <1>5, <2>1 DEF TypeOK, TasksOK, OpenMeta, clients, acks, causes, bounds
<1>6. ASSUME NEW t \in Task, OpenMetaFails(t) PROVE TypeOK'
  BY <1>6, ReplyType, LocalStepType DEF OpenMetaFails
<1>7. ASSUME NEW t \in Task, WriteMeta(t) PROVE TypeOK'
  <2>1. TasksOK'
    BY <1>7, ReplyType DEF WriteMeta
  <2>2. /\ task[t].b \in Bottle /\ task[t].rec \in Record
        /\ task[t].op # "create" => task[t].r \in Recipe
    BY <1>7 DEF WriteMeta, TasksOK, TaskState, Op, Location, WellPlaced, PlacesOf
  <2>3. [by |-> t, b |-> task[t].b, rec |-> task[t].rec] \in [by : Task, b : Bottle, rec : Record]
    BY <2>2
  <2>4. pend' \subseteq [by : Task, b : Bottle, rec : Record]
    BY <1>7, <2>3 DEF WriteMeta, TypeOK
  <2> QED
    BY <1>7, <2>1, <2>2, <2>4 DEF TypeOK, TasksOK, WriteMeta, causes, bounds
<1>8. ASSUME NEW t \in Task, RemoveCheck(t) PROVE TypeOK'
  <2>1. TasksOK'
    BY <1>8, ReplyType DEF TasksOK, RemoveCheck, TaskState, Op, Location, WellPlaced, PlacesOf, Goto
  <2> QED
    BY <1>8, <2>1, LocalStepType DEF RemoveCheck
<1>9. ASSUME NEW t \in Task, RemoveScan(t) PROVE TypeOK'
  <2>1. TasksOK'
    BY <1>9, ReplyType DEF TasksOK, RemoveScan, TaskState, Op, Location, WellPlaced, PlacesOf, Children
  <2> QED
    BY <1>9, <2>1, LocalStepType DEF RemoveScan
<1>10. ASSUME NEW t \in Task, UnlinkMeta(t) PROVE TypeOK'
  <2>1. ASSUME NEW u \in Task PROVE task'[u] \in TaskState /\ WellPlaced(task'[u])
    <3>1. task[u] \in TaskState /\ WellPlaced(task[u])
      BY DEF TasksOK
    <3>2. task'[u] \in {task[u], [task[u] EXCEPT !.kids = @ \ {"meta"}],
                               [task[u] EXCEPT !.orphan = TRUE]}
      BY <1>10 DEF UnlinkMeta
    <3>3. task'[u] \in TaskState /\ task'[u].pc = task[u].pc /\ task'[u].op = task[u].op
          /\ task'[u].b = task[u].b /\ task'[u].r = task[u].r /\ task'[u].step = task[u].step
      BY <3>1, <3>2 DEF TaskState
    <3> QED
      BY <3>1, <3>3 DEF WellPlaced
  <2>2. task' = [u \in Task |-> task'[u]]
    BY <1>10 DEF UnlinkMeta
  <2>3. TasksOK'
    BY <2>1, <2>2 DEF TasksOK
  <2> QED
    BY <1>10, <2>3 DEF TypeOK, TasksOK, UnlinkMeta, clients, acks, causes, bounds
<1>11. ASSUME NEW t \in Task, UnlinkPrefix(t) PROVE TypeOK'
  <2>1. TasksOK'
    BY <1>11 DEF TasksOK, UnlinkPrefix, TaskState, Op, Location, WellPlaced, PlacesOf
  <2> QED
    BY <1>11, <2>1 DEF TypeOK, TasksOK, UnlinkPrefix, clients, acks, causes, bounds
<1>12. ASSUME NEW t \in Task, UnlinkPrefixBusy(t) PROVE TypeOK'
  BY <1>12, ReplyType, LocalStepType DEF UnlinkPrefixBusy
<1>13. ASSUME NEW t \in Task, UnlinkGone(t) PROVE TypeOK'
  <2>1. TasksOK'
    BY <1>13, ReplyType DEF TasksOK, UnlinkGone, TaskState, Op, Location, WellPlaced, PlacesOf
  <2> QED
    BY <1>13, <2>1, LocalStepType DEF UnlinkGone
<1>14. ASSUME NEW t \in Task, RemoveDir(t) PROVE TypeOK'
  <2>1. TasksOK'
    BY <1>14, ReplyType DEF RemoveDir
  <2>2. task[t].b \in Bottle
    BY <1>14 DEF RemoveDir, TasksOK, WellPlaced
  <2> QED
    BY <1>14, <2>1, <2>2 DEF TypeOK, TasksOK, RemoveDir, clients, causes, bounds
<1>15. ASSUME NEW t \in Task, RemoveDirFails(t) PROVE TypeOK'
  BY <1>15, ReplyType, LocalStepType DEF RemoveDirFails
<1>16. ASSUME NEW t \in Task, ReadRecord(t) PROVE TypeOK'
  <2>1. task[t].b \in Bottle /\ meta[task[t].b].rec \in Record
    BY <1>16 DEF ReadRecord, TasksOK, WellPlaced, TypeOK, File
  <2>2. TasksOK'
    BY <1>16, <2>1, ReplyType DEF TasksOK, ReadRecord, TaskState, Op, Location, WellPlaced, PlacesOf
  <2> QED
    BY <1>16, <2>2, LocalStepType DEF ReadRecord
<1>17. ASSUME NEW t \in Task, Spawn(t) PROVE TypeOK'
  <2>1. TasksOK'
    BY <1>17, ReplyType DEF TasksOK, Spawn, TaskState, Op, Location, WellPlaced, PlacesOf, Goto
  <2> QED
    BY <1>17, <2>1, LocalStepType DEF Spawn
<1>18. ASSUME NEW t \in Task, WineExit(t) PROVE TypeOK'
  <2>1. CASE task[t].op = "run"
    BY <1>18, <2>1, ReplyType, LocalStepType DEF WineExit
  <2>2. CASE task[t].op # "run"
    <3> DEFINE s == [task[t] EXCEPT !.pc = "steps", !.step = @ + 1]
    <3>1. s \in TaskState /\ WellPlaced(s)
      <4>1. task[t] \in TaskState /\ WellPlaced(task[t])
        BY OpOf
      <4>a. task[t].step \in Nat /\ task[t].step + 1 \in Nat
        BY <4>1 DEF TaskState
      <4>2. s \in TaskState /\ s.op = task[t].op /\ s.pc = "steps"
            /\ s.r = task[t].r /\ s.b = task[t].b /\ s.step = task[t].step + 1
        BY <4>1, <4>a DEF TaskState, Location
      <4> QED
        BY <1>18, <2>2, <4>1, <4>a, <4>2, OpOf DEF WineExit, WellPlaced, PlacesOf
    <3>2. task' = [task EXCEPT ![t] = s]
      BY <1>18, <2>2 DEF WineExit, TasksOK
    <3> QED
      BY <1>18, <3>1, <3>2, MoveType, LocalStepType DEF WineExit
  <2> QED
    BY <2>1, <2>2
<1>19. ASSUME NEW t \in Task, ApplyRun(t) PROVE TypeOK'
  <2> DEFINE s == [task[t] EXCEPT !.pc = "spawn"]
  <2>1. s \in TaskState /\ WellPlaced(s)
    BY <1>19, OpOf DEF ApplyRun, TaskState, Op, Location, WellPlaced, PlacesOf, AtStep
  <2>2. task' = [task EXCEPT ![t] = s]
    BY <1>19 DEF ApplyRun, Goto, TasksOK
  <2>3. TasksOK'
    BY <2>1, <2>2, MoveType
  <2> QED
    BY <1>19, <2>3, LocalStepType DEF ApplyRun
<1>20. ASSUME NEW t \in Task, ApplyWait(t) PROVE TypeOK'
  <2> DEFINE s == [task[t] EXCEPT !.step = @ + 1]
  <2>1. task[t].op = "apply" /\ task[t].step \in Nat /\ task[t].step + 1 \in Nat
        /\ task[t].step + 1 >= 1
    BY <1>20, OpOf DEF ApplyWait, AtStep, TaskState
  <2>2. /\ s \in TaskState /\ s.op = task[t].op /\ s.pc = task[t].pc
        /\ s.r = task[t].r /\ s.b = task[t].b /\ s.step = task[t].step + 1
    BY <2>1, OpOf DEF TaskState
  <2>3. WellPlaced(s)
    BY <2>1, <2>2, OpOf DEF WellPlaced
  <2>4. task' = [task EXCEPT ![t] = s]
    BY <1>20 DEF ApplyWait, TasksOK
  <2>5. TasksOK'
    BY <2>2, <2>3, <2>4, MoveType
  <2> QED
    BY <1>20, <2>5, LocalStepType DEF ApplyWait
<1>21. ASSUME NEW t \in Task, ApplyWineCfg(t) PROVE TypeOK'
  <2>1. AtStep(t, Steps[task[t].r][task[t].step].kind) /\ task[t].op = "apply"
    BY <1>21, OpOf DEF ApplyWineCfg, AtStep
  <2>2. WithStepVars(t) \in Record
    BY <2>1, StepVarsType
  <2> DEFINE s == [task[t] EXCEPT !.rec = WithStepVars(t), !.pc = "spawn"]
  <2>3. s \in TaskState /\ WellPlaced(s)
    <3>1. task[t] \in TaskState /\ WellPlaced(task[t])
      BY OpOf
    <3>2. s \in TaskState /\ s.op = task[t].op /\ s.pc = "spawn"
          /\ s.r = task[t].r /\ s.b = task[t].b /\ s.step = task[t].step
      BY <3>1, <2>2 DEF TaskState, Location
    <3> QED
      BY <1>21, <2>1, <3>1, <3>2, OpOf DEF ApplyWineCfg, WellPlaced, PlacesOf, AtStep
  <2>4. task' = [task EXCEPT ![t] = s]
    BY <1>21 DEF ApplyWineCfg, TasksOK
  <2> QED
    BY <1>21, <2>3, <2>4, MoveType, LocalStepType DEF ApplyWineCfg
<1>22. ASSUME NEW t \in Task, ApplyEnv(t) PROVE TypeOK'
  <2>1. AtStep(t, Steps[task[t].r][task[t].step].kind) /\ task[t].op = "apply"
    BY <1>22, OpOf DEF ApplyEnv, AtStep
  <2>2. WithStepVars(t) \in Record
    BY <2>1, StepVarsType
  <2> DEFINE s == [task[t] EXCEPT !.rec = WithStepVars(t), !.step = @ + 1]
  <2>3. s \in TaskState /\ WellPlaced(s)
    <3>1. task[t] \in TaskState /\ WellPlaced(task[t])
      BY OpOf
    <3>a. task[t].step \in Nat /\ task[t].step + 1 \in Nat
      BY <3>1 DEF TaskState
    <3>2. s \in TaskState /\ s.op = task[t].op /\ s.pc = task[t].pc
          /\ s.r = task[t].r /\ s.b = task[t].b /\ s.step = task[t].step + 1
      BY <3>1, <3>a, <2>2 DEF TaskState, Location
    <3> QED
      BY <1>22, <2>1, <3>1, <3>a, <3>2, OpOf DEF ApplyEnv, WellPlaced, PlacesOf, AtStep
  <2>4. task' = [task EXCEPT ![t] = s]
    BY <1>22 DEF ApplyEnv, TasksOK
  <2> QED
    BY <1>22, <2>3, <2>4, MoveType, LocalStepType DEF ApplyEnv
<1>23. ASSUME NEW t \in Task, ApplyCopy(t) PROVE TypeOK'
  <2> DEFINE s == [task[t] EXCEPT !.pc = "copy"]
  <2>1. s \in TaskState /\ WellPlaced(s)
    BY <1>23, OpOf DEF ApplyCopy, TaskState, Op, Location, WellPlaced, PlacesOf, AtStep
  <2>2. task' = [task EXCEPT ![t] = s]
    BY <1>23 DEF ApplyCopy, Goto, TasksOK
  <2>3. TasksOK'
    BY <2>1, <2>2, MoveType
  <2>4. task[t].b \in Bottle
    BY <1>23, OpOf DEF ApplyCopy, AtStep, WellPlaced
  <2> QED
    BY <1>23, <2>3, <2>4 DEF TypeOK, TasksOK, ApplyCopy, clients, acks, causes, bounds
<1>24. ASSUME NEW t \in Task, ApplyCopyMissing(t) PROVE TypeOK'
  BY <1>24, ReplyType, LocalStepType DEF ApplyCopyMissing
<1>25. ASSUME NEW t \in Task, CopyFile(t) PROVE TypeOK'
  <2>1. TasksOK'
    BY <1>25, ReplyType DEF TasksOK, CopyFile, TaskState, Op, Location, WellPlaced, PlacesOf
  <2> QED
    BY <1>25, <2>1, LocalStepType DEF CopyFile
<1>26. ASSUME NEW t \in Task, UpdateRecord(t) PROVE TypeOK'
  <2> DEFINE s == [task[t] EXCEPT !.pc = "open", !.rec.by = @ \cup {task[t].r}]
  <2>1. s \in TaskState /\ WellPlaced(s)
    <3>1. task[t] \in TaskState /\ WellPlaced(task[t])
      BY OpOf
    <3>2. s \in TaskState /\ s.op = task[t].op /\ s.pc = "open"
          /\ s.r = task[t].r /\ s.b = task[t].b /\ s.step = task[t].step
      BY <3>1, <1>26, OpOf DEF TaskState, Location, UpdateRecord, WellPlaced, Record
    <3> QED
      BY <1>26, <3>1, <3>2, OpOf DEF UpdateRecord, WellPlaced, PlacesOf
  <2>2. task' = [task EXCEPT ![t] = s] \/ Reply(t)
    BY <1>26 DEF UpdateRecord, Goto, TasksOK
  <2>3. TasksOK'
    BY <2>1, <2>2, MoveType, ReplyType
  <2> QED
    BY <1>26, <2>3, LocalStepType DEF UpdateRecord
<1>27. ASSUME NEW t \in Task, ListDir(t) PROVE TypeOK'
  <2> DEFINE s == [task[t] EXCEPT !.pc = "probe", !.ids = dir]
  <2>1. s \in TaskState /\ WellPlaced(s)
    <3>1. task[t] \in TaskState /\ WellPlaced(task[t])
      BY OpOf
    <3>2. s \in TaskState /\ s.op = task[t].op /\ s.pc = "probe"
          /\ s.r = task[t].r /\ s.b = task[t].b /\ s.step = task[t].step
      BY <3>1 DEF TaskState, Location, TypeOK
    <3> QED
      BY <1>27, <3>1, <3>2, OpOf DEF ListDir, WellPlaced, PlacesOf
  <2>2. task' = [task EXCEPT ![t] = s]
    BY <1>27 DEF ListDir, Goto, TasksOK
  <2>3. TasksOK'
    BY <2>1, <2>2, MoveType
  <2> QED
    BY <1>27, <2>3, LocalStepType DEF ListDir
<1>28. ASSUME NEW t \in Task, ListProbe(t) PROVE TypeOK'
  <2>1. TasksOK'
    BY <1>28 DEF TasksOK, ListProbe, TaskState, Op, Location, WellPlaced, PlacesOf
  <2> QED
    BY <1>28, <2>1, LocalStepType DEF ListProbe
<1>29. ASSUME NEW t \in Task, ListRead(t) PROVE TypeOK'
  <2> DEFINE s == [task[t] EXCEPT !.pc = "probe", !.b = None,
                     !.seen = IF Readable(meta[task[t].b])
                                THEN @ \cup {task[t].b} ELSE @]
  <2>1. s \in TaskState /\ WellPlaced(s)
    <3>1. task[t] \in TaskState /\ WellPlaced(task[t])
      BY OpOf
    <3>2. s \in TaskState /\ s.op = task[t].op /\ s.pc = "probe"
          /\ s.r = task[t].r /\ s.step = task[t].step
      BY <3>1, <1>29 DEF TaskState, Location, ListRead, WellPlaced
    <3> QED
      BY <1>29, <3>1, <3>2, OpOf DEF ListRead, WellPlaced, PlacesOf
  <2>2. task' = [task EXCEPT ![t] = s]
    BY <1>29 DEF ListRead, Goto, TasksOK
  <2>3. TasksOK'
    BY <2>1, <2>2, MoveType
  <2> QED
    BY <1>29, <2>3, LocalStepType DEF ListRead
<1>30. ASSUME NEW t \in Task, ListReadFails(t) PROVE TypeOK'
  BY <1>30, ReplyType, LocalStepType DEF ListReadFails
<1>31. ASSUME NEW t \in Task, ListDone(t) PROVE TypeOK'
  <2>1. TasksOK' /\ task[t].seen \subseteq Bottle
    BY <1>31, ReplyType DEF ListDone, TasksOK, TaskState
  <2> QED
    BY <1>31, <2>1 DEF TypeOK, TasksOK, ListDone, fs, acks, causes, bounds
<1>32. ASSUME NEW t \in Task, IoError(t) PROVE TypeOK'
  <2>1. TasksOK' /\ task[t].b \in Bottle \cup {None}
    BY <1>32, ReplyType DEF IoError, TasksOK, TaskState
  <2> QED
    BY <1>32, <2>1 DEF TypeOK, TasksOK, IoError, fs, clients, acks
<1>33. CASE LandWrite
  <2>1. PICK w \in pend : /\ meta' = [meta EXCEPT ![w.b] = Land(@, w.rec)]
                          /\ pend' = pend \ {w}
    BY <1>33 DEF LandWrite
  <2>2. w.b \in Bottle /\ w.rec \in Record
    BY DEF TypeOK
  <2>3. Land(meta[w.b], w.rec) \in File
    BY <2>2, LandType DEF TypeOK
  <2> QED
    BY <1>33, <2>1, <2>2, <2>3 DEF TypeOK, LandWrite, clients, acks, causes, bounds
<1>34. CASE LostWrite
  BY <1>34 DEF TypeOK, LostWrite, clients, acks
<1>35. CASE Crash
  <2>1. Busy \subseteq Bottle /\ TasksOK'
    BY <1>35, IdleType DEF Crash, Busy, TasksOK
  <2> QED
    BY <1>35, <2>1 DEF TypeOK, TasksOK, Crash, clients, acks
<1>36. CASE UNCHANGED vars
  BY <1>36 DEF TypeOK, vars, fs, clients, acks, causes, bounds
<1>37. ASSUME NEW t \in Task, Start(t) PROVE TypeOK'
  <2>1. CASE StartDelete(t)
    BY <2>1, <1>0 DEF StartDelete, Op, Location
  <2>2. CASE StartRun(t)
    BY <2>2, <1>0 DEF StartRun, Op, Location
  <2>3. CASE StartApply(t)
    BY <2>3, <1>0 DEF StartApply, Op, Location
  <2> QED
    BY <1>1, <1>2, <1>37, <2>1, <2>2, <2>3 DEF Start
<1>38. ASSUME NEW t \in Task, Serve(t) PROVE TypeOK'
    BY <1>38, <1>3, <1>4, <1>5, <1>6, <1>7, <1>8, <1>9, <1>10, <1>11, <1>12, <1>13,
     <1>14, <1>15, <1>16, <1>17, <1>18, <1>19, <1>20, <1>21, <1>22, <1>23, <1>24, <1>25,
     <1>26, <1>27, <1>28, <1>29, <1>30, <1>31 DEF Serve
<1> QED
  BY <1>32, <1>33, <1>34, <1>35, <1>36, <1>37, <1>38 DEF Next, Quiescent

(* In every reachable state the store, the tasks and the history have the    *)
(* types TypeOK gives them, and every task has the locals its location needs. *)
THEOREM TypeCorrect == Spec => []TypeOK
<1>1. Init => TypeOK
  <2> SUFFICES ASSUME Init PROVE TypeOK
    OBVIOUS
  <2> QED
    BY ConstantTypes, IdleType DEF Init, TypeOK
<1> QED
  BY <1>1, TypeStep, PTL DEF Spec

-----------------------------------------------------------------------------
(* Removal.  A directory is made by a creation, with an id no client knows   *)
(* yet, or by a copy step.  Without copy steps a known bottle is therefore   *)
(* only ever removed.                                                        *)

NoCopy == \A r \in Recipe : \A i \in 1..Len(Steps[r]) : Steps[r][i].kind # "copy"

(* Bottles whose creation has made the directory and not yet the prefix:     *)
(* nobody else can have heard of them.                                       *)
Unborn(b) == /\ b \in dir /\ b \notin known
             /\ meta[b].state = "absent"
             /\ \A w \in pend : w.b # b
             /\ \A u \in Task : b \notin task[u].seen

RemovalInv ==
    /\ dir \subseteq used /\ known \subseteq used /\ deleted \subseteq known
    /\ deleted \cap dir = {}
    /\ \A b \in Bottle \ used : meta[b].state = "absent"
    /\ \A w \in pend : w.b \in used
    /\ \A t \in Task :
         /\ task[t].op = "create" => task[t].b \in used \cup {None}
         /\ task[t].op \in {"delete", "run", "apply"} => task[t].b \in known
         /\ task[t].seen \subseteq used
         /\ task[t].op = "list" /\ task[t].pc = "readmeta" => task[t].b \in used
         /\ task[t].pc = "mkprefix" => Unborn(task[t].b)
         /\ task[t].ids \subseteq used
         /\ \A u \in Task : t # u /\ task[t].op = "create" /\ task[u].op = "create"
                            /\ task[t].b # None => task[t].b # task[u].b

(* How a task may change while the store and the clients stay as they are:   *)
(* it goes idle, it goes on with the same bottle, or it begins a request on  *)
(* a known bottle, a creation without an id yet, or a listing.               *)
GoesIdle(u) == task'[u] = Idle
GoesOn(u) ==
    /\ task'[u].op = task[u].op
    /\ task[u].op # "list" => task'[u].b = task[u].b
    /\ task[u].op = "list" /\ task'[u].pc = "readmeta" => task'[u].b \in used
    /\ task'[u].pc = "mkprefix" => task[u].pc = "mkprefix" /\ task'[u].b = task[u].b
    /\ task'[u].seen = task[u].seen
    /\ task'[u].ids \subseteq used
Begins(u) ==
    /\ task'[u].pc \notin {"mkprefix", "readmeta"}
    /\ task'[u].seen = {} /\ task'[u].ids = {}
    /\ \/ task'[u].op = "list"
       \/ task'[u].op = "create" /\ task'[u].b = None
       \/ task'[u].op \in {"delete", "run", "apply"} /\ task'[u].b \in known
Follows(u) == GoesIdle(u) \/ GoesOn(u) \/ Begins(u)

(* What such a change keeps, as long as no step unlearns a bottle's birth.   *)
LEMMA FollowsRemoval ==
    ASSUME TypeOK, RemovalInv, \A u \in Task : Follows(u),
           UNCHANGED <<dir, meta, pend, clients, deleted>>
    PROVE  RemovalInv'
<1> USE DEF clients
<1>1. ASSUME NEW u \in Task, Begins(u) \/ GoesIdle(u)
      PROVE  /\ task'[u].pc \notin {"mkprefix", "readmeta"}
             /\ task'[u].seen = {} /\ task'[u].ids = {}
             /\ task'[u].op = "create" => task'[u].b = None
             /\ task'[u].op \in {"delete", "run", "apply"} => task'[u].b \in known
  BY <1>1 DEF Begins, GoesIdle, Idle
<1>2. ASSUME NEW u \in Task
      PROVE  /\ task'[u].op = "create" => task'[u].b \in used \cup {None}
             /\ task'[u].op \in {"delete", "run", "apply"} => task'[u].b \in known
             /\ task'[u].seen \subseteq used
             /\ task'[u].op = "list" /\ task'[u].pc = "readmeta" => task'[u].b \in used
             /\ task'[u].ids \subseteq used
             /\ task'[u].seen \subseteq task[u].seen
             /\ task'[u].op = "create" =>
                  (task'[u].b = None \/ (task[u].op = "create" /\ task'[u].b = task[u].b))
             /\ task'[u].pc = "mkprefix" => task[u].pc = "mkprefix" /\ task'[u].b = task[u].b
  <2>1. CASE Begins(u) \/ GoesIdle(u)
    BY <2>1, <1>1
  <2>2. CASE GoesOn(u)
    BY <2>2 DEF GoesOn, RemovalInv
  <2> QED
    BY <2>1, <2>2 DEF Follows
<1>3. ASSUME NEW b, Unborn(b) PROVE Unborn(b)'
  BY <1>2, <1>3 DEF Unborn
<1>4. ASSUME NEW t \in Task, task'[t].pc = "mkprefix" PROVE Unborn(task[t].b)'
  BY <1>2, <1>3, <1>4 DEF RemovalInv
<1>5. ASSUME NEW t \in Task, NEW u \in Task, t # u, task'[t].op = "create",
             task'[u].op = "create", task'[t].b # None
      PROVE  task'[t].b # task'[u].b
  BY <1>2, <1>5 DEF RemovalInv
<1>6. \A t \in Task : task'[t].pc = "mkprefix" => Unborn(task[t].b)'
  BY <1>4
<1>7. \A t \in Task : (task[t].pc = "mkprefix" => Unborn(task[t].b))'
  BY <1>6
<1> QED
  BY <1>2, <1>5, <1>7 DEF RemovalInv

(* A task nobody moves goes on.                                              *)
LEMMA StandsStill ==
    ASSUME RemovalInv, NEW u \in Task, task'[u] = task[u]
    PROVE  GoesOn(u)
  BY DEF RemovalInv, GoesOn

(* One task moves, everything else about tasks, store and clients stays.     *)
LEMMA OneFollows ==
    ASSUME TypeOK, RemovalInv, NEW t \in Task, Follows(t),
           \A u \in Task \ {t} : task'[u] = task[u],
           UNCHANGED <<dir, meta, pend, clients, deleted>>
    PROVE  RemovalInv'
<1>1. \A u \in Task : Follows(u)
  BY StandsStill DEF Follows
<1> QED
  BY <1>1, FollowsRemoval

LEMMA ReplyFollows ==
    ASSUME TypeOK, RemovalInv, NEW t \in Task, Reply(t),
           UNCHANGED <<dir, meta, pend, clients, deleted>>
    PROVE  RemovalInv'
<1>1. GoesIdle(t) /\ \A u \in Task \ {t} : task'[u] = task[u]
  BY DEF Reply, GoesIdle, TypeOK
<1> QED
  BY <1>1, OneFollows DEF Follows

(* How a task may change in a step that may also change the store.           *)
Evolves(u) ==
    /\ task'[u].op = "create" => task'[u].b \in used \cup {None}
    /\ task'[u].op \in {"delete", "run", "apply"} => task'[u].b \in known
    /\ task'[u].seen \subseteq used
    /\ task'[u].op = "list" /\ task'[u].pc = "readmeta" => task'[u].b \in used
    /\ task'[u].ids \subseteq used
    /\ task'[u].op = "create" =>
         (task'[u].b = None \/ (task[u].op = "create" /\ task'[u].b = task[u].b))

LEMMA EvolvesRemoval ==
    ASSUME RemovalInv, \A u \in Task : Evolves(u),
           used' = used, known \subseteq known', known' \subseteq used,
           dir' \subseteq used, deleted' \subseteq known', deleted' \cap dir' = {},
           \A b \in Bottle \ used : meta'[b].state = "absent",
           \A w \in pend' : w.b \in used,
           (\A u \in Task : task[u].pc = "mkprefix" => Unborn(task[u].b))'
    PROVE  RemovalInv'
<1>1. ASSUME NEW t \in Task, NEW u \in Task, t # u, task'[t].op = "create",
             task'[u].op = "create", task'[t].b # None
      PROVE  task'[t].b # task'[u].b
  BY <1>1 DEF RemovalInv, Evolves
<1> QED
  BY <1>1 DEF RemovalInv, Evolves

(* One task goes on or answers, the others stand still.                      *)
LEMMA EvolveOne ==
    ASSUME RemovalInv, NEW t \in Task, GoesOn(t) \/ GoesIdle(t),
           \A u \in Task \ {t} : task'[u] = task[u]
    PROVE  \A u \in Task : Evolves(u)
<1> SUFFICES ASSUME NEW u \in Task PROVE Evolves(u)
  OBVIOUS
<1>1. GoesOn(u) \/ GoesIdle(u)
  BY StandsStill
<1>2. CASE GoesOn(u)
  BY <1>2 DEF GoesOn, Evolves, RemovalInv
<1>3. CASE GoesIdle(u)
  BY <1>3 DEF GoesIdle, Idle, Evolves
<1> QED
  BY <1>1, <1>2, <1>3

(* A bottle being born is no other task's bottle.                             *)
LEMMA UnbornAlone ==
    ASSUME TasksOK, RemovalInv, NEW u \in Task, NEW t \in Task, u # t,
           task[u].pc = "mkprefix", task[t].op # "list", task[t].op # "none",
           task[t].b # None
    PROVE  /\ Unborn(task[u].b) /\ task[u].b \in Bottle
           /\ task[u].b # task[t].b
<1>1. task[u].op = "create" /\ task[u].b \in Bottle
  BY OpOf DEF WellPlaced
<1>2. Unborn(task[u].b)
  BY DEF RemovalInv
<1>3. task[t].op = "create" \/ task[t].b \in known
  BY OpOf DEF RemovalInv, TaskState, Op
<1> QED
  BY <1>1, <1>2, <1>3 DEF RemovalInv, Unborn

LEMMA RemovalStep ==
    ASSUME NoCopy, TypeOK, RemovalInv, [Next]_vars
    PROVE  RemovalInv'
<1> TasksOK
  BY DEF TypeOK, TasksOK
<1> USE DEF fs, clients, acks
<1>1. ASSUME NEW t \in Task, OpenMetaFails(t) PROVE RemovalInv'
  BY <1>1, ReplyFollows DEF OpenMetaFails
<1>2. ASSUME NEW t \in Task, UnlinkPrefixBusy(t) PROVE RemovalInv'
  BY <1>2, ReplyFollows DEF UnlinkPrefixBusy
<1>3. ASSUME NEW t \in Task, RemoveDirFails(t) PROVE RemovalInv'
  BY <1>3, ReplyFollows DEF RemoveDirFails
<1>4. ASSUME NEW t \in Task, ApplyCopyMissing(t) PROVE RemovalInv'
  BY <1>4, ReplyFollows DEF ApplyCopyMissing
<1>5. ASSUME NEW t \in Task, ListReadFails(t) PROVE RemovalInv'
  BY <1>5, ReplyFollows DEF ListReadFails
<1>6. ASSUME NEW t \in Task, IoError(t) PROVE RemovalInv'
  BY <1>6, ReplyFollows DEF IoError
<1>7. ASSUME NEW t \in Task, RemoveCheck(t) PROVE RemovalInv'
  <2>1. Reply(t) \/ (GoesOn(t) /\ \A u \in Task \ {t} : task'[u] = task[u])
    BY <1>7, OpOf DEF RemoveCheck, GoesOn, TasksOK, TaskState, RemovalInv, Goto
  <2> QED
    BY <1>7, <2>1, ReplyFollows, OneFollows DEF RemoveCheck, Follows
<1>8. ASSUME NEW t \in Task, RemoveScan(t) PROVE RemovalInv'
  <2>1. Reply(t) \/ (GoesOn(t) /\ \A u \in Task \ {t} : task'[u] = task[u])
    BY <1>8, OpOf DEF RemoveScan, GoesOn, TasksOK, TaskState, RemovalInv
  <2> QED
    BY <1>8, <2>1, ReplyFollows, OneFollows DEF RemoveScan, Follows
<1>9. ASSUME NEW t \in Task, UnlinkPrefix(t) PROVE RemovalInv'
  <2>1. (GoesOn(t) /\ \A u \in Task \ {t} : task'[u] = task[u])
    BY <1>9, OpOf DEF UnlinkPrefix, GoesOn, TasksOK, TaskState, RemovalInv
  <2> QED
    BY <1>9, <2>1, OneFollows DEF UnlinkPrefix, Follows
<1>10. ASSUME NEW t \in Task, UnlinkGone(t) PROVE RemovalInv'
  <2>1. Reply(t) \/ (GoesOn(t) /\ \A u \in Task \ {t} : task'[u] = task[u])
    BY <1>10, OpOf DEF UnlinkGone, GoesOn, TasksOK, TaskState, RemovalInv
  <2> QED
    BY <1>10, <2>1, ReplyFollows, OneFollows DEF UnlinkGone, Follows
<1>11. ASSUME NEW t \in Task, ReadRecord(t) PROVE RemovalInv'
  <2>1. Reply(t) \/ (GoesOn(t) /\ \A u \in Task \ {t} : task'[u] = task[u])
    BY <1>11, OpOf DEF ReadRecord, GoesOn, TasksOK, TaskState, RemovalInv
  <2> QED
    BY <1>11, <2>1, ReplyFollows, OneFollows DEF ReadRecord, Follows
<1>12. ASSUME NEW t \in Task, Spawn(t) PROVE RemovalInv'
  <2>1. Reply(t) \/ (GoesOn(t) /\ \A u \in Task \ {t} : task'[u] = task[u])
    BY <1>12, OpOf DEF Spawn, GoesOn, TasksOK, TaskState, RemovalInv, Goto
  <2> QED
    BY <1>12, <2>1, ReplyFollows, OneFollows DEF Spawn, Follows
<1>13. ASSUME NEW t \in Task, WineExit(t) PROVE RemovalInv'
  <2>1. Reply(t) \/ (GoesOn(t) /\ \A u \in Task \ {t} : task'[u] = task[u])
    BY <1>13, OpOf DEF WineExit, GoesOn, TasksOK, TaskState, RemovalInv
  <2> QED
    BY <1>13, <2>1, ReplyFollows, OneFollows DEF WineExit, Follows
<1>14. ASSUME NEW t \in Task, ApplyRun(t) PROVE RemovalInv'
  <2>1. (GoesOn(t) /\ \A u \in Task \ {t} : task'[u] = task[u])
    BY <1>14, OpOf DEF ApplyRun, GoesOn, TasksOK, TaskState, RemovalInv, Goto
  <2> QED
    BY <1>14, <2>1, OneFollows DEF ApplyRun, Follows
<1>15. ASSUME NEW t \in Task, ApplyWait(t) PROVE RemovalInv'
  <2>1. (GoesOn(t) /\ \A u \in Task \ {t} : task'[u] = task[u])
    BY <1>15, OpOf DEF ApplyWait, GoesOn, TasksOK, TaskState, RemovalInv
  <2> QED
    BY <1>15, <2>1, OneFollows DEF ApplyWait, Follows
<1>16. ASSUME NEW t \in Task, ApplyWineCfg(t) PROVE RemovalInv'
  <2>1. (GoesOn(t) /\ \A u \in Task \ {t} : task'[u] = task[u])
    BY <1>16, OpOf DEF ApplyWineCfg, GoesOn, TasksOK, TaskState, RemovalInv
  <2> QED
    BY <1>16, <2>1, OneFollows DEF ApplyWineCfg, Follows
<1>17. ASSUME NEW t \in Task, ApplyEnv(t) PROVE RemovalInv'
  <2>1. (GoesOn(t) /\ \A u \in Task \ {t} : task'[u] = task[u])
    BY <1>17, OpOf DEF ApplyEnv, GoesOn, TasksOK, TaskState, RemovalInv
  <2> QED
    BY <1>17, <2>1, OneFollows DEF ApplyEnv, Follows
<1>18. ASSUME NEW t \in Task, CopyFile(t) PROVE RemovalInv'
  <2>1. Reply(t) \/ (GoesOn(t) /\ \A u \in Task \ {t} : task'[u] = task[u])
    BY <1>18, OpOf DEF CopyFile, GoesOn, TasksOK, TaskState, RemovalInv
  <2> QED
    BY <1>18, <2>1, ReplyFollows, OneFollows DEF CopyFile, Follows
<1>19. ASSUME NEW t \in Task, UpdateRecord(t) PROVE RemovalInv'
  <2>1. Reply(t) \/ (GoesOn(t) /\ \A u \in Task \ {t} : task'[u] = task[u])
    BY <1>19, OpOf DEF UpdateRecord, GoesOn, TasksOK, TaskState, RemovalInv
  <2> QED
    BY <1>19, <2>1, ReplyFollows, OneFollows DEF UpdateRecord, Follows
<1>20. ASSUME NEW t \in Task, ListDir(t) PROVE RemovalInv'
  <2>1. (GoesOn(t) /\ \A u \in Task \ {t} : task'[u] = task[u])
    BY <1>20, OpOf DEF ListDir, GoesOn, TasksOK, TaskState, RemovalInv
  <2> QED
    BY <1>20, <2>1, OneFollows DEF ListDir, Follows
<1>21. ASSUME NEW t \in Task, ListProbe(t) PROVE RemovalInv'
  <2>1. (GoesOn(t) /\ \A u \in Task \ {t} : task'[u] = task[u])
    BY <1>21, OpOf DEF ListProbe, GoesOn, TasksOK, TaskState, RemovalInv
  <2> QED
    BY <1>21, <2>1, OneFollows DEF ListProbe, Follows
<1>22. ASSUME NEW t \in Task, StartCreate(t) PROVE RemovalInv'
  <2>1. Begins(t) /\ \A u \in Task \ {t} : task'[u] = task[u]
    BY <1>22 DEF StartCreate, Begins, Idle, TasksOK
  <2> QED
    BY <1>22, <2>1, OneFollows DEF StartCreate, Accept, Follows
<1>23. ASSUME NEW t \in Task, StartList(t) PROVE RemovalInv'
  <2>1. Begins(t) /\ \A u \in Task \ {t} : task'[u] = task[u]
    BY <1>23 DEF StartList, Begins, Idle, TasksOK
  <2> QED
    BY <1>23, <2>1, OneFollows DEF StartList, Accept, Follows
<1>24. ASSUME NEW t \in Task, NEW o \in {"delete", "run", "apply"},
             NEW loc \in {"check", "read"}, NEW b \in Bottle, NEW r, StartOn(t, o, loc, b, r)
      PROVE  RemovalInv'
  <2>1. Begins(t)
    BY <1>24 DEF StartOn, Begins, Idle, TasksOK, Noting
  <2>2. ASSUME NEW u \in Task \ {t} PROVE GoesOn(u)
    <3>1. task[u] \in TaskState
      BY DEF TasksOK
    <3>2. \/ task'[u] = task[u]
          \/ task'[u] = [task[u] EXCEPT !.hit = @ \cup {b}]
      BY <1>24 DEF StartOn, Noting, TasksOK
    <3> QED
      BY <3>1, <3>2 DEF GoesOn, TaskState, RemovalInv
  <2> QED
    BY <1>24, <2>1, <2>2, FollowsRemoval DEF StartOn, Accept, Follows
<1>25. ASSUME NEW t \in Task, Start(t) PROVE RemovalInv'
  BY <1>22, <1>23, <1>24, <1>25 DEF Start, StartDelete, StartRun, StartApply
<1>26. CASE UNCHANGED vars
  BY <1>26, StandsStill, FollowsRemoval DEF vars, Follows
<1>27. ASSUME NEW t \in Task, ApplyCopy(t) PROVE RemovalInv'
  BY <1>27, OpOf, ServiceAssumption DEF ApplyCopy, AtStep, NoCopy, WellPlaced, TaskState
<1>28. ASSUME NEW t \in Task, OpenMeta(t) PROVE RemovalInv'
  <2>1. GoesOn(t) /\ \A u \in Task \ {t} : task'[u] = task[u]
    BY <1>28 DEF OpenMeta, Goto, GoesOn, TasksOK, TaskState, RemovalInv
  <2>2. \A u \in Task : Evolves(u)
    BY <1>28, <2>1, EvolveOne DEF OpenMeta
  <2>3. task[t].b \in used
    BY <1>28 DEF OpenMeta, RemovalInv
  <2>4. ASSUME NEW u \in Task, task'[u].pc = "mkprefix" PROVE Unborn(task[u].b)'
    <3>1. u # t /\ task[u].pc = "mkprefix" /\ task'[u] = task[u] /\ Unborn(task[u].b)
      BY <1>28, <2>1, <2>4 DEF OpenMeta, Goto, TasksOK, TaskState, RemovalInv
    <3>2. task[u].b # task[t].b
      BY <1>28, <3>1, OpOf, UnbornAlone, ServiceAssumption DEF OpenMeta, WellPlaced
    <3> QED
      BY <1>28, <2>1, <3>1, <3>2 DEF OpenMeta, Goto, Unborn, TypeOK
  <2> QED
    BY <1>28, <2>2, <2>3, <2>4, EvolvesRemoval DEF OpenMeta, RemovalInv, TypeOK
<1>29. ASSUME NEW t \in Task, MakeBottleDir(t) PROVE RemovalInv'
  <2>1. PICK b \in Bottle \ used :
          /\ used' = used \cup {b}
          /\ dir' = dir \cup {b}
          /\ task' = [Noting(b) EXCEPT ![t].pc = "mkprefix", ![t].b = b]
    BY <1>29 DEF MakeBottleDir
  <2>2. Noting(b) \in [Task -> TaskState] /\ b # None
    BY NotingType, ServiceAssumption
  <2>3. /\ task'[t].pc = "mkprefix" /\ task'[t].b = b /\ task'[t].op = "create"
        /\ task'[t].seen = task[t].seen /\ task'[t].ids = task[t].ids
    <3>1. task[t].op = "create"
      BY <1>29, OpOf DEF MakeBottleDir
    <3>2. Noting(b)[t] = task[t]
      BY <3>1 DEF Noting
    <3> QED
      BY <2>1, <2>2, <3>1, <3>2 DEF TaskState
  <2>4. ASSUME NEW u \in Task \ {t}
        PROVE  /\ task'[u].op = task[u].op /\ task'[u].pc = task[u].pc
               /\ task'[u].b = task[u].b /\ task'[u].seen = task[u].seen
               /\ task'[u].ids = task[u].ids
    <3>1. task'[u] = task[u] \/ task'[u] = [task[u] EXCEPT !.hit = @ \cup {b}]
      BY <2>1, <2>2 DEF Noting
    <3>2. task[u] \in TaskState
      BY DEF TasksOK
    <3> QED
      BY <3>1, <3>2 DEF TaskState
  <2>5. ASSUME NEW u \in Task, task[u].op = "create" PROVE task[u].b # b
    BY <2>2, <2>5 DEF RemovalInv
  <2>6. ASSUME NEW u \in Task, task'[u].pc = "mkprefix" PROVE Unborn(task[u].b)'
    <3>1. CASE u = t
      <4>1. b \in dir' /\ b \notin known' /\ meta'[b].state = "absent"
            /\ \A w \in pend' : w.b # b
        BY <1>29, <2>1 DEF MakeBottleDir, RemovalInv
      <4>2. \A v \in Task : b \notin task'[v].seen
        BY <2>1, <2>3, <2>4 DEF RemovalInv
      <4> QED
        BY <3>1, <2>3, <4>1, <4>2 DEF Unborn
    <3>2. CASE u # t
      <4>1. Unborn(task[u].b) /\ task'[u].b = task[u].b
        BY <2>6, <3>2, <2>4 DEF RemovalInv
      <4>2. \A v \in Task : task'[v].seen = task[v].seen
        BY <2>3, <2>4
      <4>3. /\ meta' = meta /\ pend' = pend /\ known' = known /\ dir \subseteq dir'
        BY <1>29, <2>1 DEF MakeBottleDir
      <4> QED
        BY <4>1, <4>2, <4>3 DEF Unborn
    <3> QED
      BY <3>1, <3>2
  <2>7. ASSUME NEW u \in Task
        PROVE  /\ task'[u].op = "create" => task'[u].b \in used' \cup {None}
               /\ task'[u].op \in {"delete", "run", "apply"} => task'[u].b \in known'
               /\ task'[u].seen \subseteq used' /\ task'[u].ids \subseteq used'
               /\ task'[u].op = "list" /\ task'[u].pc = "readmeta" => task'[u].b \in used'
    <3>1. known' = known /\ used \subseteq used' /\ b \in used'
      BY <1>29, <2>1 DEF MakeBottleDir
    <3>2. CASE u = t
      BY <2>3, <3>1, <3>2 DEF RemovalInv
    <3>3. CASE u # t
      BY <2>4, <3>1, <3>3 DEF RemovalInv
    <3> QED
      BY <3>2, <3>3
  <2>8. ASSUME NEW u \in Task, NEW v \in Task, u # v, task'[u].op = "create",
               task'[v].op = "create", task'[u].b # None
        PROVE  task'[u].b # task'[v].b
    <3>1. CASE u = t
      BY <2>3, <2>4, <2>5, <2>8, <3>1
    <3>2. CASE v = t
      BY <2>3, <2>4, <2>5, <2>8, <3>2
    <3>3. CASE u # t /\ v # t
      BY <2>4, <2>8, <3>3 DEF RemovalInv
    <3> QED
      BY <3>1, <3>2, <3>3
  <2>9. /\ dir' \subseteq used' /\ known' \subseteq used' /\ deleted' \subseteq known'
        /\ deleted' \cap dir' = {}
        /\ \A c \in Bottle \ used' : meta'[c].state = "absent"
        /\ \A w \in pend' : w.b \in used'
    BY <1>29, <2>1 DEF MakeBottleDir, RemovalInv
  <2> QED
    BY <2>6, <2>7, <2>8, <2>9 DEF RemovalInv
<1>30. ASSUME NEW t \in Task, MakePrefixDir(t) PROVE RemovalInv'
  <2>1. GoesOn(t) /\ \A u \in Task \ {t} : task'[u] = task[u]
    BY <1>30 DEF MakePrefixDir, Goto, GoesOn, TasksOK, TaskState, RemovalInv
  <2>2. dir' = dir
    BY <1>30 DEF MakePrefixDir, RemovalInv, Unborn
  <2> QED
    BY <1>30, <2>1, <2>2, OneFollows DEF MakePrefixDir, Follows
<1>31. ASSUME NEW t \in Task, WriteMeta(t) PROVE RemovalInv'
  <2>1. GoesIdle(t) /\ \A u \in Task \ {t} : task'[u] = task[u]
    BY <1>31 DEF WriteMeta, Reply, GoesIdle, TasksOK
  <2>2. \A u \in Task : Evolves(u)
    BY <2>1, EvolveOne
  <2>3. task[t].b \in used /\ task[t].b \in Bottle
    <3>1. task[t].op \in {"create", "apply"} /\ task[t].b \in Bottle
      BY <1>31, OpOf DEF WriteMeta, WellPlaced
    <3> QED
      BY <3>1, ServiceAssumption DEF RemovalInv
  <2>4. /\ known' \subseteq known \cup {task[t].b} /\ known \subseteq known'
        /\ \A w \in pend' : w \in pend \/ w.b = task[t].b
    BY <1>31 DEF WriteMeta
  <2>5. ASSUME NEW u \in Task, task'[u].pc = "mkprefix" PROVE Unborn(task[u].b)'
    <3>1. u # t /\ task'[u] = task[u] /\ task[u].pc = "mkprefix"
      BY <2>1, <2>5 DEF GoesIdle, Idle
    <3>2. Unborn(task[u].b) /\ task[u].b # task[t].b
      BY <1>31, <2>3, <3>1, OpOf, UnbornAlone, ServiceAssumption DEF WriteMeta
    <3>3. \A v \in Task : task'[v].seen \subseteq task[v].seen
      BY <2>1 DEF GoesIdle, Idle
    <3>4. dir' = dir /\ meta' = meta
      BY <1>31 DEF WriteMeta
    <3> QED
      BY <2>4, <3>1, <3>2, <3>3, <3>4 DEF Unborn
  <2>6. /\ known' \subseteq used /\ \A w \in pend' : w.b \in used
    BY <2>3, <2>4 DEF RemovalInv
  <2> QED
    BY <1>31, <2>2, <2>4, <2>5, <2>6, EvolvesRemoval DEF WriteMeta, RemovalInv
<1>32. ASSUME NEW t \in Task, UnlinkMeta(t) PROVE RemovalInv'
  <2>1. ASSUME NEW u \in Task PROVE GoesOn(u) /\ task'[u].pc = task[u].pc
    <3>1. task[u] \in TaskState
      BY DEF TasksOK
    <3>2. task'[u] \in {task[u], [task[u] EXCEPT !.kids = @ \ {"meta"}],
                               [task[u] EXCEPT !.orphan = TRUE]}
      BY <1>32 DEF UnlinkMeta
    <3>3. /\ task'[u].op = task[u].op /\ task'[u].pc = task[u].pc /\ task'[u].b = task[u].b
          /\ task'[u].seen = task[u].seen /\ task'[u].ids = task[u].ids
      BY <3>1, <3>2 DEF TaskState
    <3> QED
      BY <3>3 DEF GoesOn, RemovalInv
  <2>2. \A u \in Task : Evolves(u)
    BY <2>1 DEF GoesOn, Evolves, RemovalInv
  <2>3. ASSUME NEW u \in Task, task'[u].pc = "mkprefix" PROVE Unborn(task[u].b)'
    <3>1. task[u].pc = "mkprefix" /\ task'[u].b = task[u].b /\ u # t
      BY <1>32, <2>1, <2>3 DEF GoesOn, UnlinkMeta
    <3>2. Unborn(task[u].b) /\ task[u].b # task[t].b
      BY <1>32, <3>1, OpOf, UnbornAlone, ServiceAssumption DEF UnlinkMeta, WellPlaced
    <3>3. \A v \in Task : task'[v].seen = task[v].seen
      BY <2>1 DEF GoesOn
    <3>4. /\ dir' = dir /\ known' = known /\ pend' \subseteq pend
          /\ meta'[task[u].b] = meta[task[u].b]
      BY <1>32, <3>2 DEF UnlinkMeta, TypeOK
    <3> QED
      BY <3>1, <3>2, <3>3, <3>4 DEF Unborn
  <2>4. \A b \in Bottle \ used : meta'[b].state = "absent"
    BY <1>32 DEF UnlinkMeta, RemovalInv, TypeOK, Absent
  <2> QED
    BY <1>32, <2>2, <2>3, <2>4, EvolvesRemoval DEF UnlinkMeta, RemovalInv
<1>33. ASSUME NEW t \in Task, RemoveDir(t) PROVE RemovalInv'
  <2>1. GoesIdle(t) /\ \A u \in Task \ {t} : task'[u] = task[u]
    BY <1>33 DEF RemoveDir, Reply, GoesIdle, TasksOK
  <2>2. \A u \in Task : Evolves(u)
    BY <2>1, EvolveOne
  <2>3. task[t].b \in known
    BY <1>33, OpOf DEF RemoveDir, RemovalInv
  <2>4. ASSUME NEW u \in Task, task'[u].pc = "mkprefix" PROVE Unborn(task[u].b)'
    <3>1. task'[u] = task[u] /\ task[u].pc = "mkprefix"
      BY <2>1, <2>4 DEF GoesIdle, Idle
    <3>2. Unborn(task[u].b)
      BY <3>1 DEF RemovalInv
    <3>3. \A v \in Task : task'[v].seen \subseteq task[v].seen
      BY <2>1 DEF GoesIdle, Idle
    <3>4. /\ meta' = meta /\ pend' = pend /\ known' = known
          /\ dir' = dir \ {task[t].b}
      BY <1>33 DEF RemoveDir
    <3> QED
      BY <2>3, <3>1, <3>2, <3>3, <3>4 DEF Unborn
  <2> QED
    BY <1>33, <2>2, <2>3, <2>4, EvolvesRemoval DEF RemoveDir, RemovalInv
<1>34. ASSUME NEW t \in Task, ListRead(t) PROVE RemovalInv'
  <2>1. /\ \A u \in Task \ {t} : task'[u] = task[u]
        /\ task'[t].op = "list" /\ task'[t].pc = "probe" /\ task'[t].ids = task[t].ids
        /\ task'[t].seen \subseteq task[t].seen \cup {task[t].b}
        /\ task[t].b \notin task[t].seen =>
             (task[t].b \in task'[t].seen => Readable(meta[task[t].b]))
    BY <1>34, OpOf DEF ListRead, TasksOK, TaskState
  <2>2. \A u \in Task : Evolves(u)
    <3>1. Evolves(t)
      BY <1>34, <2>1, OpOf DEF ListRead, Evolves, RemovalInv
    <3>2. ASSUME NEW u \in Task \ {t} PROVE Evolves(u)
      BY <2>1 DEF Evolves, RemovalInv
    <3> QED
      BY <3>1, <3>2
  <2>3. ASSUME NEW u \in Task, task'[u].pc = "mkprefix" PROVE Unborn(task[u].b)'
    <3>1. task'[u] = task[u] /\ task[u].pc = "mkprefix" /\ Unborn(task[u].b)
      BY <2>1, <2>3 DEF RemovalInv
    <3>2. task[u].b \notin task'[t].seen
      BY <2>1, <3>1 DEF Unborn, Readable
    <3>3. \A v \in Task : task[u].b \notin task'[v].seen
      BY <2>1, <3>1, <3>2 DEF Unborn
    <3>4. dir' = dir /\ meta' = meta /\ pend' = pend /\ known' = known
      BY <1>34 DEF ListRead
    <3> QED
      BY <3>1, <3>3, <3>4 DEF Unborn
  <2> QED
    BY <1>34, <2>2, <2>3, EvolvesRemoval DEF ListRead, RemovalInv
<1>35. ASSUME NEW t \in Task, ListDone(t) PROVE RemovalInv'
  <2>1. GoesIdle(t) /\ \A u \in Task \ {t} : task'[u] = task[u]
    BY <1>35 DEF ListDone, Reply, GoesIdle, TasksOK
  <2>2. \A u \in Task : Evolves(u)
    BY <2>1, EvolveOne
  <2>3. ASSUME NEW u \in Task, task'[u].pc = "mkprefix" PROVE Unborn(task[u].b)'
    <3>1. task'[u] = task[u] /\ task[u].pc = "mkprefix" /\ Unborn(task[u].b)
      BY <2>1, <2>3 DEF GoesIdle, Idle, RemovalInv
    <3>2. \A v \in Task : task'[v].seen \subseteq task[v].seen
      BY <2>1 DEF GoesIdle, Idle
    <3> QED
      BY <1>35, <3>1, <3>2 DEF ListDone, Unborn
  <2> QED
    BY <1>35, <2>2, <2>3, EvolvesRemoval DEF ListDone, RemovalInv
<1>36. CASE LandWrite
  <2>1. PICK w \in pend : /\ meta' = [meta EXCEPT ![w.b] = Land(@, w.rec)]
                          /\ pend' = pend \ {w}
    BY <1>36 DEF LandWrite
  <2>2. task' = task /\ dir' = dir /\ used' = used /\ known' = known /\ deleted' = deleted
    BY <1>36 DEF LandWrite
  <2>3. \A u \in Task : Evolves(u)
    BY <2>2 DEF Evolves, RemovalInv
  <2>4. ASSUME NEW u \in Task, task'[u].pc = "mkprefix" PROVE Unborn(task[u].b)'
    BY <2>1, <2>2, <2>4 DEF RemovalInv, Unborn, TypeOK
  <2>5. \A b \in Bottle \ used : meta'[b].state = "absent"
    BY <2>1 DEF RemovalInv, TypeOK
  <2> QED
    BY <2>1, <2>2, <2>3, <2>4, <2>5, EvolvesRemoval DEF RemovalInv
<1>37. CASE LostWrite
  <2>1. task' = task /\ dir' = dir /\ used' = used /\ known' = known /\ deleted' = deleted
        /\ meta' = meta /\ pend' \subseteq pend
    BY <1>37 DEF LostWrite
  <2>2. \A u \in Task : Evolves(u)
    BY <2>1 DEF Evolves, RemovalInv
  <2>3. ASSUME NEW u \in Task, task'[u].pc = "mkprefix" PROVE Unborn(task[u].b)'
    BY <2>1, <2>3 DEF RemovalInv, Unborn
  <2> QED
    BY <2>1, <2>2, <2>3, EvolvesRemoval DEF RemovalInv
<1>38. CASE Crash
  <2>1. \A u \in Task : GoesIdle(u)
    BY <1>38 DEF Crash, GoesIdle
  <2>2. \A u \in Task : Evolves(u) /\ task'[u].pc # "mkprefix"
    BY <2>1 DEF GoesIdle, Evolves, Idle
  <2> QED
    BY <1>38, <2>2, EvolvesRemoval DEF Crash, RemovalInv
<1>39. ASSUME NEW t \in Task, Serve(t) PROVE RemovalInv'
  BY <1>39,
     <1>1, <1>2, <1>3, <1>4, <1>5, <1>7, <1>8, <1>9, <1>10, <1>11, <1>12, <1>13, <1>14,
     <1>15, <1>16, <1>17, <1>18, <1>19, <1>20, <1>21, <1>27, <1>28, <1>29, <1>30, <1>31,
     <1>32, <1>33, <1>34, <1>35
     DEF Serve
<1> QED
  BY <1>6, <1>25, <1>26, <1>36, <1>37, <1>38, <1>39
     DEF Next, Quiescent

LEMMA RemovalInit == Init => RemovalInv
  BY ServiceAssumption DEF Init, RemovalInv, Idle, Absent

(* The removal invariant holds of the service when no recipe copies files.   *)
LEMMA RemovalInvariant == ASSUME NoCopy PROVE Spec => []RemovalInv
  BY NoCopy, RemovalInit, RemovalStep, TypeCorrect, PTL DEF Spec

(* Without copy steps, however requests, errors and crashes interleave, a    *)
(* bottle whose deletion was acknowledged never has a directory again.       *)
THEOREM NoResurrection == ASSUME NoCopy PROVE Spec => []DeletedStaysDeleted
<1>1. RemovalInv => DeletedStaysDeleted
  BY DEF RemovalInv, DeletedStaysDeleted
<1> QED
  BY <1>1, RemovalInvariant, PTL

(* Without copy steps the service implements the life cycle of bottle ids:   *)
(* the only step that makes an id live is the creation of its directory, and *)
(* the only one that ends it is the removal of that directory.               *)
THEOREM LifecycleRefined == ASSUME NoCopy PROVE Spec => ImplementsLifecycle
<1>1. Init => Lifecycle!Init
  BY DEF Init, Lifecycle!Init, Status
<1>2. ASSUME TypeOK, RemovalInv, [Next]_vars
      PROVE  [Lifecycle!Next]_Status
  <2> TasksOK /\ RemovalInv
    BY <1>2 DEF TypeOK, TasksOK
  <2>1. ASSUME UNCHANGED <<dir, used>> PROVE UNCHANGED Status
    BY <2>1 DEF Status
  <2>2. ASSUME NEW t \in Task, MakeBottleDir(t) PROVE Lifecycle!Next
    <3>1. PICK b \in Bottle \ used : used' = used \cup {b} /\ dir' = dir \cup {b}
      BY <2>2 DEF MakeBottleDir
    <3>2. Status[b] = "fresh" /\ Status' = [Status EXCEPT ![b] = "live"]
      BY <3>1 DEF Status
    <3> QED
      BY <3>2 DEF Lifecycle!Next, Lifecycle!Make
  <2>3. ASSUME NEW t \in Task, MakePrefixDir(t) PROVE UNCHANGED Status
    BY <2>1, <2>3 DEF MakePrefixDir, RemovalInv, Unborn, clients
  <2>4. ASSUME NEW t \in Task, RemoveDir(t) PROVE [Lifecycle!Next]_Status
    <3>1. task[t].b \in known /\ task[t].b \in used /\ task[t].b \in Bottle
      BY <2>4, OpOf DEF RemoveDir, RemovalInv, WellPlaced
    <3>2. dir' = dir \ {task[t].b} /\ used' = used
      BY <2>4 DEF RemoveDir, clients
    <3>3. CASE task[t].b \in dir
      <4>1. Status[task[t].b] = "live" /\ Status' = [Status EXCEPT ![task[t].b] = "gone"]
        BY <3>1, <3>2, <3>3 DEF Status
      <4> QED
        BY <3>1, <4>1 DEF Lifecycle!Next, Lifecycle!Remove
    <3>4. CASE task[t].b \notin dir
      BY <2>1, <3>2, <3>4
    <3> QED
      BY <3>3, <3>4
  <2>5. ASSUME NEW t \in Task, ApplyCopy(t) PROVE FALSE
    BY <2>5, OpOf, ServiceAssumption DEF ApplyCopy, AtStep, NoCopy, WellPlaced, TaskState
  <2>6. ASSUME NEW t \in Task, Serve(t)
        PROVE  \/ MakeBottleDir(t) \/ MakePrefixDir(t) \/ RemoveDir(t)
               \/ UNCHANGED <<dir, used>>
    BY <2>5, <2>6 DEF Serve, fs, clients, OpenMeta, OpenMetaFails, WriteMeta, RemoveCheck,
       RemoveScan, UnlinkMeta, UnlinkPrefix, UnlinkPrefixBusy, UnlinkGone, RemoveDirFails,
       ReadRecord, Spawn, WineExit, ApplyRun, ApplyWait, ApplyWineCfg, ApplyEnv,
       ApplyCopyMissing, CopyFile, UpdateRecord, ListDir, ListProbe, ListRead,
       ListReadFails, ListDone
  <2>7. ASSUME NEW t \in Task, Start(t) \/ IoError(t) PROVE UNCHANGED <<dir, used>>
    BY <2>7 DEF Start, StartCreate, StartList, StartDelete, StartRun, StartApply, StartOn,
       Accept, IoError, fs, clients
  <2>8. ASSUME LandWrite \/ LostWrite \/ Crash \/ UNCHANGED vars
        PROVE  UNCHANGED <<dir, used>>
    BY <2>8 DEF LandWrite, LostWrite, Crash, vars, fs, clients
  <2> QED
    BY <1>2, <2>1, <2>2, <2>3, <2>4, <2>6, <2>7, <2>8 DEF Next, Quiescent
<1> QED
  BY <1>1, <1>2, RemovalInvariant, TypeCorrect, PTL
     DEF Spec, ImplementsLifecycle, Lifecycle!Spec

-----------------------------------------------------------------------------
(* Whole recipes.  A record in memory has the values of the steps done so    *)
(* far and for the rest those of the recipes it holds; it is written only    *)
(* when no step is left.                                                     *)

SetUpTo(r, n) ==
    {k \in Key : \E i \in 1..Len(Steps[r]) : i <= n /\ Steps[r][i].vars[k] # Unset}

(* What the first n steps of r leave k with.                                 *)
LeavesUpTo(r, n, k, v) ==
    \E i \in 1..Len(Steps[r]) :
        /\ i <= n /\ v # Unset /\ Steps[r][i].vars[k] = v
        /\ \A j \in 1..Len(Steps[r]) : j > i /\ j <= n => Steps[r][j].vars[k] = Unset

Held(rec, k) == IF rec.env[k] = Unset THEN \A q \in rec.by : k \notin SetBy(q)
                                      ELSE \E q \in rec.by : Leaves(q, k, rec.env[k])

Complete(rec) ==
    /\ \A k \in Key : Held(rec, k)
    /\ rec.by # {} => \E q \in rec.by : \A k \in SetBy(q) : Leaves(q, k, rec.env[k])
Partial(rec, r, n) ==
    \A k \in Key : IF k \in SetUpTo(r, n) THEN LeavesUpTo(r, n, k, rec.env[k]) ELSE Held(rec, k)

TaskComplete(s) ==
    /\ s.op = "create" => Complete(s.rec)
    /\ s.op = "apply" /\ s.pc \in {"open", "write"} => Complete(s.rec)
    /\ s.op = "apply" /\ s.pc = "steps" => Partial(s.rec, s.r, s.step - 1)
    /\ s.op = "apply" /\ s.pc \in {"spawn", "wine", "copy"} => Partial(s.rec, s.r, s.step)

CompleteInv ==
    /\ \A b \in Bottle : Complete(meta[b].rec)
    /\ \A w \in pend : Complete(w.rec)
    /\ \A t \in Task : TaskComplete(task[t])

LEMMA NewRecordComplete == Complete(NewRecord)
  BY DEF Complete, Held, NewRecord, NoVars

(* The steps before the first set nothing; the n-th has the last word on     *)
(* what it sets, and about the rest nothing changes.                         *)
LEMMA NothingSet ==
    ASSUME NEW r \in Recipe
    PROVE  SetUpTo(r, 0) = {}
<1>1. \A i \in 1..Len(Steps[r]) : ~(i <= 0)
  BY ServiceAssumption
<1> QED BY <1>1 DEF SetUpTo

LEMMA NextSet ==
    ASSUME NEW r \in Recipe, NEW n \in 1..Len(Steps[r]), NEW k \in Key
    PROVE  /\ Steps[r][n].vars[k] # Unset =>
                k \in SetUpTo(r, n) /\ LeavesUpTo(r, n, k, Steps[r][n].vars[k])
           /\ Steps[r][n].vars[k] = Unset =>
                /\ k \in SetUpTo(r, n) <=> k \in SetUpTo(r, n - 1)
                /\ \A v : LeavesUpTo(r, n - 1, k, v) => LeavesUpTo(r, n, k, v)
<1>1. Len(Steps[r]) \in Nat
  BY ServiceAssumption
<1>2. \A i \in 1..Len(Steps[r]) : i <= n <=> (i <= n - 1 \/ i = n)
  BY <1>1
<1>3. \A i \in 1..Len(Steps[r]) : ~(i > n /\ i <= n) /\ n <= n
  BY <1>1
<1>4. ASSUME Steps[r][n].vars[k] # Unset
      PROVE  k \in SetUpTo(r, n) /\ LeavesUpTo(r, n, k, Steps[r][n].vars[k])
  BY <1>3, <1>4 DEF SetUpTo, LeavesUpTo
<1>5. ASSUME Steps[r][n].vars[k] = Unset
      PROVE  k \in SetUpTo(r, n) <=> k \in SetUpTo(r, n - 1)
  BY <1>2, <1>5 DEF SetUpTo
<1>6. ASSUME Steps[r][n].vars[k] = Unset, NEW v, LeavesUpTo(r, n - 1, k, v)
      PROVE  LeavesUpTo(r, n, k, v)
  <2>1. PICK i \in 1..Len(Steps[r]) :
          /\ i <= n - 1 /\ v # Unset /\ Steps[r][i].vars[k] = v
          /\ \A j \in 1..Len(Steps[r]) : j > i /\ j <= n - 1 => Steps[r][j].vars[k] = Unset
    BY <1>6 DEF LeavesUpTo
  <2>2. \A j \in 1..Len(Steps[r]) : j > i /\ j <= n => Steps[r][j].vars[k] = Unset
    BY <1>2, <1>6, <2>1
  <2> QED BY <1>2, <2>1, <2>2 DEF LeavesUpTo
<1> QED BY <1>4, <1>5, <1>6

(* Past the last step the recipe is applied.                                 *)
LEMMA AllSet ==
    ASSUME NEW r \in Recipe, NEW n \in Nat, n >= Len(Steps[r])
    PROVE  /\ SetUpTo(r, n) = SetBy(r)
           /\ \A k, v : LeavesUpTo(r, n, k, v) => Leaves(r, k, v)
<1>1. \A i \in 1..Len(Steps[r]) : i <= n
  BY ServiceAssumption
<1> QED BY <1>1 DEF SetUpTo, SetBy, LeavesUpTo, Leaves

(* A step of kind run, wait or copy sets nothing, one of kind env or winecfg *)
(* what WithStepVars sets.                                                   *)
LEMMA StepAdds ==
    ASSUME TasksOK, NEW t \in Task, NEW kind \in StepKind, AtStep(t, kind),
           Partial(task[t].rec, task[t].r, task[t].step - 1)
    PROVE  /\ kind \in {"run", "wait", "copy"} =>
                Partial(task[t].rec, task[t].r, task[t].step)
           /\ Partial(WithStepVars(t), task[t].r, task[t].step)
<1> DEFINE r == task[t].r
           n == task[t].step
           new == Steps[r][n].vars
           rec == task[t].rec
           with == WithStepVars(t)
<1>1. task[t].op = "apply" /\ r \in Recipe /\ n \in 1..Len(Steps[r])
  <2>1. n \in Nat /\ n >= 1 /\ r \in Recipe /\ task[t].op = "apply"
    BY OpOf DEF AtStep, TaskState, WellPlaced
  <2>2. n <= Len(Steps[r]) /\ Len(Steps[r]) \in Nat
    BY <2>1, ServiceAssumption DEF AtStep
  <2> QED
    BY <2>1, <2>2
<1>2. new \in Env /\ rec \in Record /\ rec.env \in Env
  <2>1. Steps[r] \in Seq(Step)
    BY <1>1, ServiceAssumption
  <2>2. Steps[r][n] \in Step
    BY <1>1, <2>1
  <2> QED
    BY <2>2, OpOf DEF Step, TaskState, Record
<1>3. kind \in {"run", "wait", "copy"} => new = NoVars
  BY <1>1, ServiceAssumption DEF AtStep
<1>4. with.by = rec.by /\ with.env = Overlay(rec.env, new)
  BY <1>2 DEF WithStepVars, Record
<1>5. \A k \in Key : with.env[k] = IF new[k] = Unset THEN rec.env[k] ELSE new[k]
  BY <1>4 DEF Overlay
<1>6. Partial(rec, r, n - 1)
  OBVIOUS
<1>7. \A k \in Key :
         /\ new[k] # Unset => k \in SetUpTo(r, n) /\ LeavesUpTo(r, n, k, new[k])
         /\ new[k] = Unset => /\ k \in SetUpTo(r, n) <=> k \in SetUpTo(r, n - 1)
                              /\ \A v : LeavesUpTo(r, n - 1, k, v) => LeavesUpTo(r, n, k, v)
  BY <1>1, NextSet
<1> HIDE DEF r, n, new, rec, with
<1>8. ASSUME kind \in {"run", "wait", "copy"} PROVE Partial(rec, r, n)
  <2>1. \A k \in Key : new[k] = Unset
    BY <1>3, <1>8 DEF NoVars
  <2> QED
    BY <1>6, <1>7, <2>1 DEF Partial
<1>9. Partial(with, r, n)
  <2> SUFFICES ASSUME NEW k \in Key
               PROVE  IF k \in SetUpTo(r, n) THEN LeavesUpTo(r, n, k, with.env[k])
                                             ELSE Held(with, k)
    BY DEF Partial
  <2>1. CASE new[k] # Unset
    BY <1>5, <1>7, <2>1
  <2>2. CASE new[k] = Unset
    <3>1. with.env[k] = rec.env[k] /\ (Held(rec, k) => Held(with, k))
      BY <1>4, <1>5, <2>2 DEF Held
    <3> QED
      BY <1>6, <1>7, <2>2, <3>1 DEF Partial
  <2> QED
    BY <2>1, <2>2
<1> QED
  BY <1>8, <1>9 DEF r, n, rec, with

(* A record with all steps of r done is one that holds r.                    *)
LEMMA AllDone ==
    ASSUME NEW r \in Recipe, NEW n \in Nat, n >= Len(Steps[r]), NEW rec, NEW new,
           Partial(rec, r, n), new.env = rec.env, new.by = rec.by \cup {r}
    PROVE  Complete(new)
<1>1. \A k \in Key : IF k \in SetBy(r) THEN Leaves(r, k, new.env[k]) ELSE Held(rec, k)
  BY AllSet DEF Partial
<1>2. SetBy(r) \subseteq Key /\ \A k \in Key : Leaves(r, k, new.env[k]) => new.env[k] # Unset
  BY DEF SetBy, Leaves
<1>3. ASSUME NEW k \in Key PROVE Held(new, k)
  <2>1. CASE k \in SetBy(r)
    BY <1>1, <1>2, <2>1 DEF Held
  <2>2. CASE k \notin SetBy(r)
    BY <1>1, <2>2 DEF Held
  <2> QED
    BY <2>1, <2>2
<1> QED
  BY <1>1, <1>2, <1>3 DEF Complete

(* One task changes into a state that keeps its record right.                *)
LEMMA CompleteMove ==
    ASSUME CompleteInv, NEW t \in Task, TaskComplete(task'[t]),
           \A u \in Task \ {t} : task'[u] = task[u],
           \A b \in Bottle : meta'[b].rec = meta[b].rec \/ Complete(meta'[b].rec),
           \A w \in pend' : w \in pend \/ Complete(w.rec)
    PROVE  CompleteInv'
<1>1. \A u \in Task : TaskComplete(task'[u])
  BY DEF CompleteInv
<1>2. \A b \in Bottle : Complete(meta'[b].rec)
  BY DEF CompleteInv
<1>3. \A w \in pend' : Complete(w.rec)
  BY DEF CompleteInv
<1> QED
  BY <1>1, <1>2, <1>3 DEF CompleteInv

LEMMA IdleComplete == TaskComplete(Idle)
  BY DEF TaskComplete, Idle

LEMMA CompleteReply ==
    ASSUME TasksOK, CompleteInv, NEW t \in Task, Reply(t), UNCHANGED <<meta, pend>>
    PROVE  CompleteInv'
<1>1. task'[t] = Idle /\ \A u \in Task \ {t} : task'[u] = task[u]
  BY DEF Reply, TasksOK
<1> QED
  BY <1>1, IdleComplete, CompleteMove

LEMMA CompleteStep ==
    ASSUME TypeOK, CompleteInv, [Next]_vars
    PROVE  CompleteInv'
<1> TasksOK
  BY DEF TypeOK, TasksOK
<1> USE DEF fs
<1>1. ASSUME NEW t \in Task, OpenMetaFails(t) PROVE CompleteInv'
  BY <1>1, CompleteReply DEF OpenMetaFails
<1>2. ASSUME NEW t \in Task, UnlinkPrefixBusy(t) PROVE CompleteInv'
  BY <1>2, CompleteReply DEF UnlinkPrefixBusy
<1>3. ASSUME NEW t \in Task, RemoveDir(t) PROVE CompleteInv'
  BY <1>3, CompleteReply DEF RemoveDir
<1>4. ASSUME NEW t \in Task, RemoveDirFails(t) PROVE CompleteInv'
  BY <1>4, CompleteReply DEF RemoveDirFails
<1>5. ASSUME NEW t \in Task, ApplyCopyMissing(t) PROVE CompleteInv'
  BY <1>5, CompleteReply DEF ApplyCopyMissing
<1>6. ASSUME NEW t \in Task, ListReadFails(t) PROVE CompleteInv'
  BY <1>6, CompleteReply DEF ListReadFails
<1>7. ASSUME NEW t \in Task, ListDone(t) PROVE CompleteInv'
  BY <1>7, CompleteReply DEF ListDone
<1>8. ASSUME NEW t \in Task, IoError(t) PROVE CompleteInv'
  BY <1>8, CompleteReply DEF IoError
<1>9. ASSUME NEW t \in Task, RemoveCheck(t) PROVE CompleteInv'
  <2>1. /\ \A u \in Task \ {t} : task'[u] = task[u]
        /\ task'[t] = Idle \/ (task'[t].op \notin {"create", "apply"})
    BY <1>9, OpOf DEF RemoveCheck, TasksOK, TaskState, Goto, Reply
  <2>2. TaskComplete(task'[t])
    BY <1>9, <2>1, IdleComplete DEF TaskComplete, CompleteInv
  <2> QED
    BY <1>9, <2>1, <2>2, CompleteMove DEF RemoveCheck
<1>10. ASSUME NEW t \in Task, RemoveScan(t) PROVE CompleteInv'
  <2>1. /\ \A u \in Task \ {t} : task'[u] = task[u]
        /\ task'[t] = Idle \/ (task'[t].op \notin {"create", "apply"})
    BY <1>10, OpOf DEF RemoveScan, TasksOK, TaskState, Goto, Reply
  <2>2. TaskComplete(task'[t])
    BY <1>10, <2>1, IdleComplete DEF TaskComplete, CompleteInv
  <2> QED
    BY <1>10, <2>1, <2>2, CompleteMove DEF RemoveScan
<1>11. ASSUME NEW t \in Task, UnlinkPrefix(t) PROVE CompleteInv'
  <2>1. /\ \A u \in Task \ {t} : task'[u] = task[u]
        /\ task'[t] = Idle \/ (task'[t].op \notin {"create", "apply"})
    BY <1>11, OpOf DEF UnlinkPrefix, TasksOK, TaskState, Goto, Reply
  <2>2. TaskComplete(task'[t])
    BY <1>11, <2>1, IdleComplete DEF TaskComplete, CompleteInv
  <2> QED
    BY <1>11, <2>1, <2>2, CompleteMove DEF UnlinkPrefix
<1>12. ASSUME NEW t \in Task, UnlinkGone(t) PROVE CompleteInv'
  <2>1. /\ \A u \in Task \ {t} : task'[u] = task[u]
        /\ task'[t] = Idle \/ (task'[t].op \notin {"create", "apply"})
    BY <1>12, OpOf DEF UnlinkGone, TasksOK, TaskState, Goto, Reply
  <2>2. TaskComplete(task'[t])
    BY <1>12, <2>1, IdleComplete DEF TaskComplete, CompleteInv
  <2> QED
    BY <1>12, <2>1, <2>2, CompleteMove DEF UnlinkGone
<1>13. ASSUME NEW t \in Task, ListDir(t) PROVE CompleteInv'
  <2>1. /\ \A u \in Task \ {t} : task'[u] = task[u]
        /\ task'[t] = Idle \/ (task'[t].op \notin {"create", "apply"})
    BY <1>13, OpOf DEF ListDir, TasksOK, TaskState, Goto, Reply
  <2>2. TaskComplete(task'[t])
    BY <1>13, <2>1, IdleComplete DEF TaskComplete, CompleteInv
  <2> QED
    BY <1>13, <2>1, <2>2, CompleteMove DEF ListDir
<1>14. ASSUME NEW t \in Task, ListProbe(t) PROVE CompleteInv'
  <2>1. /\ \A u \in Task \ {t} : task'[u] = task[u]
        /\ task'[t] = Idle \/ (task'[t].op \notin {"create", "apply"})
    BY <1>14, OpOf DEF ListProbe, TasksOK, TaskState, Goto, Reply
  <2>2. TaskComplete(task'[t])
    BY <1>14, <2>1, IdleComplete DEF TaskComplete, CompleteInv
  <2> QED
    BY <1>14, <2>1, <2>2, CompleteMove DEF ListProbe
<1>15. ASSUME NEW t \in Task, ListRead(t) PROVE CompleteInv'
  <2>1. /\ \A u \in Task \ {t} : task'[u] = task[u]
        /\ task'[t] = Idle \/ (task'[t].op \notin {"create", "apply"})
    BY <1>15, OpOf DEF ListRead, TasksOK, TaskState, Goto, Reply
  <2>2. TaskComplete(task'[t])
    BY <1>15, <2>1, IdleComplete DEF TaskComplete, CompleteInv
  <2> QED
    BY <1>15, <2>1, <2>2, CompleteMove DEF ListRead
<1>16. ASSUME NEW t \in Task, MakePrefixDir(t) PROVE CompleteInv'
  <2>1. /\ \A u \in Task \ {t} : task'[u] = task[u]
        /\ task'[t].op = "create" /\ task[t].op = "create" /\ task'[t].rec = task[t].rec
    BY <1>16, OpOf DEF MakePrefixDir, TasksOK, TaskState, Goto, Reply
  <2>2. TaskComplete(task'[t])
    BY <1>16, <2>1, IdleComplete DEF TaskComplete, CompleteInv
  <2> QED
    BY <1>16, <2>1, <2>2, CompleteMove DEF MakePrefixDir
<1>17. ASSUME NEW t \in Task, OpenMeta(t) PROVE CompleteInv'
  <2>1. /\ \A u \in Task \ {t} : task'[u] = task[u]
        /\ task'[t].op = task[t].op /\ task'[t].rec = task[t].rec
        /\ task'[t].pc = "write" /\ task[t].op \in {"create", "apply"}
    BY <1>17, OpOf DEF OpenMeta, TasksOK, TaskState, Goto
  <2>2. TaskComplete(task'[t])
    BY <1>17, <2>1 DEF OpenMeta, TaskComplete, CompleteInv
  <2>3. \A b \in Bottle : meta'[b].rec \in {meta[b].rec, NewRecord}
    BY <1>17 DEF OpenMeta, TypeOK, Truncated
  <2> QED
    BY <1>17, <2>1, <2>2, <2>3, NewRecordComplete, CompleteMove DEF OpenMeta
<1>18. ASSUME NEW t \in Task, WriteMeta(t) PROVE CompleteInv'
  <2>1. /\ \A u \in Task \ {t} : task'[u] = task[u]
        /\ task'[t] = Idle
    BY <1>18 DEF WriteMeta, TasksOK, Reply
  <2>2. Complete(task[t].rec)
    BY <1>18, OpOf DEF WriteMeta, CompleteInv, TaskComplete
  <2>3. \A w \in pend' : w \in pend \/ Complete(w.rec)
    BY <1>18, <2>2 DEF WriteMeta
  <2> QED
    BY <1>18, <2>1, <2>3, IdleComplete, CompleteMove DEF WriteMeta
<1>19. ASSUME NEW t \in Task, UnlinkMeta(t) PROVE CompleteInv'
  <2>1. ASSUME NEW u \in Task PROVE TaskComplete(task'[u])
    <3>1. task[u] \in TaskState
      BY DEF TasksOK
    <3>2. task'[u] \in {task[u], [task[u] EXCEPT !.kids = @ \ {"meta"}],
                               [task[u] EXCEPT !.orphan = TRUE]}
      BY <1>19 DEF UnlinkMeta
    <3>3. /\ task'[u].op = task[u].op /\ task'[u].pc = task[u].pc /\ task'[u].r = task[u].r
          /\ task'[u].step = task[u].step /\ task'[u].rec = task[u].rec
      BY <3>1, <3>2 DEF TaskState
    <3> QED
      BY <3>3 DEF CompleteInv, TaskComplete
  <2>2. \A b \in Bottle : meta'[b].rec \in {meta[b].rec, NewRecord}
    BY <1>19 DEF UnlinkMeta, TypeOK, Absent
  <2>3. \A b \in Bottle : Complete(meta'[b].rec)
    BY <2>2, NewRecordComplete DEF CompleteInv
  <2>4. \A w \in pend' : Complete(w.rec)
    BY <1>19 DEF UnlinkMeta, CompleteInv
  <2> QED
    BY <2>1, <2>3, <2>4 DEF CompleteInv
<1>20. ASSUME NEW t \in Task, ReadRecord(t) PROVE CompleteInv'
  <2>1. CASE ~Readable(meta[task[t].b])
    BY <1>20, <2>1, CompleteReply DEF ReadRecord
  <2>2. CASE Readable(meta[task[t].b])
    <3>1. /\ \A u \in Task \ {t} : task'[u] = task[u]
          /\ task'[t].op = task[t].op /\ task'[t].r = task[t].r
          /\ task'[t].rec = meta[task[t].b].rec /\ task'[t].step = 1
          /\ task'[t].op = "apply" => task'[t].pc = "steps" /\ task[t].r \in Recipe
          /\ task'[t].op # "create"
      BY <1>20, <2>2, OpOf DEF ReadRecord, TasksOK, TaskState, WellPlaced
    <3>2. Complete(meta[task[t].b].rec)
      BY <1>20, OpOf DEF ReadRecord, WellPlaced, CompleteInv
    <3>3. task[t].op = "apply" => Partial(task'[t].rec, task'[t].r, 0)
      BY <3>1, <3>2, NothingSet DEF Complete, Partial
    <3>4. TaskComplete(task'[t])
      BY <3>1, <3>3 DEF TaskComplete
    <3> QED
      BY <1>20, <3>1, <3>4, CompleteMove DEF ReadRecord
  <2> QED
    BY <2>1, <2>2
<1>21. ASSUME NEW t \in Task, Spawn(t) PROVE CompleteInv'
  <2>1. CASE task[t].b \notin prefix
    BY <1>21, <2>1, CompleteReply DEF Spawn
  <2>2. CASE task[t].b \in prefix
    <3>1. /\ \A u \in Task \ {t} : task'[u] = task[u]
          /\ task'[t].op = task[t].op /\ task'[t].r = task[t].r /\ task'[t].pc = "wine"
          /\ task'[t].rec = task[t].rec /\ task'[t].step = task[t].step
      BY <1>21, <2>2, OpOf DEF Spawn, TasksOK, TaskState, Goto
    <3>2. TaskComplete(task'[t])
      BY <1>21, <3>1 DEF Spawn, TaskComplete, CompleteInv
    <3> QED
      BY <1>21, <3>1, <3>2, CompleteMove DEF Spawn
  <2> QED
    BY <2>1, <2>2
<1>22. ASSUME NEW t \in Task, WineExit(t) PROVE CompleteInv'
  <2>1. CASE task[t].op = "run"
    BY <1>22, <2>1, CompleteReply DEF WineExit
  <2>2. CASE task[t].op # "run"
    <3>1. /\ \A u \in Task \ {t} : task'[u] = task[u]
          /\ task'[t].op = "apply" /\ task[t].op = "apply" /\ task'[t].pc = "steps"
          /\ task'[t].r = task[t].r /\ task'[t].rec = task[t].rec
          /\ task'[t].step - 1 = task[t].step
      BY <1>22, <2>2, OpOf DEF WineExit, TasksOK, TaskState
    <3>2. Partial(task[t].rec, task[t].r, task[t].step)
      BY <1>22, <3>1 DEF WineExit, TaskComplete, CompleteInv
    <3>3. TaskComplete(task'[t])
      BY <3>1, <3>2 DEF TaskComplete
    <3> QED
      BY <1>22, <3>1, <3>3, CompleteMove DEF WineExit
  <2> QED
    BY <2>1, <2>2
<1>23. ASSUME NEW t \in Task, CopyFile(t) PROVE CompleteInv'
  <2>1. CASE task[t].b \notin prefix
    BY <1>23, <2>1, CompleteReply DEF CopyFile
  <2>2. CASE task[t].b \in prefix
    <3>1. /\ \A u \in Task \ {t} : task'[u] = task[u]
          /\ task'[t].op = "apply" /\ task[t].op = "apply" /\ task'[t].pc = "steps"
          /\ task'[t].r = task[t].r /\ task'[t].rec = task[t].rec
          /\ task'[t].step - 1 = task[t].step
      BY <1>23, <2>2, OpOf DEF CopyFile, TasksOK, TaskState
    <3>2. Partial(task[t].rec, task[t].r, task[t].step)
      BY <1>23, <3>1 DEF CopyFile, TaskComplete, CompleteInv
    <3>3. TaskComplete(task'[t])
      BY <3>1, <3>2 DEF TaskComplete
    <3> QED
      BY <1>23, <3>1, <3>3, CompleteMove DEF CopyFile
  <2> QED
    BY <2>1, <2>2
<1>24. ASSUME NEW t \in Task, ApplyRun(t) PROVE CompleteInv'
  <2>1. AtStep(t, "run") /\ task[t].op = "apply" /\ task[t].step \in Nat
    BY <1>24, OpOf DEF ApplyRun, AtStep, TaskState
  <2>2. Partial(task[t].rec, task[t].r, task[t].step - 1)
    BY <2>1 DEF AtStep, CompleteInv, TaskComplete
  <2>3. /\ \A u \in Task \ {t} : task'[u] = task[u]
        /\ task'[t].op = "apply" /\ task'[t].r = task[t].r
        /\ task'[t].pc = "spawn" /\ task'[t].rec = task[t].rec
        /\ task'[t].step = task[t].step
    BY <1>24, <2>1, OpOf DEF ApplyRun, AtStep, Goto, TasksOK, TaskState
  <2>4. Partial(task'[t].rec, task[t].r, task[t].step)
    BY <2>1, <2>2, <2>3, StepAdds DEF StepKind
  <2>5. TaskComplete(task'[t])
    BY <2>3, <2>4 DEF TaskComplete
  <2> QED
    BY <1>24, <2>3, <2>5, CompleteMove DEF ApplyRun
<1>25. ASSUME NEW t \in Task, ApplyWait(t) PROVE CompleteInv'
  <2>1. AtStep(t, "wait") /\ task[t].op = "apply" /\ task[t].step \in Nat
    BY <1>25, OpOf DEF ApplyWait, AtStep, TaskState
  <2>2. Partial(task[t].rec, task[t].r, task[t].step - 1)
    BY <2>1 DEF AtStep, CompleteInv, TaskComplete
  <2>3. /\ \A u \in Task \ {t} : task'[u] = task[u]
        /\ task'[t].op = "apply" /\ task'[t].r = task[t].r
        /\ task'[t].pc = "steps" /\ task'[t].rec = task[t].rec
        /\ task'[t].step - 1 = task[t].step
    BY <1>25, <2>1, OpOf DEF ApplyWait, AtStep, Goto, TasksOK, TaskState
  <2>4. Partial(task'[t].rec, task[t].r, task[t].step)
    BY <2>1, <2>2, <2>3, StepAdds DEF StepKind
  <2>5. TaskComplete(task'[t])
    BY <2>3, <2>4 DEF TaskComplete
  <2> QED
    BY <1>25, <2>3, <2>5, CompleteMove DEF ApplyWait
<1>26. ASSUME NEW t \in Task, ApplyWineCfg(t) PROVE CompleteInv'
  <2>1. AtStep(t, "winecfg") /\ task[t].op = "apply" /\ task[t].step \in Nat
    BY <1>26, OpOf DEF ApplyWineCfg, AtStep, TaskState
  <2>2. Partial(task[t].rec, task[t].r, task[t].step - 1)
    BY <2>1 DEF AtStep, CompleteInv, TaskComplete
  <2>3. /\ \A u \in Task \ {t} : task'[u] = task[u]
        /\ task'[t].op = "apply" /\ task'[t].r = task[t].r
        /\ task'[t].pc = "spawn" /\ task'[t].rec = WithStepVars(t)
        /\ task'[t].step = task[t].step
    BY <1>26, <2>1, OpOf DEF ApplyWineCfg, AtStep, Goto, TasksOK, TaskState
  <2>4. Partial(task'[t].rec, task[t].r, task[t].step)
    BY <2>1, <2>2, <2>3, StepAdds DEF StepKind
  <2>5. TaskComplete(task'[t])
    BY <2>3, <2>4 DEF TaskComplete
  <2> QED
    BY <1>26, <2>3, <2>5, CompleteMove DEF ApplyWineCfg
<1>27. ASSUME NEW t \in Task, ApplyEnv(t) PROVE CompleteInv'
  <2>1. AtStep(t, "env") /\ task[t].op = "apply" /\ task[t].step \in Nat
    BY <1>27, OpOf DEF ApplyEnv, AtStep, TaskState
  <2>2. Partial(task[t].rec, task[t].r, task[t].step - 1)
    BY <2>1 DEF AtStep, CompleteInv, TaskComplete
  <2>3. /\ \A u \in Task \ {t} : task'[u] = task[u]
        /\ task'[t].op = "apply" /\ task'[t].r = task[t].r
        /\ task'[t].pc = "steps" /\ task'[t].rec = WithStepVars(t)
        /\ task'[t].step - 1 = task[t].step
    BY <1>27, <2>1, OpOf DEF ApplyEnv, AtStep, Goto, TasksOK, TaskState
  <2>4. Partial(task'[t].rec, task[t].r, task[t].step)
    BY <2>1, <2>2, <2>3, StepAdds DEF StepKind
  <2>5. TaskComplete(task'[t])
    BY <2>3, <2>4 DEF TaskComplete
  <2> QED
    BY <1>27, <2>3, <2>5, CompleteMove DEF ApplyEnv
<1>28. ASSUME NEW t \in Task, ApplyCopy(t) PROVE CompleteInv'
  <2>1. AtStep(t, "copy") /\ task[t].op = "apply" /\ task[t].step \in Nat
    BY <1>28, OpOf DEF ApplyCopy, AtStep, TaskState
  <2>2. Partial(task[t].rec, task[t].r, task[t].step - 1)
    BY <2>1 DEF AtStep, CompleteInv, TaskComplete
  <2>3. /\ \A u \in Task \ {t} : task'[u] = task[u]
        /\ task'[t].op = "apply" /\ task'[t].r = task[t].r
        /\ task'[t].pc = "copy" /\ task'[t].rec = task[t].rec
        /\ task'[t].step = task[t].step
    BY <1>28, <2>1, OpOf DEF ApplyCopy, AtStep, Goto, TasksOK, TaskState
  <2>4. Partial(task'[t].rec, task[t].r, task[t].step)
    BY <2>1, <2>2, <2>3, StepAdds DEF StepKind
  <2>5. TaskComplete(task'[t])
    BY <2>3, <2>4 DEF TaskComplete
  <2> QED
    BY <1>28, <2>3, <2>5, CompleteMove DEF ApplyCopy
<1>29. ASSUME NEW t \in Task, UpdateRecord(t) PROVE CompleteInv'
  <2>1. CASE task[t].b \notin dir
    BY <1>29, <2>1, CompleteReply DEF UpdateRecord
  <2>2. CASE task[t].b \in dir
    <3>1. task[t].op = "apply" /\ task[t].r \in Recipe /\ task[t].step - 1 \in Nat
          /\ task[t].step - 1 >= Len(Steps[task[t].r])
      <4>1. task[t].op = "apply" /\ task[t].r \in Recipe /\ task[t].step \in Nat
            /\ task[t].step >= 1 /\ task[t].step > Len(Steps[task[t].r])
        BY <1>29, OpOf DEF UpdateRecord, TaskState, WellPlaced
      <4>2. Len(Steps[task[t].r]) \in Nat
        BY <4>1, ServiceAssumption
      <4> QED
        BY <4>1, <4>2
    <3>2. Partial(task[t].rec, task[t].r, task[t].step - 1)
      BY <1>29, <3>1 DEF UpdateRecord, CompleteInv, TaskComplete
    <3>3. /\ \A u \in Task \ {t} : task'[u] = task[u]
          /\ task'[t].op = "apply" /\ task'[t].pc = "open"
          /\ task'[t].rec.env = task[t].rec.env
          /\ task'[t].rec.by = task[t].rec.by \cup {task[t].r}
      BY <1>29, <2>2, <3>1, OpOf DEF UpdateRecord, TasksOK, TaskState, Record
    <3>4. Complete(task'[t].rec)
      BY <3>1, <3>2, <3>3, AllDone
    <3>5. TaskComplete(task'[t])
      BY <3>3, <3>4 DEF TaskComplete
    <3> QED
      BY <1>29, <3>3, <3>5, CompleteMove DEF UpdateRecord
  <2> QED
    BY <2>1, <2>2
<1>30. ASSUME NEW t \in Task, NEW new \in TaskState, new.op # "create",
             new.op # "apply" \/ new.pc = "read", NEW b \in Bottle,
             \/ task' = [task EXCEPT ![t] = new]
             \/ task' = [Noting(b) EXCEPT ![t] = new],
             UNCHANGED <<meta, pend>>
      PROVE  CompleteInv'
  <2>1. ASSUME NEW u \in Task PROVE TaskComplete(task'[u])
    <3>1. task[u] \in TaskState
      BY DEF TasksOK
    <3>2. CASE u = t
      BY <1>30, <3>2 DEF TaskComplete, Noting, TasksOK
    <3>3. CASE u # t
      <4>1. task'[u] = task[u] \/ task'[u] = [task[u] EXCEPT !.hit = @ \cup {b}]
        BY <1>30, <3>3 DEF Noting, TasksOK
      <4>2. /\ task'[u].op = task[u].op /\ task'[u].pc = task[u].pc /\ task'[u].r = task[u].r
            /\ task'[u].step = task[u].step /\ task'[u].rec = task[u].rec
        BY <3>1, <4>1 DEF TaskState
      <4> QED
        BY <4>2 DEF CompleteInv, TaskComplete
    <3> QED
      BY <3>2, <3>3
  <2> QED
    BY <1>30, <2>1 DEF CompleteInv
<1>31. ASSUME NEW t \in Task, MakeBottleDir(t) PROVE CompleteInv'
  <2>1. PICK b \in Bottle \ used :
               task' = [Noting(b) EXCEPT ![t].pc = "mkprefix", ![t].b = b]
    BY <1>31 DEF MakeBottleDir
  <2>2. ASSUME NEW u \in Task
        PROVE  /\ task'[u].op = task[u].op /\ task'[u].rec = task[u].rec
               /\ u # t => /\ task'[u].pc = task[u].pc /\ task'[u].r = task[u].r
                           /\ task'[u].step = task[u].step
    <3>1. Noting(b) \in [Task -> TaskState]
      BY NotingType
    <3>2. /\ Noting(b)[u].op = task[u].op /\ Noting(b)[u].rec = task[u].rec
          /\ Noting(b)[u].pc = task[u].pc /\ Noting(b)[u].r = task[u].r
          /\ Noting(b)[u].step = task[u].step
      BY OpOf DEF Noting, TaskState
    <3> QED
      BY <2>1, <3>1, <3>2 DEF TaskState
  <2>3. ASSUME NEW u \in Task PROVE TaskComplete(task'[u])
    <3>1. CASE u = t
      BY <1>31, <2>2, <3>1, OpOf DEF MakeBottleDir, TaskComplete, CompleteInv
    <3>2. CASE u # t
      BY <2>2, <3>2 DEF TaskComplete, CompleteInv
    <3> QED
      BY <3>1, <3>2
  <2> QED
    BY <1>31, <2>3 DEF MakeBottleDir, CompleteInv
<1>32. CASE LandWrite
  <2>1. PICK w \in pend : /\ meta' = [meta EXCEPT ![w.b] = Land(@, w.rec)]
                          /\ pend' = pend \ {w}
    BY <1>32 DEF LandWrite
  <2>2. \A b \in Bottle : meta'[b].rec \in {meta[b].rec, w.rec, NewRecord}
    BY <2>1 DEF TypeOK, Land
  <2>3. \A b \in Bottle : Complete(meta'[b].rec)
    BY <2>2, NewRecordComplete DEF CompleteInv
  <2> QED
    BY <1>32, <2>1, <2>3 DEF LandWrite, CompleteInv
<1>33. CASE LostWrite
  BY <1>33 DEF LostWrite, CompleteInv
<1>34. CASE Crash
  BY <1>34, IdleComplete DEF Crash, CompleteInv
<1>35. CASE UNCHANGED vars
  BY <1>35 DEF vars, CompleteInv
<1>36. ASSUME NEW t \in Task, Start(t) PROVE CompleteInv'
  <2>1. CASE StartCreate(t)
    <3>1. /\ \A u \in Task \ {t} : task'[u] = task[u]
          /\ task'[t].op = "create" /\ task'[t].rec = NewRecord
      BY <2>1 DEF StartCreate, Idle, TasksOK
    <3>2. TaskComplete(task'[t])
      BY <3>1, NewRecordComplete DEF TaskComplete
    <3> QED
      BY <2>1, <3>1, <3>2, CompleteMove DEF StartCreate, Accept
  <2>2. CASE StartList(t)
    <3>1. /\ \A u \in Task \ {t} : task'[u] = task[u]
          /\ task'[t].op = "list"
      BY <2>2 DEF StartList, Idle, TasksOK
    <3>2. TaskComplete(task'[t])
      BY <3>1 DEF TaskComplete
    <3> QED
      BY <2>2, <3>1, <3>2, CompleteMove DEF StartList, Accept
  <2>3. ASSUME NEW b \in Bottle, NEW r \in Recipe \cup {None},
               \/ StartOn(t, "delete", "check", b, r) \/ StartOn(t, "run", "read", b, r)
               \/ StartOn(t, "apply", "read", b, r)
        PROVE  CompleteInv'
    <3>1. PICK o \in {"delete", "run", "apply"}, loc \in {"check", "read"} :
             StartOn(t, o, loc, b, r) /\ (o = "apply" => loc = "read")
      BY <2>3
    <3> DEFINE new == [Idle EXCEPT !.op = o, !.pc = loc, !.b = b, !.r = r]
    <3>2. new \in TaskState /\ new.op = o /\ new.pc = loc
      BY ConstantTypes DEF TaskState, Op, Location
    <3>3. \/ task' = [task EXCEPT ![t] = new]
          \/ task' = [Noting(b) EXCEPT ![t] = new]
      BY <3>1 DEF StartOn
    <3>4. UNCHANGED <<meta, pend>>
      BY <3>1 DEF StartOn, Accept
    <3> HIDE DEF new
    <3> QED
      BY <1>30, <3>1, <3>2, <3>3, <3>4
  <2> QED
    BY <1>36, <2>1, <2>2, <2>3 DEF Start, StartDelete, StartRun, StartApply
<1>37. ASSUME NEW t \in Task, Serve(t) PROVE CompleteInv'
  BY <1>37,
     <1>1, <1>2, <1>3, <1>4, <1>5, <1>6, <1>7, <1>9, <1>10, <1>11, <1>12, <1>13, <1>14, <1>15,
     <1>16, <1>17, <1>18, <1>19, <1>20, <1>21, <1>22, <1>23, <1>24, <1>25, <1>26, <1>27, <1>28, <1>29, <1>31
     DEF Serve
<1> QED
  BY <1>36, <1>8, <1>32, <1>33, <1>34, <1>35, <1>37
     DEF Next, Quiescent

(* A readable record is as the recipes it holds leave it: each variable has  *)
(* the final value of one of them, the latest has all its values, and no     *)
(* other variable is set.  So it is in every interleaving of requests, late  *)
(* writes, errors and crashes, and for every set of recipes.                 *)
THEOREM WholeRecipes == Spec => []AllOrNothing
<1>1. Init => CompleteInv
  BY NewRecordComplete, IdleComplete DEF Init, CompleteInv, Absent
<1>2. CompleteInv => AllOrNothing
  BY DEF CompleteInv, AllOrNothing, AsRecipesLeaveIt, Complete, Held
<1> QED
  BY <1>1, <1>2, CompleteStep, TypeCorrect, PTL DEF Spec
=============================================================================
