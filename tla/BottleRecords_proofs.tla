------------------------ MODULE BottleRecords_proofs ------------------------
(* Theorems about what BottleService keeps in the directory of a bottle on   *)
(* which no requests conflict, through every error and crash: a record that  *)
(* can be read holds exactly the recipes that were acknowledged, no file is  *)
(* torn, and a deleted bottle stays away.  From this, about listings: they   *)
(* show what is there, are complete, and fail with a cause only.             *)
EXTENDS BottleService_proofs

-----------------------------------------------------------------------------
(* The state of one bottle.                                                  *)


-----------------------------------------------------------------------------
(* The state of one bottle.                                                  *)

(* A request on b, and one that may change it.                               *)
On(s, b) == s.b = b /\ s.op \in {"create", "delete", "apply", "run"}
Owns(s, b) == s.b = b /\ s.op \in {"create", "delete", "apply"}
Writes(b) == {w \in pend : w.b = b}

(* What the directory of a bottle may be: made and without metadata, emptied *)
(* for a write that is still to come, holding its record, waiting for the    *)
(* pool to write it, or gone.                                                *)
Bare(b)    == b \in dir /\ meta[b].state = "absent" /\ Writes(b) = {}
Emptied(b) == b \in dir /\ meta[b].state = "empty" /\ meta[b].len = 0 /\ Writes(b) = {}
Holds(b)   == /\ b \in dir /\ Readable(meta[b]) /\ Writes(b) = {}
              /\ meta[b].rec.by = Applied(b)
Flying(b)  == /\ b \in dir /\ meta[b].state = "empty" /\ meta[b].len = 0
              /\ \E w \in pend : Writes(b) = {w} /\ w.rec.by = Applied(b)
Gone(b)    == b \notin dir /\ meta[b].state = "absent" /\ Writes(b) = {}

(* In order: whole, or gone.  An error or a crash can leave a directory that *)
(* is neither, and then the bottle is marked.                                *)
Marred(b)  == b \in faulted /\ (Bare(b) \/ Emptied(b))
Kept(b)    == Holds(b) \/ Flying(b) \/ Gone(b) \/ Marred(b)

(* Nobody has heard of it.                                                   *)
Newborn(b) == /\ b \notin known /\ b \notin deleted /\ Applied(b) = {}
              /\ \A u \in Task : b \notin task[u].seen

(* What a request in progress on b knows of it.                              *)
CreateKnows(s, b) ==
    /\ Newborn(b) /\ ~s.orphan /\ s.rec.by = {}
    /\ \/ s.pc \in {"mkprefix", "open"} /\ Bare(b)
       \/ s.pc = "write" /\ Emptied(b)
ApplyKnows(s, b) ==
    /\ ~s.orphan
    /\ s.pc \in {"steps", "spawn", "wine", "copy", "open"} => Holds(b)
    /\ s.pc = "write" => Emptied(b)
    /\ s.pc \in {"steps", "spawn", "wine", "copy"} => s.rec.by = Applied(b)
    /\ s.pc \in {"open", "write"} => s.rec.by = Applied(b) \cup {s.r}
DeleteKnows(s, b) ==
    s.pc = "unlink" =>
        s.kids = Children(b) /\ (Bare(b) \/ Holds(b) \/ Flying(b) \/ Marred(b))
Knows(s, b) ==
    /\ s.op = "create" => CreateKnows(s, b)
    /\ s.op = "apply" => ApplyKnows(s, b)
    /\ s.op = "delete" => DeleteKnows(s, b)

(* Requests that have the directory as they found it.                        *)
Watches(s) == \/ s.op = "run"
              \/ s.op = "apply" /\ s.pc # "write"
              \/ s.op = "delete" /\ s.pc \in {"check", "scan"}

Sole(b) == \A t, u \in Task :
    t # u /\ On(task[t], b) /\ On(task[u], b) =>
        task[t].op # "create" /\ ~Conflict(task[t].op, task[u].op)

GoodBottle(b) ==
    /\ Sole(b)
    /\ \A t \in Task : On(task[t], b) => Knows(task[t], b)
    /\ (\A t \in Task : On(task[t], b) => Watches(task[t])) => Kept(b)
    /\ b \in deleted => Gone(b)
    /\ b \notin used => Newborn(b) /\ Gone(b) /\ \A t \in Task : ~On(task[t], b)

GoodInv == \A b \in Bottle : b \notin raced => GoodBottle(b)

-----------------------------------------------------------------------------
(* Steps that do not concern b.                                              *)

FsSame(b) ==
    /\ b \in dir' <=> b \in dir
    /\ b \in prefix' <=> b \in prefix
    /\ meta'[b] = meta[b] /\ Writes(b)' = Writes(b) /\ Applied(b)' = Applied(b)
    /\ b \in used' <=> b \in used
    /\ b \in deleted' <=> b \in deleted
    /\ b \in faulted => b \in faulted'
    /\ Newborn(b) /\ ~Readable(meta[b]) => Newborn(b)'
TasksSame(b) ==
    \A u \in Task : \/ task'[u] = task[u]
                    \/ /\ ~Owns(task[u], b) /\ ~Owns(task'[u], b)
                       /\ On(task'[u], b) => On(task[u], b)

(* What b is stays what it is.                                               *)
LEMMA FsKept ==
    ASSUME NEW b, FsSame(b)
    PROVE  /\ Bare(b) => Bare(b)'
           /\ Emptied(b) => Emptied(b)'
           /\ Holds(b) => Holds(b)'
           /\ Flying(b) => Flying(b)'
           /\ Gone(b) => Gone(b)'
           /\ Marred(b) => Marred(b)'
           /\ Kept(b) => Kept(b)'
           /\ Children(b)' = Children(b)
<1>1. Bare(b) => Bare(b)'
  BY DEF FsSame, Bare
<1>2. Emptied(b) => Emptied(b)'
  BY DEF FsSame, Emptied
<1>3. Holds(b) => Holds(b)'
  BY DEF FsSame, Holds, Readable
<1>4. Flying(b) => Flying(b)'
  <2> SUFFICES ASSUME Flying(b) PROVE Flying(b)'
    OBVIOUS
  <2>1. PICK w \in pend : Writes(b) = {w} /\ w.rec.by = Applied(b)
    BY DEF Flying
  <2>2. w \in pend'
    <3>1. w \in Writes(b)'
      BY <2>1 DEF FsSame
    <3> QED BY <3>1 DEF Writes
  <2> QED BY <2>1, <2>2 DEF FsSame, Flying
<1>5. Gone(b) => Gone(b)'
  BY DEF FsSame, Gone
<1>6. Children(b)' = Children(b)
  BY DEF FsSame, Children
<1>7. Marred(b) => Marred(b)'
  BY <1>1, <1>2 DEF FsSame, Marred
<1> QED BY <1>1, <1>2, <1>3, <1>4, <1>5, <1>6, <1>7 DEF Kept

(* A step that does not concern b keeps it as it should be.                  *)
LEMMA Frame ==
    ASSUME NEW b \in Bottle, GoodBottle(b), FsSame(b), TasksSame(b)
    PROVE  GoodBottle(b)'
<1>1. ASSUME NEW u \in Task, On(task'[u], b)
      PROVE  /\ On(task[u], b) /\ task'[u].op = task[u].op
             /\ Owns(task[u], b) => task'[u] = task[u]
             /\ ~Owns(task[u], b) => task'[u].op = "run"
  BY <1>1 DEF TasksSame, On, Owns
<1>2. Sole(b)'
  <2>1. Sole(b)
    BY DEF GoodBottle
  <2> SUFFICES ASSUME NEW t \in Task, NEW u \in Task, t # u,
                      On(task'[t], b), On(task'[u], b)
               PROVE  task'[t].op # "create" /\ ~Conflict(task'[t].op, task'[u].op)
    BY DEF Sole, On
  <2> QED BY <1>1, <2>1 DEF Sole
<1>3. \A t \in Task : (On(task[t], b) => Knows(task[t], b))'
  <2> SUFFICES ASSUME NEW t \in Task, On(task'[t], b) PROVE Knows(task[t], b)'
    BY DEF On
  <2>1. CASE Owns(task[t], b)
    <3>1. task'[t] = task[t] /\ Knows(task[t], b)
      BY <1>1, <2>1 DEF GoodBottle
    <3>2. Newborn(b) /\ ~Readable(meta[b]) => Newborn(b)'
      BY DEF FsSame
    <3>3. Applied(b)' = Applied(b)
      BY DEF FsSame
    <3>4. Bare(b) \/ Emptied(b) => ~Readable(meta[b])
      BY DEF Bare, Emptied, Readable
    <3> QED BY <3>1, <3>2, <3>3, <3>4, FsKept
            DEF Knows, CreateKnows, ApplyKnows, DeleteKnows
  <2>2. CASE ~Owns(task[t], b)
    BY <1>1, <2>2 DEF Knows
  <2> QED BY <2>1, <2>2
<1>4. ((\A t \in Task : On(task[t], b) => Watches(task[t])) => Kept(b))'
  <2> SUFFICES ASSUME \A t \in Task : On(task'[t], b) => Watches(task'[t])
               PROVE  Kept(b)'
    BY DEF On, Watches
  <2>1. ASSUME NEW t \in Task, On(task[t], b) PROVE Watches(task[t])
    <3>1. CASE Owns(task[t], b)
      BY <2>1, <3>1 DEF TasksSame
    <3>2. CASE ~Owns(task[t], b)
      BY <2>1, <3>2 DEF On, Owns, Watches
    <3> QED BY <3>1, <3>2
  <2> QED BY <2>1, FsKept DEF GoodBottle
<1>5. (b \notin used => Newborn(b) /\ Gone(b) /\ \A t \in Task : ~On(task[t], b))'
  <2> SUFFICES ASSUME b \notin used'
               PROVE  Newborn(b)' /\ Gone(b)' /\ \A t \in Task : ~On(task'[t], b)
    BY DEF On
  <2> QED BY <1>1, FsKept DEF GoodBottle, FsSame, Gone, Readable
<1>6. (b \in deleted => Gone(b))'
  BY FsKept DEF GoodBottle, FsSame
<1> QED BY <1>2, <1>3, <1>4, <1>5, <1>6 DEF GoodBottle

-----------------------------------------------------------------------------
(* Steps of the request that owns b.                                         *)

(* Only runs of programs go on beside it.                                    *)
LEMMA OthersRun ==
    ASSUME NEW b \in Bottle, Sole(b), NEW t \in Task, Owns(task[t], b),
           NEW u \in Task, u # t, On(task[u], b)
    PROVE  task[u].op = "run" /\ task[t].op = "apply"
  BY DEF Sole, On, Owns, Conflict

(* It found the directory in order, as long as it only watches.              *)
LEMMA OwnerKept ==
    ASSUME NEW b \in Bottle, GoodBottle(b), NEW t \in Task, Owns(task[t], b)
    PROVE  /\ Knows(task[t], b) /\ b \in used
           /\ Watches(task[t]) => Kept(b)
<1>1. On(task[t], b)
  BY DEF Owns, On
<1>2. ASSUME NEW u \in Task, u # t, On(task[u], b) PROVE Watches(task[u])
  BY <1>2, OthersRun DEF GoodBottle, Watches
<1> QED BY <1>1, <1>2 DEF GoodBottle

(* The owner moves, whatever it does to the directory.                       *)
LEMMA OwnStep ==
    ASSUME NEW b \in Bottle, GoodBottle(b), NEW t \in Task, Owns(task[t], b),
           \A u \in Task \ {t} : task'[u] = task[u], b \in used',
           On(task'[t], b) => task'[t].op = task[t].op /\ Knows(task[t], b)',
           b \in deleted' => Gone(b)',
           (On(task'[t], b) /\ ~Watches(task'[t])) \/ Kept(b)'
    PROVE  GoodBottle(b)'
<1>1. Sole(b)
  BY DEF GoodBottle
<1>2. On(task[t], b)
  BY DEF Owns, On
<1>3. Sole(b)'
  <2> SUFFICES ASSUME NEW v \in Task, NEW u \in Task, v # u,
                      On(task'[v], b), On(task'[u], b)
               PROVE  task'[v].op # "create" /\ ~Conflict(task'[v].op, task'[u].op)
    BY DEF Sole, On
  <2>1. /\ On(task[v], b) /\ task'[v].op = task[v].op
        /\ On(task[u], b) /\ task'[u].op = task[u].op
    BY <1>2
  <2> QED BY <1>1, <2>1 DEF Sole
<1>4. ASSUME NEW v \in Task, On(task'[v], b) PROVE Knows(task[v], b)'
  <2>1. CASE v = t
    BY <1>4, <2>1
  <2>2. CASE v # t
    <3>1. task'[v].op = "run"
      BY <1>1, <1>4, <2>2, OthersRun
    <3> QED BY <3>1 DEF Knows
  <2> QED BY <2>1, <2>2
<1>5. ((\A v \in Task : On(task[v], b) => Watches(task[v])) => Kept(b))'
  <2> SUFFICES ASSUME On(task'[t], b) => Watches(task'[t]) PROVE Kept(b)'
    BY DEF On, Watches
  <2> QED OBVIOUS
<1>6. \A v \in Task : (On(task[v], b) => Knows(task[v], b))'
  BY <1>4 DEF On
<1> QED BY <1>3, <1>5, <1>6 DEF GoodBottle

(* The same when the directory stays as it is.                               *)
LEMMA OwnMove ==
    ASSUME NEW b \in Bottle, GoodBottle(b), NEW t \in Task, Owns(task[t], b), FsSame(b),
           NEW x, task'[t] = x, \A u \in Task \ {t} : task'[u] = task[u],
           On(x, b) => x.op = task[t].op /\ Knows(x, b),
           (On(x, b) /\ ~Watches(x)) \/ Kept(b)
    PROVE  GoodBottle(b)'
<1>1. On(x, b) => Knows(task[t], b)'
  <2> SUFFICES ASSUME On(x, b) PROVE Knows(task[t], b)'
    OBVIOUS
  <2>1. /\ Knows(x, b) /\ Applied(b)' = Applied(b)
        /\ Newborn(b) /\ ~Readable(meta[b]) => Newborn(b)'
    BY DEF FsSame
  <2>2. Bare(b) \/ Emptied(b) => ~Readable(meta[b])
    BY DEF Bare, Emptied, Readable
  <2> QED BY <2>1, <2>2, FsKept DEF Knows, CreateKnows, ApplyKnows, DeleteKnows
<1>2. b \in used' /\ (Kept(b) => Kept(b)') /\ (b \in deleted' => Gone(b)')
  BY OwnerKept, FsKept DEF FsSame, GoodBottle
<1> QED BY <1>1, <1>2, OwnStep

(* The store and what is known of it stay as they are.                       *)
Still == /\ UNCHANGED <<dir, prefix, meta, pend, used, known, applied, deleted>>
         /\ faulted \subseteq faulted'

LEMMA StillSteps ==
    ASSUME UNCHANGED <<fs, clients, acks, causes>>
    PROVE  Still
  BY DEF Still, fs, clients, acks, causes

(* A step that moves one task and leaves the store and the clients alone.    *)
LEMMA Local ==
    ASSUME TypeOK, NEW t \in Task, NEW x, task' = [task EXCEPT ![t] = x],
           Still,
           x.seen \subseteq task[t].seen,
           NEW b \in Bottle, GoodBottle(b),
           On(x, b) => On(task[t], b) /\ x.op = task[t].op,
           Owns(task[t], b) /\ On(x, b) => Knows(x, b),
           Owns(task[t], b) => (On(x, b) /\ ~Watches(x)) \/ Kept(b)
    PROVE  GoodBottle(b)'
<1>1. task'[t] = x /\ \A u \in Task \ {t} : task'[u] = task[u]
  BY DEF TypeOK
<1>2. FsSame(b)
  <2>1. Newborn(b) => Newborn(b)'
    BY <1>1 DEF Newborn, Applied, Still
  <2> QED BY <2>1 DEF FsSame, Writes, Applied, Still
<1>3. CASE Owns(task[t], b)
  BY <1>1, <1>2, <1>3, OwnMove
<1>4. CASE ~Owns(task[t], b)
  <2>1. TasksSame(b)
    BY <1>1, <1>4 DEF TasksSame, On, Owns
  <2> QED BY <1>2, <2>1, Frame
<1> QED BY <1>3, <1>4

(* A task that answers, having left the directory in order.                  *)
LEMMA Answers ==
    ASSUME TypeOK, NEW t \in Task, Reply(t),
           Still,
           NEW b \in Bottle, GoodBottle(b), Owns(task[t], b) => Kept(b)
    PROVE  GoodBottle(b)'
<1>1. \A c : ~On(Idle, c)
  BY DEF On, Idle
<1>2. Idle.seen \subseteq task[t].seen
  BY DEF Idle
<1> QED BY <1>1, <1>2, Local DEF Reply

(* The owner's location says what it knows.                                  *)
LEMMA OwnerPlace ==
    ASSUME TypeOK, NEW t \in Task, NEW b \in Bottle, GoodBottle(b), Owns(task[t], b)
    PROVE  /\ task[t] \in TaskState /\ On(task[t], b) /\ task[t].b = b
           /\ task[t].pc \in {"mkprefix", "open", "write", "check", "scan", "unlink", "read",
                              "steps", "spawn", "wine", "copy"}
           /\ task[t].pc \in {"check", "scan", "unlink"} <=> task[t].op = "delete"
           /\ task[t].pc \in {"read", "steps", "spawn", "wine", "copy"} => task[t].op = "apply"
           /\ task[t].pc = "mkprefix" => task[t].op = "create"
           /\ task[t].pc \in {"check", "scan", "read", "steps", "spawn", "wine", "copy"} => Kept(b)
           /\ task[t].pc = "mkprefix" => Bare(b)
           /\ task[t].pc = "open" => b \in dir
           /\ task[t].pc = "write" => Emptied(b) /\ ~task[t].orphan
           /\ task[t].pc \in {"steps", "spawn", "wine", "copy"} =>
                Holds(b) /\ task[t].rec.by = Applied(b) /\ ~task[t].orphan
           /\ task[t].pc = "unlink" =>
                task[t].kids = Children(b) /\ (Bare(b) \/ Holds(b) \/ Flying(b) \/ Marred(b))
                /\ b \in dir
<1>1. /\ task[t] \in TaskState /\ On(task[t], b) /\ task[t].b = b
      /\ task[t].op \in {"create", "delete", "apply"} /\ task[t].pc \in PlacesOf(task[t].op)
  BY DEF TypeOK, Owns, On, WellPlaced
<1>2. Knows(task[t], b) /\ (Watches(task[t]) => Kept(b))
  BY OwnerKept
<1>3. Bare(b) \/ Emptied(b) \/ Holds(b) \/ Flying(b) \/ Marred(b) => b \in dir
  BY DEF Bare, Emptied, Holds, Flying, Marred
<1>4. CASE task[t].op = "create"
  <2>1. task[t].pc \in {"mkprefix", "open", "write"}
    BY <1>2, <1>4 DEF Knows, CreateKnows
  <2> QED BY <1>1, <1>2, <1>3, <1>4, <2>1 DEF Knows, CreateKnows
<1>5. CASE task[t].op = "apply"
  <2>1. task[t].pc \in {"read", "steps", "spawn", "wine", "copy", "open", "write"}
    BY <1>1, <1>5 DEF PlacesOf
  <2> QED BY <1>1, <1>2, <1>3, <1>5, <2>1 DEF Knows, ApplyKnows, Watches
<1>6. CASE task[t].op = "delete"
  <2>1. task[t].pc \in {"check", "scan", "unlink"}
    BY <1>1, <1>6 DEF PlacesOf
  <2> QED BY <1>1, <1>2, <1>3, <1>6, <2>1 DEF Knows, DeleteKnows, Watches
<1> QED BY <1>1, <1>4, <1>5, <1>6

(* A bottle that is there has not been deleted.                              *)
LEMMA Undeleted ==
    ASSUME NEW b, GoodBottle(b), b \in dir
    PROVE  b \notin deleted
  BY DEF GoodBottle, Gone

(* Whatever goes on, the directory is in one of these states.                *)
LEMMA AnyState ==
    ASSUME TypeOK, NEW b \in Bottle, GoodBottle(b)
    PROVE  Kept(b) \/ Bare(b) \/ Emptied(b)
<1>1. CASE \A u \in Task : On(task[u], b) => Watches(task[u])
  BY <1>1 DEF GoodBottle
<1>2. ASSUME NEW u \in Task, On(task[u], b), ~Watches(task[u])
      PROVE  Kept(b) \/ Bare(b) \/ Emptied(b)
  <2>1. Owns(task[u], b)
    BY <1>2 DEF On, Owns, Watches
  <2>2. Knows(task[u], b)
    BY <1>2 DEF GoodBottle
  <2>3. CASE task[u].op = "create"
    BY <2>2, <2>3 DEF Knows, CreateKnows
  <2>4. CASE task[u].op = "apply"
    BY <1>2, <2>2, <2>4 DEF Knows, ApplyKnows, Watches
  <2>5. CASE task[u].op = "delete"
    <3>1. task[u].pc \in {"check", "scan", "unlink"}
      BY <2>1, <2>5, OwnerPlace
    <3> QED BY <1>2, <2>2, <2>5, <3>1 DEF Knows, DeleteKnows, Watches, Kept
  <2> QED BY <2>1, <2>3, <2>4, <2>5 DEF Owns
<1> QED BY <1>1, <1>2

-----------------------------------------------------------------------------
(* Programs and the steps of recipes.                                        *)

(* A task goes on with its program or its recipe.                            *)
LEMMA Proceeds ==
    ASSUME TypeOK, NEW t \in Task, task[t].pc \in {"steps", "spawn", "wine", "copy"}, Still,
           NEW x, task' = [task EXCEPT ![t] = x],
           x.op = task[t].op, x.b = task[t].b, x.seen = task[t].seen,
           x.orphan = task[t].orphan, x.rec.by = task[t].rec.by,
           x.pc \in {"steps", "spawn", "wine", "copy"},
           NEW b \in Bottle, GoodBottle(b)
    PROVE  GoodBottle(b)'
<1>1. Owns(task[t], b) => Knows(x, b) /\ Kept(b)
  <2> SUFFICES ASSUME Owns(task[t], b) PROVE Knows(x, b) /\ Kept(b)
    OBVIOUS
  <2>1. /\ task[t].op = "apply" /\ Kept(b) /\ Holds(b)
        /\ task[t].rec.by = Applied(b) /\ ~task[t].orphan
    BY OwnerPlace
  <2> QED BY <2>1 DEF Knows, ApplyKnows
<1>2. On(x, b) => On(task[t], b)
  BY DEF On
<1> QED BY <1>1, <1>2, Local

(* One that gives up has changed nothing.                                    *)
LEMMA GivesUp ==
    ASSUME TypeOK, NEW t \in Task, Still, Reply(t),
           task[t].pc \in {"check", "scan", "read", "steps", "spawn", "wine", "copy"},
           NEW b \in Bottle, GoodBottle(b)
    PROVE  GoodBottle(b)'
  BY OwnerPlace, Answers

LEMMA SpawnKeeps ==
    ASSUME TypeOK, NEW t \in Task, Spawn(t), NEW b \in Bottle, GoodBottle(b)
    PROVE  GoodBottle(b)'
<1>1. task[t] \in TaskState /\ task[t].pc = "spawn" /\ Still
  BY StillSteps DEF Spawn, TypeOK
<1>2. CASE task[t].b \in prefix
  <2> DEFINE x == [task[t] EXCEPT !.pc = "wine"]
  <2>1. task' = [task EXCEPT ![t] = x]
    BY <1>2 DEF Spawn, Goto
  <2>2. /\ x.op = task[t].op /\ x.b = task[t].b /\ x.seen = task[t].seen
        /\ x.orphan = task[t].orphan /\ x.rec = task[t].rec /\ x.pc = "wine"
    BY <1>1 DEF TaskState
  <2> HIDE DEF x
  <2> QED BY <1>1, <2>1, <2>2, Proceeds
<1>3. CASE task[t].b \notin prefix
  BY <1>1, <1>3, GivesUp DEF Spawn
<1> QED BY <1>2, <1>3

LEMMA WineExitKeeps ==
    ASSUME TypeOK, NEW t \in Task, WineExit(t), NEW b \in Bottle, GoodBottle(b)
    PROVE  GoodBottle(b)'
<1>1. task[t] \in TaskState /\ task[t].pc = "wine" /\ Still
  BY StillSteps DEF WineExit, TypeOK
<1>2. CASE task[t].op # "run"
  <2> DEFINE x == [task[t] EXCEPT !.pc = "steps", !.step = @ + 1]
  <2>1. task' = [task EXCEPT ![t] = x]
    BY <1>2 DEF WineExit
  <2>2. /\ x.op = task[t].op /\ x.b = task[t].b /\ x.seen = task[t].seen
        /\ x.orphan = task[t].orphan /\ x.rec = task[t].rec /\ x.pc = "steps"
    BY <1>1 DEF TaskState
  <2> HIDE DEF x
  <2> QED BY <1>1, <2>1, <2>2, Proceeds
<1>3. CASE task[t].op = "run"
  BY <1>1, <1>3, GivesUp DEF WineExit
<1> QED BY <1>2, <1>3

LEMMA CopyFileKeeps ==
    ASSUME TypeOK, NEW t \in Task, CopyFile(t), NEW b \in Bottle, GoodBottle(b)
    PROVE  GoodBottle(b)'
<1>1. task[t] \in TaskState /\ task[t].pc = "copy" /\ Still
  BY StillSteps DEF CopyFile, TypeOK
<1>2. CASE task[t].b \in prefix
  <2> DEFINE x == [task[t] EXCEPT !.pc = "steps", !.step = @ + 1]
  <2>1. task' = [task EXCEPT ![t] = x]
    BY <1>2 DEF CopyFile
  <2>2. /\ x.op = task[t].op /\ x.b = task[t].b /\ x.seen = task[t].seen
        /\ x.orphan = task[t].orphan /\ x.rec = task[t].rec /\ x.pc = "steps"
    BY <1>1 DEF TaskState
  <2> HIDE DEF x
  <2> QED BY <1>1, <2>1, <2>2, Proceeds
<1>3. CASE task[t].b \notin prefix
  BY <1>1, <1>3, GivesUp DEF CopyFile
<1> QED BY <1>2, <1>3

(* The steps that change only the record in memory.                          *)
LEMMA ApplyKeeps ==
    ASSUME TypeOK, NEW t \in Task,
           ApplyRun(t) \/ ApplyWait(t) \/ ApplyWineCfg(t) \/ ApplyEnv(t)
             \/ ApplyCopyMissing(t),
           NEW b \in Bottle, GoodBottle(b)
    PROVE  GoodBottle(b)'
<1>1. task[t] \in TaskState /\ task[t].pc = "steps" /\ Still
  BY StillSteps
     DEF ApplyRun, ApplyWait, ApplyWineCfg, ApplyEnv, ApplyCopyMissing, AtStep, TypeOK
<1>2. WithStepVars(t).by = task[t].rec.by
  BY <1>1 DEF WithStepVars, TaskState, Record
<1> DEFINE Goes(x) == /\ task' = [task EXCEPT ![t] = x]
                      /\ x.op = task[t].op /\ x.b = task[t].b /\ x.seen = task[t].seen
                      /\ x.orphan = task[t].orphan /\ x.rec.by = task[t].rec.by
                      /\ x.pc \in {"steps", "spawn"}
<1>3. CASE ApplyRun(t)
  <2>1. Goes([task[t] EXCEPT !.pc = "spawn"])
    BY <1>1, <1>3 DEF ApplyRun, Goto, TaskState
  <2> QED BY <1>1, <2>1, Proceeds
<1>4. CASE ApplyWait(t)
  <2>1. Goes([task[t] EXCEPT !.step = @ + 1])
    BY <1>1, <1>4 DEF ApplyWait, TaskState
  <2> QED BY <1>1, <2>1, Proceeds
<1>5. CASE ApplyWineCfg(t)
  <2>1. Goes([task[t] EXCEPT !.rec = WithStepVars(t), !.pc = "spawn"])
    BY <1>1, <1>2, <1>5 DEF ApplyWineCfg, TaskState
  <2> QED BY <1>1, <2>1, Proceeds
<1>6. CASE ApplyEnv(t)
  <2>1. Goes([task[t] EXCEPT !.rec = WithStepVars(t), !.step = @ + 1])
    BY <1>1, <1>2, <1>6 DEF ApplyEnv, TaskState
  <2> QED BY <1>1, <2>1, Proceeds
<1>7. CASE ApplyCopyMissing(t)
  BY <1>1, <1>7, GivesUp DEF ApplyCopyMissing
<1> QED BY <1>3, <1>4, <1>5, <1>6, <1>7

(* A record that can be read holds every recipe that was acknowledged.       *)
LEMMA ReadKeeps ==
    ASSUME TypeOK, NEW t \in Task, ReadRecord(t), NEW b \in Bottle, GoodBottle(b)
    PROVE  GoodBottle(b)'
<1>1. task[t] \in TaskState /\ task[t].pc = "read" /\ Still
  BY StillSteps DEF ReadRecord, TypeOK
<1>2. CASE Readable(meta[task[t].b])
  <2> DEFINE x == [task[t] EXCEPT !.rec = meta[task[t].b].rec,
                     !.pc = IF task[t].op = "run" THEN "spawn" ELSE "steps", !.step = 1]
  <2>1. task' = [task EXCEPT ![t] = x]
    BY <1>2 DEF ReadRecord
  <2>2. /\ x.op = task[t].op /\ x.b = task[t].b /\ x.seen = task[t].seen
        /\ x.orphan = task[t].orphan /\ x.rec = meta[task[t].b].rec
        /\ x.pc \in {"spawn", "steps"}
    BY <1>1 DEF TaskState
  <2> HIDE DEF x
  <2>3. Owns(task[t], b) => Knows(x, b) /\ Kept(b)
    <3> SUFFICES ASSUME Owns(task[t], b) PROVE Knows(x, b) /\ Kept(b)
      OBVIOUS
    <3>1. task[t].op = "apply" /\ task[t].b = b /\ Kept(b) /\ Knows(task[t], b)
      BY <1>1, OwnerPlace, OwnerKept
    <3>2. Holds(b)
      BY <1>2, <3>1 DEF Kept, Flying, Gone, Marred, Bare, Emptied, Readable
    <3>3. x.rec.by = Applied(b) /\ ~x.orphan
      BY <2>2, <3>1, <3>2 DEF Holds, Knows, ApplyKnows
    <3> QED BY <2>2, <3>1, <3>2, <3>3 DEF Knows, ApplyKnows
  <2>4. On(x, b) => On(task[t], b)
    BY <2>2 DEF On
  <2> QED BY <1>1, <2>1, <2>2, <2>3, <2>4, Local
<1>3. CASE ~Readable(meta[task[t].b])
  BY <1>1, <1>3, GivesUp DEF ReadRecord
<1> QED BY <1>2, <1>3

LEMMA UpdateKeeps ==
    ASSUME TypeOK, NEW t \in Task, UpdateRecord(t), NEW b \in Bottle, GoodBottle(b)
    PROVE  GoodBottle(b)'
<1>1. task[t] \in TaskState /\ task[t].pc = "steps" /\ Still
  BY StillSteps DEF UpdateRecord, TypeOK
<1>2. CASE task[t].b \in dir
  <2> DEFINE x == [task[t] EXCEPT !.pc = "open", !.rec.by = @ \cup {task[t].r}]
  <2>1. task' = [task EXCEPT ![t] = x]
    BY <1>2 DEF UpdateRecord
  <2>2. /\ x.op = task[t].op /\ x.b = task[t].b /\ x.seen = task[t].seen
        /\ x.orphan = task[t].orphan /\ x.rec.by = task[t].rec.by \cup {task[t].r}
        /\ x.r = task[t].r /\ x.pc = "open"
    BY <1>1 DEF TaskState, Record
  <2> HIDE DEF x
  <2>3. Owns(task[t], b) => Knows(x, b) /\ Kept(b)
    <3> SUFFICES ASSUME Owns(task[t], b) PROVE Knows(x, b) /\ Kept(b)
      OBVIOUS
    <3>1. /\ task[t].op = "apply" /\ Kept(b) /\ Holds(b)
          /\ task[t].rec.by = Applied(b) /\ ~task[t].orphan
      BY <1>1, OwnerPlace
    <3> QED BY <2>2, <3>1 DEF Knows, ApplyKnows
  <2>4. On(x, b) => On(task[t], b)
    BY <2>2 DEF On
  <2> QED BY <1>1, <2>1, <2>2, <2>3, <2>4, Local
<1>3. CASE task[t].b \notin dir
  BY <1>1, <1>3, GivesUp DEF UpdateRecord
<1> QED BY <1>2, <1>3

-----------------------------------------------------------------------------
(* Removals.                                                                 *)

LEMMA CheckKeeps ==
    ASSUME TypeOK, NEW t \in Task, RemoveCheck(t) \/ RemoveScan(t),
           NEW b \in Bottle, GoodBottle(b)
    PROVE  GoodBottle(b)'
<1>1. /\ task[t] \in TaskState /\ task[t].pc \in {"check", "scan"} /\ Still
      /\ task[t].op = "delete"
  BY StillSteps, OpOf DEF RemoveCheck, RemoveScan, TypeOK, TasksOK
<1>2. CASE Reply(t)
  BY <1>1, <1>2, GivesUp
<1>3. CASE RemoveCheck(t) /\ task[t].b \in dir
  <2> DEFINE x == [task[t] EXCEPT !.pc = "scan"]
  <2>1. task' = [task EXCEPT ![t] = x]
    BY <1>3 DEF RemoveCheck, Goto
  <2>2. x.op = task[t].op /\ x.b = task[t].b /\ x.seen = task[t].seen /\ x.pc = "scan"
    BY <1>1 DEF TaskState
  <2> HIDE DEF x
  <2>3. Knows(x, b)
    BY <1>1, <2>2 DEF Knows, DeleteKnows
  <2>4. On(x, b) => On(task[t], b)
    BY <2>2 DEF On
  <2> QED BY <1>1, <2>1, <2>2, <2>3, <2>4, OwnerPlace, Local
<1>4. CASE RemoveScan(t) /\ task[t].b \in dir
  <2> DEFINE x == [task[t] EXCEPT !.pc = "unlink", !.kids = Children(task[t].b)]
  <2>1. task' = [task EXCEPT ![t] = x]
    BY <1>4 DEF RemoveScan
  <2>2. /\ x.op = task[t].op /\ x.b = task[t].b /\ x.seen = task[t].seen
        /\ x.kids = Children(task[t].b)
    BY <1>1 DEF TaskState
  <2> HIDE DEF x
  <2>3. Owns(task[t], b) => Knows(x, b) /\ Kept(b)
    <3> SUFFICES ASSUME Owns(task[t], b) PROVE Knows(x, b) /\ Kept(b)
      OBVIOUS
    <3>1. task[t].b = b /\ Kept(b)
      BY <1>1, OwnerPlace
    <3> QED BY <1>1, <1>4, <2>2, <3>1 DEF Knows, DeleteKnows, Kept, Gone
  <2>4. On(x, b) => On(task[t], b)
    BY <2>2 DEF On
  <2> QED BY <1>1, <2>1, <2>2, <2>3, <2>4, Local
<1> QED BY <1>2, <1>3, <1>4 DEF RemoveCheck, RemoveScan

(* What only a second removal or a program running beside it can cause.      *)
LEMMA DisturbedKeeps ==
    ASSUME TypeOK, NEW t \in Task,
           UnlinkPrefixBusy(t) \/ UnlinkGone(t) \/ RemoveDirFails(t) \/ OpenMetaFails(t),
           NEW b \in Bottle, GoodBottle(b)
    PROVE  GoodBottle(b)'
<1>1. task[t] \in TaskState /\ task[t].pc \in {"unlink", "open"} /\ Still
  BY StillSteps DEF UnlinkPrefixBusy, UnlinkGone, RemoveDirFails, OpenMetaFails, TypeOK
<1>2. ~Owns(task[t], b)
  <2> SUFFICES ASSUME Owns(task[t], b) PROVE FALSE
    OBVIOUS
  <2>1. /\ task[t].b = b
        /\ task[t].pc = "open" => b \in dir
        /\ task[t].pc = "unlink" =>
              task[t].op = "delete" /\ task[t].kids = Children(b) /\ b \in dir
    BY OwnerPlace
  <2>2. CASE UnlinkPrefixBusy(t)
    <3>1. PICK u \in Task : task[u].pc = "wine" /\ task[u].b = b
      BY <2>1, <2>2 DEF UnlinkPrefixBusy
    <3>2. On(task[u], b) /\ u # t
      BY <2>2, <3>1, OpOf DEF UnlinkPrefixBusy, TypeOK, TasksOK, On
    <3>3. task[t].op = "apply"
      BY <3>2, OthersRun DEF GoodBottle
    <3> QED BY <2>1, <2>2, <3>3 DEF UnlinkPrefixBusy
  <2>3. CASE UnlinkGone(t)
    BY <2>1, <2>3 DEF UnlinkGone
  <2>4. CASE RemoveDirFails(t)
    BY <2>1, <2>4 DEF RemoveDirFails
  <2>5. CASE OpenMetaFails(t)
    BY <2>1, <2>5 DEF OpenMetaFails
  <2> QED BY <2>2, <2>3, <2>4, <2>5
<1>3. CASE Reply(t)
  BY <1>1, <1>2, <1>3, Answers
<1>4. CASE UnlinkGone(t) /\ ~Reply(t)
  <2>1. PICK k : task' = [task EXCEPT ![t].kids = @ \ {k}]
    BY <1>4 DEF UnlinkGone
  <2> DEFINE x == [task[t] EXCEPT !.kids = @ \ {k}]
  <2>2. task' = [task EXCEPT ![t] = x]
    BY <2>1
  <2>3. x.op = task[t].op /\ x.b = task[t].b /\ x.seen = task[t].seen
    BY <1>1 DEF TaskState
  <2> HIDE DEF x
  <2>4. On(x, b) => On(task[t], b)
    BY <2>3 DEF On
  <2> QED BY <1>1, <1>2, <2>2, <2>3, <2>4, Local
<1> QED BY <1>3, <1>4 DEF UnlinkPrefixBusy, RemoveDirFails, OpenMetaFails

(* A request that an error cuts short has marred the bottle, and marked it,  *)
(* or changed nothing.                                                       *)
LEMMA ErrorKeeps ==
    ASSUME TypeOK, NEW t \in Task, IoError(t), NEW b \in Bottle, GoodBottle(b)
    PROVE  GoodBottle(b)'
<1>1. Still /\ Reply(t) /\ task[t].pc # "write"
  BY DEF IoError, Still, fs, clients, acks
<1>2. CASE ~Owns(task[t], b)
  BY <1>1, <1>2, Answers
<1>3. CASE Owns(task[t], b)
  <2>1. FsSame(b)
    BY <1>1 DEF FsSame, Still, Writes, Applied, Newborn, Reply, Idle, TypeOK
  <2>2. Kept(b)'
    <3>1. CASE Kept(b)
      BY <2>1, <3>1, FsKept
    <3>2. CASE task[t].op \in {"create", "delete"} /\ ~Kept(b)
      <4>1. b \in faulted'
        BY <1>3, <3>2, ServiceAssumption DEF IoError, Owns
      <4>2. Bare(b)
        <5>1. task[t].pc = "unlink" => Bare(b)
          BY <1>3, <3>2, OwnerPlace DEF Kept
        <5>2. task[t].op = "create" => Bare(b)
          BY <1>1, <1>3, OwnerKept DEF Knows, CreateKnows
        <5>3. task[t].op = "delete" => task[t].pc = "unlink"
          BY <1>3, <3>2, OwnerPlace
        <5> QED BY <3>2, <5>1, <5>2, <5>3
      <4> QED BY <2>1, <4>1, <4>2, FsKept DEF Kept, Marred
    <3>3. task[t].op = "apply" => Kept(b)
      BY <1>1, <1>3, OwnerKept DEF Watches
    <3> QED BY <1>3, <3>1, <3>2, <3>3 DEF Owns
  <2>3. /\ task'[t] = Idle /\ ~On(Idle, b) /\ \A u \in Task \ {t} : task'[u] = task[u]
    BY <1>1 DEF Reply, On, Idle, TypeOK
  <2>4. b \in used' /\ (b \in deleted' => Gone(b)')
    BY <1>3, <2>1, FsKept, OwnerKept DEF GoodBottle, FsSame
  <2> QED BY <1>3, <2>2, <2>3, <2>4, OwnStep
<1> QED BY <1>2, <1>3

-----------------------------------------------------------------------------
(* Listings.                                                                 *)

LEMMA ListKeeps ==
    ASSUME TypeOK, NEW t \in Task, ListDir(t) \/ ListProbe(t) \/ ListReadFails(t),
           NEW b \in Bottle, GoodBottle(b)
    PROVE  GoodBottle(b)'
<1>1. task[t] \in TaskState /\ task[t].op = "list" /\ Still
  BY StillSteps, OpOf DEF ListDir, ListProbe, ListReadFails, TypeOK, TasksOK
<1>2. ~Owns(task[t], b)
  BY <1>1 DEF Owns
<1> DEFINE Goes(x) == /\ task' = [task EXCEPT ![t] = x]
                      /\ x.op = "list" /\ x.seen = task[t].seen
<1>3. ASSUME NEW x, Goes(x) PROVE GoodBottle(b)'
  <2>1. ~On(x, b)
    BY <1>3 DEF On
  <2> QED BY <1>1, <1>2, <1>3, <2>1, Local
<1>4. CASE ListDir(t)
  <2>1. Goes([task[t] EXCEPT !.pc = "probe", !.ids = dir])
    BY <1>1, <1>4 DEF ListDir, TaskState
  <2> QED BY <1>3, <2>1
<1>5. CASE ListProbe(t)
  <2>1. PICK c : \/ task' = [task EXCEPT ![t].ids = @ \ {c}, ![t].b = c, ![t].pc = "readmeta"]
                 \/ task' = [task EXCEPT ![t].ids = @ \ {c}]
    BY <1>5 DEF ListProbe
  <2>2. \/ Goes([task[t] EXCEPT !.ids = @ \ {c}, !.b = c, !.pc = "readmeta"])
        \/ Goes([task[t] EXCEPT !.ids = @ \ {c}])
    BY <1>1, <2>1 DEF TaskState
  <2> QED BY <1>3, <2>2
<1>6. CASE ListReadFails(t)
  BY <1>1, <1>2, <1>6, Answers DEF ListReadFails
<1> QED BY <1>4, <1>5, <1>6

(* A listing learns of readable bottles, and tells of those it has learnt.   *)
LEMMA ListTellsKeeps ==
    ASSUME TypeOK, NEW t \in Task, ListRead(t) \/ ListDone(t),
           NEW b \in Bottle, GoodBottle(b)
    PROVE  GoodBottle(b)'
<1>1. task[t] \in TaskState /\ task[t].op = "list"
  BY OpOf DEF ListRead, ListDone, TypeOK, TasksOK
<1> DEFINE Told(x) == /\ task' = [task EXCEPT ![t] = x] /\ ~On(x, b)
                      /\ b \in x.seen => b \in task[t].seen \/ Readable(meta[b])
<1>2. PICK x : Told(x)
  <2>1. CASE ListRead(t)
    <3> DEFINE x == [task[t] EXCEPT !.pc = "probe", !.b = None,
                       !.seen = IF Readable(meta[task[t].b]) THEN @ \cup {task[t].b} ELSE @]
    <3>1. task' = [task EXCEPT ![t] = x]
      BY <2>1 DEF ListRead
    <3>2. x.op = "list" /\ x.seen = IF Readable(meta[task[t].b])
                                      THEN task[t].seen \cup {task[t].b} ELSE task[t].seen
      BY <1>1 DEF TaskState
    <3> HIDE DEF x
    <3>3. Told(x)
      BY <3>1, <3>2 DEF On
    <3> QED BY <3>3
  <2>2. CASE ListDone(t)
    <3>1. Told(Idle)
      BY <2>2 DEF ListDone, Reply, Idle, On
    <3> QED BY <3>1
  <2> QED BY <2>1, <2>2
<1>3. UNCHANGED <<fs, used, acks, causes>> /\ known' \subseteq known \cup task[t].seen
  BY DEF ListRead, ListDone, clients
<1>4. task'[t] = x /\ \A u \in Task \ {t} : task'[u] = task[u]
  BY <1>2 DEF TypeOK
<1>5. FsSame(b)
  <2>1. Newborn(b) /\ ~Readable(meta[b]) => Newborn(b)'
    BY <1>2, <1>3, <1>4 DEF Newborn, Applied, acks
  <2> QED BY <1>3, <2>1 DEF FsSame, Writes, Applied, fs, acks, causes
<1>6. TasksSame(b)
  BY <1>1, <1>2, <1>4 DEF TasksSame, Owns, On
<1> QED BY <1>5, <1>6, Frame

-----------------------------------------------------------------------------
(* Steps that change the store.                                              *)

(* A step of a task at work on another bottle.                               *)
LEMMA Elsewhere ==
    ASSUME NEW b \in Bottle, GoodBottle(b), NEW t \in Task, FsSame(b),
           ~Owns(task[t], b), ~Owns(task'[t], b), On(task'[t], b) => On(task[t], b),
           \A u \in Task \ {t} : task'[u] = task[u]
    PROVE  GoodBottle(b)'
  BY Frame DEF TasksSame

LEMMA MakePrefixKeeps ==
    ASSUME TypeOK, NEW t \in Task, MakePrefixDir(t), NEW b \in Bottle, GoodBottle(b)
    PROVE  GoodBottle(b)'
<1>1. task[t] \in TaskState /\ task[t].op = "create" /\ task[t].pc = "mkprefix"
  BY OpOf DEF MakePrefixDir, TypeOK, TasksOK
<1>2. /\ task'[t].op = "create" /\ task'[t].b = task[t].b /\ task'[t].pc = "open"
      /\ task'[t].orphan = task[t].orphan /\ task'[t].seen = task[t].seen
      /\ task'[t].rec = task[t].rec
      /\ \A u \in Task \ {t} : task'[u] = task[u]
  BY <1>1 DEF MakePrefixDir, Goto, TypeOK, TaskState
<1>3. /\ Newborn(b) => Newborn(b)'
      /\ meta' = meta /\ Writes(b)' = Writes(b) /\ Applied(b)' = Applied(b) /\ used' = used
      /\ deleted' = deleted /\ faulted' = faulted
  BY <1>2 DEF MakePrefixDir, Newborn, Applied, Writes, clients, acks, causes
<1>4. CASE task[t].b = b
  <2>1. Owns(task[t], b)
    BY <1>1, <1>4 DEF Owns
  <2>2. Knows(task[t], b) /\ Bare(b) /\ b \in used
    BY <1>1, <2>1, OwnerPlace, OwnerKept
  <2>3. Bare(b)'
    BY <1>3, <2>2 DEF Bare, MakePrefixDir
  <2>4. Knows(task[t], b)'
    BY <1>1, <1>2, <1>3, <2>2, <2>3 DEF Knows, CreateKnows
  <2>5. On(task'[t], b) /\ ~Watches(task'[t])
    BY <1>2, <1>4 DEF On, Watches
  <2>6. b \notin deleted'
    BY <1>3, <2>2, Undeleted DEF Bare
  <2> QED BY <1>1, <1>2, <1>3, <2>1, <2>2, <2>4, <2>5, <2>6, OwnStep
<1>5. CASE task[t].b # b
  <2>1. FsSame(b)
    BY <1>3, <1>5 DEF FsSame, MakePrefixDir
  <2> QED BY <1>2, <1>5, <2>1, Elsewhere DEF Owns, On
<1> QED BY <1>4, <1>5

LEMMA OpenKeeps ==
    ASSUME TypeOK, NEW t \in Task, OpenMeta(t), NEW b \in Bottle, GoodBottle(b)
    PROVE  GoodBottle(b)'
<1>1. task[t] \in TaskState /\ task[t].op \in {"create", "apply"} /\ task[t].pc = "open"
  BY OpOf DEF OpenMeta, TypeOK, TasksOK
<1>2. /\ task'[t].op = task[t].op /\ task'[t].b = task[t].b /\ task'[t].pc = "write"
      /\ task'[t].orphan = task[t].orphan /\ task'[t].seen = task[t].seen
      /\ task'[t].rec = task[t].rec /\ task'[t].r = task[t].r
      /\ \A u \in Task \ {t} : task'[u] = task[u]
  BY <1>1 DEF OpenMeta, Goto, TypeOK, TaskState
<1>3. /\ Newborn(b) => Newborn(b)'
      /\ Writes(b)' = Writes(b) /\ Applied(b)' = Applied(b) /\ used' = used
      /\ deleted' = deleted /\ faulted' = faulted
  BY <1>2 DEF OpenMeta, Newborn, Applied, Writes, clients, acks, causes
<1>4. CASE task[t].b = b
  <2>1. Owns(task[t], b)
    BY <1>1, <1>4 DEF Owns
  <2>2. Knows(task[t], b) /\ b \in used
    BY <2>1, OwnerKept
  <2>3. Writes(b) = {} /\ ~task[t].orphan
    BY <1>1, <2>2 DEF Knows, CreateKnows, ApplyKnows, Bare, Holds
  <2>4. Emptied(b)'
    BY <1>3, <1>4, <2>3 DEF Emptied, OpenMeta, Truncated, TypeOK
  <2>5. Knows(task[t], b)'
    <3>1. CASE task[t].op = "create"
      BY <1>1, <1>2, <1>3, <2>2, <2>3, <2>4, <3>1 DEF Knows, CreateKnows
    <3>2. CASE task[t].op = "apply"
      BY <1>1, <1>2, <1>3, <2>2, <2>3, <2>4, <3>2 DEF Knows, ApplyKnows
    <3> QED BY <1>1, <3>1, <3>2
  <2>6. On(task'[t], b) /\ ~Watches(task'[t])
    BY <1>1, <1>2, <1>4 DEF On, Watches
  <2>7. b \notin deleted'
    BY <1>3, <1>4, Undeleted DEF OpenMeta
  <2> QED BY <1>2, <1>3, <2>1, <2>2, <2>5, <2>6, <2>7, OwnStep
<1>5. CASE task[t].b # b
  <2>1. FsSame(b)
    BY <1>3, <1>5 DEF FsSame, OpenMeta, TypeOK
  <2> QED BY <1>2, <1>5, <2>1, Elsewhere DEF Owns, On
<1> QED BY <1>4, <1>5

(* The reply goes out with the write still in the pool.                      *)
LEMMA WriteKeeps ==
    ASSUME TypeOK, NEW t \in Task, WriteMeta(t), NEW b \in Bottle, GoodBottle(b)
    PROVE  GoodBottle(b)'
<1>1. task[t] \in TaskState /\ task[t].op \in {"create", "apply"} /\ task[t].pc = "write"
  BY OpOf DEF WriteMeta, TypeOK, TasksOK
<1>2. task'[t] = Idle /\ ~On(task'[t], b) /\ \A u \in Task \ {t} : task'[u] = task[u]
  BY DEF WriteMeta, Reply, TypeOK, On, Idle
<1> DEFINE w == [by |-> t, b |-> task[t].b, rec |-> task[t].rec]
<1>3. CASE task[t].b = b
  <2>1. Owns(task[t], b)
    BY <1>1, <1>3 DEF Owns
  <2>2. Knows(task[t], b) /\ b \in used /\ Emptied(b) /\ ~task[t].orphan
    BY <1>1, <2>1, OwnerPlace, OwnerKept
  <2>3. pend' = pend \cup {w} /\ Writes(b)' = {w}
    BY <1>3, <2>2 DEF WriteMeta, Writes, Emptied
  <2>4. w.rec.by = Applied(b)'
    <3>1. CASE task[t].op = "create"
      BY <1>1, <2>2, <3>1 DEF Knows, CreateKnows, Newborn, Applied, WriteMeta
    <3>2. CASE task[t].op = "apply"
      <4>1. task[t].rec.by = Applied(b) \cup {task[t].r} /\ task[t].r \in Recipe
        BY <1>1, <2>2, <3>2 DEF Knows, ApplyKnows, TypeOK, WellPlaced
      <4>2. applied' = applied \cup {<<b, task[t].r>>}
        BY <1>3, <3>2 DEF WriteMeta
      <4> QED BY <4>1, <4>2 DEF Applied
    <3> QED BY <1>1, <3>1, <3>2
  <2>5. Flying(b)'
    BY <2>2, <2>3, <2>4 DEF Flying, Emptied, WriteMeta
  <2>6. Kept(b)'
    BY <2>5 DEF Kept
  <2>7. used' = used /\ b \notin deleted'
    BY <2>2, Undeleted DEF WriteMeta, Emptied
  <2> QED BY <1>2, <2>1, <2>2, <2>6, <2>7, OwnStep
<1>4. CASE task[t].b # b
  <2>1. Writes(b)' = Writes(b) /\ Applied(b)' = Applied(b)
    BY <1>4 DEF Writes, Applied, WriteMeta
  <2>2. Newborn(b) => Newborn(b)'
    <3>1. b \notin known => b \notin known'
      BY <1>4 DEF WriteMeta
    <3>2. \A u \in Task : task'[u].seen \subseteq task[u].seen
      BY <1>2 DEF Idle
    <3> QED BY <2>1, <3>1, <3>2 DEF Newborn, WriteMeta
  <2>3. FsSame(b)
    BY <2>1, <2>2 DEF FsSame, WriteMeta, causes
  <2> QED BY <1>2, <1>4, <2>3, Elsewhere DEF Owns, On
<1> QED BY <1>3, <1>4

LEMMA UnlinkMetaKeeps ==
    ASSUME TypeOK, NEW t \in Task, UnlinkMeta(t), NEW b \in Bottle, GoodBottle(b)
    PROVE  GoodBottle(b)'
<1>1. task[t] \in TaskState /\ task[t].op = "delete" /\ task[t].pc = "unlink"
  BY OpOf DEF UnlinkMeta, TypeOK, TasksOK
<1>2. /\ task'[t].op = "delete" /\ task'[t].b = task[t].b /\ task'[t].pc = "unlink"
      /\ task'[t].seen = task[t].seen /\ task'[t].kids = task[t].kids \ {"meta"}
  BY <1>1 DEF UnlinkMeta, TaskState
<1>3. ASSUME NEW u \in Task, u # t
      PROVE  /\ task'[u] = task[u] \/ (task[u].pc = "write" /\ task[u].b = task[t].b)
             /\ task'[u].b = task[u].b /\ task'[u].op = task[u].op
             /\ task'[u].seen = task[u].seen
  <2>1. task[u] \in TaskState
    BY DEF TypeOK
  <2> QED BY <1>3, <2>1 DEF UnlinkMeta, TaskState
<1>4. /\ Applied(b)' = Applied(b) /\ (Newborn(b) => Newborn(b)') /\ used' = used
      /\ deleted' = deleted /\ faulted' = faulted
  BY <1>2, <1>3 DEF UnlinkMeta, Newborn, Applied, clients, acks, causes
<1>5. CASE task[t].b = b
  <2>1. Owns(task[t], b)
    BY <1>1, <1>5 DEF Owns
  <2>2. /\ task[t].kids = Children(b) /\ b \in dir /\ b \in used
    BY <1>1, <2>1, OwnerPlace, OwnerKept
  <2>3. \A u \in Task \ {t} : task'[u] = task[u]
    <3> SUFFICES ASSUME NEW u \in Task, u # t, task[u].pc = "write", task[u].b = b
                 PROVE  FALSE
      BY <1>3, <1>5
    <3>1. task[u].op \in {"create", "apply"}
      BY OpOf DEF TypeOK, TasksOK
    <3> QED BY <1>1, <2>1, <3>1, OthersRun DEF GoodBottle, On
  <2>4. Bare(b)' /\ Children(b)' = Children(b) \ {"meta"}
    BY <1>5, <2>2 DEF Bare, Children, Writes, UnlinkMeta, Absent, TypeOK
  <2>5. Knows(task[t], b)'
    BY <1>2, <2>2, <2>4 DEF Knows, DeleteKnows
  <2>6. On(task'[t], b) /\ ~Watches(task'[t])
    BY <1>2, <1>5 DEF On, Watches
  <2>7. b \notin deleted'
    BY <1>4, <2>2, Undeleted
  <2> QED BY <1>1, <1>2, <1>4, <2>1, <2>2, <2>3, <2>5, <2>6, <2>7, OwnStep
<1>6. CASE task[t].b # b
  <2>1. FsSame(b)
    BY <1>4, <1>6 DEF FsSame, Writes, UnlinkMeta, TypeOK
  <2>2. TasksSame(b)
    BY <1>1, <1>2, <1>3, <1>6 DEF TasksSame, Owns, On
  <2> QED BY <2>1, <2>2, Frame
<1> QED BY <1>5, <1>6

LEMMA UnlinkPrefixKeeps ==
    ASSUME TypeOK, NEW t \in Task, UnlinkPrefix(t), NEW b \in Bottle, GoodBottle(b)
    PROVE  GoodBottle(b)'
<1>1. task[t] \in TaskState /\ task[t].op = "delete" /\ task[t].pc = "unlink"
  BY OpOf DEF UnlinkPrefix, TypeOK, TasksOK
<1>2. /\ task'[t].op = "delete" /\ task'[t].b = task[t].b /\ task'[t].pc = "unlink"
      /\ task'[t].seen = task[t].seen /\ task'[t].kids = task[t].kids \ {"prefix"}
      /\ \A u \in Task \ {t} : task'[u] = task[u]
  BY <1>1 DEF UnlinkPrefix, TypeOK, TaskState
<1>3. /\ Writes(b)' = Writes(b) /\ Applied(b)' = Applied(b) /\ (Newborn(b) => Newborn(b)')
      /\ used' = used /\ meta' = meta /\ dir' = dir /\ pend' = pend
      /\ deleted' = deleted /\ faulted' = faulted
  BY <1>2 DEF UnlinkPrefix, Newborn, Applied, Writes, clients, acks, causes
<1>4. CASE task[t].b = b
  <2>1. Owns(task[t], b)
    BY <1>1, <1>4 DEF Owns
  <2>2. /\ task[t].kids = Children(b) /\ b \in used /\ b \in dir
        /\ Bare(b) \/ Holds(b) \/ Flying(b) \/ Marred(b)
    BY <1>1, <2>1, OwnerPlace, OwnerKept
  <2>3. Children(b)' = Children(b) \ {"prefix"}
    BY <1>3, <1>4 DEF Children, UnlinkPrefix
  <2>4. Bare(b)' \/ Holds(b)' \/ Flying(b)' \/ Marred(b)'
    BY <1>3, <2>2 DEF Bare, Emptied, Holds, Flying, Marred
  <2>5. Knows(task[t], b)'
    BY <1>2, <2>2, <2>3, <2>4 DEF Knows, DeleteKnows
  <2>6. On(task'[t], b) /\ ~Watches(task'[t])
    BY <1>2, <1>4 DEF On, Watches
  <2>7. b \notin deleted'
    BY <1>3, <2>2, Undeleted
  <2> QED BY <1>1, <1>2, <1>3, <2>1, <2>2, <2>5, <2>6, <2>7, OwnStep
<1>5. CASE task[t].b # b
  <2>1. FsSame(b)
    BY <1>3, <1>5 DEF FsSame, UnlinkPrefix
  <2> QED BY <1>2, <1>5, <2>1, Elsewhere DEF Owns, On
<1> QED BY <1>4, <1>5

(* The bottle is gone, with everything in it.                                *)
LEMMA RemoveDirKeeps ==
    ASSUME TypeOK, NEW t \in Task, RemoveDir(t), NEW b \in Bottle, GoodBottle(b)
    PROVE  GoodBottle(b)'
<1>1. task[t] \in TaskState /\ task[t].op = "delete" /\ task[t].pc = "unlink"
  BY OpOf DEF RemoveDir, TypeOK, TasksOK
<1>2. task'[t] = Idle /\ ~On(task'[t], b) /\ \A u \in Task \ {t} : task'[u] = task[u]
  BY DEF RemoveDir, Reply, TypeOK, On, Idle
<1>3. /\ Writes(b)' = Writes(b) /\ Applied(b)' = Applied(b)
      /\ used' = used /\ meta' = meta
  BY <1>2 DEF RemoveDir, Applied, Writes, clients
<1>4. CASE task[t].b = b
  <2>1. Owns(task[t], b)
    BY <1>1, <1>4 DEF Owns
  <2>2. b \in used /\ (Bare(b) \/ Holds(b) \/ Flying(b) \/ Marred(b))
    BY <1>1, <2>1, OwnerPlace, OwnerKept
  <2>3. meta[b].state = "absent"
    BY <1>4 DEF RemoveDir, Children
  <2>4. Writes(b) = {}
    BY <2>2, <2>3 DEF Bare, Holds, Flying, Marred, Emptied, Readable
  <2>5. Gone(b)' /\ Kept(b)'
    BY <1>3, <1>4, <2>3, <2>4 DEF Kept, Gone, RemoveDir
  <2> QED BY <1>2, <1>3, <2>1, <2>2, <2>5, OwnStep
<1>5. CASE task[t].b # b
  <2>1. FsSame(b)
    <3>1. Newborn(b) => Newborn(b)'
      BY <1>2, <1>3, <1>5 DEF RemoveDir, Newborn, clients, Idle
    <3> QED BY <1>3, <1>5, <3>1 DEF FsSame, RemoveDir, causes
  <2> QED BY <1>2, <1>5, <2>1, Elsewhere DEF Owns, On
<1> QED BY <1>4, <1>5

LEMMA ApplyCopyKeeps ==
    ASSUME TypeOK, NEW t \in Task, ApplyCopy(t), NEW b \in Bottle, GoodBottle(b)
    PROVE  GoodBottle(b)'
<1>1. task[t] \in TaskState /\ task[t].op = "apply" /\ task[t].pc = "steps"
  BY OpOf DEF ApplyCopy, AtStep, TypeOK, TasksOK
<1>2. /\ task'[t].op = "apply" /\ task'[t].b = task[t].b /\ task'[t].pc = "copy"
      /\ task'[t].seen = task[t].seen /\ task'[t].orphan = task[t].orphan
      /\ task'[t].rec = task[t].rec
      /\ \A u \in Task \ {t} : task'[u] = task[u]
  BY <1>1 DEF ApplyCopy, Goto, TypeOK, TaskState
<1>3. /\ Writes(b)' = Writes(b) /\ Applied(b)' = Applied(b) /\ (Newborn(b) => Newborn(b)')
      /\ used' = used /\ meta' = meta /\ deleted' = deleted /\ faulted' = faulted
  BY <1>2 DEF ApplyCopy, Newborn, Applied, Writes, clients, acks, causes
<1>4. CASE task[t].b = b
  <2>1. Owns(task[t], b)
    BY <1>1, <1>4 DEF Owns
  <2>2. /\ b \in used /\ Holds(b) /\ task[t].rec.by = Applied(b)
        /\ ~task[t].orphan
    BY <1>1, <2>1, OwnerPlace, OwnerKept
  <2>3. Holds(b)'
    BY <1>3, <2>2 DEF Holds, ApplyCopy
  <2>4. Knows(task[t], b)'
    BY <1>2, <1>3, <2>2, <2>3 DEF Knows, ApplyKnows
  <2>5. Kept(b)' /\ b \notin deleted'
    BY <1>3, <2>2, <2>3, Undeleted DEF Kept, Holds
  <2> QED BY <1>1, <1>2, <1>3, <2>1, <2>2, <2>4, <2>5, OwnStep
<1>5. CASE task[t].b # b
  <2>1. FsSame(b)
    BY <1>3, <1>5 DEF FsSame, ApplyCopy
  <2> QED BY <1>2, <1>5, <2>1, Elsewhere DEF Owns, On
<1> QED BY <1>4, <1>5

(* A new directory takes an id nobody has heard of.                          *)
LEMMA MakeDirKeeps ==
    ASSUME TypeOK, NEW t \in Task, MakeBottleDir(t), ~task[t].orphan,
           task[t].rec.by = {}, NEW b \in Bottle, GoodBottle(b)
    PROVE  GoodBottle(b)'
<1>1. task[t] \in TaskState /\ task[t].op = "create" /\ task[t].pc = "mkdir"
  BY OpOf DEF MakeBottleDir, TypeOK, TasksOK
<1>2. PICK c \in Bottle \ used :
        /\ used' = used \cup {c} /\ dir' = dir \cup {c}
        /\ task' = [Noting(c) EXCEPT ![t].pc = "mkprefix", ![t].b = c]
  BY DEF MakeBottleDir
<1>3. /\ task'[t].op = "create" /\ task'[t].b = c /\ task'[t].pc = "mkprefix"
      /\ task'[t].orphan = task[t].orphan /\ task'[t].seen = task[t].seen
      /\ task'[t].rec = task[t].rec
  BY <1>1, <1>2 DEF Noting, TaskState
<1>4. ASSUME NEW u \in Task, u # t
      PROVE  /\ task'[u] = task[u] \/ task[u].op = "list"
             /\ task'[u].b = task[u].b /\ task'[u].op = task[u].op
             /\ task'[u].seen = task[u].seen
  <2>1. task[u] \in TaskState
    BY DEF TypeOK
  <2> QED BY <1>2, <1>4, <2>1 DEF Noting, TaskState
<1>5. /\ Writes(b)' = Writes(b) /\ Applied(b)' = Applied(b) /\ (Newborn(b) => Newborn(b)')
      /\ meta' = meta /\ deleted' = deleted /\ faulted' = faulted
  BY <1>3, <1>4 DEF MakeBottleDir, Newborn, Applied, Writes, acks, causes
<1>6. CASE b = c
  <2>1. Newborn(b) /\ Gone(b) /\ \A u \in Task : ~On(task[u], b)
    BY <1>2, <1>6 DEF GoodBottle
  <2>2. \A u \in Task : On(task'[u], b) => u = t
    BY <1>4, <2>1 DEF On
  <2>3. Bare(b)'
    BY <1>2, <1>5, <1>6, <2>1 DEF Bare, Gone
  <2>4. Knows(task[t], b)'
    BY <1>1, <1>3, <1>5, <2>1, <2>3 DEF Knows, CreateKnows
  <2>5. Sole(b)'
    BY <2>2 DEF Sole, On
  <2>6. On(task'[t], b) /\ ~Watches(task'[t])
    BY <1>3, <1>6 DEF On, Watches
  <2>7. \A u \in Task : (On(task[u], b) => Knows(task[u], b))'
    BY <2>2, <2>4 DEF On
  <2>8. ((\A u \in Task : On(task[u], b) => Watches(task[u])) => Kept(b))'
    BY <2>6 DEF On, Watches
  <2>9. b \in used' /\ b \notin deleted'
    BY <1>2, <1>5, <1>6, <2>1 DEF Newborn
  <2> QED BY <2>5, <2>7, <2>8, <2>9 DEF GoodBottle
<1>7. CASE b # c
  <2>1. FsSame(b)
    BY <1>2, <1>5, <1>7 DEF FsSame, MakeBottleDir
  <2>2. ~Owns(task[t], b) \/ task[t].b = b
    BY DEF Owns
  <2>3. ~Owns(task[t], b)
    <3>1. Owns(task[t], b) => task[t].pc # "mkdir"
      BY OwnerPlace
    <3> QED BY <1>1, <3>1
  <2>4. TasksSame(b)
    BY <1>3, <1>4, <1>7, <2>3 DEF TasksSame, Owns, On
  <2> QED BY <2>1, <2>4, Frame
<1> QED BY <1>6, <1>7

-----------------------------------------------------------------------------
(* The pool and the daemon's end.                                            *)

(* A write under way belongs to a bottle in order.                           *)
LEMMA InFlight ==
    ASSUME TypeOK, NEW b \in Bottle, GoodBottle(b), Writes(b) # {}
    PROVE  /\ Flying(b) /\ b \in used
           /\ \A u \in Task : Owns(task[u], b) =>
                \/ task[u].op = "apply" /\ task[u].pc = "read"
                \/ task[u].op = "delete"
<1>1. ASSUME NEW u \in Task, Owns(task[u], b)
      PROVE  \/ task[u].op = "apply" /\ task[u].pc = "read"
             \/ task[u].op = "delete"
  <2>1. Knows(task[u], b)
    BY <1>1, OwnerKept
  <2>2. CASE task[u].op = "create"
    BY <2>1, <2>2 DEF Knows, CreateKnows, Bare, Emptied
  <2>3. CASE task[u].op = "apply"
    <3>1. task[u].pc \in {"read", "steps", "spawn", "wine", "copy", "open", "write"}
      BY <2>3 DEF TypeOK, WellPlaced, PlacesOf
    <3> QED BY <2>1, <2>3, <3>1 DEF Knows, ApplyKnows, Holds, Emptied
  <2> QED BY <1>1, <2>2, <2>3 DEF Owns
<1>2. Flying(b)
  <2>1. CASE \A u \in Task : On(task[u], b) => Watches(task[u])
    BY <2>1 DEF GoodBottle, Kept, Holds, Gone, Marred, Bare, Emptied
  <2>2. ASSUME NEW u \in Task, On(task[u], b), ~Watches(task[u]) PROVE Flying(b)
    <3>1. Owns(task[u], b)
      BY <2>2 DEF On, Owns, Watches
    <3>2. task[u].op = "delete" /\ task[u].pc = "unlink" /\ Knows(task[u], b)
      <4>1. task[u].op = "delete" => task[u].pc \in {"check", "scan", "unlink"}
        BY DEF TypeOK, WellPlaced, PlacesOf
      <4> QED BY <1>1, <2>2, <3>1, <4>1, OwnerKept DEF Watches
    <3> QED BY <3>2 DEF Knows, DeleteKnows, Bare, Holds, Marred, Emptied
  <2> QED BY <2>1, <2>2
<1> QED BY <1>1, <1>2 DEF GoodBottle, Gone

(* It lands in an empty file, whole.                                         *)
LEMMA LandKeeps ==
    ASSUME TypeOK, LandWrite, NEW b \in Bottle, GoodBottle(b)
    PROVE  GoodBottle(b)'
<1>1. PICK w \in pend : /\ meta' = [meta EXCEPT ![w.b] = Land(@, w.rec)]
                        /\ pend' = pend \ {w}
  BY DEF LandWrite
<1>2. UNCHANGED <<dir, prefix, task, used, known, applied, deleted, faulted>>
  BY DEF LandWrite, clients, acks, causes
<1>3. Applied(b)' = Applied(b) /\ (Newborn(b) => Newborn(b)')
  BY <1>2 DEF Applied, Newborn
<1>4. CASE w.b = b
  <2>1. Writes(b) # {} /\ w \in Writes(b) /\ w.rec \in Record
    BY <1>1, <1>4 DEF Writes, TypeOK
  <2>2. /\ Flying(b) /\ b \in used
        /\ \A u \in Task : Owns(task[u], b) =>
             \/ task[u].op = "apply" /\ task[u].pc = "read"
             \/ task[u].op = "delete"
    BY <2>1, InFlight
  <2>3. /\ b \in dir /\ meta[b].state = "empty" /\ meta[b].len = 0
        /\ Writes(b) = {w} /\ w.rec.by = Applied(b)
    BY <2>1, <2>2 DEF Flying
  <2>4. meta'[b].state = "whole" /\ meta'[b].rec = w.rec
    <3>1. Size(w.rec) \in Nat
      <4>1. IsFiniteSet({k \in Key : w.rec.env[k] # Unset})
        BY FS_Subset, FileAssumption
      <4> QED BY <4>1, FS_CardinalityType DEF Size
    <3>2. meta'[b] = Land(meta[b], w.rec)
      BY <1>1, <1>4 DEF TypeOK
    <3> QED BY <2>3, <3>1, <3>2 DEF Land
  <2>5. Holds(b)'
    <3>1. Writes(b)' = {}
      BY <1>1, <2>3 DEF Writes
    <3> QED BY <1>2, <1>3, <2>3, <2>4, <3>1 DEF Holds, Readable
  <2>6. Children(b)' = Children(b)
    BY <1>2, <2>3, <2>4 DEF Children
  <2>7. ASSUME NEW u \in Task, On(task[u], b) PROVE Knows(task[u], b)'
    <3>1. CASE ~Owns(task[u], b)
      BY <1>2, <2>7, <3>1 DEF On, Owns, Knows
    <3>2. CASE Owns(task[u], b)
      <4>1. Knows(task[u], b)
        BY <3>2, OwnerKept
      <4> QED BY <1>2, <2>2, <2>5, <2>6, <3>2, <4>1 DEF Knows, ApplyKnows, DeleteKnows
    <3> QED BY <3>1, <3>2
  <2>8. Sole(b)'
    <3>1. Sole(b)
      BY DEF GoodBottle
    <3> QED BY <1>2, <3>1 DEF Sole, On
  <2>9. Kept(b)' /\ b \in used' /\ b \notin deleted'
    BY <1>2, <2>2, <2>3, <2>5, Undeleted DEF Kept
  <2>10. \A u \in Task : (On(task[u], b) => Knows(task[u], b))'
    BY <1>2, <2>7 DEF On
  <2> QED BY <2>8, <2>9, <2>10 DEF GoodBottle
<1>5. CASE w.b # b
  <2>1. FsSame(b)
    BY <1>1, <1>2, <1>3, <1>5 DEF FsSame, Writes, TypeOK
  <2>2. TasksSame(b)
    BY <1>2 DEF TasksSame
  <2> QED BY <2>1, <2>2, Frame
<1> QED BY <1>4, <1>5

(* A write that fails leaves the file empty, and the bottle marked.          *)
LEMMA LostKeeps ==
    ASSUME TypeOK, LostWrite, NEW b \in Bottle, GoodBottle(b)
    PROVE  GoodBottle(b)'
<1>1. PICK w \in pend : pend' = pend \ {w} /\ faulted' = faulted \cup {w.b}
  BY DEF LostWrite
<1>2. UNCHANGED <<dir, prefix, meta, task, used, known, applied, deleted>>
  BY DEF LostWrite, clients, acks
<1>3. CASE w.b = b
  <2>1. Writes(b) # {} /\ w \in Writes(b)
    BY <1>1, <1>3 DEF Writes
  <2>2. /\ Flying(b) /\ b \in used
        /\ \A u \in Task : Owns(task[u], b) =>
             \/ task[u].op = "apply" /\ task[u].pc = "read"
             \/ task[u].op = "delete"
    BY <2>1, InFlight
  <2>3. Writes(b)' = {}
    BY <1>1, <2>1, <2>2 DEF Flying, Writes
  <2>4. Marred(b)' /\ Kept(b)'
    BY <1>1, <1>2, <1>3, <2>2, <2>3 DEF Marred, Emptied, Flying, Kept
  <2>5. Children(b)' = Children(b)
    BY <1>2 DEF Children
  <2>6. ASSUME NEW u \in Task, On(task[u], b) PROVE Knows(task[u], b)'
    <3>1. CASE ~Owns(task[u], b)
      BY <1>2, <2>6, <3>1 DEF On, Owns, Knows
    <3>2. CASE Owns(task[u], b)
      <4>1. Knows(task[u], b)
        BY <3>2, OwnerKept
      <4> QED BY <1>2, <2>2, <2>4, <2>5, <3>2, <4>1 DEF Knows, ApplyKnows, DeleteKnows
    <3> QED BY <3>1, <3>2
  <2>7. Sole(b)'
    <3>1. Sole(b)
      BY DEF GoodBottle
    <3> QED BY <1>2, <3>1 DEF Sole, On
  <2>8. b \in used' /\ b \notin deleted'
    BY <1>2, <2>2, Undeleted DEF Flying
  <2>9. \A u \in Task : (On(task[u], b) => Knows(task[u], b))'
    BY <1>2, <2>6 DEF On
  <2> QED BY <2>4, <2>7, <2>8, <2>9 DEF GoodBottle
<1>4. CASE w.b # b
  <2>1. FsSame(b)
    BY <1>1, <1>2, <1>4 DEF FsSame, Writes, Applied, Newborn
  <2>2. TasksSame(b)
    BY <1>2 DEF TasksSame
  <2> QED BY <2>1, <2>2, Frame
<1> QED BY <1>3, <1>4

(* A crash spares the bottles nobody was changing, and marks the others.     *)
LEMMA CrashKeeps ==
    ASSUME TypeOK, Crash, NEW b \in Bottle, GoodBottle(b)
    PROVE  GoodBottle(b)'
<1>1. /\ UNCHANGED <<dir, prefix, meta, used, known, applied, deleted>> /\ pend' = {}
      /\ faulted' = faulted \cup Busy /\ \A u \in Task : task'[u] = Idle
  BY DEF Crash, clients, acks
<1>2. CASE b \notin Busy
  <2>1. Writes(b) = {} /\ \A u \in Task : ~Owns(task[u], b)
    BY <1>2, ServiceAssumption DEF Busy, Mutating, Owns, Writes
  <2>2. FsSame(b)
    BY <1>1, <2>1 DEF FsSame, Writes, Applied, Newborn, Idle
  <2>3. TasksSame(b)
    BY <1>1, <2>1 DEF TasksSame, Owns, On, Idle
  <2> QED BY <2>2, <2>3, Frame
<1>3. CASE b \in Busy
  <2>1. b \in faulted' /\ Writes(b)' = {} /\ Applied(b)' = Applied(b)
    BY <1>1, <1>3 DEF Writes, Applied
  <2>2. \A u \in Task : ~On(task'[u], b)
    BY <1>1 DEF Idle, On
  <2>3. /\ Holds(b) => Holds(b)'
        /\ Flying(b) => Emptied(b)'
        /\ Gone(b) => Gone(b)'
        /\ Bare(b) => Bare(b)'
        /\ Emptied(b) => Emptied(b)'
    BY <1>1, <2>1 DEF Holds, Flying, Gone, Bare, Emptied, Readable
  <2>4. Kept(b)'
    BY <2>1, <2>3, AnyState DEF Kept, Marred
  <2>5. b \notin used' => Newborn(b)'
    BY <1>1, <2>1 DEF GoodBottle, Newborn, Idle
  <2>6. (b \in deleted' \/ b \notin used') => Gone(b)'
    BY <1>1, <2>3 DEF GoodBottle
  <2>7. Sole(b)'
    BY <2>2 DEF Sole, On
  <2>8. \A u \in Task : (~On(task[u], b))'
    BY <2>2 DEF On
  <2> QED BY <2>4, <2>5, <2>6, <2>7, <2>8 DEF GoodBottle
<1> QED BY <1>2, <1>3

-----------------------------------------------------------------------------
(* Requests begin.                                                           *)

LEMMA StartKeeps ==
    ASSUME TypeOK, NEW t \in Task, StartCreate(t) \/ StartList(t),
           NEW b \in Bottle, GoodBottle(b)
    PROVE  GoodBottle(b)'
<1>1. /\ UNCHANGED <<dir, prefix, meta, pend, used, known, applied, deleted, faulted>>
      /\ task[t].op = "none" /\ \A u \in Task \ {t} : task'[u] = task[u]
  BY DEF StartCreate, StartList, Accept, fs, clients, acks, TypeOK
<1>2. task'[t].b = None /\ task'[t].seen = {}
  BY DEF StartCreate, StartList, Idle, TypeOK
<1>3. FsSame(b)
  BY <1>1, <1>2 DEF FsSame, Writes, Applied, Newborn
<1>4. TasksSame(b)
  BY <1>1, <1>2, ServiceAssumption DEF TasksSame, Owns, On
<1> QED BY <1>3, <1>4, Frame

(* A request that conflicts with another marks the bottle.  One that does    *)
(* not is a run of a program, or finds only runs of programs beside it.      *)
LEMMA StartOnKeeps ==
    ASSUME TypeOK, NEW t \in Task, NEW o, NEW loc, NEW c \in Bottle, NEW r,
           StartOn(t, o, loc, c, r),
           <<o, loc>> \in {<<"delete", "check">>, <<"run", "read">>, <<"apply", "read">>},
           NEW b \in Bottle, GoodBottle(b), b \notin raced'
    PROVE  GoodBottle(b)'
<1>1. /\ UNCHANGED <<dir, prefix, meta, pend, used, known, applied, deleted, faulted>>
      /\ task[t].op = "none" /\ c \in known
  BY DEF StartOn, Accept, fs, clients, acks
<1>2. /\ task'[t].op = o /\ task'[t].pc = loc /\ task'[t].b = c
      /\ ~task'[t].orphan /\ task'[t].seen = {}
  BY DEF StartOn, Idle, Noting, TypeOK
<1>3. ASSUME NEW u \in Task, u # t
      PROVE  /\ task'[u] = task[u] \/ task[u].op = "list"
             /\ task'[u].b = task[u].b /\ task'[u].op = task[u].op
             /\ task'[u].seen = task[u].seen
  <2>1. task[u] \in TaskState
    BY DEF TypeOK
  <2> QED BY <1>3, <2>1 DEF StartOn, Noting, TaskState
<1>4. FsSame(b)
  BY <1>1, <1>2, <1>3 DEF FsSame, Writes, Applied, Newborn
<1>5. CASE b = c
  <2>1. ~Newborn(b) /\ b \in used
    BY <1>1, <1>5 DEF Newborn, GoodBottle
  <2>2. ASSUME NEW u \in Task, u # t, On(task'[u], b)
        PROVE  /\ On(task[u], b) /\ task'[u] = task[u] /\ task[u].op # "create"
               /\ ~Conflict(o, task[u].op) /\ Knows(task[u], b)
    <3>1. On(task[u], b) /\ task'[u] = task[u]
      BY <1>3, <2>2 DEF On
    <3>2. Knows(task[u], b)
      BY <3>1 DEF GoodBottle
    <3>3. task[u].op # "create"
      BY <2>1, <3>2 DEF Knows, CreateKnows
    <3>4. ~Conflict(o, task[u].op)
      BY <1>5, <3>1 DEF StartOn, On
    <3> QED BY <3>1, <3>2, <3>3, <3>4
  <2>3. Sole(b)'
    <3> SUFFICES ASSUME NEW v \in Task, NEW u \in Task, v # u,
                        On(task'[v], b), On(task'[u], b)
                 PROVE  task'[v].op # "create" /\ ~Conflict(task'[v].op, task'[u].op)
      BY DEF Sole, On
    <3>1. CASE v = t
      BY <1>2, <2>2, <3>1
    <3>2. CASE u = t
      BY <1>2, <2>2, <3>2 DEF Conflict
    <3>3. CASE u # t /\ v # t
      BY <2>2, <3>3 DEF GoodBottle, Sole
    <3> QED BY <3>1, <3>2, <3>3
  <2>4. ASSUME NEW u \in Task, On(task'[u], b) PROVE Knows(task[u], b)'
    <3>1. CASE u = t
      BY <1>2, <3>1 DEF Knows, ApplyKnows, DeleteKnows
    <3>2. CASE u # t
      <4>1. task'[u] = task[u] /\ Knows(task[u], b) /\ task[u].op # "create"
        BY <2>2, <2>4, <3>2
      <4>2. Applied(b)' = Applied(b)
        BY <1>4 DEF FsSame
      <4> QED BY <1>4, <4>1, <4>2, FsKept DEF Knows, ApplyKnows, DeleteKnows
    <3> QED BY <3>1, <3>2
  <2>5. ASSUME \A u \in Task : On(task'[u], b) => Watches(task'[u]) PROVE Kept(b)'
    <3>1. ASSUME NEW u \in Task, On(task[u], b) PROVE Watches(task[u])
      <4>1. u # t
        BY <1>1, <3>1 DEF On
      <4>2. task'[u] = task[u]
        BY <1>3, <3>1, <4>1 DEF On
      <4> QED BY <2>5, <3>1, <4>2
    <3> QED BY <1>4, <3>1, FsKept DEF GoodBottle
  <2>6. \A u \in Task : (On(task[u], b) => Knows(task[u], b))'
    BY <2>4 DEF On
  <2>7. ((\A u \in Task : On(task[u], b) => Watches(task[u])) => Kept(b))'
    BY <2>5 DEF On, Watches
  <2>8. (b \in deleted => Gone(b))'
    BY <1>1, <1>4, FsKept DEF GoodBottle
  <2> QED BY <1>1, <2>1, <2>3, <2>6, <2>7, <2>8 DEF GoodBottle
<1>6. CASE b # c
  <2>1. TasksSame(b)
    BY <1>1, <1>2, <1>3, <1>6 DEF TasksSame, Owns, On
  <2> QED BY <1>4, <2>1, Frame
<1> QED BY <1>5, <1>6

LEMMA RestKeeps ==
    ASSUME UNCHANGED vars, NEW b \in Bottle, GoodBottle(b)
    PROVE  GoodBottle(b)'
<1>1. UNCHANGED <<dir, prefix, meta, pend, used, known, applied, deleted, faulted, task>>
  BY DEF vars, fs, clients, acks, causes
<1>2. FsSame(b) /\ TasksSame(b)
  BY <1>1 DEF FsSame, TasksSame, Writes, Applied, Newborn
<1> QED BY <1>2, Frame

-----------------------------------------------------------------------------
(* A creation has no file open before it has made the directory, and its     *)
(* record is new.                                                            *)

Clean(s) == s.pc = "mkdir" => ~s.orphan /\ s.rec.by = {}
CleanStart == \A t \in Task : Clean(task[t])

(* One task moves, to another location or on from a clean state.             *)
LEMMA CleanMove ==
    ASSUME CleanStart, NEW t \in Task, Clean(task'[t]),
           \A u \in Task \ {t} :
               /\ task'[u].pc = task[u].pc
               /\ \/ task'[u].orphan = task[u].orphan /\ task'[u].rec = task[u].rec
                  \/ task[u].pc # "mkdir"
    PROVE  CleanStart'
  BY DEF CleanStart, Clean

LEMMA CleanNoting ==
    ASSUME TypeOK, NEW b \in Bottle, NEW u \in Task
    PROVE  /\ Noting(b)[u] \in TaskState
           /\ Noting(b)[u].pc = task[u].pc /\ Noting(b)[u].orphan = task[u].orphan
           /\ Noting(b)[u].rec = task[u].rec
<1>1. task[u] \in TaskState
  BY DEF TypeOK
<1>2. Noting(b)[u] \in TaskState
  BY NotingType DEF TypeOK, TasksOK
<1> QED BY <1>1, <1>2 DEF Noting, TaskState

LEMMA CleanStep ==
    ASSUME TypeOK, CleanStart, [Next]_vars
    PROVE  CleanStart'
<1> DEFINE Alone(t) == /\ task'[t].pc # "mkdir"
                       /\ \A u \in Task \ {t} : task'[u] = task[u]
<1>1. ASSUME NEW t \in Task, Alone(t) PROVE CleanStart'
  BY <1>1, CleanMove DEF Clean
<1>2. ASSUME NEW t \in Task, Reply(t) PROVE Alone(t)
  BY <1>2 DEF Reply, Idle, TypeOK
<1>3. ASSUME NEW t \in Task, Start(t) PROVE CleanStart'
  <2>1. CASE StartCreate(t) \/ StartList(t)
    <3>1. \A u \in Task \ {t} : task'[u] = task[u]
      BY <2>1 DEF StartCreate, StartList, TypeOK
    <3>2. task'[t].pc = "mkdir" => task'[t] = [Idle EXCEPT !.op = "create", !.pc = "mkdir"]
      BY <2>1, ZenonT(40) DEF StartCreate, StartList, Idle, TypeOK
    <3>3. ~Idle.orphan /\ Idle.rec.by = {}
      BY DEF Idle, NewRecord
    <3>4. Clean([Idle EXCEPT !.op = "create", !.pc = "mkdir"])
      BY <3>3 DEF Clean, Idle
    <3> QED BY <3>1, <3>2, <3>4, CleanMove DEF Clean
  <2>2. ASSUME NEW o, NEW loc, loc # "mkdir", NEW b \in Bottle, NEW r, StartOn(t, o, loc, b, r)
        PROVE  CleanStart'
    <3>1. task'[t].pc = loc
      BY <2>2 DEF StartOn, Idle, Noting, TypeOK
    <3>2. \A u \in Task \ {t} : task'[u] = task[u] \/ task'[u] = Noting(b)[u]
      BY <2>2 DEF StartOn, TypeOK, Noting
    <3> QED BY <2>2, <3>1, <3>2, CleanNoting, CleanMove DEF Clean
  <2> QED BY <1>3, <2>1, <2>2 DEF Start, StartDelete, StartRun, StartApply
<1>4. ASSUME NEW t \in Task, Serve(t) PROVE CleanStart'
  <2> task \in [Task -> TaskState] /\ task[t] \in TaskState
    BY DEF TypeOK
  <2>1. CASE MakeBottleDir(t)
    <3>1. PICK b \in Bottle : task' = [Noting(b) EXCEPT ![t].pc = "mkprefix", ![t].b = b]
      BY <2>1 DEF MakeBottleDir
    <3>2. /\ task'[t].pc = "mkprefix"
          /\ \A u \in Task \ {t} : task'[u] = Noting(b)[u]
      BY <3>1, CleanNoting DEF Noting, TaskState
    <3> QED BY <3>2, CleanNoting, CleanMove DEF Clean
  <2>2. CASE UnlinkMeta(t)
    <3>1. task'[t].pc = task[t].pc /\ task[t].pc = "unlink"
      BY <2>2 DEF UnlinkMeta, TaskState
    <3>2. ASSUME NEW u \in Task, u # t
          PROVE  /\ task'[u].pc = task[u].pc
                 /\ \/ task'[u].orphan = task[u].orphan /\ task'[u].rec = task[u].rec
                    \/ task[u].pc # "mkdir"
      <4>1. task[u] \in TaskState
        OBVIOUS
      <4> QED BY <2>2, <3>2, <4>1 DEF UnlinkMeta, TaskState
    <3> QED BY <3>1, <3>2, CleanMove DEF Clean
  <2>3. CASE MakePrefixDir(t) \/ OpenMeta(t)
    <3>1. Alone(t)
      BY <2>3 DEF MakePrefixDir, OpenMeta, Goto, TaskState
    <3> QED BY <1>1, <3>1
  <2>4. CASE RemoveCheck(t) \/ RemoveScan(t) \/ UnlinkPrefix(t) \/ UnlinkGone(t)
    <3>1. Alone(t)
      BY <1>2, <2>4 DEF RemoveCheck, RemoveScan, UnlinkPrefix, UnlinkGone, Goto, TaskState
    <3> QED BY <1>1, <3>1
  <2>5. CASE ReadRecord(t) \/ Spawn(t) \/ WineExit(t) \/ CopyFile(t) \/ UpdateRecord(t)
    <3>1. Alone(t)
      BY <1>2, <2>5 DEF ReadRecord, Spawn, WineExit, CopyFile, UpdateRecord, Goto, TaskState
    <3> QED BY <1>1, <3>1
  <2>6. CASE ApplyRun(t) \/ ApplyWait(t) \/ ApplyWineCfg(t) \/ ApplyEnv(t) \/ ApplyCopy(t)
    <3>1. Alone(t)
      BY <2>6 DEF ApplyRun, ApplyWait, ApplyWineCfg, ApplyEnv, ApplyCopy, AtStep, Goto,
                  TaskState
    <3> QED BY <1>1, <3>1
  <2>7. CASE ListDir(t) \/ ListProbe(t) \/ ListRead(t)
    <3>1. CASE ListDir(t)
      BY <1>1, <3>1 DEF ListDir, TaskState
    <3>2. CASE ListProbe(t)
      <4>1. PICK b : \/ task' = [task EXCEPT ![t].ids = @ \ {b}, ![t].b = b,
                                            ![t].pc = "readmeta"]
                     \/ task' = [task EXCEPT ![t].ids = @ \ {b}]
        BY <3>2 DEF ListProbe
      <4>2. Alone(t)
        BY <3>2, <4>1 DEF ListProbe, TaskState
      <4> QED BY <1>1, <4>2
    <3>3. CASE ListRead(t)
      BY <1>1, <3>3 DEF ListRead, TaskState
    <3> QED BY <2>7, <3>1, <3>2, <3>3
  <2>8. CASE \/ OpenMetaFails(t) \/ WriteMeta(t) \/ UnlinkPrefixBusy(t) \/ RemoveDir(t)
             \/ RemoveDirFails(t) \/ ApplyCopyMissing(t) \/ ListReadFails(t) \/ ListDone(t)
    <3>1. Reply(t)
      BY <2>8 DEF OpenMetaFails, WriteMeta, UnlinkPrefixBusy, RemoveDir, RemoveDirFails,
                  ApplyCopyMissing, ListReadFails, ListDone
    <3> QED BY <1>1, <1>2, <3>1
  <2> QED BY <1>4, <2>1, <2>2, <2>3, <2>4, <2>5, <2>6, <2>7, <2>8 DEF Serve
<1>5. ASSUME NEW t \in Task, IoError(t) PROVE CleanStart'
  BY <1>1, <1>2, <1>5 DEF IoError
<1>6. CASE LandWrite \/ LostWrite \/ Quiescent \/ UNCHANGED vars
  BY <1>6 DEF LandWrite, LostWrite, Quiescent, vars, CleanStart
<1>7. CASE Crash
  BY <1>7 DEF Crash, Idle, CleanStart, Clean
<1> QED BY <1>3, <1>4, <1>5, <1>6, <1>7 DEF Next

-----------------------------------------------------------------------------
(* Every bottle on which no requests conflicted is in order.                 *)

LEMMA GoodInit == Init => GoodInv /\ CleanStart
<1> SUFFICES ASSUME Init PROVE GoodInv /\ CleanStart
  OBVIOUS
<1>1. \A u \in Task : task[u] = Idle
  BY DEF Init
<1>2. ASSUME NEW b \in Bottle PROVE GoodBottle(b)
  <2>1. \A u \in Task : ~On(task[u], b)
    BY <1>1 DEF Idle, On
  <2>2. Newborn(b) /\ Gone(b)
    BY <1>1 DEF Init, Idle, Newborn, Applied, Gone, Writes, Absent
  <2> QED BY <2>1, <2>2 DEF GoodBottle, Sole, Kept
<1>3. CleanStart
  BY <1>1 DEF Idle, CleanStart, Clean
<1> QED BY <1>2, <1>3 DEF GoodInv

LEMMA GoodServe ==
    ASSUME TypeOK, CleanStart, NEW t \in Task, Serve(t), NEW b \in Bottle, GoodBottle(b)
    PROVE  GoodBottle(b)'
<1>1. CASE MakeBottleDir(t)
  BY <1>1, MakeDirKeeps DEF CleanStart, Clean, MakeBottleDir
<1>2. CASE MakePrefixDir(t)
  BY <1>2, MakePrefixKeeps
<1>3. CASE OpenMeta(t)
  BY <1>3, OpenKeeps
<1>4. CASE OpenMetaFails(t) \/ UnlinkPrefixBusy(t) \/ UnlinkGone(t) \/ RemoveDirFails(t)
  BY <1>4, DisturbedKeeps
<1>5. CASE WriteMeta(t)
  BY <1>5, WriteKeeps
<1>6. CASE RemoveCheck(t) \/ RemoveScan(t)
  BY <1>6, CheckKeeps
<1>7. CASE UnlinkMeta(t)
  BY <1>7, UnlinkMetaKeeps
<1>8. CASE UnlinkPrefix(t)
  BY <1>8, UnlinkPrefixKeeps
<1>9. CASE RemoveDir(t)
  BY <1>9, RemoveDirKeeps
<1>10. CASE ReadRecord(t)
  BY <1>10, ReadKeeps
<1>11. CASE Spawn(t)
  BY <1>11, SpawnKeeps
<1>12. CASE WineExit(t)
  BY <1>12, WineExitKeeps
<1>13. CASE \/ ApplyRun(t) \/ ApplyWait(t) \/ ApplyWineCfg(t) \/ ApplyEnv(t)
            \/ ApplyCopyMissing(t)
  BY <1>13, ApplyKeeps
<1>14. CASE ApplyCopy(t)
  BY <1>14, ApplyCopyKeeps
<1>15. CASE CopyFile(t)
  BY <1>15, CopyFileKeeps
<1>16. CASE UpdateRecord(t)
  BY <1>16, UpdateKeeps
<1>17. CASE ListDir(t) \/ ListProbe(t) \/ ListReadFails(t)
  BY <1>17, ListKeeps
<1>18. CASE ListRead(t) \/ ListDone(t)
  BY <1>18, ListTellsKeeps
<1> QED BY <1>1, <1>2, <1>3, <1>4, <1>5, <1>6, <1>7, <1>8, <1>9, <1>10, <1>11, <1>12,
           <1>13, <1>14, <1>15, <1>16, <1>17, <1>18 DEF Serve

(* A bottle once disturbed stays marked.                                     *)
LEMMA MarksStay ==
    ASSUME [Next]_vars
    PROVE  raced \subseteq raced' /\ faulted \subseteq faulted'
<1>1. ASSUME NEW t \in Task, Start(t) PROVE raced \subseteq raced' /\ faulted \subseteq faulted'
  BY <1>1 DEF Start, StartCreate, StartList, StartDelete, StartRun, StartApply, StartOn,
              Accept
<1>2. ASSUME NEW t \in Task, Serve(t) PROVE UNCHANGED causes
  <2>1. CASE \/ MakeBottleDir(t) \/ MakePrefixDir(t) \/ OpenMeta(t) \/ OpenMetaFails(t)
             \/ WriteMeta(t)
    BY <2>1 DEF MakeBottleDir, MakePrefixDir, OpenMeta, OpenMetaFails, WriteMeta
  <2>2. CASE \/ RemoveCheck(t) \/ RemoveScan(t) \/ UnlinkMeta(t) \/ UnlinkPrefix(t)
             \/ UnlinkPrefixBusy(t) \/ UnlinkGone(t) \/ RemoveDir(t) \/ RemoveDirFails(t)
    BY <2>2 DEF RemoveCheck, RemoveScan, UnlinkMeta, UnlinkPrefix, UnlinkPrefixBusy,
                UnlinkGone, RemoveDir, RemoveDirFails
  <2>3. CASE \/ ReadRecord(t) \/ Spawn(t) \/ WineExit(t)
             \/ ApplyRun(t) \/ ApplyWait(t) \/ ApplyWineCfg(t) \/ ApplyEnv(t)
             \/ ApplyCopy(t) \/ ApplyCopyMissing(t) \/ CopyFile(t) \/ UpdateRecord(t)
    BY <2>3 DEF ReadRecord, Spawn, WineExit, ApplyRun, ApplyWait, ApplyWineCfg, ApplyEnv,
                ApplyCopy, ApplyCopyMissing, CopyFile, UpdateRecord
  <2>4. CASE ListDir(t) \/ ListProbe(t) \/ ListRead(t) \/ ListReadFails(t) \/ ListDone(t)
    BY <2>4 DEF ListDir, ListProbe, ListRead, ListReadFails, ListDone
  <2> QED BY <1>2, <2>1, <2>2, <2>3, <2>4 DEF Serve
<1>3. ASSUME NEW t \in Task, IoError(t) PROVE raced \subseteq raced' /\ faulted \subseteq faulted'
  BY <1>3 DEF IoError
<1>4. CASE LandWrite \/ LostWrite \/ Crash \/ Quiescent \/ UNCHANGED vars
  BY <1>4 DEF LandWrite, LostWrite, Crash, Quiescent, vars, causes
<1> QED BY <1>1, <1>2, <1>3, <1>4 DEF Next, causes

LEMMA GoodStep ==
    ASSUME TypeOK, CleanStart, GoodInv, [Next]_vars
    PROVE  GoodInv'
<1> SUFFICES ASSUME NEW b \in Bottle, b \notin raced' PROVE GoodBottle(b)'
  BY DEF GoodInv
<1>1. GoodBottle(b)
  BY MarksStay DEF GoodInv
<1>2. ASSUME NEW t \in Task, Start(t) PROVE GoodBottle(b)'
  <2>1. CASE StartCreate(t) \/ StartList(t)
    BY <1>1, <2>1, StartKeeps
  <2>2. CASE StartDelete(t)
    BY <1>1, <2>2, StartOnKeeps DEF StartDelete
  <2>3. CASE StartRun(t)
    BY <1>1, <2>3, StartOnKeeps DEF StartRun
  <2>4. CASE StartApply(t)
    BY <1>1, <2>4, StartOnKeeps DEF StartApply
  <2> QED BY <1>2, <2>1, <2>2, <2>3, <2>4 DEF Start
<1>3. ASSUME NEW t \in Task, Serve(t) PROVE GoodBottle(b)'
  BY <1>1, <1>3, GoodServe
<1>4. ASSUME NEW t \in Task, IoError(t) PROVE GoodBottle(b)'
  BY <1>1, <1>4, ErrorKeeps
<1>5. CASE LandWrite
  BY <1>1, <1>5, LandKeeps
<1>6. CASE LostWrite
  BY <1>1, <1>6, LostKeeps
<1>7. CASE Crash
  BY <1>1, <1>7, CrashKeeps
<1>8. CASE Quiescent \/ UNCHANGED vars
  BY <1>1, <1>8, RestKeeps DEF Quiescent
<1> QED BY <1>2, <1>3, <1>4, <1>5, <1>6, <1>7, <1>8 DEF Next

LEMMA GoodInvariant == Spec => []GoodInv
<1>1. TypeOK /\ (GoodInv /\ CleanStart) /\ [Next]_vars => (GoodInv /\ CleanStart)'
  BY GoodStep, CleanStep
<1> QED BY <1>1, GoodInit, TypeCorrect, PTL DEF Spec

(* A settled bottle in order is gone, or holds its record.                   *)
LEMMA SettledHolds ==
    ASSUME TypeOK, GoodInv, NEW b \in Bottle, b \in dir, Settled(b),
           b \notin raced \cup faulted
    PROVE  Holds(b)
<1>1. Writes(b) = {} /\ \A u \in Task : ~Owns(task[u], b)
  BY ServiceAssumption DEF Settled, Busy, Mutating, Owns, Writes
<1>2. \A u \in Task : On(task[u], b) => Watches(task[u])
  BY <1>1 DEF On, Owns, Watches
<1>3. Kept(b)
  BY <1>2 DEF GoodInv, GoodBottle
<1>4. ~Flying(b) /\ ~Gone(b) /\ ~Marred(b)
  BY <1>1 DEF Flying, Gone, Marred
<1> QED BY <1>3, <1>4 DEF Kept

(* The metadata of a bottle that nobody is changing can be read, unless       *)
(* requests conflicted on the bottle or an error or a crash struck it:        *)
(* BottleStore::create and update_record, whose write lands after the reply,  *)
(* interleaved with every other handler.                                      *)
THEOREM ReadableKept == Spec => []UnreadableHasCause
<1>1. TypeOK /\ GoodInv => UnreadableHasCause
  <2> SUFFICES ASSUME TypeOK, GoodInv, NEW b \in dir, Settled(b), b \notin raced \cup faulted
               PROVE  Readable(meta[b])
    BY DEF UnreadableHasCause
  <2>1. b \in Bottle
    BY DEF TypeOK
  <2> QED BY <2>1, SettledHolds DEF Holds
<1> QED BY <1>1, TypeCorrect, GoodInvariant, PTL

(* No file holds the data of two writers where no requests conflicted:        *)
(* BottleStore::write_record always meets an empty file, also after an error  *)
(* or a crash, and with an earlier write still in the pool.                   *)
THEOREM NothingTorn == Spec => []TornHasCause
<1>1. TypeOK /\ GoodInv => TornHasCause
  <2> SUFFICES ASSUME TypeOK, GoodInv, NEW b \in Bottle, b \notin raced
               PROVE  meta[b].state # "torn"
    BY DEF TornHasCause
  <2>1. GoodBottle(b)
    BY DEF GoodInv
  <2> QED BY <2>1, AnyState DEF Kept, Holds, Flying, Gone, Marred, Bare, Emptied, Readable
<1> QED BY <1>1, TypeCorrect, GoodInvariant, PTL

(* A record that can be read holds exactly the recipes that                   *)
(* DaemonService::apply_recipe has acknowledged for its bottle, at every      *)
(* moment, whatever was in flight when the next one read it, and after any    *)
(* error or crash, as long as no requests conflicted on the bottle.           *)
THEOREM RecordsAcked == Spec => []RecordIsAcked
<1>1. TypeOK /\ GoodInv => RecordIsAcked
  <2> SUFFICES ASSUME TypeOK, GoodInv, NEW b \in Bottle, b \notin raced, Readable(meta[b])
               PROVE  meta[b].rec.by = Applied(b)
    BY DEF RecordIsAcked
  <2>1. GoodBottle(b)
    BY DEF GoodInv
  <2>2. Holds(b)
    BY <2>1, AnyState DEF Kept, Flying, Gone, Marred, Bare, Emptied, Readable
  <2> QED BY <2>2 DEF Holds
<1> QED BY <1>1, TypeCorrect, GoodInvariant, PTL

(* A bottle that BottleStore::remove has removed comes back only where a      *)
(* request overlapped with its removal, even when recipes copy files.         *)
THEOREM ResurrectionsCaused == Spec => []ResurrectionHasCause
<1>1. TypeOK /\ GoodInv => ResurrectionHasCause
  BY DEF ResurrectionHasCause, GoodInv, GoodBottle, Gone, TypeOK
<1> QED BY <1>1, TypeCorrect, GoodInvariant, PTL

-----------------------------------------------------------------------------
(* Listings.  Whatever is being changed while a listing goes on is on its    *)
(* list of changes.  Of the other bottles, those it has seen can be read, and *)
(* those that can be read it has seen or is going to see.                     *)

Finds(s) ==
    /\ Busy \subseteq s.hit
    /\ s.ids \subseteq dir \cup s.hit
    /\ s.pc = "readmeta" /\ s.b \notin s.hit => s.b \in dir /\ meta[s.b].state # "absent"
    /\ \A b \in Bottle \ s.hit :
          /\ b \in s.seen => b \in dir /\ Readable(meta[b])
          /\ s.pc \in {"probe", "readmeta"} /\ b \in dir /\ Readable(meta[b]) =>
               b \in s.ids \cup s.seen \/ (s.pc = "readmeta" /\ b = s.b)
ListInv == \A t \in Task : task[t].op = "list" => Finds(task[t])

(* Nothing happens to a bottle that nobody is changing or begins to change.  *)
Unmoved(C) == \A b \in Bottle \ (Busy \cup C) : meta'[b] = meta[b] /\ (b \in dir' <=> b \in dir)

(* Steps of others: the bottles in C begin to change, and the listing notes  *)
(* it.                                                                       *)
LEMMA OthersListed ==
    ASSUME TypeOK, ListInv, NEW C, Busy' \subseteq Busy \cup C, Unmoved(C),
           \A u \in Task : task'[u].op = "list" =>
               /\ task[u].op = "list" /\ task[u].hit \cup C \subseteq task'[u].hit
               /\ task'[u].pc = task[u].pc /\ task'[u].b = task[u].b
               /\ task'[u].ids = task[u].ids /\ task'[u].seen = task[u].seen
    PROVE  ListInv'
<1> SUFFICES ASSUME NEW u \in Task, task'[u].op = "list" PROVE Finds(task[u])'
  BY DEF ListInv
<1>1. /\ task[u].op = "list" /\ task[u].hit \cup C \subseteq task'[u].hit
      /\ task'[u].pc = task[u].pc /\ task'[u].b = task[u].b
      /\ task'[u].ids = task[u].ids /\ task'[u].seen = task[u].seen
      /\ task[u] \in TaskState
  BY DEF TypeOK
<1>2. Finds(task[u])
  BY <1>1 DEF ListInv
<1>3. Busy' \subseteq task'[u].hit
  BY <1>1, <1>2 DEF Finds
<1>4. ASSUME NEW b \in Bottle, b \notin task'[u].hit
      PROVE  b \notin task[u].hit /\ meta'[b] = meta[b] /\ (b \in dir' <=> b \in dir)
  BY <1>1, <1>2, <1>4 DEF Finds, Unmoved
<1>5. task'[u].ids \subseteq dir' \cup task'[u].hit
  BY <1>1, <1>2, <1>4 DEF Finds, TaskState
<1>6. task'[u].pc = "readmeta" /\ task'[u].b \notin task'[u].hit =>
        task'[u].b \in dir' /\ meta'[task'[u].b].state # "absent"
  <2>1. task[u].pc = "readmeta" => task[u].b \in Bottle
    BY DEF TypeOK, WellPlaced
  <2> QED BY <1>1, <1>2, <1>4, <2>1 DEF Finds
<1>7. ASSUME NEW b \in Bottle, b \notin task'[u].hit
      PROVE  /\ b \in task'[u].seen => b \in dir' /\ Readable(meta'[b])
             /\ task'[u].pc \in {"probe", "readmeta"} /\ b \in dir' /\ Readable(meta'[b]) =>
                  \/ b \in task'[u].ids \cup task'[u].seen
                  \/ task'[u].pc = "readmeta" /\ b = task'[u].b
  BY <1>1, <1>2, <1>4, <1>7 DEF Finds
<1> QED BY <1>3, <1>5, <1>6, <1>7 DEF Finds, Readable

(* A step of the listing leaves everything else alone.                       *)
LEMMA OwnListed ==
    ASSUME TypeOK, ListInv, NEW t \in Task, UNCHANGED fs,
           task[t].op \in {"list", "none"}, NEW x, task' = [task EXCEPT ![t] = x],
           x.op = "list" => Finds(x), x.op \in {"list", "none"}
    PROVE  ListInv'
<1>1. task'[t] = x /\ \A u \in Task \ {t} : task'[u] = task[u]
  BY DEF TypeOK
<1>2. Busy' = Busy
  BY <1>1 DEF Busy, Mutating, fs
<1> SUFFICES ASSUME NEW u \in Task, task'[u].op = "list" PROVE Finds(task[u])'
  BY DEF ListInv
<1>3. Finds(task'[u])
  BY <1>1 DEF ListInv
<1> QED BY <1>2, <1>3 DEF Finds, fs

LEMMA IdleListed ==
    ASSUME TypeOK, ListInv, NEW t \in Task, UNCHANGED fs,
           task[t].op = "list", Reply(t)
    PROVE  ListInv'
<1>1. Idle.op = "none"
  BY DEF Idle
<1> QED BY <1>1, OwnListed DEF Reply

LEMMA ListMoves ==
    ASSUME TypeOK, ListInv, NEW t \in Task,
           ListDir(t) \/ ListProbe(t) \/ ListRead(t) \/ ListReadFails(t) \/ ListDone(t)
    PROVE  ListInv'
<1>1. task[t] \in TaskState /\ task[t].op = "list" /\ UNCHANGED fs
  BY OpOf DEF ListDir, ListProbe, ListRead, ListReadFails, ListDone, TypeOK, TasksOK
<1>2. Finds(task[t])
  BY <1>1 DEF ListInv
<1> DEFINE Sees(x) == /\ task' = [task EXCEPT ![t] = x]
                      /\ x.op = "list" /\ x.hit = task[t].hit
<1>3. CASE ListDir(t)
  <2> DEFINE x == [task[t] EXCEPT !.pc = "probe", !.ids = dir]
  <2>1. Sees(x) /\ x.pc = "probe" /\ x.ids = dir /\ x.seen = task[t].seen
    BY <1>1, <1>3 DEF ListDir, TaskState
  <2> HIDE DEF x
  <2>2. Finds(x)
    BY <1>2, <2>1 DEF Finds
  <2> QED BY <1>1, <2>1, <2>2, OwnListed
<1>4. CASE ListProbe(t)
  <2>1. PICK c \in task[t].ids :
          IF meta[c].state # "absent"
            THEN task' = [task EXCEPT ![t].ids = @ \ {c}, ![t].b = c, ![t].pc = "readmeta"]
            ELSE task' = [task EXCEPT ![t].ids = @ \ {c}]
    BY <1>4 DEF ListProbe
  <2>2. task[t].pc = "probe"
    BY <1>4 DEF ListProbe
  <2>3. CASE meta[c].state # "absent"
    <3> DEFINE x == [task[t] EXCEPT !.ids = @ \ {c}, !.b = c, !.pc = "readmeta"]
    <3>1. /\ Sees(x) /\ x.pc = "readmeta" /\ x.ids = task[t].ids \ {c} /\ x.b = c
          /\ x.seen = task[t].seen
      BY <1>1, <2>1, <2>3 DEF TaskState
    <3> HIDE DEF x
    <3>2. Finds(x)
      BY <1>2, <2>2, <2>3, <3>1 DEF Finds
    <3> QED BY <1>1, <3>1, <3>2, OwnListed
  <2>4. CASE meta[c].state = "absent"
    <3> DEFINE x == [task[t] EXCEPT !.ids = @ \ {c}]
    <3>1. /\ Sees(x) /\ x.pc = "probe" /\ x.ids = task[t].ids \ {c}
          /\ x.seen = task[t].seen
      BY <1>1, <2>1, <2>2, <2>4 DEF TaskState
    <3> HIDE DEF x
    <3>2. Finds(x)
      BY <1>2, <2>2, <2>4, <3>1 DEF Finds, Readable
    <3> QED BY <1>1, <3>1, <3>2, OwnListed
  <2> QED BY <2>3, <2>4
<1>5. CASE ListRead(t)
  <2> DEFINE x == [task[t] EXCEPT !.pc = "probe", !.b = None,
                     !.seen = IF Readable(meta[task[t].b]) THEN @ \cup {task[t].b} ELSE @]
  <2>1. /\ Sees(x) /\ x.pc = "probe" /\ x.ids = task[t].ids
        /\ x.seen = IF Readable(meta[task[t].b]) THEN task[t].seen \cup {task[t].b}
                                                 ELSE task[t].seen
    BY <1>1, <1>5 DEF ListRead, TaskState
  <2> HIDE DEF x
  <2>2. task[t].pc = "readmeta"
    BY <1>5 DEF ListRead
  <2>3. Finds(x)
    BY <1>2, <2>1, <2>2 DEF Finds
  <2> QED BY <1>1, <2>1, <2>3, OwnListed
<1>6. CASE ListReadFails(t) \/ ListDone(t)
  BY <1>1, <1>6, IdleListed DEF ListReadFails, ListDone
<1> QED BY <1>3, <1>4, <1>5, <1>6

Changers == {"create", "delete", "apply"}

(* A task at work on a bottle that is being changed already.                 *)
LEMMA WorkListed ==
    ASSUME TypeOK, ListInv, NEW t \in Task, task'[t].op # "list",
           task'[t].op \in Changers => task[t].op \in Changers /\ task'[t].b = task[t].b,
           \A u \in Task \ {t} : task'[u] = task[u],
           \A w \in pend' : w.b \in Busy,
           Unmoved({})
    PROVE  ListInv'
<1>1. Busy' \subseteq Busy
  BY DEF Busy, Mutating, Changers
<1> DEFINE C == {}
<1>2. Busy' \subseteq Busy \cup C
  BY <1>1
<1>3. Unmoved(C)
  OBVIOUS
<1>4. ASSUME NEW u \in Task, task'[u].op = "list"
      PROVE  /\ task[u].op = "list" /\ task[u].hit \cup C \subseteq task'[u].hit
             /\ task'[u].pc = task[u].pc /\ task'[u].b = task[u].b
             /\ task'[u].ids = task[u].ids /\ task'[u].seen = task[u].seen
  BY <1>4
<1> HIDE DEF C
<1> QED BY <1>2, <1>3, <1>4, OthersListed

LEMMA PendBusy == ASSUME TypeOK, NEW w \in pend PROVE w.b \in Busy
  BY DEF Busy, TypeOK

(* A step that moves one task, in the store as it is.                        *)
LEMMA MoveListed ==
    ASSUME TypeOK, ListInv, NEW t \in Task, UNCHANGED fs,
           \A u \in Task \ {t} : task'[u] = task[u],
           \/ task'[t] = Idle
           \/ task[t].op # "list" /\ task'[t].op = task[t].op /\ task'[t].b = task[t].b
    PROVE  ListInv'
<1>1. task'[t].op # "list" /\
      (task'[t].op \in Changers => task[t].op \in Changers /\ task'[t].b = task[t].b)
  BY DEF Idle, Changers
<1> QED BY <1>1, PendBusy, WorkListed DEF fs, Unmoved

LEMMA LocalListed ==
    ASSUME TypeOK, ListInv, NEW t \in Task,
           \/ OpenMetaFails(t) \/ RemoveCheck(t) \/ RemoveScan(t) \/ UnlinkPrefixBusy(t)
           \/ UnlinkGone(t) \/ RemoveDirFails(t) \/ ReadRecord(t) \/ Spawn(t) \/ WineExit(t)
           \/ ApplyRun(t) \/ ApplyWait(t) \/ ApplyWineCfg(t) \/ ApplyEnv(t)
           \/ ApplyCopyMissing(t) \/ CopyFile(t) \/ UpdateRecord(t)
    PROVE  ListInv'
<1> DEFINE Moves == \/ task'[t] = Idle
                    \/ task'[t].op = task[t].op /\ task'[t].b = task[t].b
           Others == \A u \in Task \ {t} : task'[u] = task[u]
<1>1. task \in [Task -> TaskState] /\ task[t] \in TaskState
  BY DEF TypeOK
<1>2. Reply(t) => Moves /\ Others
  BY <1>1 DEF Reply
<1>3. CASE OpenMetaFails(t) \/ RemoveCheck(t) \/ RemoveScan(t) \/ UnlinkPrefixBusy(t)
  <2>1. Moves /\ Others /\ UNCHANGED fs /\ task[t].op # "list"
    BY <1>1, <1>2, <1>3, OpOf DEF OpenMetaFails, RemoveCheck, RemoveScan, UnlinkPrefixBusy,
       Goto, TypeOK, TasksOK, TaskState
  <2> QED BY <2>1, MoveListed
<1>4. CASE UnlinkGone(t)
  <2>1. UNCHANGED fs /\ task[t].op # "list"
    BY <1>4, OpOf DEF UnlinkGone, TypeOK, TasksOK
  <2>2. PICK k : task' = [task EXCEPT ![t].kids = @ \ {k}] \/ Reply(t)
    BY <1>4 DEF UnlinkGone
  <2>3. Moves /\ Others
    BY <1>1, <1>2, <2>2 DEF TaskState
  <2> QED BY <2>1, <2>3, MoveListed
<1>5. CASE RemoveDirFails(t) \/ ReadRecord(t) \/ Spawn(t) \/ WineExit(t)
  <2>1. Moves /\ Others /\ UNCHANGED fs /\ task[t].op # "list"
    BY <1>1, <1>2, <1>5, OpOf DEF RemoveDirFails, ReadRecord, Spawn, WineExit,
       Goto, TypeOK, TasksOK, TaskState
  <2> QED BY <2>1, MoveListed
<1>6. CASE ApplyRun(t) \/ ApplyWait(t) \/ ApplyWineCfg(t) \/ ApplyEnv(t)
  <2>1. Moves /\ Others /\ UNCHANGED fs /\ task[t].op # "list"
    BY <1>1, <1>2, <1>6, OpOf DEF ApplyRun, ApplyWait, ApplyWineCfg, ApplyEnv, AtStep,
       Goto, TypeOK, TasksOK, TaskState
  <2> QED BY <2>1, MoveListed
<1>7. CASE ApplyCopyMissing(t) \/ CopyFile(t) \/ UpdateRecord(t)
  <2>1. Moves /\ Others /\ UNCHANGED fs /\ task[t].op # "list"
    BY <1>1, <1>2, <1>7, OpOf DEF ApplyCopyMissing, CopyFile, UpdateRecord, AtStep,
       TypeOK, TasksOK, TaskState
  <2> QED BY <2>1, MoveListed
<1> QED BY <1>3, <1>4, <1>5, <1>6, <1>7

(* The steps that change the store change what is marked as changing.        *)
LEMMA ChangeListed ==
    ASSUME TypeOK, ListInv, NEW t \in Task,
           \/ MakePrefixDir(t) \/ OpenMeta(t) \/ WriteMeta(t) \/ UnlinkPrefix(t)
           \/ RemoveDir(t) \/ ApplyCopy(t)
    PROVE  ListInv'
<1>1. /\ task \in [Task -> TaskState] /\ task[t] \in TaskState
      /\ task[t].op \in Changers /\ task[t].b \in Bottle
  <2>1. task[t].op \in Changers
    BY OpOf DEF MakePrefixDir, OpenMeta, WriteMeta, UnlinkPrefix, RemoveDir, ApplyCopy, AtStep,
                TypeOK, TasksOK, Changers
  <2>2. task[t].b \in Bottle
    BY OpOf DEF MakePrefixDir, OpenMeta, WriteMeta, UnlinkPrefix, RemoveDir, ApplyCopy, AtStep,
                TypeOK, TasksOK, WellPlaced
  <2> QED BY <2>1, <2>2 DEF TypeOK
<1>2. task[t].b \in Busy
  BY <1>1, ServiceAssumption DEF Busy, Mutating, Changers
<1> DEFINE Moves == /\ \/ task'[t] = Idle
                       \/ task'[t].op = task[t].op /\ task'[t].b = task[t].b
                    /\ \A u \in Task \ {t} : task'[u] = task[u]
<1>3. Moves
  <2>1. CASE MakePrefixDir(t) \/ OpenMeta(t) \/ UnlinkPrefix(t) \/ ApplyCopy(t)
    BY <1>1, <2>1 DEF MakePrefixDir, OpenMeta, UnlinkPrefix, ApplyCopy, Goto, TaskState
  <2>2. CASE WriteMeta(t) \/ RemoveDir(t)
    BY <1>1, <2>2 DEF WriteMeta, RemoveDir, Reply
  <2> QED BY <2>1, <2>2
<1>4. task'[t].op # "list" /\
      (task'[t].op \in Changers => task[t].op \in Changers /\ task'[t].b = task[t].b)
  BY <1>1, <1>3 DEF Idle, Changers
<1>5. \A w \in pend' : w.b \in Busy
  <2>1. CASE WriteMeta(t)
    BY <1>2, <2>1, PendBusy DEF WriteMeta
  <2>2. CASE ~WriteMeta(t)
    BY <2>2, PendBusy DEF MakePrefixDir, OpenMeta, UnlinkPrefix, RemoveDir, ApplyCopy
  <2> QED BY <2>1, <2>2
<1>6. Unmoved({})
  BY <1>1, <1>2 DEF MakePrefixDir, OpenMeta, WriteMeta, UnlinkPrefix, RemoveDir, ApplyCopy, TypeOK,
     Unmoved
<1> QED BY <1>3, <1>4, <1>5, <1>6, WorkListed

(* Lists note a bottle that begins to change.                                *)
LEMMA NotingListed ==
    ASSUME TypeOK, NEW b \in Bottle, NEW u \in Task
    PROVE  /\ Noting(b)[u].op = task[u].op /\ Noting(b)[u].pc = task[u].pc
           /\ Noting(b)[u].b = task[u].b /\ Noting(b)[u].ids = task[u].ids
           /\ Noting(b)[u].seen = task[u].seen /\ task[u].hit \subseteq Noting(b)[u].hit
           /\ task[u].op = "list" => b \in Noting(b)[u].hit
<1>1. task[u] \in TaskState
  BY DEF TypeOK
<1> QED BY <1>1 DEF Noting, TaskState

LEMMA BirthListed ==
    ASSUME TypeOK, ListInv, NEW t \in Task, MakeBottleDir(t)
    PROVE  ListInv'
<1>1. task[t].op = "create"
  BY OpOf DEF MakeBottleDir, TypeOK, TasksOK
<1>2. PICK c \in Bottle :
        dir' = dir \cup {c} /\ task' = [Noting(c) EXCEPT ![t].pc = "mkprefix", ![t].b = c]
  BY DEF MakeBottleDir
<1>3. \A u \in Task \ {t} : task'[u] = Noting(c)[u]
  BY <1>2 DEF Noting
<1>4. task'[t].op = "create" /\ task'[t].b = c
  <2>1. Noting(c)[t] \in TaskState /\ Noting(c)[t].op = "create"
    BY <1>1, NotingListed, CleanNoting
  <2> QED BY <1>2, <2>1 DEF TaskState, Noting
<1>5. Busy' \subseteq Busy \cup {c}
  <2> SUFFICES ASSUME NEW b \in Bottle, b # c, b \in Busy' PROVE b \in Busy
    BY DEF Busy
  <2>1. CASE \E w \in pend' : w.b = b
    BY <2>1 DEF Busy, MakeBottleDir
  <2>2. ASSUME NEW u \in Task, task'[u].op \in Changers, task'[u].b # None, task'[u].b = b
        PROVE  b \in Busy
    <3>1. u # t
      BY <1>4, <2>2
    <3>2. task[u].op \in Changers /\ task[u].b # None /\ task[u].b = b
      BY <1>3, <2>2, <3>1, NotingListed
    <3> QED BY <3>2 DEF Busy, Mutating, Changers
  <2> QED BY <2>1, <2>2 DEF Busy, Mutating, Changers
<1>6. Unmoved({c})
  BY <1>2 DEF MakeBottleDir, Unmoved
<1>7. ASSUME NEW u \in Task, task'[u].op = "list"
      PROVE  /\ task[u].op = "list" /\ task[u].hit \cup {c} \subseteq task'[u].hit
             /\ task'[u].pc = task[u].pc /\ task'[u].b = task[u].b
             /\ task'[u].ids = task[u].ids /\ task'[u].seen = task[u].seen
  BY <1>3, <1>4, <1>7, NotingListed
<1> QED BY <1>5, <1>6, <1>7, OthersListed

LEMMA StartListed ==
    ASSUME TypeOK, ListInv, NEW t \in Task, Start(t)
    PROVE  ListInv'
<1>1. task[t].op = "none" /\ UNCHANGED fs
  BY DEF Start, StartCreate, StartList, StartDelete, StartRun, StartApply, StartOn, Accept
<1>2. CASE StartCreate(t)
  <2>1. /\ task'[t].op = "create" /\ task'[t].b = None
        /\ \A u \in Task \ {t} : task'[u] = task[u]
    BY <1>2 DEF StartCreate, Idle, TypeOK
  <2> DEFINE C == {}
  <2>2. Busy' \subseteq Busy \cup C
    BY <1>1, <2>1 DEF Busy, Mutating, fs
  <2>3. Unmoved(C)
    BY <1>1 DEF fs, Unmoved
  <2>4. ASSUME NEW u \in Task, task'[u].op = "list"
        PROVE  task'[u] = task[u] /\ task[u].hit \cup C \subseteq task'[u].hit
    BY <2>1, <2>4
  <2> HIDE DEF C
  <2> QED BY <2>2, <2>3, <2>4, OthersListed
<1>3. CASE StartList(t)
  <2> DEFINE x == [Idle EXCEPT !.op = "list", !.pc = "readdir", !.hit = Busy]
  <2>1. task' = [task EXCEPT ![t] = x]
    BY <1>3 DEF StartList
  <2>2. x.op = "list" /\ x.pc = "readdir" /\ x.hit = Busy /\ x.ids = {} /\ x.seen = {}
    BY DEF Idle
  <2> HIDE DEF x
  <2>3. Finds(x)
    BY <2>2 DEF Finds
  <2> QED BY <1>1, <2>1, <2>2, <2>3, OwnListed
<1>4. ASSUME NEW o, NEW loc, NEW c \in Bottle, NEW r, o \in {"delete", "run", "apply"},
             StartOn(t, o, loc, c, r)
      PROVE  ListInv'
  <2>1. task'[t].op = o /\ task'[t].b = c
    BY <1>4 DEF StartOn, Idle, Noting, TypeOK
  <2> DEFINE C == IF o = "run" THEN {} ELSE {c}
  <2>2. ASSUME NEW u \in Task, u # t
        PROVE  /\ task'[u].op = task[u].op /\ task'[u].pc = task[u].pc
               /\ task'[u].b = task[u].b /\ task'[u].ids = task[u].ids
               /\ task'[u].seen = task[u].seen
               /\ task[u].op = "list" => task[u].hit \cup C \subseteq task'[u].hit
    <3>1. task'[u] = IF o = "run" THEN task[u] ELSE Noting(c)[u]
      BY <1>4, <2>2 DEF StartOn, Noting, TypeOK
    <3> QED BY <3>1, NotingListed
  <2>3. Busy' \subseteq Busy \cup C
    <3> SUFFICES ASSUME NEW b \in Bottle, b \notin C, b \in Busy' PROVE b \in Busy
      BY DEF Busy
    <3>1. CASE \E w \in pend' : w.b = b
      BY <1>1, <3>1 DEF Busy, fs
    <3>2. ASSUME NEW u \in Task, task'[u].op \in Changers, task'[u].b # None, task'[u].b = b
          PROVE  b \in Busy
      <4>1. u # t
        BY <1>4, <2>1, <3>2 DEF Changers
      <4>2. task[u].op \in Changers /\ task[u].b # None /\ task[u].b = b
        BY <2>2, <3>2, <4>1
      <4> QED BY <4>2 DEF Busy, Mutating, Changers
    <3> QED BY <3>1, <3>2 DEF Busy, Mutating, Changers
  <2>4. ASSUME NEW u \in Task, task'[u].op = "list"
        PROVE  /\ task[u].op = "list" /\ task[u].hit \cup C \subseteq task'[u].hit
               /\ task'[u].pc = task[u].pc /\ task'[u].b = task[u].b
               /\ task'[u].ids = task[u].ids /\ task'[u].seen = task[u].seen
    <3>1. u # t
      BY <1>4, <2>1, <2>4
    <3> QED BY <2>2, <2>4, <3>1
  <2>5. Unmoved(C)
    BY <1>1 DEF fs, Unmoved
  <2> HIDE DEF C
  <2> QED BY <2>3, <2>4, <2>5, OthersListed
<1> QED BY <1>2, <1>3, <1>4 DEF Start, StartDelete, StartRun, StartApply

LEMMA UnlinkListed ==
    ASSUME TypeOK, ListInv, NEW t \in Task, UnlinkMeta(t)
    PROVE  ListInv'
<1>1. task[t].op = "delete" /\ task[t].b \in Busy
  <2>1. task[t].op = "delete" /\ task[t].b \in Bottle
    BY OpOf DEF UnlinkMeta, TypeOK, TasksOK, WellPlaced
  <2> QED BY <2>1, ServiceAssumption DEF Busy, Mutating
<1>2. ASSUME NEW u \in Task
      PROVE  /\ task'[u].op = task[u].op /\ task'[u].pc = task[u].pc
             /\ task'[u].b = task[u].b /\ task'[u].ids = task[u].ids
             /\ task'[u].seen = task[u].seen /\ task'[u].hit = task[u].hit
  <2>1. task[u] \in TaskState
    BY DEF TypeOK
  <2> QED BY <2>1 DEF UnlinkMeta, TaskState
<1> DEFINE C == {}
<1>3. Busy' \subseteq Busy \cup C
  BY <1>2 DEF Busy, Mutating, UnlinkMeta
<1>4. Unmoved(C)
  BY <1>1 DEF UnlinkMeta, TypeOK, Unmoved
<1>5. \A u \in Task : task[u].hit \cup C \subseteq task'[u].hit
  BY <1>2
<1> HIDE DEF C
<1> QED BY <1>2, <1>3, <1>4, <1>5, OthersListed

LEMMA PoolListed ==
    ASSUME TypeOK, ListInv, LandWrite \/ LostWrite
    PROVE  ListInv'
<1>1. UNCHANGED <<dir, task>> /\ pend' \subseteq pend
  BY DEF LandWrite, LostWrite
<1> DEFINE C == {}
<1>2. Busy' \subseteq Busy \cup C
  BY <1>1 DEF Busy, Mutating
<1>3. \A b \in Bottle \ Busy : meta'[b] = meta[b]
  <2>1. CASE LandWrite
    <3>1. PICK w \in pend : meta' = [meta EXCEPT ![w.b] = Land(@, w.rec)]
      BY <2>1 DEF LandWrite
    <3>2. w.b \in Busy
      BY <3>1, PendBusy
    <3> QED BY <3>1, <3>2 DEF TypeOK
  <2>2. CASE LostWrite
    BY <2>2 DEF LostWrite
  <2> QED BY <2>1, <2>2
<1>4. Unmoved(C)
  BY <1>1, <1>3 DEF Unmoved
<1>5. \A u \in Task : task'[u] = task[u] /\ task[u].hit \cup C \subseteq task'[u].hit
  BY <1>1
<1> HIDE DEF C
<1> QED BY <1>2, <1>4, <1>5, OthersListed

LEMMA ListStep ==
    ASSUME TypeOK, ListInv, [Next]_vars
    PROVE  ListInv'
<1>1. ASSUME NEW t \in Task, Serve(t) PROVE ListInv'
  <2>1. CASE MakeBottleDir(t)
    BY <2>1, BirthListed
  <2>2. CASE UnlinkMeta(t)
    BY <2>2, UnlinkListed
  <2>3. CASE \/ MakePrefixDir(t) \/ OpenMeta(t) \/ WriteMeta(t) \/ UnlinkPrefix(t)
             \/ RemoveDir(t) \/ ApplyCopy(t)
    BY <2>3, ChangeListed
  <2>4. CASE \/ ListDir(t) \/ ListProbe(t) \/ ListRead(t) \/ ListReadFails(t) \/ ListDone(t)
    BY <2>4, ListMoves
  <2>5. CASE \/ OpenMetaFails(t) \/ RemoveCheck(t) \/ RemoveScan(t) \/ UnlinkPrefixBusy(t)
             \/ UnlinkGone(t) \/ RemoveDirFails(t) \/ ReadRecord(t) \/ Spawn(t) \/ WineExit(t)
             \/ ApplyRun(t) \/ ApplyWait(t) \/ ApplyWineCfg(t) \/ ApplyEnv(t)
             \/ ApplyCopyMissing(t) \/ CopyFile(t) \/ UpdateRecord(t)
    BY <2>5, LocalListed
  <2> QED BY <1>1, <2>1, <2>2, <2>3, <2>4, <2>5 DEF Serve
<1>2. ASSUME NEW t \in Task, IoError(t) PROVE ListInv'
  <2>1. UNCHANGED fs /\ task'[t] = Idle /\ \A u \in Task \ {t} : task'[u] = task[u]
    BY <1>2 DEF IoError, Reply, TypeOK
  <2> QED BY <2>1, MoveListed
<1>3. CASE Crash
  <2>1. \A u \in Task : task'[u].op = "none"
    BY <1>3 DEF Crash, Idle
  <2> QED BY <2>1 DEF ListInv
<1>4. CASE Quiescent \/ UNCHANGED vars
  <2>1. UNCHANGED <<dir, meta, pend, task>>
    BY <1>4 DEF Quiescent, vars, fs
  <2>2. Busy' = Busy
    BY <2>1 DEF Busy, Mutating
  <2> QED BY <2>1, <2>2 DEF ListInv, Finds
<1> QED BY <1>1, <1>2, <1>3, <1>4, StartListed, PoolListed DEF Next

LEMMA ListInvariant == Spec => []ListInv
<1>1. Init => ListInv
  BY DEF Init, Idle, ListInv
<1>2. TypeOK /\ ListInv /\ [Next]_vars => ListInv'
  BY ListStep
<1> QED BY <1>1, <1>2, TypeCorrect, PTL DEF Spec

(* A listing (BottleStore::list) that is answered names, of the bottles that  *)
(* nobody changed while it went on, exactly those whose metadata can be read: *)
(* visited one by one, they are listed as if all at once.                     *)
THEOREM ListingsExact == Spec => ListExact
<1>1. ASSUME TypeOK, ListInv, NEW t \in Task, ListDone(t)
      PROVE  \A b \in Bottle \ task[t].hit : b \in task[t].seen <=> b \in dir /\ Readable(meta[b])
  <2>1. task[t].op = "list" /\ task[t].pc = "probe" /\ task[t].ids = {}
    BY <1>1, OpOf DEF ListDone, TypeOK, TasksOK
  <2> QED BY <1>1, <2>1 DEF ListInv, Finds
<1>2. TypeOK /\ ListInv => [\A t \in Task : ListDone(t) =>
        \A b \in Bottle \ task[t].hit : b \in task[t].seen <=> b \in dir /\ Readable(meta[b])]_vars
  BY <1>1
<1> QED BY <1>2, TypeCorrect, ListInvariant, PTL DEF ListExact

(* It names every acknowledged bottle that nobody changed while it went on,   *)
(* unless requests conflicted on that bottle or an error or a crash struck    *)
(* it.                                                                        *)
THEOREM ListingsComplete == Spec => ListComplete
<1>1. ASSUME TypeOK, GoodInv, ListInv, NEW t \in Task, ListDone(t)
      PROVE  created \cap dir \subseteq task[t].seen \cup task[t].hit \cup raced \cup faulted
  <2>1. task[t].op = "list" /\ task[t].pc = "probe" /\ task[t].ids = {}
    BY <1>1, OpOf DEF ListDone, TypeOK, TasksOK
  <2>2. Finds(task[t])
    BY <1>1, <2>1 DEF ListInv
  <2> SUFFICES ASSUME NEW b \in created \cap dir, b \notin task[t].hit \cup raced \cup faulted
               PROVE  b \in task[t].seen
    OBVIOUS
  <2>3. b \in Bottle /\ Settled(b)
    BY <1>1, <2>2 DEF Finds, Settled, TypeOK
  <2>4. Readable(meta[b])
    BY <1>1, <2>3, SettledHolds DEF Holds
  <2> QED BY <2>1, <2>2, <2>3, <2>4 DEF Finds
<1>2. TypeOK /\ GoodInv /\ ListInv => [\A t \in Task : ListDone(t) =>
        created \cap dir \subseteq task[t].seen \cup task[t].hit \cup raced \cup faulted]_vars
  BY <1>1
<1> QED BY <1>2, TypeCorrect, GoodInvariant, ListInvariant, PTL DEF ListComplete

(* It fails over a bottle only when someone was changing that bottle: what    *)
(* BottleStore::list finds in the directories that creations, errors and      *)
(* crashes leave behind does not fail it.                                     *)
THEOREM ListErrorsCaused == Spec => ListErrorHasCause
<1>1. ASSUME TypeOK, ListInv, NEW t \in Task, ListReadFails(t)
      PROVE  task[t].b \in task[t].hit
  <2>1. task[t].op = "list" /\ task[t].pc = "readmeta" /\ meta[task[t].b].state = "absent"
    BY <1>1, OpOf DEF ListReadFails, TypeOK, TasksOK
  <2> QED BY <1>1, <2>1 DEF ListInv, Finds
<1>2. TypeOK /\ ListInv => [\A t \in Task : ListReadFails(t) => task[t].b \in task[t].hit]_vars
  BY <1>1
<1> QED BY <1>2, TypeCorrect, ListInvariant, PTL DEF ListErrorHasCause
=============================================================================
