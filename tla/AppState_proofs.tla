--------------------------- MODULE AppState_proofs ---------------------------
(* Theorems about AppState, for every number of operations at once, bottles, *)
(* user actions and changes by other clients.                                *)
EXTENDS AppState, SequenceTheorems, TLAPS

-----------------------------------------------------------------------------
(* The calls that an operation has left.                                     *)

(* The suffixes of a sequence of three.                                      *)
LEMMA Parts3 ==
    ASSUME NEW a, NEW b, NEW c
    PROVE  /\ SubSeq(<<a, b, c>>, 1, 3) = <<a, b, c>>
           /\ SubSeq(<<a, b, c>>, 2, 3) = <<b, c>>
           /\ SubSeq(<<a, b, c>>, 3, 3) = <<c>>
<1> DEFINE s == <<a, b, c>>
<1>1. /\ s \in Seq({a, b, c}) /\ Len(s) = 3 /\ s # <<>>
      /\ Tail(s) = <<b, c>> /\ s[3] = c
  OBVIOUS
<1> HIDE DEF s
<1>2. SubSeq(s, 1, 3) = s
  BY <1>1, SubSeqFull
<1>3. SubSeq(s, 2, 3) = <<b, c>>
  BY <1>1, TailIsSubSeq
<1>4. SubSeq(s, 3, 3) = <<c>>
  <2>1. SubSeq(s, 3, 3) = <<s[3]>> \o SubSeq(s, 4, 3)
    BY <1>1, SubSeqRecursiveFirst
  <2>2. SubSeq(s, 4, 3) = <<>>
    BY SubSeqEmpty
  <2>3. <<c>> \in Seq({c})
    OBVIOUS
  <2> QED BY <1>1, <2>1, <2>2, <2>3, ConcatEmptySeq
<1> QED BY <1>2, <1>3, <1>4 DEF s

(* The suffixes of a sequence of two.                                        *)
LEMMA Parts2 ==
    ASSUME NEW a, NEW b
    PROVE  /\ SubSeq(<<a, b>>, 1, 2) = <<a, b>>
           /\ SubSeq(<<a, b>>, 2, 2) = <<b>>
<1> DEFINE s == <<a, b>>
<1>1. s \in Seq({a, b}) /\ Len(s) = 2 /\ s # <<>> /\ Tail(s) = <<b>>
  OBVIOUS
<1> HIDE DEF s
<1>2. SubSeq(s, 1, 2) = s
  BY <1>1, SubSeqFull
<1>3. SubSeq(s, 2, 2) = <<b>>
  BY <1>1, TailIsSubSeq
<1> QED BY <1>2, <1>3 DEF s

(* A sequence of one is its only suffix.                                     *)
LEMMA Parts1 ==
    ASSUME NEW a
    PROVE  SubSeq(<<a>>, 1, 1) = <<a>>
<1> DEFINE s == <<a>>
<1>1. s \in Seq({a}) /\ Len(s) = 1
  OBVIOUS
<1> HIDE DEF s
<1>2. SubSeq(s, 1, 1) = s
  BY <1>1, SubSeqFull
<1> QED BY <1>2 DEF s

(* What may be left of each operation, written out.                          *)
Lefts == {<<"service.info", "bottle.list", "recipe.list">>,
          <<"bottle.list", "recipe.list">>, <<"recipe.list">>,
          <<"bottle.create", "bottle.list">>, <<"recipe.apply", "bottle.list">>,
          <<"bottle.list">>, <<"bottle.delete">>, <<"bottle.run">>, <<"shortcut.create">>}

Left(op, left) ==
    /\ left \in Lefts
    /\ \/ op = "refresh" /\ left \in {<<"service.info", "bottle.list", "recipe.list">>,
                                      <<"bottle.list", "recipe.list">>, <<"recipe.list">>}
       \/ op = "create" /\ left \in {<<"bottle.create", "bottle.list">>, <<"bottle.list">>}
       \/ op = "delete" /\ left = <<"bottle.delete">>
       \/ op = "run" /\ left = <<"bottle.run">>
       \/ op = "apply" /\ left \in {<<"recipe.apply", "bottle.list">>, <<"bottle.list">>}
       \/ op = "shortcut" /\ left = <<"shortcut.create">>

(* An operation begins with all of its calls left.                           *)
LEMMA AllLeft ==
    ASSUME NEW op \in Ops
    PROVE  Left(op, Calls(op))
<1>1. CASE op = "refresh" BY <1>1 DEF Left, Lefts, Calls
<1>2. CASE op = "create" BY <1>2 DEF Left, Lefts, Calls
<1>3. CASE op = "delete" BY <1>3 DEF Left, Lefts, Calls
<1>4. CASE op = "run" BY <1>4 DEF Left, Lefts, Calls
<1>5. CASE op = "apply" BY <1>5 DEF Left, Lefts, Calls
<1>6. CASE op = "shortcut" BY <1>6 DEF Left, Lefts, Calls
<1> QED BY <1>1, <1>2, <1>3, <1>4, <1>5, <1>6 DEF Ops

(* What is left is what TypeOK asks for, a suffix of the operation's calls.  *)
LEMMA LeftIsSuffix ==
    ASSUME NEW op, NEW left, Left(op, left)
    PROVE  /\ op \in Ops /\ left # <<>>
           /\ \E n \in 0..2 : left = SubSeq(Calls(op), n + 1, Len(Calls(op)))
<1>1. op \in Ops /\ left # <<>>
  BY DEF Left, Lefts, Ops
<1>2. CASE op = "refresh"
  <2>1. Calls(op) = <<"service.info", "bottle.list", "recipe.list">> /\ Len(Calls(op)) = 3
    BY <1>2 DEF Calls
  <2>2. \/ left = SubSeq(Calls(op), 0 + 1, 3) \/ left = SubSeq(Calls(op), 1 + 1, 3)
        \/ left = SubSeq(Calls(op), 2 + 1, 3)
    BY <1>2, <2>1, Parts3 DEF Left
  <2> QED BY <1>1, <2>1, <2>2
<1>3. CASE op \in {"create", "apply"}
  <2>1. PICK a \in {"bottle.create", "recipe.apply"} :
            /\ Calls(op) = <<a, "bottle.list">>
            /\ left \in {<<a, "bottle.list">>, <<"bottle.list">>}
    <3>1. CASE op = "create" BY <3>1 DEF Calls, Left
    <3>2. CASE op = "apply" BY <3>2 DEF Calls, Left
    <3> QED BY <1>3, <3>1, <3>2
  <2>2. Len(Calls(op)) = 2
    BY <2>1
  <2>3. left = SubSeq(Calls(op), 0 + 1, 2) \/ left = SubSeq(Calls(op), 1 + 1, 2)
    BY <2>1, Parts2
  <2> QED BY <1>1, <2>2, <2>3
<1>4. CASE op \in {"delete", "run", "shortcut"}
  <2>1. PICK a \in {"bottle.delete", "bottle.run", "shortcut.create"} :
            Calls(op) = <<a>> /\ left = <<a>>
    <3>1. CASE op = "delete" BY <3>1 DEF Calls, Left
    <3>2. CASE op = "run" BY <3>2 DEF Calls, Left
    <3>3. CASE op = "shortcut" BY <3>3 DEF Calls, Left
    <3> QED BY <1>4, <3>1, <3>2, <3>3
  <2>2. Len(Calls(op)) = 1
    BY <2>1
  <2>3. left = SubSeq(Calls(op), 0 + 1, 1)
    BY <2>1, Parts1
  <2> QED BY <1>1, <2>2, <2>3
<1> QED BY <1>1, <1>2, <1>3, <1>4 DEF Ops

(* The call after the next is one of the operation's, if there is one.       *)
LEMMA TailLeft ==
    ASSUME NEW op, NEW left, Left(op, left), Len(left) > 1
    PROVE  Left(op, Tail(left))
<1>1. CASE op = "refresh" /\ left = <<"service.info", "bottle.list", "recipe.list">>
  <2>1. Tail(left) = <<"bottle.list", "recipe.list">>
    BY <1>1
  <2> QED BY <1>1, <2>1 DEF Left, Lefts
<1>2. CASE op = "refresh" /\ left = <<"bottle.list", "recipe.list">>
  <2>1. Tail(left) = <<"recipe.list">>
    BY <1>2
  <2> QED BY <1>2, <2>1 DEF Left, Lefts
<1>3. CASE op = "create" /\ left = <<"bottle.create", "bottle.list">>
  <2>1. Tail(left) = <<"bottle.list">>
    BY <1>3
  <2> QED BY <1>3, <2>1 DEF Left, Lefts
<1>4. CASE op = "apply" /\ left = <<"recipe.apply", "bottle.list">>
  <2>1. Tail(left) = <<"bottle.list">>
    BY <1>4
  <2> QED BY <1>4, <2>1 DEF Left, Lefts
<1>5. ASSUME NEW x, left = <<x>> PROVE FALSE
  <2>1. Len(left) = 1
    BY <1>5
  <2> QED BY <2>1
<1>6. \/ op = "refresh" /\ left = <<"service.info", "bottle.list", "recipe.list">>
      \/ op = "refresh" /\ left = <<"bottle.list", "recipe.list">>
      \/ op = "create" /\ left = <<"bottle.create", "bottle.list">>
      \/ op = "apply" /\ left = <<"recipe.apply", "bottle.list">>
  BY <1>5 DEF Left
<1> QED BY <1>1, <1>2, <1>3, <1>4, <1>6

-----------------------------------------------------------------------------
(* The operation in a slot.                                                  *)
Requests == [op: {"none"} \cup Ops, left: Lefts \cup {<<>>}, b: Bottle \cup {None},
             answer: {"none", "busy", "ok", "error"}, list: SUBSET Bottle, since: SUBSET Bottle]

(* Only a listing that was served carries a list.  From its beginning it has *)
(* noted every bottle that is being written; once served it is true but for  *)
(* what it has noted.  A bottle whose deletion was served is gone, unless it *)
(* was noted that it is back.  The records are a parameter, rec.             *)
RequestInv(r, rec) ==
    /\ r \in Requests
    /\ r.op = "none" => r = Free
    /\ r.op # "none" => Left(r.op, r.left)
    /\ r.op \in {"delete", "apply"} => r.b \in Bottle /\ rec[r.b] # "fresh"
    /\ r.list # {} => r.answer = "ok" /\ Head(r.left) = "bottle.list"
    /\ r.since # {} => Noted(r)
    /\ \A o \in r.list : rec[o] # "fresh"
    /\ r.answer \in {"busy", "ok"} /\ Head(r.left) = "bottle.list" =>
          \A o \in Bottle : rec[o] = "writing" => o \in r.since
    /\ r.answer = "ok" /\ Head(r.left) = "bottle.list" =>
          \A o \in Bottle \ r.since : o \in r.list <=> rec[o] = "kept"
    /\ r.answer = "ok" /\ Head(r.left) = "bottle.delete" =>
          r.b \in r.since \/ rec[r.b] = "gone"

(* The calls of the operations on a bottle of the list are about it.         *)
LEMMA CallOfOp ==
    ASSUME NEW r, NEW rec, RequestInv(r, rec), r.op # "none",
           Head(r.left) \in {"bottle.delete", "recipe.apply"}
    PROVE  r.op \in {"delete", "apply"} /\ r.b \in Bottle /\ rec[r.b] # "fresh"
<1>1. Left(r.op, r.left)
  BY DEF RequestInv
<1>2. r.op \in {"delete", "apply"}
  BY <1>1 DEF Left
<1> QED BY <1>2 DEF RequestInv

(* That is all that TypeOK asks of it.                                       *)
LEMMA RequestTyped ==
    ASSUME NEW r, RequestInv(r, record)
    PROVE  RequestOK(r)
<1>1. r.op # "none" =>
          /\ r.left # <<>>
          /\ \E n \in 0..2 : r.left = SubSeq(Calls(r.op), n + 1, Len(Calls(r.op)))
  BY LeftIsSuffix DEF RequestInv
<1>2. r.op \in {"delete", "apply"} => r.b \in Used
  BY DEF RequestInv, Used
<1>3. r.list \subseteq Used
  BY DEF RequestInv, Requests, Used
<1>4. /\ r.op \in {"none"} \cup Ops /\ (r.op = "none" => r = Free)
      /\ r.b \in Bottle \cup {None} /\ r.answer \in {"none", "busy", "ok", "error"}
      /\ r.since \subseteq Bottle
      /\ (r.list # {} => Head(r.left) = "bottle.list" /\ r.answer = "ok")
      /\ (r.since # {} => Noted(r))
  BY DEF RequestInv, Requests
<1> QED BY <1>1, <1>2, <1>3, <1>4 DEF RequestOK

(* An empty slot.                                                            *)
LEMMA FreeInv ==
    ASSUME NEW rec
    PROVE  RequestInv(Free, rec)
  BY DEF RequestInv, Requests, Free, Ops

(* An operation that begins.                                                 *)
LEMMA BeginInv ==
    ASSUME NEW rec, NEW op \in Ops, NEW b \in Bottle \cup {None},
           op \in {"delete", "apply"} => b \in Bottle /\ rec[b] # "fresh"
    PROVE  RequestInv([Free EXCEPT !.op = op, !.left = Calls(op), !.b = b], rec)
<1>1. Left(op, Calls(op)) /\ Calls(op) \in Lefts
  BY AllLeft DEF Left
<1>2. "none" \notin Ops
  BY DEF Ops
<1>3. ASSUME NEW r \in Requests, r.answer = "none", r.list = {}, r.since = {}
      PROVE  RequestInv([r EXCEPT !.op = op, !.left = Calls(op), !.b = b], rec)
  BY <1>1, <1>2, <1>3 DEF RequestInv, Requests
<1>4. Free \in Requests /\ Free.answer = "none" /\ Free.list = {} /\ Free.since = {}
  BY DEF Free, Requests
<1> QED BY <1>3, <1>4

(* A call that failed.                                                       *)
LEMMA ErrorInv ==
    ASSUME NEW rec, NEW r, RequestInv(r, rec), r.op # "none", r.answer \in {"none", "busy"}
    PROVE  RequestInv([r EXCEPT !.answer = "error", !.since = {}], rec)
  BY DEF RequestInv, Requests

(* A call that goes on or succeeds and is neither a listing nor a deletion.  *)
LEMMA OtherInv ==
    ASSUME NEW rec, NEW r, RequestInv(r, rec), r.op # "none", r.answer \in {"none", "busy"},
           Head(r.left) \notin {"bottle.list", "bottle.delete"}, NEW a \in {"busy", "ok", "error"}
    PROVE  RequestInv([r EXCEPT !.answer = a], rec)
<1>1. r.list = {} /\ r.since = {} /\ r \in Requests
  BY DEF RequestInv, Noted
<1> QED BY <1>1 DEF RequestInv, Requests

(* The next call.                                                            *)
LEMMA NextInv ==
    ASSUME NEW rec, NEW r, RequestInv(r, rec), r.op # "none", Len(r.left) > 1
    PROVE  RequestInv([r EXCEPT !.left = Tail(@), !.answer = "none",
                                !.list = {}, !.since = {}], rec)
<1>1. Left(r.op, Tail(r.left)) /\ Tail(r.left) \in Lefts
  BY TailLeft DEF RequestInv, Left
<1> QED BY <1>1 DEF RequestInv, Requests

(* A bottle whose record changed, which listings and deletions have noted.   *)
LEMMA ChangeInv ==
    ASSUME NEW rec, NEW r, RequestInv(r, rec), NEW b \in Bottle, NEW rec2,
           \A o \in Bottle \ {b} : rec2[o] = rec[o], rec2[b] # "fresh"
    PROVE  RequestInv(IF Noted(r) THEN [r EXCEPT !.since = @ \cup {b}] ELSE r, rec2)
<1>1. r \in Requests /\ r.list \subseteq Bottle
  BY DEF RequestInv, Requests
<1>2. \A o \in Bottle : rec[o] # "fresh" => rec2[o] # "fresh"
  OBVIOUS
<1>3. CASE Noted(r)
  <2> DEFINE x == [r EXCEPT !.since = @ \cup {b}]
  <2>1. x \in Requests /\ x.op = r.op /\ x.left = r.left /\ x.answer = r.answer
        /\ x.list = r.list /\ x.since = r.since \cup {b} /\ x.b = r.b
    BY <1>1 DEF Requests
  <2>2. r.op # "none" /\ Noted(x)
    BY <1>3, <2>1 DEF RequestInv, Noted, Free
  <2> HIDE DEF x
  <2>3. /\ r.op \in {"delete", "apply"} => r.b \in Bottle /\ rec2[r.b] # "fresh"
        /\ \A o \in r.list : rec2[o] # "fresh"
    BY <1>1, <1>2 DEF RequestInv
  <2>4. x.answer \in {"busy", "ok"} /\ Head(x.left) = "bottle.list" =>
            \A o \in Bottle : rec2[o] = "writing" => o \in x.since
    BY <2>1 DEF RequestInv
  <2>5. x.answer = "ok" /\ Head(x.left) = "bottle.list" =>
            \A o \in Bottle \ x.since : o \in x.list <=> rec2[o] = "kept"
    BY <2>1 DEF RequestInv
  <2>6. x.answer = "ok" /\ Head(x.left) = "bottle.delete" =>
            x.b \in x.since \/ rec2[x.b] = "gone"
    <3> SUFFICES ASSUME x.answer = "ok", Head(x.left) = "bottle.delete"
                 PROVE  x.b \in x.since \/ rec2[x.b] = "gone"
      OBVIOUS
    <3>1. r.b \in Bottle
      BY <2>1, <2>2, CallOfOp
    <3>2. r.b \in r.since \/ rec[r.b] = "gone"
      BY <2>1 DEF RequestInv
    <3> QED BY <2>1, <3>1, <3>2
  <2>7. RequestInv(x, rec2)
    BY <2>1, <2>2, <2>3, <2>4, <2>5, <2>6 DEF RequestInv
  <2> QED BY <1>3, <2>7 DEF x
<1>4. CASE ~Noted(r)
  <2>1. /\ r.since = {} /\ ~(r.answer \in {"busy", "ok"} /\ Head(r.left) = "bottle.list")
        /\ ~(r.answer = "ok" /\ Head(r.left) = "bottle.delete")
    BY <1>4 DEF RequestInv, Noted
  <2>2. /\ r.op \in {"delete", "apply"} => r.b \in Bottle /\ rec2[r.b] # "fresh"
        /\ \A o \in r.list : rec2[o] # "fresh"
    BY <1>1, <1>2 DEF RequestInv
  <2> QED BY <1>4, <2>1, <2>2 DEF RequestInv
<1> QED BY <1>3, <1>4

(* A write that lands is on its way to a bottle that every listing has noted.*)
LEMMA LandInv ==
    ASSUME NEW rec, NEW r, RequestInv(r, rec), NEW b \in Bottle, rec[b] = "writing", NEW rec2,
           \A o \in Bottle \ {b} : rec2[o] = rec[o], rec2[b] \in {"kept", "husk"}
    PROVE  RequestInv(r, rec2)
<1>1. r \in Requests /\ r.list \subseteq Bottle
  BY DEF RequestInv, Requests
<1>2. \A o \in Bottle : rec[o] # "fresh" => rec2[o] # "fresh"
  OBVIOUS
<1>3. r.answer \in {"busy", "ok"} /\ Head(r.left) = "bottle.list" =>
          \A o \in Bottle : rec2[o] = "writing" => o \in r.since
  BY DEF RequestInv
<1>4. r.answer = "ok" /\ Head(r.left) = "bottle.list" =>
          \A o \in Bottle \ r.since : o \in r.list <=> rec2[o] = "kept"
  BY DEF RequestInv
<1>5. r.answer = "ok" /\ Head(r.left) = "bottle.delete" =>
          r.b \in r.since \/ rec2[r.b] = "gone"
  <2> SUFFICES ASSUME r.answer = "ok", Head(r.left) = "bottle.delete"
               PROVE  r.b \in r.since \/ rec2[r.b] = "gone"
    OBVIOUS
  <2>1. r.op # "none"
    BY DEF RequestInv, Free
  <2>2. r.b \in Bottle
    BY <2>1, CallOfOp
  <2> QED BY <2>2 DEF RequestInv
<1>6. /\ r.op \in {"delete", "apply"} => r.b \in Bottle /\ rec2[r.b] # "fresh"
      /\ \A o \in r.list : rec2[o] # "fresh"
  BY <1>1, <1>2 DEF RequestInv
<1> QED BY <1>3, <1>4, <1>5, <1>6 DEF RequestInv

-----------------------------------------------------------------------------
(* The inductive invariant: ListTellsDaemon needs that the answers on their  *)
(* way to the main actor are true, which Slots says, and that a bottle that  *)
(* is being written is excused, as the end of its write is no change that    *)
(* anybody notes.                                                            *)
AppTyped ==
    /\ record \in [Bottle -> Records] /\ bottles \subseteq Used
    /\ isLoading \in BOOLEAN
    /\ alert \in {"none", "failure", "success"}
    /\ sheet \in {"none", "create", "recipes"}
    /\ launches \in 0..2
    /\ excused \subseteq Bottle /\ actions \in Nat /\ others \in Nat

Slots == /\ request \in [Slot -> Requests]
         /\ \A s \in Slot : RequestInv(request[s], record)

AppInv == /\ AppTyped /\ Slots /\ Writing \subseteq excused
          /\ ListTellsDaemon /\ IdleNotLoading

(* Nothing is in progress when the app starts.                               *)
LEMMA AppInvInit == Init => AppInv
<1> SUFFICES ASSUME Init PROVE AppInv
  OBVIOUS
<1>1. record \in [Bottle -> Records] /\ Writing = {} /\ excused = Kept /\ Kept \subseteq Bottle
  BY DEF Init, Records, Writing, Kept
<1>2. AppTyped
  <2>1. bottles \subseteq Used /\ excused \subseteq Bottle
    BY <1>1 DEF Init
  <2>2. launches \in 0..2 /\ actions \in Nat /\ others \in Nat
    BY DEF Init
  <2>3. /\ isLoading \in BOOLEAN /\ alert \in {"none", "failure", "success"}
        /\ sheet \in {"none", "create", "recipes"}
    BY DEF Init
  <2> QED BY <1>1, <2>1, <2>2, <2>3 DEF AppTyped
<1>3. Slots
  <2>1. Free \in Requests
    BY DEF Free, Requests
  <2> QED BY <2>1, FreeInv DEF Init, Slots
<1>4. ListTellsDaemon /\ IdleNotLoading
  BY <1>1 DEF Init, ListTellsDaemon, IdleNotLoading, Kept
<1> QED BY <1>1, <1>2, <1>3, <1>4 DEF AppInv

(* A step that changes the operation in one slot and no record.              *)
LEMMA OneSlot ==
    ASSUME Slots, NEW s \in Slot, NEW r, request' = [request EXCEPT ![s] = r],
           RequestInv(r, record), UNCHANGED record
    PROVE  Slots' /\ request'[s] = r /\ \A o \in Slot : o # s => request'[o] = request[o]
<1>1. r \in Requests
  BY DEF RequestInv
<1> QED BY <1>1 DEF Slots

(* What is read from the records is as it was when they are.                 *)
LEMMA SameRecords ==
    ASSUME UNCHANGED record
    PROVE  Used' = Used /\ Kept' = Kept /\ Writing' = Writing
  BY DEF Used, Kept, Writing

(* An operation begins.                                                      *)
LEMMA BeginKept ==
    ASSUME AppInv, NEW s \in Slot, NEW op \in Ops, NEW b \in Bottle \cup {None},
           op \in {"delete", "apply"} => b \in Used,
           Begin(s, op, b), launches' \in 0..2, actions' \in Nat
    PROVE  AppInv'
<1> DEFINE r == [Free EXCEPT !.op = op, !.left = Calls(op), !.b = b]
<1>1. RequestInv(r, record) /\ r.op = op /\ op # "none"
  BY BeginInv DEF Free, Ops, Used
<1> HIDE DEF r
<1>2. request' = [request EXCEPT ![s] = r]
  BY DEF Begin, r
<1>3. Slots' /\ request'[s] = r
  BY <1>1, <1>2, OneSlot DEF AppInv, Begin
<1>4. IdleNotLoading'
  BY <1>1, <1>3 DEF IdleNotLoading
<1> QED BY <1>3, <1>4, SameRecords DEF AppInv, AppTyped, ListTellsDaemon, Begin

(* What the user does.                                                       *)
LEMMA UserKept ==
    ASSUME AppInv, NEW s \in Slot, User(s)
    PROVE  AppInv'
<1>1. \A op \in {"refresh", "create", "delete", "run", "apply", "shortcut"} : op \in Ops
  BY DEF Ops
<1>2. bottles \subseteq Bottle /\ bottles \subseteq Used /\ launches \in 0..2 /\ actions \in Nat
  BY DEF AppInv, AppTyped, Used
<1>3. CASE Launch(s)
  BY <1>1, <1>2, <1>3, BeginKept DEF Launch
<1>4. ASSUME NEW op \in Ops, NEW b \in Bottle \cup {None}, Click(s, op, b),
             op \in {"delete", "apply"} => b \in Used
      PROVE  AppInv'
  BY <1>2, <1>4, BeginKept DEF Click, Act
<1>5. CASE DeleteBottle(s) \/ ApplyRecipe(s)
  <2>1. PICK op \in {"delete", "apply"}, b \in bottles : Click(s, op, b)
    BY <1>5 DEF DeleteBottle, ApplyRecipe
  <2> QED BY <1>1, <1>2, <1>4, <2>1
<1>6. CASE Refresh(s) \/ CreateBottle(s) \/ RunExecutable(s) \/ CreateShortcut(s)
  <2>1. PICK op \in {"refresh", "create", "run", "shortcut"} : Click(s, op, None)
    BY <1>6 DEF Refresh, CreateBottle, RunExecutable, CreateShortcut
  <2> QED BY <1>1, <1>4, <2>1
<1> QED BY <1>3, <1>5, <1>6 DEF User

(* An answer that changes neither the daemon nor the app.                    *)
LEMMA AnswerKept ==
    ASSUME AppInv, NEW s \in Slot, NEW r, request' = [request EXCEPT ![s] = r],
           RequestInv(r, record), r.op = request[s].op,
           UNCHANGED <<appVars, record, excused, bounds>>
    PROVE  AppInv'
<1>1. Slots' /\ \A o \in Slot : request'[o].op = request[o].op
  <2>1. Slots' /\ request'[s] = r /\ \A o \in Slot : o # s => request'[o] = request[o]
    BY OneSlot DEF AppInv
  <2> QED BY <2>1
<1>2. IdleNotLoading'
  BY <1>1 DEF AppInv, IdleNotLoading, appVars
<1> QED BY <1>1, <1>2, SameRecords DEF AppInv, AppTyped, ListTellsDaemon, appVars, bounds

(* The operations when a record changes.                                     *)
LEMMA ChangeKept ==
    ASSUME AppInv, NEW b \in Bottle, NEW v \in Records, v # "fresh",
           record' = [record EXCEPT ![b] = v], NEW noted, noted = Noting(b)
    PROVE  /\ noted \in [Slot -> Requests]
           /\ \A s \in Slot : RequestInv(noted[s], record')
           /\ \A s \in Slot : /\ noted[s].op = request[s].op /\ noted[s].left = request[s].left
                              /\ noted[s].answer = request[s].answer
                              /\ noted[s].b = request[s].b
<1>1. (\A o \in Bottle \ {b} : record'[o] = record[o]) /\ record'[b] # "fresh"
  BY DEF AppInv, AppTyped
<1>2. ASSUME NEW s \in Slot
      PROVE  /\ noted[s] = IF Noted(request[s])
                              THEN [request[s] EXCEPT !.since = @ \cup {b}] ELSE request[s]
             /\ RequestInv(request[s], record)
  BY DEF AppInv, Slots, Noting
<1>3. ASSUME NEW s \in Slot
      PROVE  RequestInv(noted[s], record')
  <2> DEFINE r == request[s]
  <2>1. RequestInv(r, record)
    BY <1>2
  <2> HIDE DEF r
  <2>2. RequestInv(IF Noted(r) THEN [r EXCEPT !.since = @ \cup {b}] ELSE r, record')
    BY ONLY <1>1, <2>1, b \in Bottle, ChangeInv
  <2> QED BY <1>2, <2>2 DEF r
<1>4. noted \in [Slot -> Requests]
  BY <1>3 DEF Noting, RequestInv
<1>5. ASSUME NEW s \in Slot
      PROVE  /\ noted[s].op = request[s].op /\ noted[s].left = request[s].left
             /\ noted[s].answer = request[s].answer /\ noted[s].b = request[s].b
  <2>1. ASSUME NEW r \in Requests, NEW x,
               x = IF Noted(r) THEN [r EXCEPT !.since = @ \cup {b}] ELSE r
        PROVE  x.op = r.op /\ x.left = r.left /\ x.answer = r.answer /\ x.b = r.b
    <3>1. [r EXCEPT !.since = @ \cup {b}].op = r.op
          /\ [r EXCEPT !.since = @ \cup {b}].left = r.left
          /\ [r EXCEPT !.since = @ \cup {b}].answer = r.answer
          /\ [r EXCEPT !.since = @ \cup {b}].b = r.b
      BY <2>1 DEF Requests
    <3> QED BY <2>1, <3>1
  <2>2. request[s] \in Requests
    BY <1>2 DEF RequestInv
  <2> QED BY <1>2, <2>1, <2>2
<1> QED BY <1>3, <1>4, <1>5

-----------------------------------------------------------------------------
(* The daemon.                                                               *)

(* A listing begins: what is being written is noted.                         *)
LEMMA ListBeginsKept ==
    ASSUME AppInv, NEW s \in Slot, ListBegins(s)
    PROVE  AppInv'
<1> DEFINE q == request[s]
<1> DEFINE r == [q EXCEPT !.answer = "busy", !.since = Writing]
<1>1. RequestInv(q, record) /\ q.op # "none" /\ q.answer = "none"
      /\ Head(q.left) = "bottle.list" /\ Writing \subseteq Bottle
  BY DEF AppInv, Slots, ListBegins, Waiting, Writing
<1>2. request' = [request EXCEPT ![s] = r]
  BY DEF ListBegins
<1> HIDE DEF q
<1>3. RequestInv(r, record) /\ r.op = q.op
  <2>1. /\ r \in Requests /\ r.op = q.op /\ r.left = q.left /\ r.answer = "busy"
        /\ r.list = q.list /\ r.since = Writing /\ r.b = q.b /\ q.list = {}
    BY <1>1 DEF RequestInv, Requests
  <2> HIDE DEF r
  <2> QED BY <1>1, <2>1 DEF RequestInv, Noted, Writing
<1> HIDE DEF r
<1> QED BY <1>2, <1>3, AnswerKept DEF ListBegins, q

(* A listing is served: of what it has not noted, it shows what can be read. *)
LEMMA ServeListKept ==
    ASSUME AppInv, NEW s \in Slot, ServeList(s)
    PROVE  AppInv'
<1> DEFINE q == request[s]
<1>1. RequestInv(q, record) /\ q.op # "none" /\ q.answer = "busy"
      /\ Head(q.left) = "bottle.list"
  <2>1. RequestInv(q, record) /\ q.answer = "busy" /\ Head(q.left) = "bottle.list"
    BY DEF AppInv, Slots, ServeList, Busy
  <2> QED BY <2>1 DEF RequestInv, Free
<1>2. PICK seen \in SUBSET (q.since \cap Used) :
          request' = [request EXCEPT ![s] =
                        [q EXCEPT !.answer = "ok", !.list = (Kept \ q.since) \cup seen]]
  BY DEF ServeList
<1> DEFINE l == (Kept \ q.since) \cup seen
<1> DEFINE r == [q EXCEPT !.answer = "ok", !.list = l]
<1> HIDE DEF q
<1>3. /\ l \subseteq Bottle /\ \A o \in l : record[o] # "fresh"
      /\ \A o \in Bottle \ q.since : o \in l <=> record[o] = "kept"
  BY DEF Used, Kept
<1> HIDE DEF l
<1>4. RequestInv(r, record) /\ r.op = q.op
  <2>1. /\ r \in Requests /\ r.op = q.op /\ r.left = q.left /\ r.answer = "ok"
        /\ r.list = l /\ r.since = q.since /\ r.b = q.b
    BY <1>1, <1>3 DEF RequestInv, Requests
  <2> HIDE DEF r
  <2> QED BY <1>1, <1>3, <2>1 DEF RequestInv, Noted
<1>5. request' = [request EXCEPT ![s] = r]
  BY <1>2 DEF l
<1> HIDE DEF r
<1> QED BY <1>4, <1>5, AnswerKept DEF ServeList, q

(* An answer that says only that the call succeeded, or a recipe that has    *)
(* been loaded.                                                              *)
LEMMA ServeOtherKept ==
    ASSUME AppInv, NEW s \in Slot, ServeOther(s) \/ ApplyBegins(s)
    PROVE  AppInv'
<1> DEFINE q == request[s]
<1>1. /\ RequestInv(q, record) /\ q.op # "none" /\ q.answer = "none"
      /\ Head(q.left) \notin {"bottle.list", "bottle.delete"} /\ q \in Requests
  BY DEF AppInv, Slots, ServeOther, ApplyBegins, Waiting
<1>2. PICK a \in {"busy", "ok"} : request' = [request EXCEPT ![s] = [q EXCEPT !.answer = a]]
  BY DEF ServeOther, ApplyBegins
<1> DEFINE r == [q EXCEPT !.answer = a]
<1>3. request' = [request EXCEPT ![s] = r]
  BY <1>2
<1> HIDE DEF q
<1>4. RequestInv(r, record) /\ r.op = q.op
  BY <1>1, OtherInv DEF Requests
<1> HIDE DEF r
<1> QED BY <1>3, <1>4, AnswerKept DEF ServeOther, ApplyBegins, q

(* A failure.                                                                *)
LEMMA ServeFailsKept ==
    ASSUME AppInv, NEW s \in Slot, ServeFails(s)
    PROVE  AppInv'
<1> DEFINE q == request[s]
<1> DEFINE r == [q EXCEPT !.answer = "error", !.since = {}]
<1>1. RequestInv(q, record) /\ q.op # "none" /\ q.answer \in {"none", "busy"} /\ q \in Requests
  BY DEF AppInv, Slots, ServeFails
<1>2. request' = [request EXCEPT ![s] = r]
  BY DEF ServeFails
<1> HIDE DEF q
<1>3. RequestInv(r, record) /\ r.op = q.op
  BY <1>1, ErrorInv DEF Requests
<1> HIDE DEF r
<1> QED BY <1>2, <1>3, AnswerKept DEF ServeFails, q

(* The record of b becomes v, by the operation in a slot or another client:  *)
(* the app shows what it showed, and b is excused.                           *)
LEMMA ChangedKept ==
    ASSUME AppInv, NEW b \in Bottle, NEW v \in Records, v # "fresh", Becomes(b, v),
           request' \in [Slot -> Requests],
           \A s \in Slot : RequestInv(request'[s], record'),
           \A s \in Slot : request'[s].op = request[s].op,
           UNCHANGED appVars, actions' \in Nat, others' \in Nat
    PROVE  AppInv'
<1>1. /\ record' \in [Bottle -> Records] /\ \A o \in Bottle \ {b} : record'[o] = record[o]
      /\ record'[b] # "fresh"
  BY DEF AppInv, AppTyped, Becomes
<1>2. Used \subseteq Used' /\ Writing' \subseteq Writing \cup {b}
  BY <1>1 DEF Used, Writing
<1>3. AppTyped' /\ Writing' \subseteq excused'
  BY <1>1, <1>2 DEF AppInv, AppTyped, Becomes, appVars
<1>4. Slots'
  BY DEF Slots
<1>5. ListTellsDaemon'
  BY <1>1 DEF AppInv, ListTellsDaemon, Becomes, appVars
<1>6. IdleNotLoading'
  BY DEF AppInv, IdleNotLoading, appVars
<1> QED BY <1>3, <1>4, <1>5, <1>6 DEF AppInv

(* A change by another client.                                               *)
LEMMA OthersKept ==
    ASSUME AppInv, OthersChange
    PROVE  AppInv'
<1>1. others' \in Nat /\ actions' \in Nat
  BY DEF AppInv, AppTyped, OthersChange
<1>2. PICK b \in Bottle, v \in {"writing", "husk", "gone"} :
          Becomes(b, v) /\ request' = Noting(b)
  BY DEF OthersChange
<1>3. v \in Records /\ v # "fresh" /\ record' = [record EXCEPT ![b] = v]
  BY <1>2 DEF Records, Becomes
<1>4. /\ request' \in [Slot -> Requests]
      /\ \A s \in Slot : RequestInv(request'[s], record')
      /\ \A s \in Slot : request'[s].op = request[s].op
  BY <1>2, <1>3, ChangeKept
<1> QED BY <1>1, <1>2, <1>3, <1>4, ChangedKept DEF OthersChange

(* A change by the operation in s, of whose calls only a deletion is noted.  *)
LEMMA OwnChangeKept ==
    ASSUME AppInv, NEW s \in Slot, NEW b \in Bottle, NEW v \in {"writing", "gone"},
           Change(s, b, v), request[s].op # "none", request[s].answer \in {"none", "busy"},
           Head(request[s].left) # "bottle.list",
           Head(request[s].left) = "bottle.delete" => b = request[s].b /\ v = "gone"
    PROVE  AppInv'
<1> DEFINE noted == Noting(b)
<1> DEFINE q == noted[s]
<1>1. PICK w \in {v, "husk"}, a \in {"ok", "error"} :
          /\ w = "husk" => a = "error"
          /\ Becomes(b, w)
          /\ request' = [noted EXCEPT ![s].answer = a]
          /\ UNCHANGED <<appVars, bounds>>
  BY DEF Change
<1> DEFINE r == [q EXCEPT !.answer = a]
<1>2. w \in Records /\ w # "fresh" /\ record' = [record EXCEPT ![b] = w] /\ record'[b] = w
  BY <1>1 DEF Records, Becomes, AppInv, AppTyped
<1>3. /\ noted \in [Slot -> Requests]
      /\ \A o \in Slot : RequestInv(noted[o], record') /\ noted[o].op = request[o].op
      /\ q.left = request[s].left /\ q.answer = request[s].answer /\ q.b = request[s].b
  BY <1>2, ChangeKept
<1>4. request' = [noted EXCEPT ![s] = r]
  BY <1>1
<1> HIDE DEF noted
<1>5. /\ q \in Requests /\ RequestInv(q, record') /\ q.op # "none"
      /\ q.answer \in {"none", "busy"} /\ Head(q.left) # "bottle.list"
      /\ Head(q.left) = "bottle.delete" => q.b = b /\ v = "gone"
  BY <1>3
<1> HIDE DEF q
<1>6. RequestInv(r, record') /\ r \in Requests /\ r.op = q.op
  <2>1. /\ r \in Requests /\ r.op = q.op /\ r.left = q.left /\ r.b = q.b
        /\ r.answer = a /\ r.list = q.list /\ r.since = q.since
        /\ q.list = {} /\ q.since = {}
    BY <1>5 DEF RequestInv, Requests, Noted
  <2>2. r.answer = "ok" /\ Head(r.left) = "bottle.delete" => record'[r.b] = "gone"
    BY <1>1, <1>2, <1>5, <2>1
  <2> HIDE DEF r
  <2> QED BY <1>5, <2>1, <2>2 DEF RequestInv
<1> HIDE DEF r
<1>7. /\ request' \in [Slot -> Requests]
      /\ \A o \in Slot : RequestInv(request'[o], record')
      /\ \A o \in Slot : request'[o].op = request[o].op
  BY <1>3, <1>4, <1>6 DEF q
<1>8. actions' \in Nat /\ others' \in Nat
  BY <1>1 DEF AppInv, AppTyped, bounds
<1> QED BY <1>1, <1>2, <1>7, <1>8, ChangedKept

(* A creation, a deletion and a recipe.                                      *)
LEMMA ServeChangeKept ==
    ASSUME AppInv, NEW s \in Slot, ServeCreate(s) \/ ServeDelete(s) \/ ServeApply(s)
    PROVE  AppInv'
<1>1. RequestInv(request[s], record)
  BY DEF AppInv, Slots
<1>2. CASE ServeCreate(s)
  BY <1>2, OwnChangeKept DEF ServeCreate, Waiting
<1>3. CASE ServeDelete(s)
  <2>1. request[s].b \in Bottle
    BY <1>1, <1>3, CallOfOp DEF ServeDelete, Waiting
  <2> QED BY <1>3, <2>1, OwnChangeKept DEF ServeDelete, Waiting
<1>4. CASE ServeApply(s)
  <2>1. request[s].op # "none"
    BY <1>1, <1>4 DEF RequestInv, Free, ServeApply, Busy
  <2>2. request[s].b \in Bottle
    BY <1>1, <1>4, <2>1, CallOfOp DEF ServeApply, Busy
  <2> QED BY <1>4, <2>1, <2>2, OwnChangeKept DEF ServeApply, Busy
<1> QED BY <1>2, <1>3, <1>4

(* The end of a write, of which nobody is told.                              *)
LEMMA WriteLandsKept ==
    ASSUME AppInv, NEW b \in Bottle, WriteLands(b)
    PROVE  AppInv'
<1>1. PICK v \in {"kept", "husk"} : record' = [record EXCEPT ![b] = v]
  BY DEF WriteLands
<1>2. /\ record' \in [Bottle -> Records] /\ \A o \in Bottle \ {b} : record'[o] = record[o]
      /\ record'[b] \in {"kept", "husk"} /\ record[b] = "writing" /\ b \in excused
  BY <1>1 DEF AppInv, AppTyped, WriteLands, Records, Writing
<1>3. Used' = Used /\ Writing' \subseteq Writing
  BY <1>2 DEF Used, Writing
<1>4. Slots'
  <2>1. ASSUME NEW s \in Slot PROVE RequestInv(request[s], record')
    <3>1. RequestInv(request[s], record)
      BY DEF AppInv, Slots
    <3> QED BY <1>2, <3>1, LandInv
  <2> QED BY <2>1 DEF AppInv, Slots, WriteLands
<1>5. ListTellsDaemon'
  BY <1>2 DEF AppInv, ListTellsDaemon, WriteLands, appVars
<1>6. AppTyped' /\ IdleNotLoading'
  BY <1>2, <1>3 DEF AppInv, AppTyped, IdleNotLoading, WriteLands, appVars, bounds
<1> QED BY <1>3, <1>4, <1>5, <1>6 DEF AppInv, WriteLands

-----------------------------------------------------------------------------
(* The main actor.                                                           *)

(* The next call is asked for and the flag stays, or the operation ends and  *)
(* the flag is cleared.                                                      *)
LEMMA ProceedKept ==
    ASSUME Slots, IdleNotLoading, isLoading \in BOOLEAN,
           NEW s \in Slot, request[s].op # "none", Proceed(s), UNCHANGED record
    PROVE  Slots' /\ IdleNotLoading' /\ isLoading' \in BOOLEAN
<1> DEFINE q == request[s]
<1> DEFINE n == [q EXCEPT !.left = Tail(@), !.answer = "none", !.list = {}, !.since = {}]
<1>1. RequestInv(q, record) /\ q \in Requests /\ q.op # "none"
  BY DEF Slots
<1>2. CASE Len(q.left) > 1
  <2>1. request' = [request EXCEPT ![s] = n] /\ isLoading' = isLoading
    BY <1>2 DEF Proceed
  <2> HIDE DEF q
  <2>2. RequestInv(n, record) /\ n.op = q.op
    BY <1>1, <1>2, NextInv DEF Requests
  <2> HIDE DEF n
  <2>3. Slots' /\ request'[s] = n
    BY <2>1, <2>2, OneSlot
  <2> QED BY <1>1, <2>1, <2>2, <2>3 DEF IdleNotLoading
<1>3. CASE ~(Len(q.left) > 1)
  <2>1. request' = [request EXCEPT ![s] = Free] /\ isLoading' = FALSE
    BY <1>3 DEF Proceed
  <2> QED BY <2>1, FreeInv, OneSlot DEF IdleNotLoading
<1> QED BY <1>2, <1>3

(* An operation that failed clears the flag.                                 *)
LEMMA ResumeErrorKept ==
    ASSUME AppInv, NEW s \in Slot, ResumeError(s)
    PROVE  AppInv'
<1>1. Slots'
  BY FreeInv, OneSlot DEF AppInv, ResumeError
<1>2. IdleNotLoading' /\ ListTellsDaemon'
  BY DEF AppInv, IdleNotLoading, ListTellsDaemon, ResumeError
<1>3. sheet' \in {"none", "create", "recipes"}
  BY DEF ResumeError, Dismissed, AppInv, AppTyped
<1> QED BY <1>1, <1>2, <1>3, SameRecords DEF AppInv, AppTyped, ResumeError, bounds

(* The operation that a call of the main actor goes on with.                 *)
LEMMA Resumed ==
    ASSUME AppInv, NEW s \in Slot, NEW call, Resumes(s, call)
    PROVE  RequestInv(request[s], record) /\ request[s].op # "none"
<1>1. RequestInv(request[s], record)
  BY DEF AppInv, Slots
<1> QED BY <1>1 DEF RequestInv, Free, Resumes

(* A listing: the list is what the daemon had, less what the listing noted.  *)
LEMMA ResumeListKept ==
    ASSUME AppInv, NEW s \in Slot, ResumeList(s)
    PROVE  AppInv'
<1>1. RequestInv(request[s], record) /\ request[s].op # "none"
  BY Resumed DEF ResumeList
<1>2. /\ request[s].list \subseteq Used /\ request[s].since \subseteq Bottle
      /\ Writing \subseteq request[s].since
      /\ \A b \in Bottle \ request[s].since : b \in request[s].list <=> record[b] = "kept"
  BY <1>1 DEF RequestInv, Requests, ResumeList, Resumes, Used, Writing
<1>3. Slots' /\ IdleNotLoading' /\ isLoading' \in BOOLEAN
  BY <1>1, ProceedKept DEF AppInv, AppTyped, ResumeList
<1>4. ListTellsDaemon'
  BY <1>2 DEF ListTellsDaemon, ResumeList
<1>5. sheet' \in {"none", "create", "recipes"}
  BY DEF ResumeList, Dismissed, AppInv, AppTyped
<1> QED BY <1>2, <1>3, <1>4, <1>5, SameRecords DEF AppInv, AppTyped, ResumeList, bounds

(* A deletion: the row goes, and the bottle is gone, or excused if it is back. *)
LEMMA ResumeDeleteKept ==
    ASSUME AppInv, NEW s \in Slot, ResumeDelete(s)
    PROVE  AppInv'
<1> DEFINE b == request[s].b
<1>1. RequestInv(request[s], record) /\ request[s].op # "none"
  BY Resumed DEF ResumeDelete
<1>2. b \in Bottle /\ (b \notin request[s].since => record[b] = "gone")
  <2>1. b \in Bottle
    BY <1>1, CallOfOp DEF ResumeDelete, Resumes
  <2> QED BY <1>1, <2>1 DEF RequestInv, ResumeDelete, Resumes
<1>3. Slots' /\ IdleNotLoading' /\ isLoading' \in BOOLEAN
  BY <1>1, ProceedKept DEF AppInv, AppTyped, ResumeDelete
<1>4. /\ excused' = IF b \in request[s].since THEN excused \cup {b} ELSE excused \ {b}
      /\ bottles' = bottles \ {b}
  BY DEF ResumeDelete, DeletionKnown
<1> HIDE DEF b
<1>5. ListTellsDaemon' /\ excused' \subseteq Bottle
  BY <1>2, <1>4 DEF AppInv, AppTyped, ListTellsDaemon, ResumeDelete
<1>6. Writing \subseteq excused'
  BY <1>2, <1>4 DEF AppInv, Writing
<1> QED BY <1>3, <1>4, <1>5, <1>6, SameRecords DEF AppInv, AppTyped, ResumeDelete, bounds

(* The other calls leave the list alone.                                     *)
LEMMA ResumeCreateKept ==
    ASSUME AppInv, NEW s \in Slot, ResumeCreate(s)
    PROVE  AppInv'
<1>1. RequestInv(request[s], record) /\ request[s].op # "none"
  BY Resumed DEF ResumeCreate
<1>2. Slots' /\ IdleNotLoading' /\ isLoading' \in BOOLEAN
  BY <1>1, ProceedKept DEF AppInv, AppTyped, ResumeCreate
<1> QED BY <1>2, SameRecords DEF AppInv, AppTyped, ListTellsDaemon, ResumeCreate, bounds

(* The same of the calls whose success is announced.                         *)
LEMMA ResumeOtherKept ==
    ASSUME AppInv, NEW s \in Slot, ResumeOther(s)
    PROVE  AppInv'
<1>1. RequestInv(request[s], record) /\ request[s].op # "none"
  BY Resumed DEF ResumeOther
<1>2. Slots' /\ IdleNotLoading' /\ isLoading' \in BOOLEAN
  BY <1>1, ProceedKept DEF AppInv, AppTyped, ResumeOther
<1>3. alert' \in {"none", "failure", "success"}
  BY DEF ResumeOther, AppInv, AppTyped
<1> QED BY <1>2, <1>3, SameRecords DEF AppInv, AppTyped, ListTellsDaemon, ResumeOther, bounds

-----------------------------------------------------------------------------
(* Every step keeps the invariant.                                           *)
LEMMA AppInvStep == AppInv /\ [Next]_vars => AppInv'
<1> SUFFICES ASSUME AppInv, [Next]_vars PROVE AppInv'
  OBVIOUS
<1>1. ASSUME NEW s \in Slot, User(s) PROVE AppInv'
  BY <1>1, UserKept
<1>2. ASSUME NEW s \in Slot, Daemon(s) PROVE AppInv'
  BY <1>2, ListBeginsKept, ServeListKept, ServeChangeKept, ServeOtherKept, ServeFailsKept
     DEF Daemon
<1>3. ASSUME NEW s \in Slot, MainActor(s) PROVE AppInv'
  BY <1>3, ResumeErrorKept, ResumeListKept, ResumeDeleteKept, ResumeCreateKept,
     ResumeOtherKept DEF MainActor
<1>4. CASE SwitchSheet
  <2>1. Slots' /\ ListTellsDaemon' /\ IdleNotLoading'
    BY <1>4 DEF AppInv, Slots, ListTellsDaemon, IdleNotLoading, SwitchSheet
  <2>2. sheet' \in {"none", "create", "recipes"}
    BY <1>4 DEF SwitchSheet
  <2> QED BY <1>4, <2>1, <2>2, SameRecords DEF AppInv, AppTyped, SwitchSheet, Act
<1>5. CASE OthersChange
  BY <1>5, OthersKept
<1>6. ASSUME NEW b \in Bottle, WriteLands(b) PROVE AppInv'
  BY <1>6, WriteLandsKept
<1>7. CASE UNCHANGED vars
  BY <1>7, SameRecords DEF AppInv, AppTyped, Slots, ListTellsDaemon, IdleNotLoading, vars,
              appVars, bounds
<1> QED BY <1>1, <1>2, <1>3, <1>4, <1>5, <1>6, <1>7 DEF Next, Quiescent

(* The invariant always holds.                                               *)
LEMMA AppInvariant == Spec => []AppInv
  BY AppInvInit, AppInvStep, PTL DEF Spec

-----------------------------------------------------------------------------
(* The results.                                                              *)

(* The state of the app is typed: an operation waits for one of its own      *)
(* calls, and only the answer to a listing carries a list.                   *)
THEOREM TypeCorrect == Spec => []TypeOK
<1>1. AppInv => TypeOK
  <2> SUFFICES ASSUME AppInv PROVE TypeOK
    OBVIOUS
  <2>1. DOMAIN request = Slot
    BY DEF AppInv, Slots
  <2>2. \A s \in Slot : RequestOK(request[s])
    BY RequestTyped DEF AppInv, Slots
  <2> QED BY <2>1, <2>2 DEF AppInv, AppTyped, TypeOK
<1> QED BY <1>1, AppInvariant, PTL

(* However many operations overlap, and in whatever order their calls are    *)
(* served, fail and are resumed, the list on the screen is what the daemon   *)
(* holds records of, except for bottles whose record was being written when  *)
(* the listing was made, or that changed since and of whose change no        *)
(* operation of the app has told it (AppState.refresh and others, over       *)
(* BottleStore, whose records are written after the answer).                 *)
THEOREM ListTrue == Spec => []ListTellsDaemon
<1>1. AppInv => ListTellsDaemon
  BY DEF AppInv
<1> QED BY <1>1, AppInvariant, PTL

(* The flag that the operations share does not stay set when the last of     *)
(* them has ended, whichever way it ended (the defer of each operation).     *)
THEOREM ProgressEnds == Spec => []IdleNotLoading
<1>1. AppInv => IdleNotLoading
  BY DEF AppInv
<1> QED BY <1>1, AppInvariant, PTL
=============================================================================
