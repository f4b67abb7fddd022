----------------------------- MODULE FilesProofs -----------------------------
(***************************************************************************)
(* Proofs about Files, for any number of tasks, accounts, keys and         *)
(* requests.                                                               *)
(*                                                                         *)
(* Two stores that no transaction spans are kept together by who may still *)
(* remove an object, and who may still show it.  The invariants say, for   *)
(* each request, what it knows of the keys in its hands.  That attachments *)
(* are stored needs nobody apart; that images are, no second change of the *)
(* same row; that nothing is left over, all that MCFiles keeps apart.      *)
(***************************************************************************)
EXTENDS Files, TLAPS

\* What each operation has in hand at each of its commands.
UpdateStages(r) ==
    /\ r.at \in {"write", "remove"}
    /\ r.at = "write" => /\ r.keys = {} /\ \E t \in Task : r.on = {t}
                         /\ r.new \in Image \cup {NoKey}
DeleteStages(r) ==
    /\ r.at \in {"collect", "delete", "remove"}
    /\ r.at # "remove" => r.on \subseteq Task /\ r.new = NoKey /\ r.old = NoKey
    /\ r.at = "collect" => r.keys \subseteq Image
AttachStages(r, ids) ==
    /\ r.at \in {"insert", "put", "undo", "remove"}
    /\ r.at = "insert" => r.new = NoKey /\ \E t \in Task : r.on = {t}
    /\ r.at \in {"put", "undo"} => r.new \in File \cap ids /\ \E t \in Task : r.on = {t, r.new}
    /\ r.at # "remove" => r.keys = {} /\ r.old = NoKey
DetachStages(r, ids) ==
    /\ r.at \in {"drop", "remove"}
    /\ r.new = NoKey /\ r.old = NoKey
    /\ r.at = "drop" => \E f \in File \cap ids : r.on = {f} /\ r.keys = {f}
AccountStages(r) ==
    /\ r.at \in {"put", "write", "remove"}
    /\ r.at # "remove" => r.keys = {} /\ \E u \in User : r.on = {u}
    /\ r.at = "put" => r.new = NoKey
    /\ r.at = "write" => r.new \in Image \cup {NoKey}
DeleteUserStages(r) ==
    /\ r.at \in {"remove", "deleteUser"}
    /\ r.new = NoKey /\ r.old = NoKey
    /\ \E u \in User : r.on = {u}
    /\ r.at = "remove" => \E k \in Image : r.keys = {k}
    /\ r.at = "deleteUser" => r.keys = {}

Stages(r, ids) ==
    /\ r.op # "CreateTask"
    /\ r.op = "Update" => UpdateStages(r)
    /\ r.op = "Delete" => DeleteStages(r)
    /\ r.op = "Attach" => AttachStages(r, ids)
    /\ r.op = "Detach" => DetachStages(r, ids)
    /\ r.op = "Account" => AccountStages(r)
    /\ r.op = "DeleteUser" => DeleteUserStages(r)
    /\ r.at = "remove" => r.new = NoKey /\ r.old = NoKey
    /\ r.keys \cup {r.new, r.old} \subseteq ids \cup {NoKey}
    /\ r.on \cap File \subseteq ids

Staged == \A p \in Request : req[p] # Idle => Stages(req[p], used)

\* What rows name was used, and a task that was not created has no row.
RowsUsed ==
    /\ \A t \in Task : task[t] \in used \cup {NoKey, NoRow} /\ (t \notin born => task[t] = NoRow)
    /\ \A u \in User : avatar[u] \in used \cup {NoKey, NoRow}
    /\ \A f \in File : file[f] # NoTask => f \in used
    /\ loose \subseteq used

KeyInv == TypeOK /\ Staged /\ RowsUsed

\* A key of an attachment that is to be removed has no row, or loses it first.
DropKnown(r) ==
    \A f \in r.keys \cap File :
       /\ r.at = "delete" => file[f] \in r.on \cup {NoTask}
       /\ r.at = "remove" => file[f] = NoTask \/ f \in spoiled

DropsKnown == \A p \in Request : req[p] # Idle => DropKnown(req[p])

AttachmentInv == KeyInv /\ DropsKnown /\ AttachmentStored

-----------------------------------------------------------------------------
Allowed ==
    \A p, o \in Request :
       p # o /\ req[p] # Idle /\ req[o] # Idle /\ req[p].on \cap req[o].on # {} =>
          {req[p].op, req[o].op} \in Together

\* The rows that show an image.
ShownBy(k, tasks, users) ==
    /\ \A t \in Task : task[t] = k => t \in tasks
    /\ \A u \in User : avatar[u] = k => u \in users

\* The picture that a request has uploaded and not yet written.
Uploaded(r) == IF r.op = "Account" /\ r.at = "write" /\ r.new # r.old THEN {r.new} \ {NoKey} ELSE {}

\* The images that a request has read from a row, or will remove.
Held(r) == (r.keys \cup {r.old}) \cap Image

\* Who may show them still.
HeldKnown(r) ==
    \A k \in Held(r) :
       /\ k \notin loose
       /\ \/ k \in spoiled
          \/ /\ r.op \in {"Update", "Delete"} /\ r.at # "remove"
             /\ ShownBy(k, r.on, {})
          \/ /\ r.op = "DeleteUser" \/ (r.op = "Account" /\ r.at # "remove")
             /\ ShownBy(k, {}, r.on)
          \/ ShownBy(k, {}, {})

UploadKnown(r) == \A k \in Uploaded(r) : k \in stored \ loose /\ ShownBy(k, {}, {})

\* What was read of a row is still there, if the row is.
TaskRead(r) ==
    r.op = "Update" /\ r.at = "write" =>
       \A t \in Task \cap r.on : t \in born /\ task[t] \in {r.old, NoRow}

ReadKnown(r) ==
    /\ TaskRead(r)
    /\ r.op = "Account" /\ r.at # "remove" => \A u \in User \cap r.on : avatar[u] \in {r.old, NoRow}

ImagesKnown ==
    /\ \A p \in Request : req[p] # Idle =>
          HeldKnown(req[p]) /\ UploadKnown(req[p]) /\ ReadKnown(req[p])
    /\ \A p, o \in Request :
          p # o /\ req[p] # Idle /\ req[o] # Idle =>
             Uploaded(req[p]) \cap (Held(req[o]) \cup {req[o].new}) = {}

\* An image that clients did not use twice is of one row.
OneRow ==
    \A k \in Image \ spoiled : \/ \E t \in Task : ShownBy(k, {t}, {})
                               \/ \E u \in User : ShownBy(k, {}, {u})
                               \/ ShownBy(k, {}, {})

LooseKept == \A k \in loose : k \in stored /\ ShownBy(k, {}, {})

ImageInv == KeyInv /\ Allowed /\ ImagesKnown /\ OneRow /\ LooseKept /\ ImageStored

-----------------------------------------------------------------------------
\* The keys that are a request's alone to remove.
Owned(r) ==
    CASE r.at = "remove" -> r.keys
      [] r.op = "Attach" /\ r.at = "undo" -> {r.new}
      [] OTHER -> Uploaded(r)

Kept(k) ==
    \/ k \in loose \cup lost
    \/ \E t \in Task : task[t] = k
    \/ \E u \in User : avatar[u] = k
    \/ k \in File /\ file[k] # NoTask
    \/ \E p \in Request : req[p] # Idle /\ k \in Owned(req[p])

LeakKnown(r) ==
    /\ TaskRead(r)
    /\ r.op = "Account" /\ r.at # "remove" => \A u \in User \cap r.on : avatar[u] = r.old
    /\ r.op = "Delete" /\ r.at # "remove" =>
          \A t \in Task \cap r.on : task[t] \in r.keys \cup {NoKey, NoRow}
    /\ r.op = "Delete" /\ r.at = "delete" => \A f \in File : file[f] \in r.on => f \in r.keys
    /\ r.op = "Attach" /\ r.at = "put" => file[r.new] \in r.on /\ file[r.new] # NoTask
    /\ r.op = "DeleteUser" => \A u \in User \cap r.on :
          avatar[u] \in r.keys \cup lost \cup {NoKey, NoRow} \/ avatar[u] \notin stored

\* Two attachments that are being created have keys of their own.
Attaching(r) == IF r.op = "Attach" /\ r.at \in {"put", "undo"} THEN {r.new} ELSE {}

AttachingApart ==
    \A p, o \in Request : p # o /\ req[p] # Idle /\ req[o] # Idle =>
        Attaching(req[p]) \cap Attaching(req[o]) = {}

FilesHaveTasks == \A f \in File : file[f] # NoTask => task[file[f]] # NoRow

LeakInv ==
    /\ KeyInv /\ Allowed
    /\ \A p \in Request : req[p] # Idle => LeakKnown(req[p])
    /\ AttachingApart
    /\ FilesHaveTasks
    /\ \A k \in stored : Kept(k)

\* Nothing that gives a key to a task beside its deletion, no deletion of an attachment
\* beside its creation, and one change of a row at a time.
LeaksApart ==
    /\ {"CreateTask", "Delete"} \notin Together /\ {"Attach", "Delete"} \notin Together
    /\ {"Update", "Delete"} \notin Together /\ {"Attach", "Detach"} \notin Together
    /\ {"Update"} \notin Together /\ {"Account"} \notin Together
    /\ {"Account", "DeleteUser"} \notin Together

-----------------------------------------------------------------------------
\* A request has become one with these in hand, or is over.
Now(p, op, at, on, old, new, keys) ==
    /\ req' \in [Request -> InProgress \cup {Idle}]
    /\ \A o \in Request \ {p} : req'[o] = req[o]
    /\ req'[p] # Idle
    /\ req'[p].op = op /\ req'[p].at = at /\ req'[p].on = on
    /\ req'[p].old = old /\ req'[p].new = new /\ req'[p].keys = keys

Over(p) ==
    /\ req' \in [Request -> InProgress \cup {Idle}]
    /\ \A o \in Request \ {p} : req'[o] = req[o]
    /\ req'[p] = Idle

Removes(p, keys) ==
    IF keys = {} THEN Over(p)
                 ELSE Now(p, req[p].op, "remove", req[p].on, NoKey, NoKey, keys)

LEMMA RequestTypes ==
    ASSUME TypeOK, NEW p \in Request, req[p] # Idle
    PROVE  /\ req[p] \in InProgress
           /\ req[p].op \in OpNames
           /\ req[p].at \in {"insert", "put", "undo", "drop", "collect", "delete", "write", "remove",
                             "deleteUser"}
           /\ req[p].on \subseteq Task \cup File \cup User
           /\ req[p].old \in Image \cup {NoKey} /\ req[p].new \in Key \cup {NoKey}
           /\ req[p].keys \subseteq Key
<1>1. req[p] \in InProgress
  BY DEF TypeOK
<1> QED
  BY <1>1 DEF InProgress

LEMMA Turn ==
    ASSUME TypeOK, NEW p \in Request, NEW x \in InProgress, Become(p, x)
    PROVE  Now(p, x.op, x.at, x.on, x.old, x.new, x.keys)
<1>1. x # Idle
  BY RowAssumption
<1>2. req' \in [Request -> InProgress \cup {Idle}] /\ req'[p] = x
      /\ \A o \in Request \ {p} : req'[o] = req[o]
  BY DEF TypeOK, Become
<1> QED
  BY <1>1, <1>2 DEF Now

LEMMA End ==
    ASSUME TypeOK, NEW p \in Request, Finish(p)
    PROVE  Over(p)
  BY DEF TypeOK, Finish, Become, Over

\* A request that begins.
LEMMA Start ==
    ASSUME TypeOK, NEW p \in Request, NEW op \in OpNames,
           NEW at \in {"insert", "put", "drop", "collect", "write", "remove", "deleteUser"},
           NEW on \in SUBSET (Task \cup File \cup User), NEW old \in Image \cup {NoKey},
           NEW new \in Key \cup {NoKey}, NEW keys \in SUBSET Key,
           Become(p, [op |-> op, at |-> at, on |-> on, old |-> old, new |-> new, keys |-> keys])
    PROVE  Now(p, op, at, on, old, new, keys)
<1> DEFINE x == [op |-> op, at |-> at, on |-> on, old |-> old, new |-> new, keys |-> keys]
<1>1. x \in InProgress
  BY DEF InProgress
<1>2. x.op = op /\ x.at = at /\ x.on = on /\ x.old = old /\ x.new = new /\ x.keys = keys
  OBVIOUS
<1>3. Become(p, x)
  OBVIOUS
<1> HIDE DEF x
<1>4. Now(p, x.op, x.at, x.on, x.old, x.new, x.keys)
  BY <1>1, <1>3, Turn
<1> QED
  BY <1>2, <1>4

LEMMA StartWrite ==
    ASSUME TypeOK, NEW p \in Request, NEW op \in OpNames,
           NEW on \in SUBSET (Task \cup File \cup User), NEW old \in Image \cup {NoKey},
           NEW new \in Key \cup {NoKey},
           Become(p, [Fresh(op, "write", on) EXCEPT !.old = old, !.new = new])
    PROVE  Now(p, op, "write", on, old, new, {})
<1> DEFINE f == Fresh(op, "write", on)
           x == [f EXCEPT !.old = old, !.new = new]
<1>1. f \in InProgress /\ f.op = op /\ f.at = "write" /\ f.on = on /\ f.keys = {}
  BY DEF Fresh, InProgress
<1>2. Become(p, x)
  OBVIOUS
<1> HIDE DEF f
<1>3. /\ x \in InProgress /\ x.op = op /\ x.at = "write" /\ x.on = on
      /\ x.old = old /\ x.new = new /\ x.keys = {}
  BY <1>1 DEF InProgress
<1> HIDE DEF x
<1>4. Now(p, x.op, x.at, x.on, x.old, x.new, x.keys)
  BY <1>2, <1>3, Turn
<1> QED
  BY <1>3, <1>4

\* One that has only objects to remove yet.
LEMMA Removing ==
    ASSUME TypeOK, NEW p \in Request, req[p] # Idle, NEW keys \in SUBSET Key,
           ThenRemove(p, req[p], keys)
    PROVE  Removes(p, keys)
<1>1. CASE keys = {}
  BY <1>1, End DEF ThenRemove, Removes
<1>2. CASE keys # {}
  <2> DEFINE x == [req[p] EXCEPT !.at = "remove", !.keys = keys, !.old = NoKey, !.new = NoKey]
  <2>1. Become(p, x)
    BY <1>2 DEF ThenRemove
  <2>2. req[p] \in InProgress
    BY RequestTypes
  <2>3. /\ x \in InProgress /\ x.op = req[p].op /\ x.at = "remove" /\ x.on = req[p].on
        /\ x.old = NoKey /\ x.new = NoKey /\ x.keys = keys
    BY <2>2 DEF InProgress
  <2> HIDE DEF x
  <2>4. Now(p, x.op, x.at, x.on, x.old, x.new, x.keys)
    BY <2>1, <2>3, Turn
  <2> QED
    BY <1>2, <2>3, <2>4 DEF Removes
<1> QED
  BY <1>1, <1>2

\* What rows and keys are.
LEMMA KeyTypes ==
    ASSUME KeyInv
    PROVE  /\ \A t \in Task : task[t] \in Image \cup {NoKey, NoRow}
           /\ \A u \in User : avatar[u] \in Image \cup {NoKey, NoRow}
           /\ \A k \in Image : k # NoKey /\ k # NoRow /\ k \notin File /\ k \in Key
           /\ \A f \in File : f # NoKey /\ f # NoRow /\ f \notin Image /\ f \in Key
           /\ NoKey # NoRow
           /\ Known \subseteq Image \cap used
  BY KeyAssumption DEF KeyInv, TypeOK, Known, Key

-----------------------------------------------------------------------------
\* What each step does, spelled out.
Same == UNCHANGED <<task, avatar, file, stored, used, born, loose, lost, spoiled>>

LEMMA UpdateStep ==
    ASSUME KeyInv, NEW p \in Request, NEW t \in Task, Update(p, t)
    PROVE  /\ MayBegin(p, "Update", {t}) /\ task[t] \in Image \cup {NoKey} /\ Same
           /\ \E k \in Known \cup {NoKey, task[t]} : Now(p, "Update", "write", {t}, task[t], k, {})
<1>1. PICK k \in Known \cup {NoKey, task[t]} :
         Become(p, [Fresh("Update", "write", {t}) EXCEPT !.old = task[t], !.new = k])
  BY DEF Update
<1>2. MayBegin(p, "Update", {t}) /\ Same /\ task[t] # NoRow /\ TypeOK
  BY DEF Update, Same, rows, KeyInv
<1>3. task[t] \in Image \cup {NoKey} /\ k \in Key \cup {NoKey}
  BY <1>2, KeyTypes DEF Known, Key
<1>4. Now(p, "Update", "write", {t}, task[t], k, {})
  BY <1>1, <1>2, <1>3, StartWrite DEF OpNames
<1> QED
  BY <1>2, <1>3, <1>4

LEMMA AttachStep ==
    ASSUME KeyInv, NEW p \in Request, NEW t \in Task, Attach(p, t)
    PROVE  /\ MayBegin(p, "Attach", {t}) /\ task[t] # NoRow /\ Same
           /\ Now(p, "Attach", "insert", {t}, NoKey, NoKey, {})
<1>1. MayBegin(p, "Attach", {t}) /\ Same /\ task[t] # NoRow /\ TypeOK
      /\ Become(p, Fresh("Attach", "insert", {t}))
  BY DEF Attach, Same, rows, KeyInv
<1>2. Fresh("Attach", "insert", {t})
        = [op |-> "Attach", at |-> "insert", on |-> {t}, old |-> NoKey, new |-> NoKey, keys |-> {}]
  BY DEF Fresh
<1>3. Now(p, "Attach", "insert", {t}, NoKey, NoKey, {})
  BY <1>1, <1>2, Start DEF OpNames
<1> QED
  BY <1>1, <1>3

LEMMA DeleteStep ==
    ASSUME KeyInv, NEW p \in Request, NEW scope \in Scope, Delete(p, scope)
    PROVE  /\ MayBegin(p, "Delete", scope) /\ Same /\ scope \subseteq Task
           /\ {task[t] : t \in scope} \ {NoKey, NoRow} \subseteq Image \cap used
           /\ Now(p, "Delete", "collect", scope, NoKey, NoKey, {task[t] : t \in scope} \ {NoKey, NoRow})
<1> DEFINE keys == {task[t] : t \in scope} \ {NoKey, NoRow}
<1>1. MayBegin(p, "Delete", scope) /\ Same /\ TypeOK /\ scope \subseteq Task
      /\ Become(p, [Fresh("Delete", "collect", scope) EXCEPT !.keys = keys])
  BY ScopeAssumption DEF Delete, Same, rows, KeyInv
<1>2. keys \subseteq Image \cap used
  BY <1>1, KeyTypes DEF KeyInv, RowsUsed
<1> HIDE DEF keys
<1>3. [Fresh("Delete", "collect", scope) EXCEPT !.keys = keys]
        = [op |-> "Delete", at |-> "collect", on |-> scope, old |-> NoKey, new |-> NoKey, keys |-> keys]
  BY DEF Fresh
<1>4. keys \subseteq Key /\ scope \subseteq Task \cup File \cup User
  BY <1>1, <1>2 DEF Key
<1>5. Now(p, "Delete", "collect", scope, NoKey, NoKey, keys)
  BY <1>1, <1>3, <1>4, Start DEF OpNames
<1> QED
  BY <1>1, <1>2, <1>5 DEF keys

LEMMA DetachStep ==
    ASSUME KeyInv, NEW p \in Request, NEW f \in File, Detach(p, f)
    PROVE  /\ MayBegin(p, "Detach", {f}) /\ file[f] # NoTask /\ f \in used /\ Same
           /\ Now(p, "Detach", "drop", {f}, NoKey, NoKey, {f})
<1>1. MayBegin(p, "Detach", {f}) /\ Same /\ TypeOK /\ file[f] # NoTask /\ f \in used /\ f \in Key
      /\ Become(p, [Fresh("Detach", "drop", {f}) EXCEPT !.keys = {f}])
  BY DEF Detach, Same, rows, KeyInv, RowsUsed, Key
<1>2. [Fresh("Detach", "drop", {f}) EXCEPT !.keys = {f}]
        = [op |-> "Detach", at |-> "drop", on |-> {f}, old |-> NoKey, new |-> NoKey, keys |-> {f}]
  BY DEF Fresh
<1>3. "Detach" \in OpNames /\ {f} \in SUBSET (Task \cup File \cup User) /\ {f} \in SUBSET Key
  BY <1>1 DEF OpNames
<1>4. Now(p, "Detach", "drop", {f}, NoKey, NoKey, {f})
  BY <1>1, <1>2, <1>3, Start
<1> QED
  BY <1>1, <1>4

LEMMA AccountStep ==
    ASSUME KeyInv, NEW p \in Request, NEW u \in User, Account(p, u)
    PROVE  /\ MayBegin(p, "Account", {u}) /\ avatar[u] \in Image \cup {NoKey} /\ Same
           /\ \/ Now(p, "Account", "put", {u}, avatar[u], NoKey, {})
              \/ \E k \in {NoKey, avatar[u]} : Now(p, "Account", "write", {u}, avatar[u], k, {})
<1>1. MayBegin(p, "Account", {u}) /\ Same /\ TypeOK /\ avatar[u] \in Image \cup {NoKey}
  BY KeyTypes DEF Account, Same, rows, KeyInv
<1>0. "Account" \in OpNames /\ {u} \in SUBSET (Task \cup File \cup User)
  BY DEF OpNames
<1>2. CASE Become(p, [Fresh("Account", "put", {u}) EXCEPT !.old = avatar[u]])
  <2>1. [Fresh("Account", "put", {u}) EXCEPT !.old = avatar[u]]
          = [op |-> "Account", at |-> "put", on |-> {u}, old |-> avatar[u], new |-> NoKey, keys |-> {}]
    BY DEF Fresh
  <2>2. Now(p, "Account", "put", {u}, avatar[u], NoKey, {})
    BY <1>0, <1>1, <1>2, <2>1, Start
  <2> QED
    BY <1>1, <2>2
<1>3. ASSUME NEW k \in {NoKey, avatar[u]},
             Become(p, [Fresh("Account", "write", {u}) EXCEPT !.old = avatar[u], !.new = k])
      PROVE  Now(p, "Account", "write", {u}, avatar[u], k, {})
  <2>1. k \in Key \cup {NoKey}
    BY <1>1 DEF Key
  <2> QED
    BY <1>1, <1>3, <2>1, StartWrite DEF OpNames
<1> QED
  BY <1>1, <1>2, <1>3 DEF Account

LEMMA DeleteUserStep ==
    ASSUME KeyInv, NEW p \in Request, NEW u \in User, DeleteUser(p, u)
    PROVE  /\ MayBegin(p, "DeleteUser", {u}) /\ avatar[u] \in Image \cup {NoKey} /\ Same
           /\ IF avatar[u] = NoKey
              THEN Now(p, "DeleteUser", "deleteUser", {u}, NoKey, NoKey, {})
              ELSE Now(p, "DeleteUser", "remove", {u}, NoKey, NoKey, {avatar[u]})
<1> DEFINE keys == {avatar[u]} \ {NoKey}
           at == IF keys = {} THEN "deleteUser" ELSE "remove"
<1>1. MayBegin(p, "DeleteUser", {u}) /\ Same /\ TypeOK /\ avatar[u] \in Image \cup {NoKey}
      /\ Become(p, [Fresh("DeleteUser", at, {u}) EXCEPT !.keys = keys])
  BY KeyTypes DEF DeleteUser, Same, rows, KeyInv
<1>2. keys = IF avatar[u] = NoKey THEN {} ELSE {avatar[u]}
  OBVIOUS
<1>3. at = (IF avatar[u] = NoKey THEN "deleteUser" ELSE "remove") /\ keys \subseteq Key
  BY <1>1 DEF Key
<1> HIDE DEF keys, at
<1>4. [Fresh("DeleteUser", at, {u}) EXCEPT !.keys = keys]
        = [op |-> "DeleteUser", at |-> at, on |-> {u}, old |-> NoKey, new |-> NoKey, keys |-> keys]
  BY DEF Fresh
<1>5. at \in {"insert", "put", "drop", "collect", "write", "remove", "deleteUser"}
  BY <1>3
<1>6. Become(p, [op |-> "DeleteUser", at |-> at, on |-> {u}, old |-> NoKey, new |-> NoKey, keys |-> keys])
  BY <1>1, <1>4
<1>7. Now(p, "DeleteUser", at, {u}, NoKey, NoKey, keys)
  BY <1>1, <1>3, <1>5, <1>6, Start DEF OpNames
<1> QED
  BY <1>1, <1>2, <1>3, <1>7

-----------------------------------------------------------------------------
\* A request is where its operation says.
LEMMA Where ==
    ASSUME KeyInv, NEW p \in Request, req[p] # Idle
    PROVE  Stages(req[p], used)
  BY DEF KeyInv, Staged

LEMMA UpdateTaskStep ==
    ASSUME KeyInv, NEW p \in Request, UpdateTask(p)
    PROVE  /\ req[p] # Idle /\ req[p].op = "Update" /\ req[p].at = "write"
           /\ \E t \in Task :
                 /\ req[p].on = {t}
                 /\ task' = [task EXCEPT ![t] = IF @ = NoRow THEN NoRow ELSE req[p].new]
                 /\ IF task[t] = NoRow \/ req[p].new = req[p].old THEN UNCHANGED <<loose, spoiled>>
                    ELSE Give(req[p].new)
           /\ Removes(p, {req[p].old} \ {NoKey, req[p].new})
           /\ UNCHANGED <<avatar, file, born, stored, used, lost>>
<1>1. req[p] # Idle /\ req[p].op = "Update" /\ req[p].at = "write" /\ TypeOK
  BY DEF UpdateTask, At, KeyInv
<1>2. PICK t \in Task : req[p].on = {t}
  BY <1>1, Where DEF Stages, UpdateStages
<1>3. {req[p].old} \ {NoKey, req[p].new} \subseteq Key
  BY <1>1, RequestTypes DEF Key
<1>4. Removes(p, {req[p].old} \ {NoKey, req[p].new})
  BY <1>1, <1>3, Removing DEF UpdateTask
<1> QED
  BY <1>1, <1>2, <1>4 DEF UpdateTask

LEMMA CollectKeysStep ==
    ASSUME KeyInv, NEW p \in Request, CollectKeys(p)
    PROVE  /\ req[p] # Idle /\ req[p].op = "Delete" /\ req[p].at = "collect" /\ Same
           /\ Now(p, "Delete", "delete", req[p].on, NoKey, NoKey, req[p].keys \cup FilesOf(req[p].on))
<1> DEFINE x == [req[p] EXCEPT !.at = "delete", !.keys = @ \cup FilesOf(req[p].on)]
<1>1. req[p] # Idle /\ req[p].at = "collect" /\ TypeOK /\ Same /\ Become(p, x)
  BY DEF CollectKeys, At, KeyInv, Same, rows
<1>2. req[p].op = "Delete" /\ req[p].old = NoKey /\ req[p].new = NoKey
  BY <1>1, Where, RequestTypes DEF Stages, UpdateStages, DeleteStages, AttachStages, DetachStages,
     AccountStages, DeleteUserStages, OpNames
<1>3. FilesOf(req[p].on) \subseteq Key /\ req[p] \in InProgress /\ req[p].keys \subseteq Key
  BY <1>1, RequestTypes DEF FilesOf, Key
<1>4. /\ x \in InProgress /\ x.op = "Delete" /\ x.at = "delete" /\ x.on = req[p].on
      /\ x.old = NoKey /\ x.new = NoKey /\ x.keys = req[p].keys \cup FilesOf(req[p].on)
  BY <1>2, <1>3 DEF InProgress
<1> HIDE DEF x
<1>5. Now(p, x.op, x.at, x.on, x.old, x.new, x.keys)
  BY <1>1, <1>4, Turn
<1> QED
  BY <1>1, <1>2, <1>4, <1>5

LEMMA DeleteRowsStep ==
    ASSUME KeyInv, NEW p \in Request, DeleteRows(p)
    PROVE  /\ req[p] # Idle /\ req[p].op = "Delete" /\ req[p].at = "delete"
           /\ task' = [t \in Task |-> IF t \in req[p].on THEN NoRow ELSE task[t]]
           /\ file' = [f \in File |-> IF file[f] \in req[p].on THEN NoTask ELSE file[f]]
           /\ \/ Removes(p, req[p].keys)
              \/ (\A t \in req[p].on : task[t] = NoRow) /\ Over(p)
           /\ UNCHANGED <<avatar, born, stored, used, loose, lost, spoiled>>
<1>1. req[p] # Idle /\ req[p].at = "delete" /\ TypeOK
  BY DEF DeleteRows, At, KeyInv
<1>2. req[p].op = "Delete"
  BY <1>1, Where, RequestTypes DEF Stages, UpdateStages, DeleteStages, AttachStages, DetachStages,
     AccountStages, DeleteUserStages, OpNames
<1>3. req[p].keys \in SUBSET Key
  BY <1>1, RequestTypes
<1>4. Removes(p, req[p].keys) \/ ((\A t \in req[p].on : task[t] = NoRow) /\ Over(p))
  BY <1>1, <1>3, Removing, End DEF DeleteRows
<1> QED
  BY <1>1, <1>2, <1>4 DEF DeleteRows

LEMMA CreateAttachmentStep ==
    ASSUME KeyInv, NEW p \in Request, CreateAttachment(p)
    PROVE  /\ req[p] # Idle /\ req[p].op = "Attach" /\ req[p].at = "insert"
           /\ \/ Over(p) /\ UNCHANGED <<file, used>>
              \/ \E f \in File \ used, t \in Task :
                    /\ req[p].on = {t} /\ task[t] # NoRow
                    /\ file' = [file EXCEPT ![f] = t] /\ used' = used \cup {f}
                    /\ Now(p, "Attach", "put", {t, f}, NoKey, f, {})
           /\ UNCHANGED <<task, avatar, born, stored, loose, lost, spoiled>>
<1>1. req[p] # Idle /\ req[p].at = "insert" /\ TypeOK
      /\ UNCHANGED <<task, avatar, born, stored, loose, lost, spoiled>>
  BY DEF CreateAttachment, At, KeyInv
<1>2. req[p].op = "Attach" /\ req[p].old = NoKey /\ req[p].keys = {}
      /\ \E t \in Task : req[p].on = {t}
  BY <1>1, Where, RequestTypes DEF Stages, UpdateStages, DeleteStages, AttachStages, DetachStages,
     AccountStages, DeleteUserStages, OpNames
<1>3. PICK f \in File \ used, t \in req[p].on :
          IF task[t] = NoRow
          THEN Finish(p) /\ UNCHANGED <<file, used>>
          ELSE /\ file' = [file EXCEPT ![f] = t]
               /\ used' = used \cup {f}
               /\ Become(p, [req[p] EXCEPT !.at = "put", !.new = f, !.on = {t, f}])
  BY DEF CreateAttachment, PrepareAttachment
<1>4. t \in Task /\ req[p].on = {t}
  BY <1>2
<1>5. CASE task[t] = NoRow
  BY <1>1, <1>2, <1>3, <1>5, End
<1>6. CASE task[t] # NoRow
  <2> DEFINE x == [req[p] EXCEPT !.at = "put", !.new = f, !.on = {t, f}]
  <2>1. Become(p, x)
    BY <1>3, <1>6
  <2>2. req[p] \in InProgress /\ f \in Key /\ {t, f} \subseteq Task \cup File \cup User
    BY <1>1, <1>4, RequestTypes DEF Key
  <2>3. /\ x \in InProgress /\ x.op = "Attach" /\ x.at = "put" /\ x.on = {t, f}
        /\ x.old = NoKey /\ x.new = f /\ x.keys = {}
    BY <1>2, <2>2 DEF InProgress
  <2> HIDE DEF x
  <2>4. Now(p, x.op, x.at, x.on, x.old, x.new, x.keys)
    BY <1>1, <2>1, <2>3, Turn
  <2>5. Now(p, "Attach", "put", {t, f}, NoKey, f, {})
    BY <2>3, <2>4
  <2> QED
    BY <1>1, <1>2, <1>3, <1>4, <1>6, <2>5
<1> QED
  BY <1>5, <1>6

LEMMA PutAttachmentStep ==
    ASSUME KeyInv, NEW p \in Request, PutAttachment(p)
    PROVE  /\ req[p] # Idle /\ req[p].op = "Attach" /\ req[p].at = "put" /\ req[p].new \in File \cap used
           /\ stored' = stored \cup {req[p].new} /\ Over(p)
           /\ UNCHANGED <<task, avatar, file, born, used, loose, lost, spoiled>>
<1>1. req[p] # Idle /\ req[p].op = "Attach" /\ req[p].at = "put" /\ TypeOK /\ Over(p)
  BY End DEF PutAttachment, At, KeyInv
<1> QED
  BY <1>1, Where DEF Stages, AttachStages, PutAttachment, Put, rows

LEMMA PutFailsStep ==
    ASSUME KeyInv, NEW p \in Request, PutFails(p)
    PROVE  /\ req[p] # Idle /\ req[p].op = "Attach" /\ req[p].at = "put" /\ req[p].new \in File \cap used
           /\ stored' \in {stored, stored \cup {req[p].new}}
           /\ Now(p, "Attach", "undo", req[p].on, NoKey, req[p].new, {})
           /\ UNCHANGED <<task, avatar, file, born, used, loose, lost, spoiled>>
<1> DEFINE x == [req[p] EXCEPT !.at = "undo"]
<1>1. req[p] # Idle /\ req[p].op = "Attach" /\ req[p].at = "put" /\ TypeOK /\ Become(p, x)
  BY DEF PutFails, At, KeyInv
<1>2. req[p].new \in File \cap used /\ req[p].old = NoKey /\ req[p].keys = {} /\ req[p] \in InProgress
  BY <1>1, Where, RequestTypes DEF Stages, AttachStages
<1>3. /\ x \in InProgress /\ x.op = "Attach" /\ x.at = "undo" /\ x.on = req[p].on
      /\ x.old = NoKey /\ x.new = req[p].new /\ x.keys = {}
  BY <1>1, <1>2 DEF InProgress
<1> HIDE DEF x
<1>4. Now(p, x.op, x.at, x.on, x.old, x.new, x.keys)
  BY <1>1, <1>3, Turn
<1> QED
  BY <1>1, <1>2, <1>3, <1>4 DEF PutFails, Put, rows

LEMMA UndoAttachStep ==
    ASSUME KeyInv, NEW p \in Request, UndoAttach(p)
    PROVE  /\ req[p] # Idle /\ req[p].op = "Attach" /\ req[p].at = "undo" /\ req[p].new \in File \cap used
           /\ \/ file' = [file EXCEPT ![req[p].new] = NoTask] /\ UNCHANGED spoiled
              \/ UNCHANGED file /\ spoiled' = spoiled \cup {req[p].new}
           /\ Now(p, "Attach", "remove", req[p].on, NoKey, NoKey, {req[p].new})
           /\ UNCHANGED <<task, avatar, born, stored, used, loose, lost>>
<1>1. req[p] # Idle /\ req[p].at = "undo" /\ TypeOK
  BY DEF UndoAttach, At, KeyInv
<1>2. req[p].op = "Attach" /\ req[p].new \in File \cap used
  BY <1>1, Where, RequestTypes DEF Stages, UpdateStages, DeleteStages, AttachStages, DetachStages,
     AccountStages, DeleteUserStages, OpNames
<1>3. Removes(p, {req[p].new})
  BY <1>1, <1>2, Removing DEF UndoAttach, Key
<1> QED
  BY <1>1, <1>2, <1>3 DEF UndoAttach, Removes

LEMMA DeleteAttachmentStep ==
    ASSUME KeyInv, NEW p \in Request, DeleteAttachment(p)
    PROVE  /\ req[p] # Idle /\ req[p].op = "Detach" /\ req[p].at = "drop"
           /\ \E f \in File \cap used :
                 /\ req[p].on = {f} /\ req[p].keys = {f}
                 /\ file' = [file EXCEPT ![f] = NoTask]
                 /\ IF file[f] # NoTask THEN Now(p, "Detach", "remove", {f}, NoKey, NoKey, {f})
                                        ELSE Over(p)
           /\ UNCHANGED <<task, avatar, born, stored, used, loose, lost, spoiled>>
<1>1. req[p] # Idle /\ req[p].at = "drop" /\ TypeOK
  BY DEF DeleteAttachment, At, KeyInv
<1>2. req[p].op = "Detach"
  BY <1>1, Where, RequestTypes DEF Stages, UpdateStages, DeleteStages, AttachStages, DetachStages,
     AccountStages, DeleteUserStages, OpNames
<1>3. PICK f \in File \cap used : req[p].on = {f} /\ req[p].keys = {f}
  BY <1>1, <1>2, Where DEF Stages, DetachStages
<1>4. /\ file' = [g \in File |-> IF g \in {f} THEN NoTask ELSE file[g]]
      /\ IF \E g \in {f} : file[g] # NoTask THEN ThenRemove(p, req[p], {f}) ELSE Finish(p)
      /\ UNCHANGED <<task, avatar, born, stored, used, loose, lost, spoiled>>
  BY <1>3 DEF DeleteAttachment
<1>5. file' = [file EXCEPT ![f] = NoTask]
  BY <1>1, <1>4 DEF TypeOK
<1>6. IF file[f] # NoTask THEN Removes(p, {f}) ELSE Over(p)
  BY <1>1, <1>4, Removing, End DEF Key
<1> QED
  BY <1>1, <1>2, <1>3, <1>4, <1>5, <1>6 DEF Removes

LEMMA PutAvatarStep ==
    ASSUME KeyInv, NEW p \in Request, PutAvatar(p)
    PROVE  /\ req[p] # Idle /\ req[p].op = "Account" /\ req[p].at = "put"
           /\ \E k \in Image \ used :
                 /\ used' = used \cup {k} /\ stored' = stored \cup {k}
                 /\ Now(p, "Account", "write", req[p].on, req[p].old, k, {})
           /\ UNCHANGED <<task, avatar, file, born, loose, lost, spoiled>>
<1>1. PICK k \in Image \ used : /\ used' = used \cup {k} /\ stored' = stored \cup {k}
                                /\ Become(p, [req[p] EXCEPT !.at = "write", !.new = k])
  BY DEF PutAvatar, Put
<1> DEFINE x == [req[p] EXCEPT !.at = "write", !.new = k]
<1>2. req[p] # Idle /\ req[p].op = "Account" /\ req[p].at = "put" /\ TypeOK /\ Become(p, x)
      /\ UNCHANGED <<task, avatar, file, born, loose, lost, spoiled>>
  BY <1>1 DEF PutAvatar, At, KeyInv, rows
<1>3. req[p].keys = {} /\ req[p] \in InProgress /\ k \in Key
  BY <1>2, Where, RequestTypes DEF Stages, AccountStages, Key
<1>4. /\ x \in InProgress /\ x.op = "Account" /\ x.at = "write" /\ x.on = req[p].on
      /\ x.old = req[p].old /\ x.new = k /\ x.keys = {}
  BY <1>2, <1>3 DEF InProgress
<1> HIDE DEF x
<1>5. Now(p, x.op, x.at, x.on, x.old, x.new, x.keys)
  BY <1>2, <1>4, Turn
<1> QED
  BY <1>1, <1>2, <1>4, <1>5

LEMMA UpdateUserStep ==
    ASSUME KeyInv, NEW p \in Request, UpdateUser(p)
    PROVE  /\ req[p] # Idle /\ req[p].op = "Account" /\ req[p].at = "write"
           /\ \E u \in User :
                 /\ req[p].on = {u}
                 /\ avatar' = [avatar EXCEPT ![u] = IF @ = NoRow THEN NoRow ELSE req[p].new]
           /\ Removes(p, {req[p].old} \ {NoKey, req[p].new})
           /\ UNCHANGED <<task, file, born, stored, used, loose, lost, spoiled>>
<1>1. req[p] # Idle /\ req[p].op = "Account" /\ req[p].at = "write" /\ TypeOK
  BY DEF UpdateUser, At, KeyInv
<1>2. PICK u \in User : req[p].on = {u}
  BY <1>1, Where DEF Stages, AccountStages
<1>3. {req[p].old} \ {NoKey, req[p].new} \subseteq Key
  BY <1>1, RequestTypes DEF Key
<1>4. Removes(p, {req[p].old} \ {NoKey, req[p].new})
  BY <1>1, <1>3, Removing DEF UpdateUser
<1>5. avatar' = [v \in User |-> IF v \in {u} /\ avatar[v] # NoRow THEN req[p].new ELSE avatar[v]]
  BY <1>2 DEF UpdateUser
<1>6. avatar' = [avatar EXCEPT ![u] = IF @ = NoRow THEN NoRow ELSE req[p].new]
  BY <1>1, <1>5 DEF TypeOK
<1> QED
  BY <1>1, <1>2, <1>4, <1>6 DEF UpdateUser

LEMMA UpdateUserFailsStep ==
    ASSUME KeyInv, NEW p \in Request, UpdateUserFails(p)
    PROVE  /\ req[p] # Idle /\ req[p].op = "Account" /\ req[p].at = "write"
           /\ Removes(p, {req[p].new} \ {NoKey, req[p].old}) /\ Same
<1>1. req[p] # Idle /\ req[p].op = "Account" /\ req[p].at = "write" /\ TypeOK /\ Same
  BY DEF UpdateUserFails, At, KeyInv, Same, rows
<1>2. {req[p].new} \ {NoKey, req[p].old} \subseteq Key
  BY <1>1, RequestTypes DEF Key
<1> QED
  BY <1>1, <1>2, Removing DEF UpdateUserFails

LEMMA DeleteUserRowStep ==
    ASSUME KeyInv, NEW p \in Request, DeleteUserRow(p)
    PROVE  /\ req[p] # Idle /\ req[p].op = "DeleteUser" /\ req[p].at = "deleteUser"
           /\ \E u \in User : req[p].on = {u} /\ avatar' = [avatar EXCEPT ![u] = NoRow]
           /\ Over(p)
           /\ UNCHANGED <<task, file, born, stored, used, loose, lost, spoiled>>
<1>1. req[p] # Idle /\ req[p].at = "deleteUser" /\ TypeOK
  BY DEF DeleteUserRow, At, KeyInv
<1>2. req[p].op = "DeleteUser"
  BY <1>1, Where, RequestTypes DEF Stages, UpdateStages, DeleteStages, AttachStages, DetachStages,
     AccountStages, DeleteUserStages, OpNames
<1>3. PICK u \in User : req[p].on = {u}
  BY <1>1, <1>2, Where DEF Stages, DeleteUserStages
<1>4. avatar' = [v \in User |-> IF v \in {u} THEN NoRow ELSE avatar[v]]
  BY <1>3 DEF DeleteUserRow
<1>5. avatar' = [avatar EXCEPT ![u] = NoRow]
  BY <1>1, <1>4 DEF TypeOK
<1> QED
  BY <1>1, <1>2, <1>3, <1>5, End DEF DeleteUserRow

LEMMA RemoveStep ==
    ASSUME KeyInv, NEW p \in Request, Remove(p)
    PROVE  /\ req[p] # Idle /\ req[p].at = "remove"
           /\ \E k \in req[p].keys :
                 /\ \/ stored' = stored \ {k} /\ lost' = lost \ {k}
                    \/ k \in stored /\ lost' = lost \cup {k} /\ UNCHANGED stored
                 /\ IF req[p].keys # {k}
                    THEN Now(p, req[p].op, "remove", req[p].on, NoKey, NoKey, req[p].keys \ {k})
                    ELSE IF req[p].op = "DeleteUser"
                         THEN Now(p, "DeleteUser", "deleteUser", req[p].on, NoKey, NoKey, {})
                         ELSE Over(p)
           /\ UNCHANGED <<task, avatar, file, born, used, loose, spoiled>>
<1>1. PICK k \in req[p].keys :
          /\ \/ stored' = stored \ {k} /\ lost' = lost \ {k}
             \/ k \in stored /\ lost' = lost \cup {k} /\ UNCHANGED stored
          /\ IF req[p].keys # {k} THEN Become(p, [req[p] EXCEPT !.keys = @ \ {k}])
             ELSE IF req[p].op = "DeleteUser"
                  THEN Become(p, [req[p] EXCEPT !.keys = {}, !.at = "deleteUser"])
                  ELSE Finish(p)
  BY DEF Remove, Drop
<1>2. req[p] # Idle /\ req[p].at = "remove" /\ TypeOK
      /\ UNCHANGED <<task, avatar, file, born, used, loose, spoiled>>
  BY DEF Remove, At, KeyInv, rows
<1>3. req[p].new = NoKey /\ req[p].old = NoKey /\ req[p] \in InProgress /\ req[p].keys \subseteq Key
  BY <1>2, Where, RequestTypes DEF Stages
<1>4. CASE req[p].keys # {k}
  <2> DEFINE x == [req[p] EXCEPT !.keys = @ \ {k}]
  <2>1. Become(p, x)
    BY <1>1, <1>4
  <2>2. /\ x \in InProgress /\ x.op = req[p].op /\ x.at = "remove" /\ x.on = req[p].on
        /\ x.old = NoKey /\ x.new = NoKey /\ x.keys = req[p].keys \ {k}
    BY <1>2, <1>3 DEF InProgress
  <2> HIDE DEF x
  <2>3. Now(p, x.op, x.at, x.on, x.old, x.new, x.keys)
    BY <1>2, <2>1, <2>2, Turn
  <2> QED
    BY <1>1, <1>2, <1>4, <2>2, <2>3
<1>5. CASE req[p].keys = {k} /\ req[p].op = "DeleteUser"
  <2> DEFINE x == [req[p] EXCEPT !.keys = {}, !.at = "deleteUser"]
  <2>1. Become(p, x)
    BY <1>1, <1>5
  <2>2. /\ x \in InProgress /\ x.op = "DeleteUser" /\ x.at = "deleteUser" /\ x.on = req[p].on
        /\ x.old = NoKey /\ x.new = NoKey /\ x.keys = {}
    BY <1>2, <1>3, <1>5 DEF InProgress
  <2> HIDE DEF x
  <2>3. Now(p, x.op, x.at, x.on, x.old, x.new, x.keys)
    BY <1>2, <2>1, <2>2, Turn
  <2> QED
    BY <1>1, <1>2, <1>5, <2>2, <2>3
<1>6. CASE req[p].keys = {k} /\ req[p].op # "DeleteUser"
  BY <1>1, <1>2, <1>6, End
<1> QED
  BY <1>4, <1>5, <1>6

LEMMA FailStep ==
    ASSUME KeyInv, NEW p \in Request, RequestFails(p)
    PROVE  /\ req[p] # Idle /\ Over(p)
           /\ lost' = lost \cup (Abandoned(req[p]) \cap stored)
           /\ spoiled' = spoiled \cup Bereft(req[p])
           /\ UNCHANGED <<task, avatar, file, born, stored, used, loose>>
  BY End DEF RequestFails, KeyInv, rows

-----------------------------------------------------------------------------
\* What is kept stays in its type.
Data ==
    /\ task \in [Task -> Image \cup {NoKey, NoRow}]
    /\ avatar \in [User -> Image \cup {NoKey, NoRow}]
    /\ file \in [File -> Task \cup {NoTask}]
    /\ used \subseteq Key /\ stored \subseteq used
    /\ born \subseteq Task
    /\ loose \subseteq Image /\ lost \subseteq Key /\ spoiled \subseteq Key
    /\ RowsUsed

LEMMA DataHolds == KeyInv => Data
  BY DEF KeyInv, TypeOK, Data

LEMMA StagesGrow ==
    ASSUME NEW r, NEW ids, NEW more, ids \subseteq more, Stages(r, ids)
    PROVE  Stages(r, more)
  BY DEF Stages, UpdateStages, DeleteStages, AttachStages, DetachStages, AccountStages, DeleteUserStages

LEMMA KeyKept ==
    ASSUME KeyInv, NEW p \in Request, Data', used \subseteq used',
           req' \in [Request -> InProgress \cup {Idle}],
           \A o \in Request \ {p} : req'[o] = req[o],
           req'[p] # Idle => Stages(req'[p], used')
    PROVE  KeyInv'
<1>1. TypeOK' /\ RowsUsed'
  BY DEF Data, TypeOK
<1>2. ASSUME NEW o \in Request, req'[o] # Idle PROVE Stages(req'[o], used')
  <2>1. CASE o = p
    BY <1>2, <2>1
  <2>2. CASE o # p
    <3>1. req'[o] = req[o] /\ Stages(req[o], used)
      BY <1>2, <2>2 DEF KeyInv, Staged
    <3> QED
      BY <3>1, StagesGrow
  <2> QED
    BY <2>1, <2>2
<1>3. Staged'
  BY <1>2 DEF Staged
<1> QED
  BY <1>1, <1>3 DEF KeyInv

\* The steps of a request that change nothing else.
LEMMA SameKept ==
    ASSUME KeyInv, NEW p \in Request, Same,
           \/ Over(p)
           \/ \E op, at, on, old, new, keys :
                 Now(p, op, at, on, old, new, keys) /\ Stages(req'[p], used)
    PROVE  KeyInv'
<1>1. Data'
  BY DataHolds DEF Same, Data, RowsUsed
<1> QED
  BY <1>1, KeyKept DEF Same, Over, Now

\* A request that has objects to remove.
LEMMA RemovesKept ==
    ASSUME KeyInv, NEW p \in Request, req[p] # Idle, req[p].op # "DeleteUser",
           req[p].op \in {"Update", "Delete", "Attach", "Detach", "Account"},
           NEW keys \in SUBSET used, Removes(p, keys) \/ Over(p), Data', used' = used
    PROVE  KeyInv'
<1>1. CASE Over(p)
  BY <1>1, KeyKept DEF Over
<1>2. CASE keys # {} /\ Now(p, req[p].op, "remove", req[p].on, NoKey, NoKey, keys)
  <2>1. req[p].on \cap File \subseteq used /\ (req[p].op = "Detach" => DetachStages(req[p], used))
    BY Where DEF Stages
  <2>2. Stages(req'[p], used')
    BY <1>2, <2>1 DEF Now, Stages, UpdateStages, DeleteStages, AttachStages, DetachStages, AccountStages
  <2> QED
    BY <1>2, <2>2, KeyKept DEF Now
<1> QED
  BY <1>1, <1>2 DEF Removes

LEMMA InitKeys == Init => KeyInv
<1> SUFFICES ASSUME Init PROVE KeyInv
  OBVIOUS
<1>1. TypeOK
  BY DEF Init, TypeOK
<1>2. \A p \in Request : req[p] = Idle
  BY DEF Init
<1> QED
  BY <1>1, <1>2 DEF Init, KeyInv, Staged, RowsUsed

LEMMA ClientKeeps ==
    ASSUME KeyInv, UploadImage \/ DeleteImage \/ \E t \in Task : CreateTask(t)
    PROVE  KeyInv'
<1>0. Data /\ UNCHANGED req
  BY DataHolds DEF UploadImage, DeleteImage, CreateTask
<1>00. ASSUME Data', used \subseteq used' PROVE KeyInv'
  <2>1. \A r : Stages(r, used) => Stages(r, used')
    BY <1>00, StagesGrow
  <2> QED
    BY <1>0, <1>00, <2>1 DEF KeyInv, TypeOK, Staged, Data
<1>1. CASE UploadImage
  <2>1. PICK k \in Image \ used :
           stored' = stored \cup {k} /\ used' = used \cup {k} /\ loose' = loose \cup {k}
           /\ UNCHANGED <<task, avatar, file, born, lost, spoiled>>
    BY <1>1 DEF UploadImage, Put, rows
  <2>2. Data'
    BY <1>0, <2>1 DEF Data, RowsUsed, Key
  <2> QED
    BY <1>00, <2>1, <2>2
<1>2. CASE DeleteImage
  <2>1. PICK k \in Known :
           /\ stored' = stored \ {k} /\ loose' = loose \ {k} /\ lost' = lost \ {k}
           /\ spoiled' = IF Shown(k) THEN spoiled \cup {k} ELSE spoiled
           /\ UNCHANGED <<task, avatar, file, born, used>>
    BY <1>2 DEF DeleteImage, Drop, rows
  <2>2. k \in Key
    BY KeyTypes
  <2>3. Data'
    BY <1>0, <2>1, <2>2 DEF Data, RowsUsed
  <2> QED
    BY <1>00, <2>1, <2>3
<1>3. ASSUME NEW t \in Task, CreateTask(t) PROVE KeyInv'
  <2>1. PICK k \in Known \cup {NoKey} :
           /\ task' = [task EXCEPT ![t] = k] /\ Give(k) /\ born' = born \cup {t}
           /\ UNCHANGED <<avatar, file, stored, used, lost>>
    BY <1>3 DEF CreateTask
  <2>2. k \in (Image \cap used) \cup {NoKey}
    BY KeyTypes
  <2>3. loose' \subseteq loose /\ spoiled' \subseteq Key
    BY <1>0, <2>1, <2>2 DEF Give, Data, Key
  <2>4. Data'
    BY <1>0, <2>1, <2>2, <2>3 DEF Data, RowsUsed
  <2> QED
    BY <1>00, <2>1, <2>4
<1> QED
  BY <1>1, <1>2, <1>3

LEMMA BeginKeeps ==
    ASSUME KeyInv, NEW p \in Request,
           \/ \E t \in Task : Update(p, t) \/ Attach(p, t)
           \/ \E scope \in Scope : Delete(p, scope)
           \/ \E f \in File : Detach(p, f)
           \/ \E u \in User : Account(p, u) \/ DeleteUser(p, u)
    PROVE  KeyInv'
<1>0. RowsUsed /\ Known \subseteq Image \cap used /\ (\A t \in Task : t \notin File)
      /\ (\A u \in User : u \notin File) /\ NoRow \notin Image /\ NoKey # NoRow
  BY KeyTypes, KeyAssumption DEF KeyInv
<1>1. ASSUME NEW t \in Task, Update(p, t) PROVE KeyInv'
  <2>1. PICK k \in Known \cup {NoKey, task[t]} : Now(p, "Update", "write", {t}, task[t], k, {})
    BY <1>1, UpdateStep
  <2>2. task[t] \in (Image \cap used) \cup {NoKey} /\ Same
    BY <1>0, <1>1, UpdateStep DEF RowsUsed
  <2>3. Stages(req'[p], used)
    BY <1>0, <2>1, <2>2 DEF Now, Stages, UpdateStages
  <2> QED
    BY <2>1, <2>2, <2>3, SameKept
<1>2. ASSUME NEW t \in Task, Attach(p, t) PROVE KeyInv'
  <2>1. Now(p, "Attach", "insert", {t}, NoKey, NoKey, {}) /\ Same
    BY <1>2, AttachStep
  <2>2. Stages(req'[p], used)
    BY <1>0, <2>1 DEF Now, Stages, AttachStages
  <2> QED
    BY <2>1, <2>2, SameKept
<1>3. ASSUME NEW scope \in Scope, Delete(p, scope) PROVE KeyInv'
  <2> DEFINE keys == {task[t] : t \in scope} \ {NoKey, NoRow}
  <2>1. Now(p, "Delete", "collect", scope, NoKey, NoKey, keys) /\ Same
        /\ keys \subseteq Image \cap used /\ scope \subseteq Task
    BY <1>3, DeleteStep
  <2> HIDE DEF keys
  <2>2. Stages(req'[p], used)
    BY <1>0, <2>1 DEF Now, Stages, DeleteStages
  <2> QED
    BY <2>1, <2>2, SameKept
<1>4. ASSUME NEW f \in File, Detach(p, f) PROVE KeyInv'
  <2>1. Now(p, "Detach", "drop", {f}, NoKey, NoKey, {f}) /\ Same /\ f \in used
    BY <1>4, DetachStep
  <2>2. Stages(req'[p], used)
    BY <2>1 DEF Now, Stages, DetachStages
  <2> QED
    BY <2>1, <2>2, SameKept
<1>5. ASSUME NEW u \in User, Account(p, u) PROVE KeyInv'
  <2>1. avatar[u] \in (Image \cap used) \cup {NoKey} /\ Same
    BY <1>0, <1>5, AccountStep DEF RowsUsed
  <2>2. CASE Now(p, "Account", "put", {u}, avatar[u], NoKey, {})
    <3>1. Stages(req'[p], used)
      BY <1>0, <2>1, <2>2 DEF Now, Stages, AccountStages
    <3> QED
      BY <2>1, <2>2, <3>1, SameKept
  <2>3. ASSUME NEW k \in {NoKey, avatar[u]}, Now(p, "Account", "write", {u}, avatar[u], k, {})
        PROVE  KeyInv'
    <3>1. Stages(req'[p], used)
      BY <1>0, <2>1, <2>3 DEF Now, Stages, AccountStages
    <3> QED
      BY <2>1, <2>3, <3>1, SameKept
  <2> QED
    BY <1>5, <2>2, <2>3, AccountStep
<1>6. ASSUME NEW u \in User, DeleteUser(p, u) PROVE KeyInv'
  <2>1. avatar[u] \in (Image \cap used) \cup {NoKey} /\ Same
    BY <1>0, <1>6, DeleteUserStep DEF RowsUsed
  <2>2. CASE avatar[u] = NoKey
    <3>1. Now(p, "DeleteUser", "deleteUser", {u}, NoKey, NoKey, {})
      BY <1>6, <2>2, DeleteUserStep
    <3>2. Stages(req'[p], used)
      BY <1>0, <3>1 DEF Now, Stages, DeleteUserStages
    <3> QED
      BY <2>1, <3>1, <3>2, SameKept
  <2>3. CASE avatar[u] # NoKey
    <3>1. Now(p, "DeleteUser", "remove", {u}, NoKey, NoKey, {avatar[u]})
      BY <1>6, <2>3, DeleteUserStep
    <3>2. Stages(req'[p], used)
      BY <1>0, <2>1, <2>3, <3>1 DEF Now, Stages, DeleteUserStages
    <3> QED
      BY <2>1, <3>1, <3>2, SameKept
  <2> QED
    BY <2>2, <2>3
<1> QED
  BY <1>1, <1>2, <1>3, <1>4, <1>5, <1>6

LEMMA ProgressKeeps ==
    ASSUME KeyInv, NEW p \in Request,
           \/ UpdateTask(p) \/ CollectKeys(p) \/ DeleteRows(p) \/ CreateAttachment(p)
           \/ PutAttachment(p) \/ PutFails(p) \/ UndoAttach(p) \/ DeleteAttachment(p)
    PROVE  KeyInv'
<1>0. Data /\ TypeOK
  BY DataHolds DEF KeyInv
<1>1. CASE UpdateTask(p)
  <2>1. PICK t \in Task :
                 /\ task' = [task EXCEPT ![t] = IF @ = NoRow THEN NoRow ELSE req[p].new]
                 /\ IF task[t] = NoRow \/ req[p].new = req[p].old THEN UNCHANGED <<loose, spoiled>>
                    ELSE Give(req[p].new)
    BY <1>1, UpdateTaskStep
  <2>2. /\ req[p] # Idle /\ req[p].op = "Update" /\ req[p].at = "write"
        /\ Removes(p, {req[p].old} \ {NoKey, req[p].new})
        /\ UNCHANGED <<avatar, file, born, stored, used, lost>>
    BY <1>1, UpdateTaskStep
  <2>3. req[p].new \in (Image \cap used) \cup {NoKey} /\ req[p].old \in used \cup {NoKey}
    BY <2>2, Where, KeyAssumption DEF Stages, UpdateStages
  <2>4. loose' \subseteq loose /\ spoiled' \subseteq Key
    BY <1>0, <2>1, <2>3 DEF Give, Data, Key
  <2>5. Data'
    BY <1>0, <2>1, <2>2, <2>3, <2>4 DEF Data, RowsUsed
  <2>6. {req[p].old} \ {NoKey, req[p].new} \in SUBSET used
    BY <2>3
  <2> QED
    BY <2>2, <2>5, <2>6, RemovesKept
<1>2. CASE CollectKeys(p)
  <2>1. /\ req[p] # Idle /\ req[p].op = "Delete" /\ req[p].at = "collect" /\ Same
        /\ Now(p, "Delete", "delete", req[p].on, NoKey, NoKey, req[p].keys \cup FilesOf(req[p].on))
    BY <1>2, CollectKeysStep
  <2>2. Stages(req[p], used) /\ NoTask \notin req[p].on
    BY <2>1, Where, RowAssumption DEF Stages, DeleteStages
  <2>3. FilesOf(req[p].on) \subseteq used
    BY <1>0, <2>2 DEF FilesOf, Data, RowsUsed
  <2>4. Stages(req'[p], used)
    BY <2>1, <2>2, <2>3 DEF Now, Stages, DeleteStages
  <2> QED
    BY <2>1, <2>4, SameKept
<1>3. CASE DeleteRows(p)
  <2>1. /\ req[p] # Idle /\ req[p].op = "Delete" /\ req[p].at = "delete"
        /\ task' = [t \in Task |-> IF t \in req[p].on THEN NoRow ELSE task[t]]
        /\ file' = [f \in File |-> IF file[f] \in req[p].on THEN NoTask ELSE file[f]]
        /\ Removes(p, req[p].keys) \/ Over(p)
        /\ UNCHANGED <<avatar, born, stored, used, loose, lost, spoiled>>
    BY <1>3, DeleteRowsStep
  <2>2. Data'
    BY <1>0, <2>1 DEF Data, RowsUsed
  <2>3. req[p].keys \in SUBSET used
    BY <2>1, RequestTypes, Where, KeyAssumption DEF KeyInv, Stages
  <2> QED
    BY <2>1, <2>2, <2>3, RemovesKept
<1>4. CASE CreateAttachment(p)
  <2>1. /\ req[p] # Idle /\ req[p].op = "Attach"
        /\ UNCHANGED <<task, avatar, born, stored, loose, lost, spoiled>>
    BY <1>4, CreateAttachmentStep
  <2>2. CASE Over(p) /\ UNCHANGED <<file, used>>
    BY <2>1, <2>2, SameKept DEF Same
  <2>3. ASSUME NEW f \in File \ used, NEW t \in Task,
               file' = [file EXCEPT ![f] = t], used' = used \cup {f},
               Now(p, "Attach", "put", {t, f}, NoKey, f, {})
        PROVE  KeyInv'
    <3>1. Data'
      BY <1>0, <2>1, <2>3 DEF Data, RowsUsed, Key
    <3>2. Stages(req'[p], used')
      BY <2>3, KeyAssumption DEF Now, Stages, AttachStages
    <3> QED
      BY <2>3, <3>1, <3>2, KeyKept DEF Now
  <2> QED
    BY <1>4, <2>2, <2>3, CreateAttachmentStep
<1>5. CASE PutAttachment(p)
  <2>1. /\ req[p].new \in File \cap used /\ stored' = stored \cup {req[p].new} /\ Over(p)
        /\ UNCHANGED <<task, avatar, file, born, used, loose, lost, spoiled>>
    BY <1>5, PutAttachmentStep
  <2>2. Data'
    BY <1>0, <2>1 DEF Data, RowsUsed
  <2> QED
    BY <2>1, <2>2, KeyKept DEF Over
<1>6. CASE PutFails(p)
  <2>1. /\ req[p].new \in File \cap used /\ stored' \in {stored, stored \cup {req[p].new}}
        /\ Now(p, "Attach", "undo", req[p].on, NoKey, req[p].new, {})
        /\ req[p] # Idle /\ req[p].op = "Attach" /\ req[p].at = "put"
        /\ UNCHANGED <<task, avatar, file, born, used, loose, lost, spoiled>>
    BY <1>6, PutFailsStep
  <2>2. Data'
    BY <1>0, <2>1 DEF Data, RowsUsed
  <2>3. Stages(req'[p], used')
    BY <2>1, Where DEF Now, Stages, AttachStages
  <2> QED
    BY <2>1, <2>2, <2>3, KeyKept DEF Now
<1>7. CASE UndoAttach(p)
  <2>1. /\ req[p] # Idle /\ req[p].op = "Attach" /\ req[p].at = "undo" /\ req[p].new \in File \cap used
        /\ \/ file' = [file EXCEPT ![req[p].new] = NoTask] /\ UNCHANGED spoiled
           \/ UNCHANGED file /\ spoiled' = spoiled \cup {req[p].new}
        /\ Now(p, "Attach", "remove", req[p].on, NoKey, NoKey, {req[p].new})
        /\ UNCHANGED <<task, avatar, born, stored, used, loose, lost>>
    BY <1>7, UndoAttachStep
  <2>2. spoiled' \subseteq Key /\ file' \in [File -> Task \cup {NoTask}]
        /\ \A f \in File : file'[f] # NoTask => file[f] # NoTask
    BY <1>0, <2>1 DEF Data, Key
  <2>3. Data'
    BY <1>0, <2>1, <2>2 DEF Data, RowsUsed
  <2>4. Stages(req'[p], used')
    BY <2>1, Where DEF Now, Stages, AttachStages
  <2> QED
    BY <2>1, <2>3, <2>4, KeyKept DEF Now
<1>8. CASE DeleteAttachment(p)
  <2>1. PICK f \in File \cap used :
                 /\ file' = [file EXCEPT ![f] = NoTask]
                 /\ IF file[f] # NoTask THEN Now(p, "Detach", "remove", {f}, NoKey, NoKey, {f})
                                        ELSE Over(p)
    BY <1>8, DeleteAttachmentStep
  <2>2. UNCHANGED <<task, avatar, born, stored, used, loose, lost, spoiled>>
    BY <1>8, DeleteAttachmentStep
  <2>3. Data'
    BY <1>0, <2>1, <2>2 DEF Data, RowsUsed
  <2>4. CASE Over(p)
    BY <2>2, <2>3, <2>4, KeyKept DEF Over
  <2>5. CASE Now(p, "Detach", "remove", {f}, NoKey, NoKey, {f})
    <3>1. Stages(req'[p], used')
      BY <2>1, <2>2, <2>5 DEF Now, Stages, DetachStages
    <3> QED
      BY <2>2, <2>3, <2>5, <3>1, KeyKept DEF Now
  <2> QED
    BY <2>1, <2>4, <2>5
<1> QED
  BY <1>1, <1>2, <1>3, <1>4, <1>5, <1>6, <1>7, <1>8

LEMMA AccountsKeep ==
    ASSUME KeyInv, NEW p \in Request,
           \/ PutAvatar(p) \/ UpdateUser(p) \/ UpdateUserFails(p) \/ DeleteUserRow(p)
           \/ Remove(p) \/ RequestFails(p)
    PROVE  KeyInv'
<1>0. Data /\ TypeOK
  BY DataHolds DEF KeyInv
<1>1. CASE PutAvatar(p)
  <2>1. PICK k \in Image \ used :
                 /\ used' = used \cup {k} /\ stored' = stored \cup {k}
                 /\ Now(p, "Account", "write", req[p].on, req[p].old, k, {})
    BY <1>1, PutAvatarStep
  <2>2. /\ req[p] # Idle /\ req[p].op = "Account" /\ req[p].at = "put"
        /\ UNCHANGED <<task, avatar, file, born, loose, lost, spoiled>>
    BY <1>1, PutAvatarStep
  <2>3. Data'
    BY <1>0, <2>1, <2>2 DEF Data, RowsUsed, Key
  <2>4. Stages(req'[p], used')
    BY <2>1, <2>2, Where DEF Now, Stages, AccountStages
  <2> QED
    BY <2>1, <2>3, <2>4, KeyKept DEF Now
<1>2. CASE UpdateUser(p)
  <2>1. PICK u \in User : avatar' = [avatar EXCEPT ![u] = IF @ = NoRow THEN NoRow ELSE req[p].new]
    BY <1>2, UpdateUserStep
  <2>2. /\ req[p] # Idle /\ req[p].op = "Account" /\ req[p].at = "write"
        /\ Removes(p, {req[p].old} \ {NoKey, req[p].new})
        /\ UNCHANGED <<task, file, born, stored, used, loose, lost, spoiled>>
    BY <1>2, UpdateUserStep
  <2>3. req[p].new \in (Image \cap used) \cup {NoKey} /\ req[p].old \in used \cup {NoKey}
    BY <2>2, Where, KeyAssumption DEF Stages, AccountStages
  <2>4. Data'
    BY <1>0, <2>1, <2>2, <2>3 DEF Data, RowsUsed
  <2>5. {req[p].old} \ {NoKey, req[p].new} \in SUBSET used
    BY <2>3
  <2> QED
    BY <2>2, <2>4, <2>5, RemovesKept
<1>3. CASE UpdateUserFails(p)
  <2>1. /\ req[p] # Idle /\ req[p].op = "Account" /\ req[p].at = "write"
        /\ Removes(p, {req[p].new} \ {NoKey, req[p].old}) /\ Same
    BY <1>3, UpdateUserFailsStep
  <2>2. {req[p].new} \ {NoKey, req[p].old} \in SUBSET used
    BY <2>1, Where DEF Stages
  <2>3. Data' /\ used' = used
    BY <1>0, <2>1 DEF Same, Data, RowsUsed
  <2> QED
    BY <2>1, <2>2, <2>3, RemovesKept
<1>4. CASE DeleteUserRow(p)
  <2>1. PICK u \in User : avatar' = [avatar EXCEPT ![u] = NoRow]
    BY <1>4, DeleteUserRowStep
  <2>2. Over(p) /\ UNCHANGED <<task, file, born, stored, used, loose, lost, spoiled>>
    BY <1>4, DeleteUserRowStep
  <2>3. Data'
    BY <1>0, <2>1, <2>2 DEF Data, RowsUsed
  <2> QED
    BY <2>2, <2>3, KeyKept DEF Over
<1>5. CASE Remove(p)
  <2>1. PICK k \in req[p].keys :
                 /\ \/ stored' = stored \ {k} /\ lost' = lost \ {k}
                    \/ k \in stored /\ lost' = lost \cup {k} /\ UNCHANGED stored
                 /\ IF req[p].keys # {k}
                    THEN Now(p, req[p].op, "remove", req[p].on, NoKey, NoKey, req[p].keys \ {k})
                    ELSE IF req[p].op = "DeleteUser"
                         THEN Now(p, "DeleteUser", "deleteUser", req[p].on, NoKey, NoKey, {})
                         ELSE Over(p)
    BY <1>5, RemoveStep
  <2>2. /\ req[p] # Idle /\ req[p].at = "remove"
        /\ UNCHANGED <<task, avatar, file, born, used, loose, spoiled>>
    BY <1>5, RemoveStep
  <2>3. Stages(req[p], used) /\ req[p].keys \subseteq Key /\ req[p].op \in OpNames
    BY <1>0, <2>2, Where, RequestTypes
  <2>4. lost' \subseteq Key /\ stored' \subseteq stored
    BY <1>0, <2>1, <2>3 DEF Data
  <2>5. Data'
    BY <1>0, <2>2, <2>4 DEF Data, RowsUsed
  <2>6. CASE Over(p)
    BY <2>2, <2>5, <2>6, KeyKept DEF Over
  <2>7. CASE Now(p, "DeleteUser", "deleteUser", req[p].on, NoKey, NoKey, {}) /\ req[p].op = "DeleteUser"
    <3>1. Stages(req'[p], used')
      BY <2>2, <2>3, <2>7 DEF Now, Stages, DeleteUserStages
    <3> QED
      BY <2>2, <2>5, <2>7, <3>1, KeyKept DEF Now
  <2>8. CASE Now(p, req[p].op, "remove", req[p].on, NoKey, NoKey, req[p].keys \ {k}) /\ req[p].keys # {k}
    <3>1. req[p].op # "DeleteUser"
      BY <2>2, <2>3, <2>8 DEF Stages, DeleteUserStages
    <3>2. Stages(req'[p], used')
      BY <2>2, <2>3, <2>8, <3>1
         DEF Now, Stages, UpdateStages, DeleteStages, AttachStages, DetachStages, AccountStages
    <3> QED
      BY <2>2, <2>5, <2>8, <3>2, KeyKept DEF Now
  <2> QED
    BY <2>1, <2>6, <2>7, <2>8
<1>6. CASE RequestFails(p)
  <2>1. /\ req[p] # Idle /\ Over(p)
        /\ lost' = lost \cup (Abandoned(req[p]) \cap stored)
        /\ spoiled' = spoiled \cup Bereft(req[p])
        /\ UNCHANGED <<task, avatar, file, born, stored, used, loose>>
    BY <1>6, FailStep
  <2>2. lost' \subseteq Key
    BY <1>0, <2>1 DEF Data
  <2>3. Bereft(req[p]) \subseteq Key
    <3>1. CASE req[p].op = "Attach" /\ req[p].at \in {"put", "undo"}
      <4>1. req[p].new \in File
        BY <2>1, <3>1, Where DEF Stages, AttachStages
      <4> QED
        BY <3>1, <4>1 DEF Bereft, Key
    <3>2. CASE req[p].op = "DeleteUser"
      <4>1. \A u \in req[p].on : u \in User
        BY <2>1, <3>2, Where DEF Stages, DeleteUserStages
      <4>2. Bereft(req[p]) = {avatar[u] : u \in req[p].on} \ {NoKey, NoRow}
        BY <3>2 DEF Bereft
      <4>3. \A k \in Bereft(req[p]) : k \in Image
        BY <4>1, <4>2, KeyTypes
      <4> QED
        BY <4>3 DEF Key
    <3>3. CASE ~(req[p].op = "Attach" /\ req[p].at \in {"put", "undo"}) /\ req[p].op # "DeleteUser"
      BY <3>3 DEF Bereft
    <3> QED
      BY <3>1, <3>2, <3>3
  <2>4. Data'
    BY <1>0, <2>1, <2>2, <2>3 DEF Data, RowsUsed
  <2> QED
    BY <2>1, <2>4, KeyKept DEF Over
<1> QED
  BY <1>1, <1>2, <1>3, <1>4, <1>5, <1>6

LEMMA KeyStep == KeyInv /\ [Next]_vars => KeyInv'
<1> SUFFICES ASSUME KeyInv, [Next]_vars PROVE KeyInv'
  OBVIOUS
<1>1. CASE Next
  BY <1>1, ClientKeeps, BeginKeeps, ProgressKeeps, AccountsKeep DEF Next
<1>2. CASE UNCHANGED vars
  BY <1>2 DEF vars, rows, KeyInv, TypeOK, Staged, RowsUsed
<1> QED
  BY <1>1, <1>2

LEMMA KeyInvariant == Spec => []KeyInv
<1> QED
  BY InitKeys, KeyStep, PTL DEF Spec

\* Every variable stays in its type, and there is an object only for a key that was made.
THEOREM TypeCorrect == Spec => []TypeOK
<1>1. KeyInv => TypeOK
  BY DEF KeyInv
<1> QED
  BY <1>1, KeyInvariant, PTL

-----------------------------------------------------------------------------
\* Attachments.
LEMMA AttachmentKept ==
    ASSUME AttachmentInv, KeyInv', NEW p \in Request,
           \A o \in Request \ {p} : req'[o] = req[o],
           \A f \in File : file'[f] \in {file[f], NoTask},
           \A f \in File \cap stored : f \in stored' \/ file'[f] = NoTask \/ f \in spoiled',
           spoiled \subseteq spoiled',
           req'[p] # Idle => (DropKnown(req[p]))',
           \A f \in File :
              req[p] # Idle /\ req[p].op = "Attach" /\ f \in req[p].keys \cup {req[p].new} =>
                 \/ f \in stored' \/ file'[f] = NoTask \/ f \in spoiled'
                 \/ req'[p] # Idle /\ req'[p].op = "Attach" /\ f \in req'[p].keys \cup {req'[p].new}
    PROVE  AttachmentInv'
<1>1. DropsKnown'
  <2> SUFFICES ASSUME NEW o \in Request, req'[o] # Idle PROVE (DropKnown(req[o]))'
    BY DEF DropsKnown
  <2>1. CASE o = p
    BY <2>1
  <2>2. CASE o # p
    <3>1. req'[o] = req[o] /\ DropKnown(req[o])
      BY <2>2 DEF AttachmentInv, DropsKnown
    <3> QED
      BY <3>1 DEF DropKnown
  <2> QED
    BY <2>1, <2>2
<1>2. AttachmentStored'
  <2> SUFFICES ASSUME NEW f \in File, file'[f] # NoTask, f \notin spoiled', f \notin stored'
               PROVE  \E o \in Request : req'[o] # Idle /\ req'[o].op = "Attach"
                                         /\ f \in req'[o].keys \cup {req'[o].new}
    BY DEF AttachmentStored, Serving
  <2>1. file[f] # NoTask /\ f \notin spoiled /\ f \notin stored
    OBVIOUS
  <2>2. PICK o \in Request : req[o] # Idle /\ req[o].op = "Attach" /\ f \in req[o].keys \cup {req[o].new}
    BY <2>1 DEF AttachmentInv, AttachmentStored, Serving
  <2> QED
    BY <2>2
<1> QED
  BY <1>1, <1>2 DEF AttachmentInv

\* The steps that neither make nor end an attachment.
LEMMA AttachmentAside ==
    ASSUME AttachmentInv, KeyInv', NEW p \in Request,
           \A o \in Request \ {p} : req'[o] = req[o], file' = file,
           \A f \in File : f \in stored => f \in stored', spoiled \subseteq spoiled',
           req[p] = Idle \/ req[p].op # "Attach" \/ req[p].at = "insert",
           req'[p] # Idle =>
              req'[p].at \notin {"delete", "remove"} \/ req'[p].keys \cap File = {}
    PROVE  AttachmentInv'
<1>1. req'[p] # Idle => (DropKnown(req[p]))'
  BY DEF DropKnown
<1>2. ASSUME NEW f \in File, req[p] # Idle, req[p].op = "Attach"
      PROVE  f \notin req[p].keys \cup {req[p].new}
  BY <1>2, Where, KeyTypes DEF AttachmentInv, Stages, AttachStages
<1> QED
  BY <1>1, <1>2, AttachmentKept

LEMMA AttachmentBegins ==
    ASSUME AttachmentInv, KeyInv', NEW p \in Request,
           \/ \E t \in Task : Update(p, t) \/ Attach(p, t)
           \/ \E scope \in Scope : Delete(p, scope)
           \/ \E f \in File : Detach(p, f)
           \/ \E u \in User : Account(p, u) \/ DeleteUser(p, u)
    PROVE  AttachmentInv'
<1>0. KeyInv /\ \A k \in Image : k \notin File
  BY KeyTypes DEF AttachmentInv
<1>1. ASSUME Same, req[p] = Idle, NEW op, NEW at, NEW on, NEW old, NEW new, NEW keys,
             Now(p, op, at, on, old, new, keys),
             at \notin {"delete", "remove"} \/ keys \cap File = {}
      PROVE  AttachmentInv'
  BY <1>1, AttachmentAside DEF Same, Now
<1>2. ASSUME NEW t \in Task, Update(p, t) PROVE AttachmentInv'
  <2>1. PICK k : Now(p, "Update", "write", {t}, task[t], k, {})
    BY <1>0, <1>2, UpdateStep
  <2>2. Same /\ req[p] = Idle
    BY <1>0, <1>2, UpdateStep DEF MayBegin
  <2> QED
    BY <1>1, <2>1, <2>2
<1>3. ASSUME NEW t \in Task, Attach(p, t) PROVE AttachmentInv'
  <2>1. Same /\ req[p] = Idle /\ Now(p, "Attach", "insert", {t}, NoKey, NoKey, {})
    BY <1>0, <1>3, AttachStep DEF MayBegin
  <2> QED
    BY <1>1, <2>1
<1>4. ASSUME NEW scope \in Scope, Delete(p, scope) PROVE AttachmentInv'
  <2>1. Same /\ req[p] = Idle
        /\ Now(p, "Delete", "collect", scope, NoKey, NoKey, {task[t] : t \in scope} \ {NoKey, NoRow})
    BY <1>0, <1>4, DeleteStep DEF MayBegin
  <2> QED
    BY <1>1, <2>1
<1>5. ASSUME NEW f \in File, Detach(p, f) PROVE AttachmentInv'
  <2>1. Same /\ req[p] = Idle /\ Now(p, "Detach", "drop", {f}, NoKey, NoKey, {f})
    BY <1>0, <1>5, DetachStep DEF MayBegin
  <2> QED
    BY <1>1, <2>1
<1>6. ASSUME NEW u \in User, Account(p, u) PROVE AttachmentInv'
  <2>1. PICK at \in {"put", "write"}, k \in {NoKey, avatar[u]} : Now(p, "Account", at, {u}, avatar[u], k, {})
    BY <1>0, <1>6, AccountStep
  <2>2. Same /\ req[p] = Idle
    BY <1>0, <1>6, AccountStep DEF MayBegin
  <2> QED
    BY <1>1, <2>1, <2>2
<1>7. ASSUME NEW u \in User, DeleteUser(p, u) PROVE AttachmentInv'
  <2>1. Same /\ req[p] = Idle /\ avatar[u] \in Image \cup {NoKey}
    BY <1>0, <1>7, DeleteUserStep DEF MayBegin
  <2>2. CASE avatar[u] = NoKey
    <3>1. Now(p, "DeleteUser", "deleteUser", {u}, NoKey, NoKey, {})
      BY <1>0, <1>7, <2>2, DeleteUserStep
    <3> QED
      BY <1>1, <2>1, <3>1
  <2>3. CASE avatar[u] # NoKey
    <3>1. Now(p, "DeleteUser", "remove", {u}, NoKey, NoKey, {avatar[u]})
      BY <1>0, <1>7, <2>3, DeleteUserStep
    <3>2. {avatar[u]} \cap File = {}
      BY <1>0, <2>1, <2>3
    <3> QED
      BY <1>1, <2>1, <3>1, <3>2
  <2> QED
    BY <2>2, <2>3
<1> QED
  BY <1>2, <1>3, <1>4, <1>5, <1>6, <1>7

LEMMA AttachmentClients ==
    ASSUME AttachmentInv, KeyInv', UploadImage \/ DeleteImage \/ \E t \in Task : CreateTask(t)
    PROVE  AttachmentInv'
<1>1. /\ UNCHANGED <<req, file>>
      /\ \A f \in File : f \in stored => f \in stored'
      /\ spoiled \subseteq spoiled'
  <2>1. CASE UploadImage
    BY <2>1 DEF UploadImage, Put, rows
  <2>2. CASE DeleteImage
    BY <2>2, KeyTypes DEF DeleteImage, Drop, rows, AttachmentInv
  <2>3. CASE \E t \in Task : CreateTask(t)
    BY <2>3 DEF CreateTask, Give
  <2> QED
    BY <2>1, <2>2, <2>3
<1>2. DropsKnown'
  BY <1>1 DEF AttachmentInv, DropsKnown, DropKnown
<1>3. AttachmentStored'
  BY <1>1 DEF AttachmentInv, AttachmentStored, Serving
<1> QED
  BY <1>2, <1>3 DEF AttachmentInv

LEMMA AttachmentProgress ==
    ASSUME AttachmentInv, KeyInv', NEW p \in Request,
           \/ UpdateTask(p) \/ CollectKeys(p) \/ DeleteRows(p) \/ CreateAttachment(p)
           \/ PutAttachment(p) \/ PutFails(p) \/ UndoAttach(p) \/ DeleteAttachment(p)
    PROVE  AttachmentInv'
<1>0. KeyInv /\ TypeOK /\ \A k \in Image : k \notin File
  BY KeyTypes DEF AttachmentInv, KeyInv
<1>1. CASE UpdateTask(p)
  <2>1. /\ req[p] # Idle /\ req[p].op = "Update" /\ Removes(p, {req[p].old} \ {NoKey, req[p].new})
        /\ UNCHANGED <<file, stored>>
    BY <1>0, <1>1, UpdateTaskStep
  <2>2. spoiled \subseteq spoiled'
    BY <1>0, <1>1, UpdateTaskStep DEF Give
  <2>3. req[p].old \in Image \cup {NoKey}
    BY <1>0, <2>1, RequestTypes
  <2> QED
    BY <1>0, <2>1, <2>2, <2>3, AttachmentAside DEF Removes, Over, Now
<1>2. CASE CollectKeys(p)
  <2>1. /\ req[p] # Idle /\ req[p].op = "Delete" /\ req[p].at = "collect" /\ Same
        /\ Now(p, "Delete", "delete", req[p].on, NoKey, NoKey, req[p].keys \cup FilesOf(req[p].on))
    BY <1>0, <1>2, CollectKeysStep
  <2>2. req[p].keys \subseteq Image
    BY <1>0, <2>1, Where DEF Stages, DeleteStages
  <2>3. req'[p] # Idle => (DropKnown(req[p]))'
    BY <1>0, <2>1, <2>2 DEF Now, DropKnown, FilesOf, Same
  <2> QED
    BY <2>1, <2>3, AttachmentKept DEF Same, Now
<1>3. CASE DeleteRows(p)
  <2>1. /\ req[p] # Idle /\ req[p].op = "Delete" /\ req[p].at = "delete"
        /\ file' = [f \in File |-> IF file[f] \in req[p].on THEN NoTask ELSE file[f]]
        /\ Removes(p, req[p].keys) \/ Over(p)
        /\ UNCHANGED <<stored, spoiled>>
    BY <1>0, <1>3, DeleteRowsStep
  <2>2. DropKnown(req[p])
    BY <2>1 DEF AttachmentInv, DropsKnown
  <2>3. req'[p] # Idle => req'[p].at = "remove" /\ req'[p].keys = req[p].keys
    BY <2>1 DEF Removes, Now, Over
  <2>4. \A f \in req[p].keys \cap File : file'[f] = NoTask
    BY <2>1, <2>2 DEF DropKnown
  <2>5. req'[p] # Idle => (DropKnown(req[p]))'
    BY <2>3, <2>4 DEF DropKnown
  <2>6. \A o \in Request \ {p} : req'[o] = req[o]
    BY <2>1 DEF Removes, Now, Over
  <2> QED
    BY <2>1, <2>5, <2>6, AttachmentKept
<1>4. CASE CreateAttachment(p)
  <2>1. /\ req[p] # Idle /\ req[p].op = "Attach" /\ req[p].at = "insert"
        /\ UNCHANGED <<stored, spoiled>>
    BY <1>0, <1>4, CreateAttachmentStep
  <2>2. CASE Over(p) /\ UNCHANGED <<file, used>>
    BY <2>1, <2>2, AttachmentAside DEF Over
  <2>3. ASSUME NEW f \in File \ used, NEW t \in Task, file' = [file EXCEPT ![f] = t],
               Now(p, "Attach", "put", {t, f}, NoKey, f, {})
        PROVE  AttachmentInv'
    <3>1. \A g \in File \ {f} : file'[g] = file[g]
      BY <1>0, <2>3 DEF TypeOK
    <3>2. DropsKnown'
      <4> SUFFICES ASSUME NEW o \in Request, req'[o] # Idle PROVE (DropKnown(req[o]))'
        BY DEF DropsKnown
      <4>1. CASE o = p
        BY <2>3, <4>1 DEF Now, DropKnown
      <4>2. CASE o # p
        <5>1. req'[o] = req[o] /\ DropKnown(req[o]) /\ Stages(req[o], used) /\ f # NoKey
          BY <1>0, <2>3, <4>2, Where, KeyTypes DEF Now, AttachmentInv, DropsKnown
        <5>2. f \notin req[o].keys
          BY <2>3, <5>1 DEF Stages
        <5> QED
          BY <2>1, <3>1, <5>1, <5>2 DEF DropKnown
      <4> QED
        BY <4>1, <4>2
    <3>3. AttachmentStored'
      <4> SUFFICES ASSUME NEW g \in File, file'[g] # NoTask, g \notin spoiled', g \notin stored'
                   PROVE  \E o \in Request : req'[o] # Idle /\ req'[o].op = "Attach"
                                             /\ g \in req'[o].keys \cup {req'[o].new}
        BY DEF AttachmentStored, Serving
      <4>1. CASE g = f
        BY <2>3, <4>1 DEF Now
      <4>2. CASE g # f
        <5>1. file[g] # NoTask /\ g \notin spoiled /\ g \notin stored
          BY <2>1, <3>1, <4>2
        <5>2. PICK o \in Request : req[o] # Idle /\ req[o].op = "Attach"
                                   /\ g \in req[o].keys \cup {req[o].new}
          BY <5>1 DEF AttachmentInv, AttachmentStored, Serving
        <5>3. o # p
          BY <1>0, <2>1, <5>2, Where, KeyTypes DEF Stages, AttachStages
        <5> QED
          BY <2>3, <5>2, <5>3 DEF Now
      <4> QED
        BY <4>1, <4>2
    <3> QED
      BY <3>2, <3>3 DEF AttachmentInv
  <2> QED
    BY <1>0, <1>4, <2>2, <2>3, CreateAttachmentStep
<1>5. CASE PutAttachment(p)
  <2>1. /\ req[p] # Idle /\ req[p].op = "Attach" /\ req[p].at = "put"
        /\ stored' = stored \cup {req[p].new} /\ Over(p) /\ UNCHANGED <<file, spoiled>>
    BY <1>0, <1>5, PutAttachmentStep
  <2>2. req[p].keys = {}
    BY <1>0, <2>1, Where DEF Stages, AttachStages
  <2> QED
    BY <2>1, <2>2, AttachmentKept DEF Over
<1>6. CASE PutFails(p)
  <2>1. /\ req[p] # Idle /\ req[p].op = "Attach" /\ req[p].at = "put"
        /\ stored' \in {stored, stored \cup {req[p].new}}
        /\ Now(p, "Attach", "undo", req[p].on, NoKey, req[p].new, {})
        /\ UNCHANGED <<file, spoiled>>
    BY <1>0, <1>6, PutFailsStep
  <2>2. req[p].keys = {}
    BY <1>0, <2>1, Where DEF Stages, AttachStages
  <2>3. (DropKnown(req[p]))'
    BY <2>1 DEF Now, DropKnown
  <2> QED
    BY <2>1, <2>2, <2>3, AttachmentKept DEF Now
<1>7. CASE UndoAttach(p)
  <2>1. /\ req[p] # Idle /\ req[p].op = "Attach" /\ req[p].at = "undo" /\ req[p].new \in File \cap used
        /\ \/ file' = [file EXCEPT ![req[p].new] = NoTask] /\ UNCHANGED spoiled
           \/ UNCHANGED file /\ spoiled' = spoiled \cup {req[p].new}
        /\ Now(p, "Attach", "remove", req[p].on, NoKey, NoKey, {req[p].new})
        /\ UNCHANGED stored
    BY <1>0, <1>7, UndoAttachStep
  <2>2. file'[req[p].new] = NoTask \/ req[p].new \in spoiled'
    BY <1>0, <2>1 DEF TypeOK
  <2>3. (\A f \in File : file'[f] \in {file[f], NoTask}) /\ spoiled \subseteq spoiled'
    BY <1>0, <2>1 DEF TypeOK
  <2>4. (DropKnown(req[p]))'
    BY <2>1, <2>2 DEF Now, DropKnown
  <2>5. req[p].keys = {}
    BY <1>0, <2>1, Where DEF Stages, AttachStages
  <2> QED
    BY <2>1, <2>2, <2>3, <2>4, <2>5, AttachmentKept DEF Now
<1>8. CASE DeleteAttachment(p)
  <2>1. PICK f \in File \cap used :
                 /\ file' = [file EXCEPT ![f] = NoTask]
                 /\ IF file[f] # NoTask THEN Now(p, "Detach", "remove", {f}, NoKey, NoKey, {f})
                                        ELSE Over(p)
    BY <1>0, <1>8, DeleteAttachmentStep
  <2>2. req[p] # Idle /\ req[p].op = "Detach" /\ UNCHANGED <<stored, spoiled>>
    BY <1>0, <1>8, DeleteAttachmentStep
  <2>3. file'[f] = NoTask /\ \A g \in File : file'[g] \in {file[g], NoTask}
    BY <1>0, <2>1 DEF TypeOK
  <2>4. req'[p] # Idle => (DropKnown(req[p]))'
    BY <2>1, <2>3 DEF Now, Over, DropKnown
  <2>5. \A o \in Request \ {p} : req'[o] = req[o]
    BY <2>1 DEF Now, Over
  <2> QED
    BY <2>2, <2>3, <2>4, <2>5, AttachmentKept
<1> QED
  BY <1>1, <1>2, <1>3, <1>4, <1>5, <1>6, <1>7, <1>8

LEMMA AttachmentAccounts ==
    ASSUME AttachmentInv, KeyInv', NEW p \in Request,
           \/ PutAvatar(p) \/ UpdateUser(p) \/ UpdateUserFails(p) \/ DeleteUserRow(p)
           \/ Remove(p) \/ RequestFails(p)
    PROVE  AttachmentInv'
<1>0. KeyInv /\ TypeOK /\ \A k \in Image : k \notin File
  BY KeyTypes DEF AttachmentInv, KeyInv
<1>1. CASE PutAvatar(p)
  <2>1. PICK k \in Image \ used :
                 stored' = stored \cup {k} /\ Now(p, "Account", "write", req[p].on, req[p].old, k, {})
    BY <1>0, <1>1, PutAvatarStep
  <2>2. req[p].op = "Account" /\ UNCHANGED <<file, spoiled>>
    BY <1>0, <1>1, PutAvatarStep
  <2> QED
    BY <2>1, <2>2, AttachmentAside DEF Now
<1>2. CASE UpdateUser(p) \/ UpdateUserFails(p)
  <2>1. /\ req[p] # Idle /\ req[p].op = "Account" /\ req[p].at = "write" /\ UNCHANGED <<file, stored, spoiled>>
        /\ \/ Removes(p, {req[p].old} \ {NoKey, req[p].new})
           \/ Removes(p, {req[p].new} \ {NoKey, req[p].old})
    BY <1>0, <1>2, UpdateUserStep, UpdateUserFailsStep DEF Same
  <2>2. req[p].old \in Image \cup {NoKey} /\ req[p].new \in Image \cup {NoKey}
    BY <1>0, <2>1, RequestTypes, Where DEF Stages, AccountStages
  <2>3. /\ \A o \in Request \ {p} : req'[o] = req[o]
        /\ req'[p] # Idle => req'[p].keys \cap File = {}
    BY <1>0, <2>1, <2>2 DEF Removes, Over, Now
  <2> QED
    BY <2>1, <2>3, AttachmentAside
<1>3. CASE DeleteUserRow(p)
  <2>1. req[p].op = "DeleteUser" /\ Over(p) /\ UNCHANGED <<file, stored, spoiled>>
    BY <1>0, <1>3, DeleteUserRowStep
  <2> QED
    BY <2>1, AttachmentAside DEF Over
<1>4. CASE Remove(p)
  <2>1. PICK k \in req[p].keys :
                 /\ \/ stored' = stored \ {k} /\ lost' = lost \ {k}
                    \/ k \in stored /\ lost' = lost \cup {k} /\ UNCHANGED stored
                 /\ IF req[p].keys # {k}
                    THEN Now(p, req[p].op, "remove", req[p].on, NoKey, NoKey, req[p].keys \ {k})
                    ELSE IF req[p].op = "DeleteUser"
                         THEN Now(p, "DeleteUser", "deleteUser", req[p].on, NoKey, NoKey, {})
                         ELSE Over(p)
    BY <1>0, <1>4, RemoveStep
  <2>2. req[p] # Idle /\ req[p].at = "remove" /\ UNCHANGED <<file, spoiled>>
    BY <1>0, <1>4, RemoveStep
  <2>3. \A f \in req[p].keys \cap File : file[f] = NoTask \/ f \in spoiled
    BY <2>2 DEF AttachmentInv, DropsKnown, DropKnown
  <2>4. \A f \in File \cap stored : f \in stored' \/ file'[f] = NoTask \/ f \in spoiled'
    BY <2>1, <2>2, <2>3
  <2>5. /\ \A o \in Request \ {p} : req'[o] = req[o]
        /\ req'[p] # Idle => req'[p].keys \subseteq req[p].keys /\ req'[p].at \in {"remove", "deleteUser"}
    BY <2>1 DEF Now, Over
  <2>6. req'[p] # Idle => (DropKnown(req[p]))'
    BY <2>2, <2>3, <2>5 DEF DropKnown
  <2>7. \A f \in File : f \in req[p].keys \cup {req[p].new} => file'[f] = NoTask \/ f \in spoiled'
    BY <1>0, <2>2, <2>3, Where, KeyTypes DEF Stages
  <2> QED
    BY <2>2, <2>4, <2>5, <2>6, <2>7, AttachmentKept
<1>5. CASE RequestFails(p)
  <2>1. /\ req[p] # Idle /\ Over(p) /\ spoiled' = spoiled \cup Bereft(req[p])
        /\ UNCHANGED <<file, stored>>
    BY <1>0, <1>5, FailStep
  <2>2. ASSUME NEW f \in File, req[p].op = "Attach", f \in req[p].keys \cup {req[p].new}
        PROVE  file'[f] = NoTask \/ f \in spoiled'
    <3>1. AttachStages(req[p], used) /\ f # NoKey
      BY <1>0, <2>1, <2>2, Where, KeyTypes DEF Stages
    <3>2. CASE req[p].at = "insert"
      BY <2>2, <3>1, <3>2 DEF AttachStages
    <3>3. CASE req[p].at \in {"put", "undo"}
      <4>1. Bereft(req[p]) = {req[p].new} /\ f = req[p].new
        BY <2>2, <3>1, <3>3 DEF Bereft, AttachStages
      <4> QED
        BY <2>1, <4>1
    <3>4. CASE req[p].at = "remove"
      <4>1. f \in req[p].keys /\ DropKnown(req[p])
        BY <1>0, <2>1, <2>2, <3>1, <3>4, Where DEF Stages, AttachmentInv, DropsKnown
      <4> QED
        BY <2>1, <3>4, <4>1 DEF DropKnown
    <3> QED
      BY <3>1, <3>2, <3>3, <3>4 DEF AttachStages
  <2> QED
    BY <2>1, <2>2, AttachmentKept DEF Over
<1> QED
  BY <1>1, <1>2, <1>3, <1>4, <1>5

\* Once its creation is over, an attachment that is listed can be downloaded, whoever else
\* works on it, on its task or on its board, and whatever fails: what fails half way is
\* spoiled, and nothing else.
THEOREM AttachmentsStored == Spec => []AttachmentStored
<1>1. Init => AttachmentInv
  <2> SUFFICES ASSUME Init PROVE AttachmentInv
    OBVIOUS
  <2>1. (\A p \in Request : req[p] = Idle) /\ \A f \in File : file[f] = NoTask
    BY DEF Init
  <2> QED
    BY <2>1, InitKeys DEF AttachmentInv, DropsKnown, AttachmentStored
<1>2. AttachmentInv /\ KeyInv' /\ [Next]_vars => AttachmentInv'
  <2> SUFFICES ASSUME AttachmentInv, KeyInv', [Next]_vars PROVE AttachmentInv'
    OBVIOUS
  <2>1. CASE Next
    BY <2>1, AttachmentClients, AttachmentBegins, AttachmentProgress, AttachmentAccounts DEF Next
  <2>2. CASE UNCHANGED vars
    BY <2>2 DEF vars, rows, AttachmentInv, DropsKnown, DropKnown, AttachmentStored, Serving
  <2> QED
    BY <2>1, <2>2
<1>3. AttachmentInv => AttachmentStored
  BY DEF AttachmentInv
<1> QED
  BY <1>1, <1>2, <1>3, KeyInvariant, PTL DEF Spec

-----------------------------------------------------------------------------
\* Who may be in progress beside whom.
LEMMA AllowedStays ==
    ASSUME Allowed, NEW p \in Request, \A o \in Request \ {p} : req'[o] = req[o],
           \/ req'[p] = Idle
           \/ req[p] = Idle /\ MayBegin(p, req'[p].op, req'[p].on)
           \/ /\ req[p] # Idle /\ req'[p].op = req[p].op
              /\ \A o \in Request \ {p} : req[o] # Idle => req'[p].on \cap req[o].on \subseteq req[p].on
    PROVE  Allowed'
<1> SUFFICES ASSUME NEW q \in Request, NEW o \in Request, q # o, req'[q] # Idle, req'[o] # Idle,
                    req'[q].on \cap req'[o].on # {}
             PROVE  {req'[q].op, req'[o].op} \in Together
  BY DEF Allowed
<1>1. ASSUME NEW w \in Request \ {p}, req'[p] # Idle, req[w] # Idle, req'[p].on \cap req[w].on # {}
      PROVE  {req'[p].op, req[w].op} \in Together
  <2>1. CASE req[p] = Idle /\ MayBegin(p, req'[p].op, req'[p].on)
    <3>1. req[w].on \cap req'[p].on # {}
      BY <1>1
    <3> QED
      BY <1>1, <2>1, <3>1 DEF MayBegin, Free
  <2>2. CASE req[p] # Idle
    <3>1. req[p].on \cap req[w].on # {}
      BY <1>1, <2>2
    <3> QED
      BY <1>1, <2>2, <3>1 DEF Allowed
  <2> QED
    BY <1>1, <2>1, <2>2
<1>2. CASE q # p /\ o # p
  BY <1>2 DEF Allowed
<1>3. CASE q = p
  BY <1>1, <1>3
<1>4. CASE o = p
  <2>1. {req'[q].op, req'[o].op} = {req'[o].op, req'[q].op} /\ req'[o].on \cap req'[q].on # {}
    OBVIOUS
  <2> QED
    BY <1>1, <1>4, <2>1
<1> QED
  BY <1>2, <1>3, <1>4

LEMMA AllowedKept ==
    ASSUME KeyInv, Allowed, [Next]_vars
    PROVE  Allowed'
<1>1. ASSUME UNCHANGED req PROVE Allowed'
  BY <1>1 DEF Allowed
<1>2. ASSUME NEW p \in Request, Over(p) PROVE Allowed'
  BY <1>2, AllowedStays DEF Over
<1>3. ASSUME NEW p \in Request, NEW op, NEW at, NEW on, NEW old, NEW new, NEW keys,
             Now(p, op, at, on, old, new, keys),
             MayBegin(p, op, on) \/ (req[p] # Idle /\ req[p].op = op /\ req[p].on = on)
      PROVE  Allowed'
  BY <1>3, AllowedStays DEF Now, MayBegin
<1>4. ASSUME NEW p \in Request, NEW keys, req[p] # Idle, Removes(p, keys) PROVE Allowed'
  BY <1>2, <1>3, <1>4 DEF Removes
<1>5. ASSUME NEW p \in Request, NEW t \in Task, Update(p, t) \/ Attach(p, t) PROVE Allowed'
  BY <1>3, <1>5, UpdateStep, AttachStep
<1>6. ASSUME NEW p \in Request, NEW scope \in Scope, Delete(p, scope) PROVE Allowed'
  BY <1>3, <1>6, DeleteStep
<1>7. ASSUME NEW p \in Request, NEW f \in File, Detach(p, f) PROVE Allowed'
  BY <1>3, <1>7, DetachStep
<1>8. ASSUME NEW p \in Request, NEW u \in User, Account(p, u) \/ DeleteUser(p, u) PROVE Allowed'
  BY <1>3, <1>8, AccountStep, DeleteUserStep
<1>9. ASSUME NEW p \in Request, UpdateTask(p) \/ UpdateUser(p) \/ UpdateUserFails(p) PROVE Allowed'
  BY <1>4, <1>9, UpdateTaskStep, UpdateUserStep, UpdateUserFailsStep
<1>10. ASSUME NEW p \in Request, CollectKeys(p) \/ PutFails(p) \/ UndoAttach(p) PROVE Allowed'
  BY <1>3, <1>10, CollectKeysStep, PutFailsStep, UndoAttachStep
<1>11. ASSUME NEW p \in Request, DeleteRows(p) PROVE Allowed'
  BY <1>2, <1>4, <1>11, DeleteRowsStep
<1>12. ASSUME NEW p \in Request, CreateAttachment(p) PROVE Allowed'
  <2>1. req[p] # Idle /\ req[p].op = "Attach"
    BY <1>12, CreateAttachmentStep
  <2>2. ASSUME NEW f \in File \ used, NEW t \in Task, req[p].on = {t},
               Now(p, "Attach", "put", {t, f}, NoKey, f, {})
        PROVE  Allowed'
    <3>1. \A o \in Request \ {p} : req[o] # Idle => f \notin req[o].on
      BY <2>2, Where DEF Stages
    <3> QED
      BY <2>1, <2>2, <3>1, AllowedStays DEF Now
  <2> QED
    BY <1>2, <1>12, <2>2, CreateAttachmentStep
<1>13. ASSUME NEW p \in Request, PutAttachment(p) \/ DeleteUserRow(p) \/ RequestFails(p) PROVE Allowed'
  BY <1>2, <1>13, PutAttachmentStep, DeleteUserRowStep, FailStep
<1>14. ASSUME NEW p \in Request, DeleteAttachment(p) PROVE Allowed'
  BY <1>2, <1>3, <1>14, DeleteAttachmentStep
<1>15. ASSUME NEW p \in Request, PutAvatar(p) PROVE Allowed'
  BY <1>3, <1>15, PutAvatarStep
<1>16. ASSUME NEW p \in Request, Remove(p) PROVE Allowed'
  BY <1>2, <1>3, <1>16, RemoveStep
<1>17. ASSUME UploadImage \/ DeleteImage \/ \E t \in Task : CreateTask(t) PROVE Allowed'
  BY <1>1, <1>17 DEF UploadImage, DeleteImage, CreateTask
<1>18. CASE Next
  BY <1>5, <1>6, <1>7, <1>8, <1>9, <1>10, <1>11, <1>12, <1>13, <1>14, <1>15, <1>16, <1>17, <1>18 DEF Next
<1> QED
  BY <1>1, <1>18 DEF vars

-----------------------------------------------------------------------------
\* Images.  A step makes rows show one image more at most, k (or NoKey, none): one that
\* nothing showed, or that is used twice from now on.
Gains(k, p) ==
    /\ \A t \in Task : task'[t] \in {task[t], NoRow, NoKey, k}
    /\ \A u \in User : avatar'[u] \in {avatar[u], NoRow, NoKey, k}
    /\ k # NoKey =>
          /\ k \in Image /\ k \notin loose'
          /\ \A o \in Request \ {p} : req[o] # Idle => k \notin Uploaded(req[o])
          /\ \/ k \in spoiled'
             \/ /\ k \in stored' /\ ShownBy(k, {}, {})
                /\ k \in loose \/ (p \in Request /\ req[p] # Idle /\ k \in Uploaded(req[p]))
                /\ \E tasks \in SUBSET Task, users \in SUBSET User :
                      /\ (ShownBy(k, tasks, users))'
                      /\ \/ (\E t \in Task : tasks = {t}) /\ users = {}
                         \/ tasks = {} /\ \E u \in User : users = {u}

\* What a step does to the objects: an image that is still shown goes only when its owner
\* deletes it, or before the account does.
KeepsImages(p) ==
    /\ spoiled \subseteq spoiled'
    /\ \A j \in loose' : j \in stored' /\ (j \in loose \/ j \notin used)
    /\ \A o \in Request \ {p} : req[o] # Idle => Uploaded(req[o]) \subseteq stored'
    /\ \A j \in Image \cap stored :
          \/ j \in stored' \cup spoiled'
          \/ (ShownBy(j, {}, {}))'
          \/ \E u \in User : (ShownBy(j, {}, {u}))' /\ \E q \in Request : At(q, "deleteUser")'
                                                             /\ u \in req'[q].on
    /\ p \in Request /\ req[p] # Idle /\ req[p].at = "deleteUser" =>
          \A u \in User \cap req[p].on :
             avatar'[u] = NoRow \/ avatar[u] \in spoiled' \cup {NoKey, NoRow}

\* What the request itself knows after its step.
Knows(p) ==
    p \in Request /\ req'[p] # Idle =>
       /\ (HeldKnown(req[p]))' /\ (UploadKnown(req[p]))' /\ (ReadKnown(req[p]))'
       /\ \A o \in Request \ {p} : req[o] # Idle =>
             /\ Uploaded(req[o]) \cap (Held(req'[p]) \cup {req'[p].new}) = {}
             /\ Uploaded(req'[p]) \cap (Held(req[o]) \cup {req[o].new}) = {}

\* What an image that is held is not, is a new one.
LEMMA HeldUsed ==
    ASSUME KeyInv, NEW p \in Request, req[p] # Idle
    PROVE  /\ Held(req[p]) \subseteq used /\ Held(req[p]) \subseteq Image
           /\ Uploaded(req[p]) \subseteq used /\ NoKey \notin Uploaded(req[p])
           /\ Uploaded(req[p]) \subseteq {req[p].new}
  BY Where, KeyAssumption DEF Stages, Held, Uploaded, Key

\* A row that shows an image after the step showed it before, or it is the new one.
LEMMA ShownBefore ==
    ASSUME NEW k, NEW p, Gains(k, p), NEW j \in Image, j # k \/ k = NoKey
    PROVE  /\ \A t \in Task : task'[t] = j => task[t] = j
           /\ \A u \in User : avatar'[u] = j => avatar[u] = j
           /\ \A tasks, users : ShownBy(j, tasks, users) => (ShownBy(j, tasks, users))'
<1>1. j # NoKey /\ j # NoRow /\ j # k
  BY KeyAssumption DEF Key
<1>2. /\ \A t \in Task : task'[t] = j => task[t] = j
      /\ \A u \in User : avatar'[u] = j => avatar[u] = j
  BY <1>1 DEF Gains
<1> QED
  BY <1>2 DEF ShownBy

LEMMA HeldStays ==
    ASSUME KeyInv, ImagesKnown, NEW p, NEW k, Gains(k, p), KeepsImages(p), NEW o \in Request \ {p},
           req[o] # Idle, req'[o] = req[o]
    PROVE  (HeldKnown(req[o]))'
<1>1. HeldKnown(req[o]) /\ Held(req[o]) \subseteq used \cap Image
  BY HeldUsed DEF ImagesKnown
<1> SUFFICES ASSUME NEW j \in Held(req[o])
             PROVE  /\ j \notin loose'
                    /\ \/ j \in spoiled'
                       \/ /\ req[o].op \in {"Update", "Delete"} /\ req[o].at # "remove"
                          /\ (ShownBy(j, req[o].on, {}))'
                       \/ /\ req[o].op = "DeleteUser" \/ (req[o].op = "Account" /\ req[o].at # "remove")
                          /\ (ShownBy(j, {}, req[o].on))'
                       \/ (ShownBy(j, {}, {}))'
  BY DEF HeldKnown, Held
<1>2. j \in Image /\ j \in used /\ j \notin loose
  BY <1>1 DEF HeldKnown
<1>3. j \notin loose'
  BY <1>2 DEF KeepsImages
<1>4. CASE j = k /\ k # NoKey
  <2>1. p \in Request /\ req[p] # Idle /\ k \in Uploaded(req[p]) => FALSE
    BY <1>4 DEF ImagesKnown
  <2>2. j \in spoiled'
    BY <1>2, <1>4, <2>1 DEF Gains
  <2> QED
    BY <1>3, <2>2
<1>5. CASE j # k \/ k = NoKey
  <2>1. \A tasks, users : ShownBy(j, tasks, users) => (ShownBy(j, tasks, users))'
    BY <1>2, <1>5, ShownBefore
  <2>2. CASE j \in spoiled
    BY <1>3, <2>2 DEF KeepsImages
  <2>3. CASE j \notin spoiled
    BY <1>1, <1>3, <2>1, <2>3 DEF HeldKnown
  <2> QED
    BY <2>2, <2>3
<1> QED
  BY <1>4, <1>5

LEMMA ImageKept ==
    ASSUME ImageInv, KeyInv', Allowed', NEW p, NEW k, Gains(k, p), KeepsImages(p), Knows(p),
           \A o \in Request \ {p} : req'[o] = req[o] /\ (req[o] # Idle => (ReadKnown(req[o]))')
    PROVE  ImageInv'
<1>0. KeyInv /\ ImagesKnown /\ OneRow /\ LooseKept /\ ImageStored
  BY DEF ImageInv
<1>1. ImagesKnown'
  <2>1. ASSUME NEW o \in Request \ {p}, req[o] # Idle
        PROVE  (HeldKnown(req[o]))' /\ (UploadKnown(req[o]))' /\ (ReadKnown(req[o]))'
    <3>1. (HeldKnown(req[o]))'
      BY <1>0, <2>1, HeldStays
    <3>2. ASSUME NEW j \in Uploaded(req[o])
          PROVE  j \in stored' \ loose' /\ (ShownBy(j, {}, {}))'
      <4>1. j \in stored \ loose /\ ShownBy(j, {}, {}) /\ j \in used /\ j \in Image /\ j # NoKey
        BY <1>0, <2>1, HeldUsed, KeyTypes, Where DEF ImagesKnown, UploadKnown, Uploaded, Stages, AccountStages
      <4>2. j # k \/ k = NoKey
        BY <2>1 DEF Gains
      <4> QED
        BY <2>1, <4>1, <4>2, ShownBefore DEF KeepsImages
    <3>3. (UploadKnown(req[o]))'
      <4>1. req'[o] = req[o]
        OBVIOUS
      <4> QED
        BY <3>2, <4>1 DEF UploadKnown, Uploaded
    <3> QED
      BY <2>1, <3>1, <3>3
  <2>2. ASSUME NEW q \in Request, NEW o \in Request, q # o, req'[q] # Idle, req'[o] # Idle
        PROVE  Uploaded(req'[q]) \cap (Held(req'[o]) \cup {req'[o].new}) = {}
    <3>1. CASE q # p /\ o # p
      BY <1>0, <2>2, <3>1 DEF ImagesKnown
    <3>2. CASE q = p
      BY <2>2, <3>2 DEF Knows
    <3>3. CASE o = p
      BY <2>2, <3>3 DEF Knows
    <3> QED
      BY <3>1, <3>2, <3>3
  <2>3. ASSUME NEW o \in Request, req'[o] # Idle
        PROVE  (HeldKnown(req[o]))' /\ (UploadKnown(req[o]))' /\ (ReadKnown(req[o]))'
    <3>1. CASE o = p
      BY <2>3, <3>1 DEF Knows
    <3>2. CASE o # p
      BY <2>1, <2>3, <3>2
    <3> QED
      BY <3>1, <3>2
  <2>4. \A q, o \in Request : q # o /\ req'[q] # Idle /\ req'[o] # Idle =>
             Uploaded(req'[q]) \cap (Held(req'[o]) \cup {req'[o].new}) = {}
    BY <2>2
  <2>5. \A o \in Request : req'[o] # Idle =>
             (HeldKnown(req[o]))' /\ (UploadKnown(req[o]))' /\ (ReadKnown(req[o]))'
    BY <2>3
  <2>6. ImagesKnown' <=>
          /\ \A o \in Request : req'[o] # Idle =>
                (HeldKnown(req[o]))' /\ (UploadKnown(req[o]))' /\ (ReadKnown(req[o]))'
          /\ \A q, o \in Request : q # o /\ req'[q] # Idle /\ req'[o] # Idle =>
                Uploaded(req'[q]) \cap (Held(req'[o]) \cup {req'[o].new}) = {}
    BY DEF ImagesKnown, Uploaded, Held
  <2> QED
    BY <2>4, <2>5, <2>6
<1>2. OneRow'
  <2> SUFFICES ASSUME NEW j \in Image, j \notin spoiled'
               PROVE  \/ \E t \in Task : (ShownBy(j, {t}, {}))'
                      \/ \E u \in User : (ShownBy(j, {}, {u}))'
                      \/ (ShownBy(j, {}, {}))'
    BY DEF OneRow
  <2>1. CASE j # k \/ k = NoKey
    <3>1. j \notin spoiled
      BY DEF KeepsImages
    <3> QED
      BY <1>0, <2>1, <3>1, ShownBefore DEF OneRow
  <2>2. CASE j = k /\ k # NoKey
    BY <2>2 DEF Gains
  <2> QED
    BY <2>1, <2>2
<1>3. LooseKept'
  <2> SUFFICES ASSUME NEW j \in loose' PROVE j \in stored' /\ (ShownBy(j, {}, {}))'
    BY DEF LooseKept
  <2>1. j \in stored' /\ (j \in loose \/ j \notin used) /\ j \in Image
    BY DEF KeepsImages, KeyInv, TypeOK
  <2>2. j # k \/ k = NoKey
    BY DEF Gains
  <2>3. ShownBy(j, {}, {})
    <3>1. j # NoKey /\ j # NoRow
      BY <2>1, KeyAssumption DEF Key
    <3>2. CASE j \in loose
      BY <1>0, <3>2 DEF LooseKept
    <3>3. CASE j \notin used
      BY <1>0, <3>1, <3>3 DEF KeyInv, RowsUsed, ShownBy
    <3> QED
      BY <2>1, <3>2, <3>3
  <2> QED
    BY <2>1, <2>2, <2>3, ShownBefore
<1>4. ImageStored'
  <2> SUFFICES ASSUME NEW j \in Image, Shown(j)', j \notin spoiled', j \notin stored'
               PROVE  \E u \in User : avatar'[u] = j
                         /\ \E q \in Request : At(q, "deleteUser")' /\ u \in req'[q].on
    BY DEF ImageStored
  <2>0. j \notin spoiled /\ j # NoKey /\ j # NoRow
    BY KeyAssumption DEF KeepsImages, Key
  <2>1. j # k \/ k = NoKey
    BY DEF Gains
  <2>2. Shown(j)
    BY <2>1, ShownBefore DEF Shown
  <2>3. CASE j \in stored
    <3>1. ~(ShownBy(j, {}, {}))'
      BY DEF Shown, ShownBy
    <3>2. PICK u \in User : (ShownBy(j, {}, {u}))' /\ \E q \in Request : At(q, "deleteUser")'
                                                             /\ u \in req'[q].on
      BY <2>3, <3>1 DEF KeepsImages
    <3>3. avatar'[u] = j
      BY <3>2 DEF Shown, ShownBy
    <3> QED
      BY <3>2, <3>3
  <2>4. CASE j \notin stored
    <3>1. PICK u \in User, q \in Request : avatar[u] = j /\ At(q, "deleteUser") /\ u \in req[q].on
      BY <1>0, <2>0, <2>2, <2>4 DEF ImageStored
    <3>2. ShownBy(j, {}, {u})
      BY <1>0, <2>0, <3>1 DEF OneRow, ShownBy
    <3>3. avatar'[u] = j
      <4>1. (ShownBy(j, {}, {u}))'
        BY <2>1, <3>2, ShownBefore
      <4> QED
        BY <4>1 DEF Shown, ShownBy
    <3>4. q # p
      <4>1. q = p => avatar'[u] = NoRow \/ avatar[u] \in spoiled' \cup {NoKey, NoRow}
        BY <3>1 DEF KeepsImages, At
      <4> QED
        BY <2>0, <3>1, <3>3, <4>1
    <3>5. req'[q] = req[q]
      BY <3>4
    <3>6. At(q, "deleteUser")' /\ u \in req'[q].on
      BY <3>1, <3>5 DEF At
    <3> QED
      BY <3>3, <3>6
  <2> QED
    BY <2>3, <2>4
<1> QED
  BY <1>1, <1>2, <1>3, <1>4 DEF ImageInv

\* What a request knows that has these in hand now, and is uploading no picture.
LEMMA KnowsNow ==
    ASSUME NEW p \in Request, NEW op, NEW at, NEW on, NEW old, NEW new, NEW keys,
           Now(p, op, at, on, old, new, keys), op # "Account" \/ at # "write" \/ new \in {old, NoKey},
           (HeldKnown(req[p]))', (ReadKnown(req[p]))',
           \A o \in Request \ {p} : req[o] # Idle =>
              \A j \in Uploaded(req[o]) : j \notin keys /\ j \notin {old, new}
    PROVE  Knows(p)
<1>1. /\ req'[p].op = op /\ req'[p].at = at /\ req'[p].on = on
      /\ req'[p].old = old /\ req'[p].new = new /\ req'[p].keys = keys
  BY DEF Now
<1>2. Uploaded(req'[p]) = {} /\ Held(req'[p]) = (keys \cup {old}) \cap Image
  BY <1>1 DEF Uploaded, Held
<1>3. (UploadKnown(req[p]))'
  BY <1>2 DEF UploadKnown, Uploaded
<1>4. \A o \in Request \ {p} : req[o] # Idle =>
         /\ Uploaded(req[o]) \cap (Held(req'[p]) \cup {req'[p].new}) = {}
         /\ Uploaded(req'[p]) \cap (Held(req[o]) \cup {req[o].new}) = {}
  BY <1>1, <1>2
<1> QED
  BY <1>3, <1>4 DEF Knows

\* One that has only objects to remove yet, or nothing.
LEMMA KnowsRemoves ==
    ASSUME KeyInv, NEW p \in Request, req[p].op # "DeleteUser", NEW keys, Removes(p, keys),
           \A j \in keys \cap Image : j \notin loose' /\ (j \in spoiled' \/ (ShownBy(j, {}, {}))'),
           \A o \in Request \ {p} : req[o] # Idle => \A j \in Uploaded(req[o]) : j \notin keys
    PROVE  Knows(p)
<1>1. CASE keys = {}
  BY <1>1 DEF Removes, Over, Knows
<1>2. CASE keys # {}
  <2>1. Now(p, req[p].op, "remove", req[p].on, NoKey, NoKey, keys)
    BY <1>2 DEF Removes
  <2>2. NoKey \notin Image /\ req'[p].at = "remove" /\ req'[p].keys = keys /\ req'[p].old = NoKey
    BY <2>1, KeyAssumption DEF Key, Now
  <2>3. (HeldKnown(req[p]))'
    BY <2>2 DEF HeldKnown, Held
  <2>4. (ReadKnown(req[p]))'
    BY <2>2 DEF ReadKnown, TaskRead
  <2>5. \A o \in Request \ {p} : req[o] # Idle =>
           \A j \in Uploaded(req[o]) : j \notin keys /\ j \notin {NoKey, NoKey}
    BY HeldUsed
  <2> QED
    BY <2>1, <2>3, <2>4, <2>5, KnowsNow
<1> QED
  BY <1>1, <1>2

\* An attachment's request has no images in hand.
LEMMA KnowsFiles ==
    ASSUME KeyInv, NEW p \in Request, NEW op \in {"Attach", "Detach"}, NEW at, NEW on,
           NEW new \in File \cup {NoKey}, NEW keys \in SUBSET File, Now(p, op, at, on, NoKey, new, keys)
    PROVE  Knows(p)
<1>1. NoKey \notin Image /\ keys \cap Image = {} /\ new \notin Image
  BY KeyAssumption DEF Key
<1>2. \A o \in Request \ {p} : req[o] # Idle =>
         \A j \in Uploaded(req[o]) : j \notin keys /\ j \notin {NoKey, new}
  BY <1>1, HeldUsed, Where DEF Uploaded, Stages, AccountStages
<1>3. req'[p].op = op /\ req'[p].old = NoKey /\ req'[p].keys = keys
  BY DEF Now
<1>4. (HeldKnown(req[p]))'
  BY <1>1, <1>3 DEF HeldKnown, Held
<1>5. (ReadKnown(req[p]))'
  BY <1>3 DEF ReadKnown, TaskRead
<1> QED
  BY <1>2, <1>4, <1>5, KnowsNow

\* Steps that leave the rows and the objects of images alone.
LEMMA ImageAside ==
    ASSUME ImageInv, KeyInv', Allowed', NEW p \in Request, Knows(p),
           task' = task, avatar' = avatar, loose' = loose, born' = born,
           spoiled \subseteq spoiled', stored \subseteq stored',
           \A o \in Request \ {p} : req'[o] = req[o],
           req[p] # Idle /\ req[p].at = "deleteUser" =>
              \A u \in User \cap req[p].on : avatar[u] \in spoiled' \cup {NoKey, NoRow}
    PROVE  ImageInv'
<1>1. Gains(NoKey, p)
  BY DEF Gains
<1>2. KeepsImages(p)
  BY DEF KeepsImages, ImageInv, LooseKept, ImagesKnown, UploadKnown
<1>3. \A o \in Request \ {p} : req[o] # Idle => (ReadKnown(req[o]))'
  BY DEF ImageInv, ImagesKnown, ReadKnown, TaskRead
<1> QED
  BY <1>1, <1>2, <1>3, ImageKept

\* The image that a row shows is of that row, or used twice.
LEMMA ImageOfTask ==
    ASSUME ImageInv, NEW t \in Task, task[t] \in Image
    PROVE  /\ task[t] \notin loose /\ (task[t] \in spoiled \/ ShownBy(task[t], {t}, {}))
           /\ \A o \in Request : req[o] # Idle => task[t] \notin Uploaded(req[o])
<1>1. ~ShownBy(task[t], {}, {}) /\ \A u \in User : ~ShownBy(task[t], {}, {u})
  BY DEF ShownBy
<1>2. task[t] \notin loose
  BY <1>1 DEF ImageInv, LooseKept
<1>3. \A o \in Request : req[o] # Idle => task[t] \notin Uploaded(req[o])
  BY <1>1 DEF ImageInv, ImagesKnown, UploadKnown
<1>4. task[t] \in spoiled \/ ShownBy(task[t], {t}, {})
  BY <1>1 DEF ImageInv, OneRow, ShownBy
<1> QED
  BY <1>2, <1>3, <1>4

LEMMA ImageOfUser ==
    ASSUME ImageInv, NEW u \in User, avatar[u] \in Image
    PROVE  /\ avatar[u] \notin loose /\ (avatar[u] \in spoiled \/ ShownBy(avatar[u], {}, {u}))
           /\ \A o \in Request : req[o] # Idle => avatar[u] \notin Uploaded(req[o])
<1>1. ~ShownBy(avatar[u], {}, {}) /\ \A t \in Task : ~ShownBy(avatar[u], {t}, {})
  BY DEF ShownBy
<1>2. avatar[u] \notin loose
  BY <1>1 DEF ImageInv, LooseKept
<1>3. \A o \in Request : req[o] # Idle => avatar[u] \notin Uploaded(req[o])
  BY <1>1 DEF ImageInv, ImagesKnown, UploadKnown
<1>4. avatar[u] \in spoiled \/ ShownBy(avatar[u], {}, {u})
  BY <1>1 DEF ImageInv, OneRow, ShownBy
<1> QED
  BY <1>2, <1>3, <1>4

\* A key that clients know is not that of a picture on its way.
LEMMA KnownNotUploaded ==
    ASSUME KeyInv, NEW k \in Known \cup {NoKey}, NEW o \in Request, req[o] # Idle
    PROVE  k \notin Uploaded(req[o])
  BY HeldUsed DEF Known, At, Uploaded

LEMMA ImageClients ==
    ASSUME ImageInv, KeyInv', Allowed', UploadImage \/ DeleteImage \/ \E t \in Task : CreateTask(t)
    PROVE  ImageInv'
<1>0. /\ KeyInv /\ OneRow /\ LooseKept /\ TypeOK /\ RowsUsed
      /\ \A o \in Request : req[o] # Idle => UploadKnown(req[o]) /\ ReadKnown(req[o])
  BY DEF ImageInv, KeyInv, ImagesKnown
<1>1. PICK p : p \notin Request
  BY NoSetContainsEverything
<1>2. Knows(p)
  BY <1>1 DEF Knows
<1>3. CASE UploadImage
  <2>1. PICK k \in Image \ used : stored' = stored \cup {k} /\ loose' = loose \cup {k}
    BY <1>3 DEF UploadImage, Put
  <2>2. UNCHANGED <<task, avatar, born, req, spoiled>>
    BY <1>3 DEF UploadImage, rows
  <2>3. Gains(NoKey, p)
    BY <2>2 DEF Gains
  <2>4. KeepsImages(p)
    BY <1>0, <1>1, <2>1, <2>2 DEF KeepsImages, LooseKept, UploadKnown
  <2>5. \A o \in Request \ {p} : req'[o] = req[o] /\ (req[o] # Idle => (ReadKnown(req[o]))')
    BY <1>0, <2>2 DEF ReadKnown, TaskRead
  <2> QED
    BY <1>2, <2>3, <2>4, <2>5, ImageKept
<1>4. CASE DeleteImage
  <2>1. PICK k \in Known : /\ stored' = stored \ {k} /\ loose' = loose \ {k}
                           /\ spoiled' = IF Shown(k) THEN spoiled \cup {k} ELSE spoiled
    BY <1>4 DEF DeleteImage, Drop
  <2>2. UNCHANGED <<task, avatar, born, req>>
    BY <1>4 DEF DeleteImage, rows
  <2>3. Gains(NoKey, p)
    BY <2>2 DEF Gains
  <2>4. KeepsImages(p)
    <3>1. \A o \in Request : req[o] # Idle => Uploaded(req[o]) \subseteq stored'
      BY <1>0, <2>1, KnownNotUploaded DEF UploadKnown
    <3>2. k \in spoiled' \/ (ShownBy(k, {}, {}))'
      BY <2>1, <2>2 DEF Shown, ShownBy
    <3> QED
      BY <1>0, <1>1, <2>1, <2>2, <3>1, <3>2 DEF KeepsImages, LooseKept
  <2>5. \A o \in Request \ {p} : req'[o] = req[o] /\ (req[o] # Idle => (ReadKnown(req[o]))')
    BY <1>0, <2>2 DEF ReadKnown, TaskRead
  <2> QED
    BY <1>2, <2>3, <2>4, <2>5, ImageKept
<1>5. ASSUME NEW t \in Task, CreateTask(t) PROVE ImageInv'
  <2>1. PICK k \in Known \cup {NoKey} : task' = [task EXCEPT ![t] = k] /\ Give(k)
    BY <1>5 DEF CreateTask
  <2>2. UNCHANGED <<avatar, stored, req>> /\ born' = born \cup {t} /\ t \notin born
    BY <1>5 DEF CreateTask
  <2>3. task'[t] = k /\ \A s \in Task \ {t} : task'[s] = task[s]
    BY <1>0, <2>1 DEF TypeOK
  <2>4. Gains(k, p)
    <3>1. /\ \A s \in Task : task'[s] \in {task[s], NoRow, NoKey, k}
          /\ \A u \in User : avatar'[u] \in {avatar[u], NoRow, NoKey, k}
      BY <2>2, <2>3
    <3>2. ASSUME k # NoKey
          PROVE  /\ k \in Image /\ k \notin loose'
                 /\ \A o \in Request : req[o] # Idle => k \notin Uploaded(req[o])
      BY <1>0, <2>1, <3>2, KnownNotUploaded DEF Known, Give
    <3>3. ASSUME k # NoKey, k \notin spoiled'
          PROVE  k \in loose /\ k \in stored' /\ ShownBy(k, {}, {}) /\ (ShownBy(k, {t}, {}))'
      <4>1. k \in loose
        BY <2>1, <3>3 DEF Give
      <4>2. k \in stored' /\ ShownBy(k, {}, {})
        BY <1>0, <2>2, <4>1 DEF LooseKept
      <4>3. (ShownBy(k, {t}, {}))'
        BY <2>2, <2>3, <4>2 DEF ShownBy
      <4> QED
        BY <4>1, <4>2, <4>3
    <3>4. {t} \in SUBSET Task /\ {} \in SUBSET User
      OBVIOUS
    <3> QED
      BY <3>1, <3>2, <3>3, <3>4 DEF Gains
  <2>5. KeepsImages(p)
    BY <1>0, <1>1, <2>1, <2>2 DEF KeepsImages, LooseKept, UploadKnown, Give
  <2>6. \A o \in Request \ {p} : req'[o] = req[o] /\ (req[o] # Idle => (ReadKnown(req[o]))')
    BY <1>0, <2>2, <2>3 DEF ReadKnown, TaskRead
  <2> QED
    BY <1>2, <2>4, <2>5, <2>6, ImageKept
<1> QED
  BY <1>3, <1>4, <1>5

LEMMA ImageBegins ==
    ASSUME ImageInv, KeyInv', Allowed', NEW p \in Request,
           \/ \E t \in Task : Update(p, t) \/ Attach(p, t)
           \/ \E scope \in Scope : Delete(p, scope)
           \/ \E f \in File : Detach(p, f)
           \/ \E u \in User : Account(p, u) \/ DeleteUser(p, u)
    PROVE  ImageInv'
<1>0. KeyInv /\ RowsUsed /\ NoKey \notin Image
  BY KeyAssumption DEF ImageInv, KeyInv, Key
<1>1. ASSUME Same, req[p] = Idle, \A o \in Request \ {p} : req'[o] = req[o], Knows(p) PROVE ImageInv'
  BY <1>1, ImageAside DEF Same
<1>2. ASSUME NEW t \in Task, Update(p, t) PROVE ImageInv'
  <2>1. req[p] = Idle /\ task[t] \in Image \cup {NoKey} /\ Same
    BY <1>0, <1>2, UpdateStep DEF MayBegin
  <2>2. PICK k \in Known \cup {NoKey, task[t]} : Now(p, "Update", "write", {t}, task[t], k, {})
    BY <1>0, <1>2, UpdateStep
  <2>3. task[t] \in Image => task[t] \notin loose /\ (task[t] \in spoiled \/ ShownBy(task[t], {t}, {}))
    BY ImageOfTask
  <2>4. req'[p].op = "Update" /\ req'[p].at = "write" /\ req'[p].on = {t} /\ req'[p].keys = {}
        /\ req'[p].old = task[t] /\ UNCHANGED <<task, avatar, loose, spoiled, born>>
    BY <2>1, <2>2 DEF Now, Same
  <2>5. (HeldKnown(req[p]))'
    BY <2>3, <2>4 DEF HeldKnown, Held, ShownBy
  <2>6. (ReadKnown(req[p]))'
    <3>1. t \in born
      BY <1>0, <2>1, KeyTypes DEF RowsUsed
    <3> QED
      BY <2>4, <3>1 DEF ReadKnown, TaskRead
  <2>7. ASSUME NEW o \in Request \ {p}, req[o] # Idle
        PROVE  \A j \in Uploaded(req[o]) : j \notin {} /\ j \notin {task[t], k}
    <3>1. task[t] \notin Uploaded(req[o])
      BY <1>0, <2>1, <2>7, ImageOfTask, HeldUsed
    <3>2. k \notin Uploaded(req[o])
      BY <1>0, <2>2, <2>7, <3>1, KnownNotUploaded
    <3> QED
      BY <3>1, <3>2
  <2>8. Knows(p)
    BY <2>2, <2>5, <2>6, <2>7, KnowsNow
  <2> QED
    BY <1>1, <2>1, <2>2, <2>8 DEF Now
<1>3. ASSUME NEW t \in Task, Attach(p, t) PROVE ImageInv'
  <2>1. req[p] = Idle /\ Same /\ Now(p, "Attach", "insert", {t}, NoKey, NoKey, {})
    BY <1>0, <1>3, AttachStep DEF MayBegin
  <2>2. Knows(p)
    BY <1>0, <2>1, KnowsFiles
  <2> QED
    BY <1>1, <2>1, <2>2 DEF Now
<1>4. ASSUME NEW scope \in Scope, Delete(p, scope) PROVE ImageInv'
  <2> DEFINE keys == {task[t] : t \in scope} \ {NoKey, NoRow}
  <2>1. /\ req[p] = Idle /\ Same /\ scope \subseteq Task /\ keys \subseteq Image
        /\ Now(p, "Delete", "collect", scope, NoKey, NoKey, keys)
    BY <1>0, <1>4, DeleteStep DEF MayBegin
  <2>2. \A j \in keys : \E t \in scope : task[t] = j
    OBVIOUS
  <2> HIDE DEF keys
  <2>3. req'[p].op = "Delete" /\ req'[p].at = "collect" /\ req'[p].on = scope /\ req'[p].keys = keys
        /\ req'[p].old = NoKey /\ UNCHANGED <<task, avatar, loose, spoiled>>
    BY <2>1 DEF Now, Same
  <2>4. ASSUME NEW j \in keys
        PROVE  /\ j \notin loose' /\ (j \in spoiled' \/ (ShownBy(j, scope, {}))')
               /\ \A o \in Request \ {p} : req[o] # Idle => j \notin Uploaded(req[o])
    <3>1. PICK t \in Task : t \in scope /\ task[t] = j /\ task[t] \in Image
      BY <2>1, <2>2
    <3>2. j \notin loose /\ (j \in spoiled \/ ShownBy(j, {t}, {}))
          /\ \A o \in Request : req[o] # Idle => j \notin Uploaded(req[o])
      BY <3>1, ImageOfTask
    <3> QED
      BY <2>3, <3>1, <3>2 DEF ShownBy
  <2>5. (HeldKnown(req[p]))'
    BY <1>0, <2>3, <2>4 DEF HeldKnown, Held
  <2>6. (ReadKnown(req[p]))'
    BY <2>3 DEF ReadKnown, TaskRead
  <2>7. \A o \in Request \ {p} : req[o] # Idle => NoKey \notin Uploaded(req[o])
    BY <1>0, HeldUsed
  <2>8. Knows(p)
    BY <2>1, <2>4, <2>5, <2>6, <2>7, KnowsNow
  <2> QED
    BY <1>1, <2>1, <2>8 DEF Now
<1>5. ASSUME NEW f \in File, Detach(p, f) PROVE ImageInv'
  <2>1. req[p] = Idle /\ Same /\ Now(p, "Detach", "drop", {f}, NoKey, NoKey, {f})
    BY <1>0, <1>5, DetachStep DEF MayBegin
  <2>2. Knows(p)
    BY <1>0, <2>1, KnowsFiles
  <2> QED
    BY <1>1, <2>1, <2>2 DEF Now
<1>6. ASSUME NEW u \in User, Account(p, u) \/ DeleteUser(p, u) PROVE ImageInv'
  <2>1. req[p] = Idle /\ avatar[u] \in Image \cup {NoKey} /\ Same
    BY <1>0, <1>6, AccountStep, DeleteUserStep DEF MayBegin
  <2>2. \A o \in Request \ {p} : req[o] # Idle => {avatar[u], NoKey} \cap Uploaded(req[o]) = {}
    <3>1. \A o \in Request : req[o] # Idle => NoKey \notin Uploaded(req[o])
      BY <1>0, HeldUsed
    <3>2. avatar[u] # NoKey => \A o \in Request : req[o] # Idle => avatar[u] \notin Uploaded(req[o])
      BY <2>1, ImageOfUser
    <3> QED
      BY <3>1, <3>2
  <2>3. avatar[u] \in Image => avatar[u] \notin loose /\ (avatar[u] \in spoiled \/ ShownBy(avatar[u], {}, {u}))
    BY ImageOfUser
  <2>4. UNCHANGED <<task, avatar, loose, spoiled>>
    BY <2>1 DEF Same
  <2>5. ASSUME NEW at, NEW k \in {NoKey, avatar[u]}, at # "remove",
               Now(p, "Account", at, {u}, avatar[u], k, {})
        PROVE  Knows(p)
    <3>1. req'[p].op = "Account" /\ req'[p].at # "remove" /\ req'[p].on = {u} /\ req'[p].keys = {}
          /\ req'[p].old = avatar[u]
      BY <2>5 DEF Now
    <3>2. (HeldKnown(req[p]))'
      BY <2>3, <2>4, <3>1 DEF HeldKnown, Held, ShownBy
    <3>3. (ReadKnown(req[p]))'
      BY <2>4, <3>1 DEF ReadKnown, TaskRead
    <3>4. \A o \in Request \ {p} : req[o] # Idle =>
             \A j \in Uploaded(req[o]) : j \notin {} /\ j \notin {avatar[u], k}
      BY <2>2, <2>5
    <3>5. k \in {avatar[u], NoKey}
      BY <2>5
    <3> QED
      BY <2>5, <3>2, <3>3, <3>4, <3>5, KnowsNow
  <2>6. ASSUME NEW at, NEW keys \in SUBSET {avatar[u]}, Now(p, "DeleteUser", at, {u}, NoKey, NoKey, keys)
        PROVE  Knows(p)
    <3>1. req'[p].op = "DeleteUser" /\ req'[p].on = {u} /\ req'[p].keys = keys /\ req'[p].old = NoKey
      BY <2>6 DEF Now
    <3>2. (HeldKnown(req[p]))'
      BY <1>0, <2>3, <2>4, <3>1 DEF HeldKnown, Held, ShownBy
    <3>3. (ReadKnown(req[p]))'
      BY <3>1 DEF ReadKnown, TaskRead
    <3>4. \A o \in Request \ {p} : req[o] # Idle =>
             \A j \in Uploaded(req[o]) : j \notin keys /\ j \notin {NoKey, NoKey}
      BY <2>2, <2>6
    <3> QED
      BY <2>6, <3>2, <3>3, <3>4, KnowsNow
  <2>7. CASE Account(p, u)
    <3>1. \E at, k : /\ at # "remove" /\ k \in {NoKey, avatar[u]}
                     /\ Now(p, "Account", at, {u}, avatar[u], k, {})
      BY <1>0, <2>7, AccountStep
    <3> QED
      BY <1>1, <2>1, <2>5, <3>1 DEF Now
  <2>8. CASE DeleteUser(p, u)
    <3>1. \E at, keys : keys \subseteq {avatar[u]} /\ Now(p, "DeleteUser", at, {u}, NoKey, NoKey, keys)
      BY <1>0, <2>8, DeleteUserStep
    <3> QED
      BY <1>1, <2>1, <2>6, <3>1 DEF Now
  <2> QED
    BY <1>6, <2>7, <2>8
<1> QED
  BY <1>2, <1>3, <1>4, <1>5, <1>6

\* What a request has in hand, before it goes on.
LEMMA InHand ==
    ASSUME ImageInv, NEW p \in Request, req[p] # Idle
    PROVE  /\ HeldKnown(req[p]) /\ UploadKnown(req[p]) /\ ReadKnown(req[p])
           /\ \A o \in Request \ {p} : req[o] # Idle =>
                 /\ Uploaded(req[o]) \cap (Held(req[p]) \cup {req[p].new, NoKey}) = {}
                 /\ Uploaded(req[p]) \cap (Held(req[o]) \cup {req[o].new}) = {}
<1>1. \A o \in Request : req[o] # Idle => NoKey \notin Uploaded(req[o])
  BY HeldUsed DEF ImageInv
<1> QED
  BY <1>1 DEF ImageInv, ImagesKnown

\* The steps of a request that leave what rows show as it was.
LEMMA ImageProgress ==
    ASSUME ImageInv, KeyInv', Allowed', NEW p \in Request,
           \/ CollectKeys(p) \/ CreateAttachment(p) \/ PutAttachment(p) \/ PutFails(p) \/ UndoAttach(p)
           \/ DeleteAttachment(p) \/ PutAvatar(p) \/ UpdateUserFails(p) \/ RequestFails(p)
    PROVE  ImageInv'
<1>0. KeyInv /\ RowsUsed /\ NoKey \notin Image
  BY KeyAssumption DEF ImageInv, KeyInv, Key
<1>1. ASSUME UNCHANGED <<task, avatar, loose, born>>, spoiled \subseteq spoiled', stored \subseteq stored',
             req[p].at # "deleteUser", \A o \in Request \ {p} : req'[o] = req[o], Knows(p)
      PROVE  ImageInv'
  BY <1>1, ImageAside
<1>2. Over(p) => Knows(p) /\ \A o \in Request \ {p} : req'[o] = req[o]
  BY DEF Over, Knows
<1>3. \A op, at, on, old, new, keys :
         Now(p, op, at, on, old, new, keys) => \A o \in Request \ {p} : req'[o] = req[o]
  BY DEF Now
<1>4. CASE CollectKeys(p)
  <2>1. /\ req[p] # Idle /\ req[p].op = "Delete" /\ req[p].at = "collect" /\ Same
        /\ Now(p, "Delete", "delete", req[p].on, NoKey, NoKey, req[p].keys \cup FilesOf(req[p].on))
    BY <1>0, <1>4, CollectKeysStep
  <2>2. req'[p].op = "Delete" /\ req'[p].at = "delete" /\ req'[p].on = req[p].on /\ req'[p].old = NoKey
        /\ req'[p].keys = req[p].keys \cup FilesOf(req[p].on)
        /\ UNCHANGED <<task, avatar, loose, spoiled, born, stored>>
    BY <2>1 DEF Now, Same
  <2>3. FilesOf(req[p].on) \cap Image = {}
    BY KeyAssumption DEF FilesOf
  <2>4. (HeldKnown(req[p]))'
    <3>1. HeldKnown(req[p])
      BY <2>1, InHand
    <3>2. Held(req'[p]) \subseteq Held(req[p])
      BY <1>0, <2>2, <2>3 DEF Held
    <3> QED
      BY <2>1, <2>2, <3>1, <3>2 DEF HeldKnown, ShownBy
  <2>5. (ReadKnown(req[p]))'
    BY <2>2 DEF ReadKnown, TaskRead
  <2>6. ASSUME NEW o \in Request \ {p}, req[o] # Idle, NEW j \in Uploaded(req[o])
        PROVE  j \notin req[p].keys \cup FilesOf(req[p].on) /\ j \notin {NoKey, NoKey}
    <3>1. j \in Image /\ j # NoKey
      BY <1>0, <2>6, HeldUsed, Where DEF Uploaded, Stages, AccountStages
    <3> QED
      BY <2>1, <2>3, <2>6, <3>1, InHand DEF Held
  <2>7. Knows(p)
    BY <2>1, <2>4, <2>5, <2>6, KnowsNow
  <2> QED
    BY <1>1, <1>3, <2>1, <2>2, <2>7
<1>5. CASE CreateAttachment(p)
  <2>1. req[p].at # "deleteUser" /\ UNCHANGED <<task, avatar, born, stored, loose, spoiled>>
    BY <1>0, <1>5, CreateAttachmentStep
  <2>2. ASSUME NEW f \in File, NEW t, Now(p, "Attach", "put", {t, f}, NoKey, f, {})
        PROVE  Knows(p) /\ \A o \in Request \ {p} : req'[o] = req[o]
    BY <1>0, <1>3, <2>2, KnowsFiles
  <2>3. Knows(p) /\ \A o \in Request \ {p} : req'[o] = req[o]
    BY <1>0, <1>2, <1>5, <2>2, CreateAttachmentStep
  <2> QED
    BY <1>1, <2>1, <2>3
<1>6. CASE PutAttachment(p)
  BY <1>0, <1>1, <1>2, <1>6, PutAttachmentStep
<1>7. CASE PutFails(p)
  <2>1. Knows(p)
    BY <1>0, <1>7, PutFailsStep, KnowsFiles
  <2> QED
    BY <1>0, <1>1, <1>3, <1>7, <2>1, PutFailsStep
<1>8. CASE UndoAttach(p)
  <2>1. Knows(p)
    <3>1. Now(p, "Attach", "remove", req[p].on, NoKey, NoKey, {req[p].new}) /\ {req[p].new} \in SUBSET File
      BY <1>0, <1>8, UndoAttachStep
    <3> QED
      BY <1>0, <3>1, KnowsFiles
  <2> QED
    BY <1>0, <1>1, <1>3, <1>8, <2>1, UndoAttachStep
<1>9. CASE DeleteAttachment(p)
  <2>1. req[p].at # "deleteUser" /\ UNCHANGED <<task, avatar, born, stored, loose, spoiled>>
    BY <1>0, <1>9, DeleteAttachmentStep
  <2>2. ASSUME NEW f \in File, Now(p, "Detach", "remove", {f}, NoKey, NoKey, {f})
        PROVE  Knows(p) /\ \A o \in Request \ {p} : req'[o] = req[o]
    BY <1>0, <1>3, <2>2, KnowsFiles
  <2>3. Knows(p) /\ \A o \in Request \ {p} : req'[o] = req[o]
    BY <1>0, <1>2, <1>9, <2>2, DeleteAttachmentStep
  <2> QED
    BY <1>1, <2>1, <2>3
<1>10. CASE PutAvatar(p)
  <2>1. PICK k \in Image \ used : /\ used' = used \cup {k} /\ stored' = stored \cup {k}
                                  /\ Now(p, "Account", "write", req[p].on, req[p].old, k, {})
    BY <1>0, <1>10, PutAvatarStep
  <2>2. /\ req[p] # Idle /\ req[p].op = "Account" /\ req[p].at = "put"
        /\ UNCHANGED <<task, avatar, born, loose, spoiled>>
    BY <1>0, <1>10, PutAvatarStep
  <2>3. req'[p] # Idle /\ req'[p].op = "Account" /\ req'[p].at = "write" /\ req'[p].on = req[p].on
        /\ req'[p].old = req[p].old /\ req'[p].new = k /\ req'[p].keys = {}
    BY <2>1 DEF Now
  <2>4. (HeldKnown(req[p]))'
    <3>1. HeldKnown(req[p]) /\ Held(req'[p]) \subseteq Held(req[p])
      BY <2>2, <2>3, InHand DEF Held
    <3> QED
      BY <2>2, <2>3, <3>1 DEF HeldKnown, ShownBy
  <2>5. (ReadKnown(req[p]))'
    <3>1. ReadKnown(req[p])
      BY <2>2, InHand
    <3> QED
      BY <2>2, <2>3, <3>1 DEF ReadKnown, TaskRead
  <2>6. Uploaded(req'[p]) \subseteq {k} /\ Held(req'[p]) \subseteq Held(req[p])
    BY <2>3 DEF Uploaded, Held
  <2>7. (UploadKnown(req[p]))'
    <3>1. k \in stored' \ loose' /\ (ShownBy(k, {}, {}))'
      BY <1>0, <2>1, <2>2, KeyTypes DEF RowsUsed, ShownBy
    <3> QED
      BY <2>6, <3>1 DEF UploadKnown, Uploaded
  <2>8. ASSUME NEW o \in Request \ {p}, req[o] # Idle
        PROVE  k \notin Uploaded(req[o]) /\ k \notin Held(req[o]) /\ k # req[o].new
    BY <1>0, <2>1, <2>8, HeldUsed, Where DEF Stages
  <2>9. Knows(p)
    <3>1. ASSUME NEW o \in Request \ {p}, req[o] # Idle
          PROVE  /\ Uploaded(req[o]) \cap (Held(req'[p]) \cup {req'[p].new}) = {}
                 /\ Uploaded(req'[p]) \cap (Held(req[o]) \cup {req[o].new}) = {}
      BY <2>2, <2>3, <2>6, <2>8, <3>1, InHand
    <3> QED
      BY <2>4, <2>5, <2>7, <3>1 DEF Knows
  <2> QED
    BY <1>1, <1>3, <2>1, <2>2, <2>9
<1>11. CASE UpdateUserFails(p)
  <2>1. /\ req[p] # Idle /\ req[p].op = "Account" /\ req[p].at = "write"
        /\ Removes(p, {req[p].new} \ {NoKey, req[p].old}) /\ Same
    BY <1>0, <1>11, UpdateUserFailsStep
  <2>2. {req[p].new} \ {NoKey, req[p].old} = Uploaded(req[p])
    BY <2>1 DEF Uploaded
  <2>3. Removes(p, Uploaded(req[p]))
    BY <2>1, <2>2
  <2>4. \A j \in Uploaded(req[p]) \cap Image : j \notin loose' /\ (j \in spoiled' \/ (ShownBy(j, {}, {}))')
    BY <2>1, InHand DEF UploadKnown, Same, ShownBy
  <2>5. \A o \in Request \ {p} : req[o] # Idle => \A j \in Uploaded(req[o]) : j \notin Uploaded(req[p])
    BY <1>0, <2>1, InHand, HeldUsed
  <2>6. Knows(p)
    BY <1>0, <2>1, <2>3, <2>4, <2>5, KnowsRemoves
  <2>7. \A o \in Request \ {p} : req'[o] = req[o]
    BY <2>1 DEF Removes, Over, Now
  <2> QED
    BY <1>1, <2>1, <2>6, <2>7 DEF Same
<1>12. CASE RequestFails(p)
  <2>1. req[p] # Idle /\ Over(p) /\ spoiled' = spoiled \cup Bereft(req[p])
        /\ UNCHANGED <<task, avatar, born, stored, loose>>
    BY <1>0, <1>12, FailStep
  <2>2. ASSUME req[p].at = "deleteUser", NEW u \in User \cap req[p].on
        PROVE  avatar[u] \in spoiled' \cup {NoKey, NoRow}
    <3>1. req[p].op = "DeleteUser"
      BY <1>0, <2>1, <2>2, Where, RequestTypes DEF KeyInv, Stages, UpdateStages, DeleteStages, AttachStages,
         DetachStages, AccountStages, DeleteUserStages, OpNames
    <3>2. Bereft(req[p]) = {avatar[v] : v \in req[p].on} \ {NoKey, NoRow}
      BY <3>1 DEF Bereft
    <3> QED
      BY <2>1, <2>2, <3>2
  <2>3. Knows(p) /\ \A o \in Request \ {p} : req'[o] = req[o]
    BY <1>2, <2>1
  <2>4. spoiled \subseteq spoiled' /\ stored \subseteq stored'
    BY <2>1
  <2> QED
    BY <2>1, <2>2, <2>3, <2>4, ImageAside
<1> QED
  BY <1>4, <1>5, <1>6, <1>7, <1>8, <1>9, <1>10, <1>11, <1>12

\* The steps that change rows, or remove objects.
LEMMA ImageWrites ==
    ASSUME ImageInv, KeyInv', Allowed', {"Update"} \notin Together, {"Account"} \notin Together,
           NEW p \in Request, UpdateTask(p) \/ UpdateUser(p)
    PROVE  ImageInv'
<1>0. KeyInv /\ TypeOK /\ RowsUsed /\ NoKey \notin Image /\ NoRow \notin Image
  BY KeyAssumption DEF ImageInv, KeyInv, Key
<1>1. req[p] # Idle
  BY <1>0, UpdateTaskStep, UpdateUserStep
<1>2. ASSUME NEW o \in Request \ {p}, req[o] # Idle, req[o].op = req[p].op, {req[p].op} \notin Together
      PROVE  req[o].on \cap req[p].on = {}
  <2>1. {req[o].op, req[p].op} = {req[p].op}
    BY <1>2
  <2> QED
    BY <1>1, <1>2, <2>1 DEF ImageInv, Allowed
<1> DEFINE keys == {req[p].old} \ {NoKey, req[p].new}
<1>3. keys \cap Image \subseteq Held(req[p])
  BY DEF Held
<1>4. ASSUME Removes(p, keys), req[p].op # "DeleteUser",
             \A j \in keys \cap Image : j \notin loose' /\ (j \in spoiled' \/ (ShownBy(j, {}, {}))')
      PROVE  Knows(p)
  <2>1. ASSUME NEW o \in Request \ {p}, req[o] # Idle, NEW j \in Uploaded(req[o]) PROVE j \notin keys
    <3>1. j \in Image
      BY <1>0, <2>1, HeldUsed, Where DEF Uploaded, Stages, AccountStages
    <3> QED
      BY <1>1, <1>3, <2>1, <3>1, InHand
  <2> HIDE DEF keys
  <2> QED
    BY <1>0, <1>4, <2>1, KnowsRemoves
<1>5. CASE UpdateTask(p)
  <2>1. PICK t \in Task :
           /\ req[p].on = {t}
           /\ task' = [task EXCEPT ![t] = IF @ = NoRow THEN NoRow ELSE req[p].new]
           /\ IF task[t] = NoRow \/ req[p].new = req[p].old THEN UNCHANGED <<loose, spoiled>>
              ELSE Give(req[p].new)
    BY <1>0, <1>5, UpdateTaskStep
  <2>2. /\ req[p].op = "Update" /\ req[p].at = "write" /\ Removes(p, keys)
        /\ UNCHANGED <<avatar, born, stored>>
    BY <1>0, <1>5, UpdateTaskStep
  <2>3. t \in born /\ task[t] \in {req[p].old, NoRow}
    BY <1>1, <2>1, <2>2, InHand DEF ReadKnown, TaskRead
  <2>4. task'[t] = (IF task[t] = NoRow THEN NoRow ELSE req[p].new) /\ \A s \in Task \ {t} : task'[s] = task[s]
    BY <1>0, <2>1 DEF TypeOK
  <2>5. \A o \in Request \ {p} : req'[o] = req[o]
    BY <2>2 DEF Removes, Over, Now
  <2>6. Knows(p)
    <3>1. ASSUME NEW j \in keys \cap Image
          PROVE  j \notin loose' /\ (j \in spoiled' \/ (ShownBy(j, {}, {}))')
      <4>1. j = req[p].old /\ j # req[p].new /\ j \in Held(req[p])
        BY <1>3
      <4>2. j \notin loose /\ (j \in spoiled \/ ShownBy(j, {t}, {}))
        BY <1>1, <2>1, <2>2, <4>1, InHand DEF HeldKnown, ShownBy
      <4>3. loose' \subseteq loose /\ spoiled \subseteq spoiled'
        BY <2>1 DEF Give
      <4>4. task'[t] # j
        BY <1>0, <2>4, <4>1
      <4> QED
        BY <2>2, <2>4, <4>2, <4>3, <4>4 DEF ShownBy
    <3> QED
      BY <1>4, <2>2, <3>1
  <2>7. CASE task[t] = NoRow \/ req[p].new = req[p].old
    <3>1. task' = task
      BY <1>0, <2>1, <2>3, <2>7 DEF TypeOK
    <3> QED
      BY <2>1, <2>2, <2>5, <2>6, <2>7, <3>1, ImageAside
  <2>8. CASE task[t] # NoRow /\ req[p].new # req[p].old
    <3>0. PICK k : k = req[p].new
      OBVIOUS
    <3>1. task'[t] = k /\ Give(k) /\ k \in Image \cup {NoKey}
      BY <1>0, <1>1, <2>1, <2>2, <2>4, <2>8, <3>0, Where DEF Stages, UpdateStages
    <3>2. \A o \in Request \ {p} : req[o] # Idle => k \notin Uploaded(req[o])
      BY <1>1, <3>0, InHand
    <3>3. ASSUME k # NoKey, k \notin spoiled'
          PROVE  k \in loose /\ k \in stored' /\ ShownBy(k, {}, {}) /\ (ShownBy(k, {t}, {}))'
      <4>1. k \in loose
        BY <3>1, <3>3 DEF Give
      <4>2. k \in stored' /\ ShownBy(k, {}, {})
        BY <2>2, <4>1 DEF ImageInv, LooseKept
      <4>3. (ShownBy(k, {t}, {}))'
        BY <2>2, <2>4, <4>2 DEF ShownBy
      <4> QED
        BY <4>1, <4>2, <4>3
    <3>4. Gains(k, p)
      <4>1. /\ \A s \in Task : task'[s] \in {task[s], NoRow, NoKey, k}
            /\ \A u \in User : avatar'[u] \in {avatar[u], NoRow, NoKey, k}
        BY <2>2, <2>4, <3>1
      <4>2. {t} \in SUBSET Task /\ {} \in SUBSET User
        OBVIOUS
      <4>3. k # NoKey => k \in Image /\ k \notin loose'
        BY <3>1 DEF Give
      <4>4. ASSUME k # NoKey, k \notin spoiled'
            PROVE  \E tasks \in SUBSET Task, users \in SUBSET User :
                      /\ (ShownBy(k, tasks, users))'
                      /\ \/ (\E s \in Task : tasks = {s}) /\ users = {}
                         \/ tasks = {} /\ \E u \in User : users = {u}
        BY <3>3, <4>2, <4>4
      <4>5. k # NoKey =>
               \/ k \in spoiled'
               \/ /\ k \in stored' /\ ShownBy(k, {}, {})
                  /\ k \in loose \/ (p \in Request /\ req[p] # Idle /\ k \in Uploaded(req[p]))
                  /\ \E tasks \in SUBSET Task, users \in SUBSET User :
                        /\ (ShownBy(k, tasks, users))'
                        /\ \/ (\E s \in Task : tasks = {s}) /\ users = {}
                           \/ tasks = {} /\ \E u \in User : users = {u}
        BY <3>3, <4>4
      <4> QED
        BY <3>2, <4>1, <4>3, <4>5 DEF Gains
    <3>5. KeepsImages(p)
      BY <1>1, <2>2, <3>1 DEF KeepsImages, ImageInv, LooseKept, ImagesKnown, UploadKnown, Give
    <3>6. ASSUME NEW o \in Request \ {p}, req[o] # Idle PROVE (ReadKnown(req[o]))'
      <4>1. ReadKnown(req[o]) /\ req'[o] = req[o]
        BY <2>5, <3>6, InHand
      <4>2. req[o].op = "Update" => t \notin req[o].on
        BY <1>2, <2>1, <2>2, <3>6
      <4> QED
        BY <2>2, <2>4, <4>1, <4>2 DEF ReadKnown, TaskRead
    <3> QED
      BY <2>5, <2>6, <3>4, <3>5, <3>6, ImageKept
  <2> QED
    BY <2>7, <2>8
<1>6. CASE UpdateUser(p)
  <2>1. PICK u \in User :
           /\ req[p].on = {u}
           /\ avatar' = [avatar EXCEPT ![u] = IF @ = NoRow THEN NoRow ELSE req[p].new]
    BY <1>0, <1>6, UpdateUserStep
  <2>2. /\ req[p].op = "Account" /\ req[p].at = "write" /\ Removes(p, keys)
        /\ UNCHANGED <<task, born, stored, loose, spoiled>>
    BY <1>0, <1>6, UpdateUserStep
  <2>3. avatar[u] \in {req[p].old, NoRow}
    BY <1>1, <2>1, <2>2, InHand DEF ReadKnown
  <2>4. avatar'[u] = (IF avatar[u] = NoRow THEN NoRow ELSE req[p].new)
        /\ \A v \in User \ {u} : avatar'[v] = avatar[v]
    BY <1>0, <2>1 DEF TypeOK
  <2>5. \A o \in Request \ {p} : req'[o] = req[o]
    BY <2>2 DEF Removes, Over, Now
  <2>6. Knows(p)
    <3>1. ASSUME NEW j \in keys \cap Image
          PROVE  j \notin loose' /\ (j \in spoiled' \/ (ShownBy(j, {}, {}))')
      <4>1. j = req[p].old /\ j # req[p].new /\ j \in Held(req[p])
        BY <1>3
      <4>2. j \notin loose /\ (j \in spoiled \/ ShownBy(j, {}, {u}))
        BY <1>1, <2>1, <2>2, <4>1, InHand DEF HeldKnown, ShownBy
      <4>3. avatar'[u] # j
        BY <1>0, <2>4, <4>1
      <4> QED
        BY <2>2, <2>4, <4>2, <4>3 DEF ShownBy
    <3> QED
      BY <1>4, <2>2, <3>1
  <2>7. CASE avatar[u] = NoRow \/ req[p].new = req[p].old
    <3>1. avatar' = avatar
      BY <1>0, <2>1, <2>3, <2>7 DEF TypeOK
    <3> QED
      BY <2>2, <2>5, <2>6, <3>1, ImageAside
  <2>8. CASE avatar[u] # NoRow /\ req[p].new # req[p].old
    <3>0. PICK k : k = req[p].new
      OBVIOUS
    <3>1. avatar'[u] = k /\ k \in Image \cup {NoKey}
      BY <1>0, <1>1, <2>2, <2>4, <2>8, <3>0, Where DEF Stages, AccountStages
    <3>2. \A o \in Request \ {p} : req[o] # Idle => k \notin Uploaded(req[o])
      BY <1>1, <3>0, InHand
    <3>3. k # NoKey => k \in Uploaded(req[p]) /\ k \in stored \ loose /\ ShownBy(k, {}, {})
      BY <1>1, <2>2, <2>8, <3>0, InHand DEF Uploaded, UploadKnown
    <3>4. Gains(k, p)
      <4>1. /\ \A s \in Task : task'[s] \in {task[s], NoRow, NoKey, k}
            /\ \A v \in User : avatar'[v] \in {avatar[v], NoRow, NoKey, k}
        BY <2>2, <2>4, <3>1
      <4>2. {} \in SUBSET Task /\ {u} \in SUBSET User
        OBVIOUS
      <4>3. k # NoKey => (ShownBy(k, {}, {u}))'
        BY <2>2, <2>4, <3>3 DEF ShownBy
      <4>4. ASSUME k # NoKey
            PROVE  \E tasks \in SUBSET Task, users \in SUBSET User :
                      /\ (ShownBy(k, tasks, users))'
                      /\ \/ (\E s \in Task : tasks = {s}) /\ users = {}
                         \/ tasks = {} /\ \E v \in User : users = {v}
        BY <4>2, <4>3, <4>4
      <4>5. stored' = stored
        BY <1>0, <1>6, UpdateUserStep
      <4>6. k # NoKey =>
               /\ k \in stored' /\ ShownBy(k, {}, {}) /\ k \in Image /\ k \notin loose'
               /\ k \in loose \/ (p \in Request /\ req[p] # Idle /\ k \in Uploaded(req[p]))
               /\ \E tasks \in SUBSET Task, users \in SUBSET User :
                     /\ (ShownBy(k, tasks, users))'
                     /\ \/ (\E s \in Task : tasks = {s}) /\ users = {}
                        \/ tasks = {} /\ \E v \in User : users = {v}
        BY <1>1, <2>2, <3>1, <3>3, <4>4, <4>5
      <4> QED
        BY <3>2, <4>1, <4>6 DEF Gains
    <3>5. KeepsImages(p)
      BY <1>1, <2>2 DEF KeepsImages, ImageInv, LooseKept, ImagesKnown, UploadKnown
    <3>6. ASSUME NEW o \in Request \ {p}, req[o] # Idle PROVE (ReadKnown(req[o]))'
      <4>1. ReadKnown(req[o]) /\ req'[o] = req[o]
        BY <2>5, <3>6, InHand
      <4>2. req[o].op = "Account" => u \notin req[o].on
        BY <1>2, <2>1, <2>2, <3>6
      <4> QED
        BY <2>2, <2>4, <4>1, <4>2 DEF ReadKnown, TaskRead
    <3> QED
      BY <2>5, <2>6, <3>4, <3>5, <3>6, ImageKept
  <2> QED
    BY <2>7, <2>8
<1> QED
  BY <1>5, <1>6

LEMMA ImageDeletions ==
    ASSUME ImageInv, KeyInv', Allowed', NEW p \in Request, DeleteRows(p) \/ DeleteUserRow(p) \/ Remove(p)
    PROVE  ImageInv'
<1>0. KeyInv /\ TypeOK /\ RowsUsed /\ NoKey \notin Image /\ NoRow \notin Image
  BY KeyAssumption DEF ImageInv, KeyInv, Key
<1>1. req[p] # Idle
  BY <1>0, DeleteRowsStep, DeleteUserRowStep, RemoveStep
<1>2. \A o \in Request : req[o] # Idle => Uploaded(req[o]) \subseteq stored
  BY DEF ImageInv, ImagesKnown, UploadKnown
<1>3. CASE DeleteRows(p)
  <2>1. /\ req[p].op = "Delete" /\ req[p].at = "delete"
        /\ task' = [t \in Task |-> IF t \in req[p].on THEN NoRow ELSE task[t]]
        /\ UNCHANGED <<avatar, born, stored, loose, spoiled>>
        /\ Removes(p, req[p].keys) \/ Over(p)
    BY <1>0, <1>3, DeleteRowsStep
  <2>2. \A t \in Task : task'[t] = IF t \in req[p].on THEN NoRow ELSE task[t]
    BY <2>1
  <2>3. Gains(NoKey, p)
    BY <2>1, <2>2 DEF Gains
  <2>4. KeepsImages(p)
    BY <1>2, <2>1 DEF KeepsImages, ImageInv, LooseKept
  <2>5. Knows(p)
    <3>1. \A j \in req[p].keys \cap Image : j \notin loose' /\ (j \in spoiled' \/ (ShownBy(j, {}, {}))')
      BY <1>0, <1>1, <2>1, <2>2, InHand DEF HeldKnown, Held, ShownBy
    <3>2. ASSUME NEW o \in Request \ {p}, req[o] # Idle, NEW j \in Uploaded(req[o]) PROVE j \notin req[p].keys
      <4>1. j \in Image
        BY <1>0, <3>2, HeldUsed, Where DEF Uploaded, Stages, AccountStages
      <4> QED
        BY <1>1, <3>2, <4>1, InHand DEF Held
    <3>3. CASE Removes(p, req[p].keys)
      BY <1>0, <2>1, <3>1, <3>2, <3>3, KnowsRemoves
    <3>4. CASE Over(p)
      BY <3>4 DEF Over, Knows
    <3> QED
      BY <2>1, <3>3, <3>4
  <2>6. \A o \in Request \ {p} : req'[o] = req[o]
    BY <2>1 DEF Removes, Over, Now
  <2>7. ASSUME NEW o \in Request \ {p}, req[o] # Idle PROVE (ReadKnown(req[o]))'
    <3>1. ReadKnown(req[o]) /\ req'[o] = req[o]
      BY <2>6, <2>7, InHand
    <3> QED
      BY <2>1, <2>2, <3>1 DEF ReadKnown, TaskRead
  <2> QED
    BY <2>3, <2>4, <2>5, <2>6, <2>7, ImageKept
<1>4. CASE DeleteUserRow(p)
  <2>1. PICK u \in User : req[p].on = {u} /\ avatar' = [avatar EXCEPT ![u] = NoRow]
    BY <1>0, <1>4, DeleteUserRowStep
  <2>2. Over(p) /\ UNCHANGED <<task, born, stored, loose, spoiled>>
    BY <1>0, <1>4, DeleteUserRowStep
  <2>3. avatar'[u] = NoRow /\ \A v \in User \ {u} : avatar'[v] = avatar[v]
    BY <1>0, <2>1 DEF TypeOK
  <2>4. Gains(NoKey, p)
    BY <2>2, <2>3 DEF Gains
  <2>5. KeepsImages(p)
    BY <1>2, <2>1, <2>2, <2>3 DEF KeepsImages, ImageInv, LooseKept
  <2>6. Knows(p) /\ \A o \in Request \ {p} : req'[o] = req[o]
    BY <2>2 DEF Over, Knows
  <2>7. ASSUME NEW o \in Request \ {p}, req[o] # Idle PROVE (ReadKnown(req[o]))'
    <3>1. ReadKnown(req[o]) /\ req'[o] = req[o]
      BY <2>6, <2>7, InHand
    <3> QED
      BY <2>2, <2>3, <3>1 DEF ReadKnown, TaskRead
  <2> QED
    BY <2>4, <2>5, <2>6, <2>7, ImageKept
<1>5. CASE Remove(p)
  <2>1. PICK k \in req[p].keys :
           /\ stored' = stored \ {k} \/ UNCHANGED stored
           /\ IF req[p].keys # {k}
              THEN Now(p, req[p].op, "remove", req[p].on, NoKey, NoKey, req[p].keys \ {k})
              ELSE IF req[p].op = "DeleteUser"
                   THEN Now(p, "DeleteUser", "deleteUser", req[p].on, NoKey, NoKey, {})
                   ELSE Over(p)
    BY <1>0, <1>5, RemoveStep
  <2>2. req[p].at = "remove" /\ UNCHANGED <<task, avatar, born, loose, spoiled>>
    BY <1>0, <1>5, RemoveStep
  <2>3. req[p].new = NoKey /\ req[p].old = NoKey /\ HeldKnown(req[p])
    BY <1>0, <1>1, <2>2, Where, InHand DEF Stages
  <2>4. Gains(NoKey, p)
    BY <2>2 DEF Gains
  <2>5. ASSUME NEW o \in Request \ {p}, req[o] # Idle, NEW j \in Uploaded(req[o]) PROVE j \notin req[p].keys
    <3>1. j \in Image
      BY <1>0, <2>5, HeldUsed, Where DEF Uploaded, Stages, AccountStages
    <3> QED
      BY <1>1, <2>5, <3>1, InHand DEF Held
  <2>6. \A o \in Request \ {p} : req'[o] = req[o]
    BY <2>1 DEF Over, Now
  <2>7. KeepsImages(p)
    <3>1. k \notin loose
      <4>1. k \in loose => k \in Image
        BY <1>0 DEF TypeOK
      <4> QED
        BY <2>1, <2>3, <4>1 DEF HeldKnown, Held
    <3>2. \A j \in loose' : j \in stored' /\ j \in loose
      BY <2>1, <2>2, <3>1 DEF ImageInv, LooseKept
    <3>3. \A o \in Request \ {p} : req[o] # Idle => Uploaded(req[o]) \subseteq stored'
      BY <1>2, <2>1, <2>5
    <3>4. ASSUME k \in Image, k \notin spoiled, ~ShownBy(k, {}, {})
          PROVE  \E u \in User : (ShownBy(k, {}, {u}))' /\ \E q \in Request : At(q, "deleteUser")' /\ u \in req'[q].on
      <4>1. req[p].op = "DeleteUser" /\ ShownBy(k, {}, req[p].on)
        BY <2>1, <2>2, <2>3, <3>4 DEF HeldKnown, Held
      <4>2. PICK u \in User : req[p].on = {u}
        BY <1>0, <1>1, <4>1, Where DEF Stages, DeleteUserStages
      <4>3. req[p].keys = {k}
        BY <1>0, <1>1, <2>1, <2>2, <4>1, Where DEF Stages, DeleteUserStages
      <4>4. req'[p] # Idle /\ req'[p].at = "deleteUser" /\ req'[p].on = {u}
        BY <2>1, <4>1, <4>2, <4>3 DEF Now
      <4>5. At(p, "deleteUser")' /\ u \in req'[p].on
        BY <4>4 DEF At
      <4>6. (ShownBy(k, {}, {u}))'
        BY <2>2, <4>1, <4>2 DEF ShownBy
      <4> QED
        BY <4>5, <4>6
    <3>5. \A j \in Image \cap stored : j \in stored' \/ j = k
      BY <2>1
    <3>6. ShownBy(k, {}, {}) => (ShownBy(k, {}, {}))'
      BY <2>2 DEF ShownBy
    <3> QED
      BY <2>2, <3>2, <3>3, <3>4, <3>5, <3>6 DEF KeepsImages
  <2>8. Knows(p)
    <3>1. CASE req[p].keys # {k}
      <4>1. Now(p, req[p].op, "remove", req[p].on, NoKey, NoKey, req[p].keys \ {k})
        BY <2>1, <3>1
      <4>2. req'[p].op = req[p].op /\ req'[p].at = "remove" /\ req'[p].on = req[p].on
            /\ req'[p].old = NoKey /\ req'[p].keys = req[p].keys \ {k}
        BY <4>1 DEF Now
      <4>3. (HeldKnown(req[p]))'
        BY <1>0, <2>2, <2>3, <4>2 DEF HeldKnown, Held, ShownBy
      <4>4. (ReadKnown(req[p]))'
        BY <4>2 DEF ReadKnown, TaskRead
      <4>5. \A o \in Request \ {p} : req[o] # Idle =>
               \A j \in Uploaded(req[o]) : j \notin req[p].keys \ {k} /\ j \notin {NoKey, NoKey}
        BY <1>0, <2>5, HeldUsed
      <4> QED
        BY <4>1, <4>3, <4>4, <4>5, KnowsNow
    <3>2. CASE req[p].keys = {k} /\ req[p].op = "DeleteUser"
      <4>1. Now(p, "DeleteUser", "deleteUser", req[p].on, NoKey, NoKey, {})
        BY <2>1, <3>2
      <4>2. req'[p].op = "DeleteUser" /\ req'[p].at = "deleteUser" /\ req'[p].old = NoKey /\ req'[p].keys = {}
        BY <4>1 DEF Now
      <4>3. (HeldKnown(req[p]))'
        BY <1>0, <4>2 DEF HeldKnown, Held
      <4>4. (ReadKnown(req[p]))'
        BY <4>2 DEF ReadKnown, TaskRead
      <4>5. \A o \in Request \ {p} : req[o] # Idle =>
               \A j \in Uploaded(req[o]) : j \notin {} /\ j \notin {NoKey, NoKey}
        BY <1>0, HeldUsed
      <4> QED
        BY <4>1, <4>3, <4>4, <4>5, KnowsNow
    <3>3. CASE req[p].keys = {k} /\ req[p].op # "DeleteUser"
      BY <2>1, <3>3 DEF Over, Knows
    <3> QED
      BY <3>1, <3>2, <3>3
  <2>9. ASSUME NEW o \in Request \ {p}, req[o] # Idle PROVE (ReadKnown(req[o]))'
    <3>1. ReadKnown(req[o]) /\ req'[o] = req[o]
      BY <2>6, <2>9, InHand
    <3> QED
      BY <2>2, <3>1 DEF ReadKnown, TaskRead
  <2> QED
    BY <2>4, <2>6, <2>7, <2>8, <2>9, ImageKept
<1> QED
  BY <1>3, <1>4, <1>5

\* The image of a task or of an account is there while it is shown, unless its owner deleted
\* it or gave it to a second row, or the account is being deleted: when no two changes of
\* one task, and no two of one account, overlap (the second writes and removes what it read
\* before the first).
THEOREM ImagesStored ==
    ASSUME {"Update"} \notin Together, {"Account"} \notin Together
    PROVE  Spec => []ImageStored
<1>1. Init => ImageInv
  <2> SUFFICES ASSUME Init PROVE ImageInv
    OBVIOUS
  <2>1. /\ \A p \in Request : req[p] = Idle
        /\ \A t \in Task : task[t] = NoRow
        /\ \A u \in User : avatar[u] = NoKey
        /\ loose = {}
    BY DEF Init
  <2>2. KeyInv
    BY InitKeys
  <2>3. \A k \in Image : ~Shown(k) /\ ShownBy(k, {}, {})
    BY <2>1, <2>2, KeyTypes DEF Shown, ShownBy
  <2> QED
    BY <2>1, <2>2, <2>3 DEF ImageInv, Allowed, ImagesKnown, OneRow, LooseKept, ImageStored
<1>2. ImageInv /\ KeyInv' /\ [Next]_vars => ImageInv'
  <2> SUFFICES ASSUME ImageInv, KeyInv', [Next]_vars PROVE ImageInv'
    OBVIOUS
  <2>1. Allowed'
    BY AllowedKept DEF ImageInv
  <2>2. CASE Next
    BY <2>1, <2>2, ImageClients, ImageBegins, ImageProgress, ImageWrites, ImageDeletions DEF Next
  <2>3. CASE UNCHANGED vars
    <3>1. PICK p : p \notin Request
      BY NoSetContainsEverything
    <3>2. UNCHANGED <<task, avatar, stored, born, req, loose, spoiled>>
      BY <2>3 DEF vars
    <3>3. Gains(NoKey, p) /\ KeepsImages(p) /\ Knows(p)
      BY <3>1, <3>2 DEF Gains, KeepsImages, Knows, ImageInv, LooseKept, ImagesKnown, UploadKnown
    <3>4. \A o \in Request \ {p} : req'[o] = req[o] /\ (req[o] # Idle => (ReadKnown(req[o]))')
      BY <3>2 DEF ImageInv, ImagesKnown, ReadKnown, TaskRead
    <3> QED
      BY <2>1, <3>3, <3>4, ImageKept
  <2> QED
    BY <2>2, <2>3
<1>3. ImageInv => ImageStored
  BY DEF ImageInv
<1> QED
  BY <1>1, <1>2, <1>3, KeyInvariant, PTL DEF Spec

-----------------------------------------------------------------------------
\* Nothing is left over.  What a step leaves of what other requests have read.
Untouched(r) ==
    /\ r.op \in {"Update", "Delete"} /\ r.at # "remove" =>
          \A t \in Task \cap r.on : task'[t] \in {task[t], NoRow}
    /\ r.op = "Account" /\ r.at # "remove" => \A u \in User \cap r.on : avatar'[u] = avatar[u]
    /\ r.op = "DeleteUser" => \A u \in User \cap r.on : avatar'[u] \in {avatar[u], NoRow}
    /\ r.op = "Delete" /\ r.at = "delete" => \A f \in File : file'[f] \in r.on => file'[f] = file[f]
    /\ r.op = "Attach" /\ r.at = "put" => file'[r.new] = file[r.new]

Disturbs(p) ==
    /\ born \subseteq born'
    /\ \A o \in Request \ {p} : req'[o] = req[o] /\ (req[o] # Idle => Untouched(req[o]))
    /\ \A u \in User : avatar[u] \in Image \cap stored' =>
          avatar[u] \in stored /\ (avatar[u] \in lost => avatar[u] \in lost')

\* What the request itself knows after its step.
Learns(p) ==
    p \in Request /\ req'[p] # Idle =>
       /\ (LeakKnown(req[p]))'
       /\ \/ Attaching(req'[p]) \cap used = {}
          \/ req[p] # Idle /\ Attaching(req'[p]) \subseteq Attaching(req[p])

LEMMA LeakKnownStays ==
    ASSUME KeyInv, NEW p, Disturbs(p), NEW o \in Request \ {p}, req[o] # Idle, LeakKnown(req[o])
    PROVE  (LeakKnown(req[o]))'
<1>1. req'[o] = req[o] /\ Untouched(req[o]) /\ born \subseteq born'
  BY DEF Disturbs
<1>2. (TaskRead(req[o]))'
  BY <1>1 DEF LeakKnown, TaskRead, Untouched
<1>3. req[o].op = "Account" /\ req[o].at # "remove" => \A u \in User \cap req[o].on : avatar'[u] = req[o].old
  BY <1>1 DEF LeakKnown, Untouched
<1>4. req[o].op = "Delete" /\ req[o].at # "remove" =>
          \A t \in Task \cap req[o].on : task'[t] \in req[o].keys \cup {NoKey, NoRow}
  BY <1>1 DEF LeakKnown, Untouched
<1>5. req[o].op = "Delete" /\ req[o].at = "delete" => \A f \in File : file'[f] \in req[o].on => f \in req[o].keys
  BY <1>1 DEF LeakKnown, Untouched
<1>6. req[o].op = "Attach" /\ req[o].at = "put" => file'[req[o].new] \in req[o].on /\ file'[req[o].new] # NoTask
  BY <1>1 DEF LeakKnown, Untouched
<1>7. ASSUME req[o].op = "DeleteUser", NEW u \in User \cap req[o].on
      PROVE  avatar'[u] \in req[o].keys \cup lost' \cup {NoKey, NoRow} \/ avatar'[u] \notin stored'
  <2>1. avatar'[u] \in {avatar[u], NoRow} /\ avatar[u] \in Image \cup {NoKey, NoRow}
    BY <1>1, <1>7, KeyTypes DEF Untouched
  <2>2. avatar[u] \in req[o].keys \cup lost \cup {NoKey, NoRow} \/ avatar[u] \notin stored
    BY <1>7 DEF LeakKnown
  <2> QED
    BY <2>1, <2>2 DEF Disturbs
<1> QED
  BY <1>1, <1>2, <1>3, <1>4, <1>5, <1>6, <1>7 DEF LeakKnown

LEMMA LeakKept ==
    ASSUME LeakInv, KeyInv', Allowed', NEW p, Disturbs(p), Learns(p), FilesHaveTasks',
           \A k \in stored' : (Kept(k))'
    PROVE  LeakInv'
<1>0. KeyInv
  BY DEF LeakInv
<1>1. ASSUME NEW o \in Request, req'[o] # Idle PROVE (LeakKnown(req[o]))'
  <2>1. CASE o = p
    BY <1>1, <2>1 DEF Learns
  <2>2. CASE o # p
    BY <1>0, <1>1, <2>2, LeakKnownStays DEF Disturbs, LeakInv
  <2> QED
    BY <2>1, <2>2
<1>2. ASSUME NEW q \in Request, NEW o \in Request, q # o, req'[q] # Idle, req'[o] # Idle
      PROVE  Attaching(req'[q]) \cap Attaching(req'[o]) = {}
  <2>1. ASSUME NEW w \in Request \ {p}, p \in Request, req'[p] # Idle, req'[w] # Idle
        PROVE  Attaching(req'[p]) \cap Attaching(req'[w]) = {}
    <3>1. req'[w] = req[w]
      BY DEF Disturbs
    <3>2. Attaching(req[w]) \subseteq used
      BY <1>0, <2>1, <3>1, Where DEF Attaching, Stages, AttachStages
    <3>3. CASE req[p] # Idle /\ Attaching(req'[p]) \subseteq Attaching(req[p])
      BY <2>1, <3>1, <3>3 DEF LeakInv, AttachingApart
    <3> QED
      BY <2>1, <3>1, <3>2, <3>3 DEF Learns
  <2>2. CASE q # p /\ o # p
    BY <1>2, <2>2 DEF Disturbs, LeakInv, AttachingApart
  <2>3. CASE q = p
    BY <1>2, <2>1, <2>3
  <2>4. CASE o = p
    BY <1>2, <2>1, <2>4
  <2> QED
    BY <2>2, <2>3, <2>4
<1>3. AttachingApart'
  BY <1>2 DEF AttachingApart, Attaching
<1>4. \A o \in Request : req'[o] # Idle => (LeakKnown(req[o]))'
  BY <1>1
<1> QED
  BY <1>3, <1>4 DEF LeakInv

\* What is kept, not by the request of this step, stays so.
LEMMA KeptStays ==
    ASSUME NEW p, \A o \in Request \ {p} : req'[o] = req[o], NEW k, Kept(k),
           k \in loose \cup lost => (Kept(k))',
           \A t \in Task : task[t] = k => (Kept(k))',
           \A u \in User : avatar[u] = k => (Kept(k))',
           k \in File /\ file[k] # NoTask => (Kept(k))',
           p \in Request /\ req[p] # Idle /\ k \in Owned(req[p]) => (Kept(k))'
    PROVE  (Kept(k))'
<1>1. ASSUME NEW o \in Request \ {p}, req[o] # Idle, k \in Owned(req[o]) PROVE (Kept(k))'
  <2>1. req'[o] # Idle /\ k \in Owned(req'[o])
    BY <1>1
  <2> QED
    BY <2>1 DEF Kept, Owned, Uploaded
<1> QED
  BY <1>1 DEF Kept

\* A step that leaves rows alone, and hands on or notes as lost what it had to remove.
LEMMA KeptAside ==
    ASSUME LeakInv, NEW p, \A o \in Request \ {p} : req'[o] = req[o],
           UNCHANGED <<task, avatar, file>>, NEW k \in stored,
           k \in loose \cup lost => k \in loose' \cup lost',
           p \in Request /\ req[p] # Idle /\ k \in Owned(req[p]) =>
              (req'[p] # Idle /\ k \in Owned(req'[p])) \/ k \in lost'
    PROVE  (Kept(k))'
<1>1. Kept(k)
  BY DEF LeakInv
<1>2. k \in loose' \cup lost' => (Kept(k))'
  BY DEF Kept
<1>3. /\ \A t \in Task : task[t] = k => (Kept(k))'
      /\ \A u \in User : avatar[u] = k => (Kept(k))'
      /\ k \in File /\ file[k] # NoTask => (Kept(k))'
  BY DEF Kept
<1>4. p \in Request /\ req'[p] # Idle /\ k \in Owned(req'[p]) => (Kept(k))'
  BY DEF Kept, Owned, Uploaded
<1> QED
  BY <1>1, <1>2, <1>3, <1>4, KeptStays

LEMMA KeptBy ==
    ASSUME NEW k
    PROVE  /\ k \in loose' \cup lost' => (Kept(k))'
           /\ \A t \in Task : task'[t] = k => (Kept(k))'
           /\ \A u \in User : avatar'[u] = k => (Kept(k))'
           /\ k \in File /\ file'[k] # NoTask => (Kept(k))'
           /\ \A q \in Request : req'[q] # Idle /\ k \in Owned(req'[q]) => (Kept(k))'
  BY DEF Kept, Owned, Uploaded

LEMMA OwnedIs ==
    ASSUME NEW r
    PROVE  /\ r.at = "remove" => Owned(r) = r.keys
           /\ r.op = "Attach" /\ r.at = "undo" => Owned(r) = {r.new}
           /\ r.op = "Account" /\ r.at = "write" => Owned(r) = {r.new} \ {NoKey, r.old}
           /\ r.at \notin {"remove", "undo", "write"} => Owned(r) = {}
           /\ r.op = "Update" /\ r.at = "write" => Owned(r) = {}
  BY DEF Owned, Uploaded

LEMMA LeakClients ==
    ASSUME LeakInv, KeyInv', Allowed', LeaksApart,
           UploadImage \/ DeleteImage \/ \E t \in Task : CreateTask(t)
    PROVE  LeakInv'
<1>0. /\ KeyInv /\ TypeOK /\ RowsUsed /\ FilesHaveTasks /\ NoKey \notin Image /\ NoRow \notin Image
      /\ \A k \in stored : Kept(k)
  BY KeyAssumption DEF LeakInv, KeyInv, Key
<1>1. PICK p : p \notin Request
  BY NoSetContainsEverything
<1>2. Learns(p)
  BY <1>1 DEF Learns
<1>3. CASE UploadImage
  <2>1. PICK k \in Image \ used : stored' = stored \cup {k} /\ loose' = loose \cup {k}
    BY <1>3 DEF UploadImage, Put
  <2>2. UNCHANGED <<task, avatar, file, born, req, lost>>
    BY <1>3 DEF UploadImage, rows
  <2>3. Disturbs(p)
    BY <1>0, <2>1, <2>2 DEF Disturbs, Untouched, RowsUsed
  <2>4. FilesHaveTasks'
    BY <1>0, <2>2 DEF FilesHaveTasks
  <2>5. ASSUME NEW j \in stored' PROVE (Kept(j))'
    <3>1. CASE j = k
      BY <2>1, <3>1, KeptBy
    <3>2. CASE j # k
      <4>1. j \in stored /\ (j \in loose \cup lost => j \in loose' \cup lost')
        BY <2>1, <2>2, <3>2
      <4> QED
        BY <1>1, <2>2, <4>1, KeptAside
    <3> QED
      BY <3>1, <3>2
  <2> QED
    BY <1>2, <2>3, <2>4, <2>5, LeakKept
<1>4. CASE DeleteImage
  <2>1. PICK k \in Known : stored' = stored \ {k} /\ loose' = loose \ {k} /\ lost' = lost \ {k}
    BY <1>4 DEF DeleteImage, Drop
  <2>2. UNCHANGED <<task, avatar, file, born, req>>
    BY <1>4 DEF DeleteImage, rows
  <2>3. Disturbs(p)
    BY <2>1, <2>2 DEF Disturbs, Untouched
  <2>4. FilesHaveTasks'
    BY <1>0, <2>2 DEF FilesHaveTasks
  <2>5. ASSUME NEW j \in stored' PROVE (Kept(j))'
    <3>1. j \in stored /\ (j \in loose \cup lost => j \in loose' \cup lost')
      BY <2>1, <2>5
    <3> QED
      BY <1>1, <2>2, <3>1, KeptAside
  <2> QED
    BY <1>2, <2>3, <2>4, <2>5, LeakKept
<1>5. ASSUME NEW t \in Task, CreateTask(t) PROVE LeakInv'
  <2>1. PICK k \in Known \cup {NoKey} : task' = [task EXCEPT ![t] = k] /\ loose' = loose \ {k}
    BY <1>5 DEF CreateTask, Give
  <2>2. UNCHANGED <<avatar, file, stored, req, lost>> /\ born' = born \cup {t} /\ t \notin born
        /\ Free("CreateTask", {t})
    BY <1>5 DEF CreateTask
  <2>3. /\ task[t] = NoRow /\ task'[t] = k /\ k # NoRow
        /\ \A s \in Task \ {t} : task'[s] = task[s]
    BY <1>0, <2>1, <2>2, KeyAssumption DEF TypeOK, RowsUsed, Known
  <2>4. Disturbs(p)
    <3>1. ASSUME NEW o \in Request, req[o] # Idle PROVE Untouched(req[o])
      <4>1. req[o].op = "Update" /\ req[o].at = "write" => t \notin req[o].on
        BY <2>2, <3>1 DEF LeakInv, LeakKnown, TaskRead
      <4>2. req[o].op = "Delete" => t \notin req[o].on
        <5>1. ASSUME req[o].op = "Delete", t \in req[o].on PROVE {"CreateTask", "Delete"} \in Together
          <6>1. req[o].on \cap {t} # {}
            BY <5>1
          <6> QED
            BY <2>2, <3>1, <5>1, <6>1 DEF Free
        <5> QED
          BY <5>1 DEF LeaksApart
      <4> QED
        BY <1>0, <2>2, <2>3, <3>1, <4>1, <4>2, Where DEF Untouched, Stages, UpdateStages
    <3> QED
      BY <2>2, <3>1 DEF Disturbs
  <2>5. FilesHaveTasks'
    BY <1>0, <2>2, <2>3 DEF FilesHaveTasks, TypeOK
  <2>6. ASSUME NEW j \in stored' PROVE (Kept(j))'
    <3>1. j \in stored /\ Kept(j)
      BY <1>0, <2>2, <2>6
    <3>2. j \in loose \cup lost => (Kept(j))'
      BY <2>1, <2>2, <2>3, KeptBy
    <3>3. ASSUME NEW s \in Task, task[s] = j PROVE (Kept(j))'
      <4>1. j # NoRow
        BY <1>0, <3>1, KeyAssumption DEF TypeOK
      <4>2. task'[s] = j
        BY <2>3, <3>3, <4>1
      <4> QED
        BY <4>2, KeptBy
    <3>4. (\A u \in User : avatar[u] = j => (Kept(j))') /\ (j \in File /\ file[j] # NoTask => (Kept(j))')
      BY <2>2, KeptBy
    <3>5. \A o \in Request \ {p} : req'[o] = req[o]
      BY <2>2
    <3> QED
      BY <1>1, <3>1, <3>2, <3>3, <3>4, <3>5, KeptStays
  <2> QED
    BY <1>2, <2>4, <2>5, <2>6, LeakKept
<1> QED
  BY <1>3, <1>4, <1>5

\* Steps that leave the rows alone.
LEMMA LeakAside ==
    ASSUME LeakInv, KeyInv', Allowed', NEW p \in Request, UNCHANGED <<task, avatar, file, born>>,
           \A o \in Request \ {p} : req'[o] = req[o], Learns(p), loose \subseteq loose',
           \A k \in stored' : k \in stored \/ (k \notin Image \cap used /\ (Kept(k))'),
           \A k \in lost \cap stored' : k \in lost',
           req[p] # Idle => \A k \in Owned(req[p]) \cap stored' :
                               (req'[p] # Idle /\ k \in Owned(req'[p])) \/ k \in lost'
    PROVE  LeakInv'
<1>1. Disturbs(p)
  <2>1. \A u \in User : avatar[u] \in Image => avatar[u] \in used
    BY KeyAssumption DEF LeakInv, KeyInv, RowsUsed, Key
  <2> QED
    BY <2>1 DEF Disturbs, Untouched
<1>2. FilesHaveTasks'
  BY DEF LeakInv, FilesHaveTasks
<1>3. ASSUME NEW k \in stored' PROVE (Kept(k))'
  <2>1. CASE k \in stored
    BY <2>1, KeptAside
  <2> QED
    BY <2>1
<1> QED
  BY <1>1, <1>2, <1>3, LeakKept

\* A request that begins has nothing of its own to remove but the picture of an account
\* that is to be deleted.
LEMMA LeakBegins ==
    ASSUME LeakInv, KeyInv', Allowed', NEW p \in Request,
           \/ \E t \in Task : Update(p, t) \/ Attach(p, t)
           \/ \E scope \in Scope : Delete(p, scope)
           \/ \E f \in File : Detach(p, f)
           \/ \E u \in User : Account(p, u) \/ DeleteUser(p, u)
    PROVE  LeakInv'
<1>0. KeyInv /\ RowsUsed
  BY DEF LeakInv, KeyInv
<1>1. ASSUME Same, req[p] = Idle, NEW op \in OpNames, NEW at, at # "put" \/ op # "Attach", at # "undo", NEW on, NEW old, NEW new, NEW keys,
             Now(p, op, at, on, old, new, keys), (LeakKnown(req[p]))'
      PROVE  LeakInv'
  <2>1. req'[p].op = op /\ req'[p].at = at /\ \A o \in Request \ {p} : req'[o] = req[o]
    BY <1>1 DEF Now
  <2>2. Attaching(req'[p]) = {}
    BY <1>1, <2>1 DEF Attaching
  <2> QED
    BY <1>1, <2>1, <2>2, LeakAside DEF Same, Learns
<1>2. ASSUME NEW t \in Task, Update(p, t) PROVE LeakInv'
  <2>1. req[p] = Idle /\ task[t] \in Image \cup {NoKey} /\ Same
    BY <1>0, <1>2, UpdateStep DEF MayBegin
  <2>2. PICK k : Now(p, "Update", "write", {t}, task[t], k, {})
    BY <1>0, <1>2, UpdateStep
  <2>3. t \in born
    BY <1>0, <2>1, KeyTypes DEF RowsUsed
  <2>4. req'[p].op = "Update" /\ req'[p].on = {t} /\ req'[p].old = task[t] /\ UNCHANGED <<task, born>>
    BY <2>1, <2>2 DEF Now, Same
  <2>5. (LeakKnown(req[p]))'
    BY <2>3, <2>4 DEF LeakKnown, TaskRead
  <2> QED
    BY <1>1, <2>1, <2>2, <2>5 DEF OpNames
<1>3. ASSUME NEW t \in Task, Attach(p, t) PROVE LeakInv'
  <2>1. req[p] = Idle /\ Same /\ Now(p, "Attach", "insert", {t}, NoKey, NoKey, {})
    BY <1>0, <1>3, AttachStep DEF MayBegin
  <2>2. (LeakKnown(req[p]))'
    BY <2>1 DEF LeakKnown, TaskRead, Now
  <2> QED
    BY <1>1, <2>1, <2>2 DEF OpNames
<1>4. ASSUME NEW scope \in Scope, Delete(p, scope) PROVE LeakInv'
  <2> DEFINE keys == {task[t] : t \in scope} \ {NoKey, NoRow}
  <2>1. req[p] = Idle /\ Same /\ Now(p, "Delete", "collect", scope, NoKey, NoKey, keys)
    BY <1>0, <1>4, DeleteStep DEF MayBegin
  <2>2. \A t \in scope : task[t] \in keys \cup {NoKey, NoRow}
    OBVIOUS
  <2> HIDE DEF keys
  <2>3. req'[p].op = "Delete" /\ req'[p].at = "collect" /\ req'[p].on = scope /\ req'[p].keys = keys
        /\ task' = task
    BY <2>1 DEF Now, Same
  <2>4. (LeakKnown(req[p]))'
    BY <2>2, <2>3 DEF LeakKnown, TaskRead
  <2> QED
    BY <1>1, <2>1, <2>4 DEF OpNames
<1>5. ASSUME NEW f \in File, Detach(p, f) PROVE LeakInv'
  <2>1. req[p] = Idle /\ Same /\ Now(p, "Detach", "drop", {f}, NoKey, NoKey, {f})
    BY <1>0, <1>5, DetachStep DEF MayBegin
  <2>2. (LeakKnown(req[p]))'
    BY <2>1 DEF LeakKnown, TaskRead, Now
  <2> QED
    BY <1>1, <2>1, <2>2 DEF OpNames
<1>6. ASSUME NEW u \in User, Account(p, u) PROVE LeakInv'
  <2>1. req[p] = Idle /\ Same
    BY <1>0, <1>6, AccountStep DEF MayBegin
  <2>2. PICK at \in {"put", "write"}, k \in {NoKey, avatar[u]} : Now(p, "Account", at, {u}, avatar[u], k, {})
    BY <1>0, <1>6, AccountStep
  <2>3. req'[p].op = "Account" /\ req'[p].on = {u} /\ req'[p].old = avatar[u] /\ avatar' = avatar
    BY <2>1, <2>2 DEF Now, Same
  <2>4. (LeakKnown(req[p]))'
    BY <2>3 DEF LeakKnown, TaskRead
  <2> QED
    BY <1>1, <2>1, <2>2, <2>4 DEF OpNames
<1>7. ASSUME NEW u \in User, DeleteUser(p, u) PROVE LeakInv'
  <2>1. req[p] = Idle /\ Same
    BY <1>0, <1>7, DeleteUserStep DEF MayBegin
  <2>2. \E at \in {"remove", "deleteUser"}, keys \in SUBSET {avatar[u]} :
           /\ Now(p, "DeleteUser", at, {u}, NoKey, NoKey, keys)
           /\ avatar[u] \in keys \cup {NoKey}
    <3>1. CASE avatar[u] = NoKey
      <4>1. Now(p, "DeleteUser", "deleteUser", {u}, NoKey, NoKey, {}) /\ {} \in SUBSET {avatar[u]}
        BY <1>0, <1>7, <3>1, DeleteUserStep
      <4> QED
        BY <3>1, <4>1
    <3>2. CASE avatar[u] # NoKey
      <4>1. Now(p, "DeleteUser", "remove", {u}, NoKey, NoKey, {avatar[u]}) /\ {avatar[u]} \in SUBSET {avatar[u]}
        BY <1>0, <1>7, <3>2, DeleteUserStep
      <4> QED
        BY <4>1
    <3> QED
      BY <3>1, <3>2
  <2>5. PICK at \in {"remove", "deleteUser"}, keys \in SUBSET {avatar[u]} :
           /\ Now(p, "DeleteUser", at, {u}, NoKey, NoKey, keys)
           /\ avatar[u] \in keys \cup {NoKey}
    BY <2>2
  <2>3. req'[p].op = "DeleteUser" /\ req'[p].on = {u} /\ req'[p].keys = keys /\ avatar' = avatar
    BY <2>1, <2>5 DEF Now, Same
  <2>4. (LeakKnown(req[p]))'
    BY <2>3, <2>5 DEF LeakKnown, TaskRead
  <2> QED
    BY <1>1, <2>1, <2>4, <2>5 DEF OpNames
<1> QED
  BY <1>2, <1>3, <1>4, <1>5, <1>6, <1>7

LEMMA LeakProgress ==
    ASSUME LeakInv, KeyInv', Allowed', NEW p \in Request,
           \/ CollectKeys(p) \/ PutAttachment(p) \/ PutFails(p) \/ PutAvatar(p) \/ UpdateUserFails(p)
           \/ Remove(p) \/ RequestFails(p)
    PROVE  LeakInv'
<1>0. KeyInv /\ TypeOK /\ RowsUsed
  BY DEF LeakInv, KeyInv
<1>1. Over(p) => Learns(p) /\ \A o \in Request \ {p} : req'[o] = req[o]
  BY DEF Over, Learns
<1>2. CASE CollectKeys(p)
  <2>1. /\ req[p] # Idle /\ req[p].op = "Delete" /\ req[p].at = "collect" /\ Same
        /\ Now(p, "Delete", "delete", req[p].on, NoKey, NoKey, req[p].keys \cup FilesOf(req[p].on))
    BY <1>0, <1>2, CollectKeysStep
  <2>2. req'[p] # Idle /\ req'[p].op = "Delete" /\ req'[p].at = "delete" /\ req'[p].on = req[p].on
        /\ req'[p].keys = req[p].keys \cup FilesOf(req[p].on)
        /\ \A o \in Request \ {p} : req'[o] = req[o]
    BY <2>1 DEF Now
  <2>3. (LeakKnown(req[p]))'
    <3>1. LeakKnown(req[p])
      BY <2>1 DEF LeakInv
    <3> QED
      BY <2>1, <2>2, <3>1 DEF LeakKnown, TaskRead, FilesOf, Same
  <2>4. Attaching(req'[p]) = {} /\ Owned(req[p]) = {}
    BY <2>1, <2>2, OwnedIs DEF Attaching
  <2> QED
    BY <2>1, <2>2, <2>3, <2>4, LeakAside DEF Same, Learns
<1>3. CASE PutAttachment(p)
  <2>1. /\ req[p] # Idle /\ req[p].op = "Attach" /\ req[p].at = "put" /\ req[p].new \in File
        /\ stored' = stored \cup {req[p].new} /\ Over(p)
        /\ UNCHANGED <<task, avatar, file, born, used, loose, lost, spoiled>>
    BY <1>0, <1>3, PutAttachmentStep
  <2>2. file'[req[p].new] # NoTask
    BY <2>1 DEF LeakInv, LeakKnown
  <2>3. \A k \in stored' : k \in stored \/ (k \notin Image \cap used /\ (Kept(k))')
    BY <2>1, <2>2, KeptBy, KeyAssumption
  <2>4. Owned(req[p]) = {}
    BY <2>1, OwnedIs
  <2> QED
    BY <1>1, <2>1, <2>3, <2>4, LeakAside
<1>4. CASE PutFails(p)
  <2>1. /\ req[p] # Idle /\ req[p].op = "Attach" /\ req[p].at = "put" /\ req[p].new \in File
        /\ stored' \in {stored, stored \cup {req[p].new}}
        /\ Now(p, "Attach", "undo", req[p].on, NoKey, req[p].new, {})
        /\ UNCHANGED <<task, avatar, file, born, used, loose, lost, spoiled>>
    BY <1>0, <1>4, PutFailsStep
  <2>2. req'[p] # Idle /\ req'[p].op = "Attach" /\ req'[p].at = "undo" /\ req'[p].new = req[p].new
        /\ \A o \in Request \ {p} : req'[o] = req[o]
    BY <2>1 DEF Now
  <2>3. req[p].new \in Owned(req'[p]) /\ Owned(req[p]) = {}
    BY <2>1, <2>2, OwnedIs
  <2>4. \A k \in stored' : k \in stored \/ (k \notin Image \cap used /\ (Kept(k))')
    BY <2>1, <2>2, <2>3, KeptBy, KeyAssumption
  <2>5. (LeakKnown(req[p]))'
    BY <2>2 DEF LeakKnown, TaskRead
  <2>6. Attaching(req'[p]) \subseteq Attaching(req[p])
    BY <2>1, <2>2 DEF Attaching
  <2> QED
    BY <2>1, <2>2, <2>3, <2>4, <2>5, <2>6, LeakAside DEF Learns
<1>5. CASE PutAvatar(p)
  <2>1. PICK k \in Image \ used : /\ stored' = stored \cup {k}
                                  /\ Now(p, "Account", "write", req[p].on, req[p].old, k, {})
    BY <1>0, <1>5, PutAvatarStep
  <2>2. /\ req[p] # Idle /\ req[p].op = "Account" /\ req[p].at = "put"
        /\ UNCHANGED <<task, avatar, file, born, loose, lost>>
    BY <1>0, <1>5, PutAvatarStep
  <2>3. req'[p] # Idle /\ req'[p].op = "Account" /\ req'[p].at = "write" /\ req'[p].on = req[p].on
        /\ req'[p].old = req[p].old /\ req'[p].new = k /\ \A o \in Request \ {p} : req'[o] = req[o]
    BY <2>1 DEF Now
  <2>4. (LeakKnown(req[p]))'
    <3>1. LeakKnown(req[p])
      BY <2>2 DEF LeakInv
    <3> QED
      BY <2>2, <2>3, <3>1 DEF LeakKnown, TaskRead
  <2>5. k \in Owned(req'[p]) /\ Owned(req[p]) = {}
    <3>1. k # NoKey /\ k # req[p].old
      BY <1>0, <2>1, <2>2, Where, KeyTypes DEF Stages
    <3> QED
      BY <2>2, <2>3, <3>1, OwnedIs
  <2>6. \A j \in stored' : j \in stored \/ (j \notin Image \cap used /\ (Kept(j))')
    BY <2>1, <2>3, <2>5, KeptBy
  <2>7. Attaching(req'[p]) = {}
    BY <2>3 DEF Attaching
  <2> QED
    BY <2>2, <2>3, <2>4, <2>5, <2>6, <2>7, LeakAside DEF Learns
<1>6. CASE UpdateUserFails(p)
  <2>1. /\ req[p] # Idle /\ req[p].op = "Account" /\ req[p].at = "write"
        /\ Removes(p, {req[p].new} \ {NoKey, req[p].old}) /\ Same
    BY <1>0, <1>6, UpdateUserFailsStep
  <2>2. Owned(req[p]) = {req[p].new} \ {NoKey, req[p].old}
    BY <2>1, OwnedIs
  <2>3. Removes(p, Owned(req[p]))
    BY <2>1, <2>2
  <2>4. \A o \in Request \ {p} : req'[o] = req[o]
    BY <2>1 DEF Removes, Over, Now
  <2>5. CASE Owned(req[p]) = {}
    BY <1>1, <2>1, <2>3, <2>5, LeakAside DEF Same, Removes
  <2>6. CASE Owned(req[p]) # {}
    <3>1. req'[p] # Idle /\ req'[p].op = "Account" /\ req'[p].at = "remove" /\ req'[p].keys = Owned(req[p])
      BY <2>1, <2>3, <2>6 DEF Removes, Now
    <3>2. (LeakKnown(req[p]))'
      BY <3>1 DEF LeakKnown, TaskRead
    <3>3. Owned(req'[p]) = Owned(req[p]) /\ Attaching(req'[p]) = {}
      BY <3>1, OwnedIs DEF Attaching
    <3> QED
      BY <2>1, <2>4, <3>1, <3>2, <3>3, LeakAside DEF Same, Learns
  <2> QED
    BY <2>5, <2>6
<1>7. CASE Remove(p)
  <2>1. PICK k \in req[p].keys :
           /\ \/ stored' = stored \ {k} /\ lost' = lost \ {k}
              \/ k \in stored /\ lost' = lost \cup {k} /\ UNCHANGED stored
           /\ IF req[p].keys # {k}
              THEN Now(p, req[p].op, "remove", req[p].on, NoKey, NoKey, req[p].keys \ {k})
              ELSE IF req[p].op = "DeleteUser"
                   THEN Now(p, "DeleteUser", "deleteUser", req[p].on, NoKey, NoKey, {})
                   ELSE Over(p)
    BY <1>0, <1>7, RemoveStep
  <2>2. req[p] # Idle /\ req[p].at = "remove" /\ UNCHANGED <<task, avatar, file, born, used, loose>>
    BY <1>0, <1>7, RemoveStep
  <2>3. \A o \in Request \ {p} : req'[o] = req[o]
    BY <2>1 DEF Over, Now
  <2>4. /\ \A j \in stored' : j \in stored /\ (j = k => j \in lost')
        /\ \A j \in lost \cap stored' : j \in lost'
    BY <2>1
  <2>5. Owned(req[p]) = req[p].keys
    BY <2>2, OwnedIs
  <2>6. \A j \in Owned(req[p]) \cap stored' : (req'[p] # Idle /\ j \in Owned(req'[p])) \/ j \in lost'
    <3>1. CASE req[p].keys # {k}
      <4>1. req'[p] # Idle /\ req'[p].at = "remove" /\ req'[p].keys = req[p].keys \ {k}
        BY <2>1, <3>1 DEF Now
      <4>2. Owned(req'[p]) = req[p].keys \ {k}
        BY <4>1, OwnedIs
      <4> QED
        BY <2>4, <2>5, <4>1, <4>2
    <3>2. CASE req[p].keys = {k}
      BY <2>4, <2>5, <3>2
    <3> QED
      BY <3>1, <3>2
  <2>7. Learns(p)
    <3>1. CASE Over(p)
      BY <1>1, <3>1
    <3>2. CASE ~Over(p)
      <4>1. /\ req'[p].op = req[p].op /\ req'[p].on = req[p].on /\ req'[p].keys = req[p].keys \ {k}
            /\ req'[p].at \in {"remove", "deleteUser"} /\ (req'[p].op = "DeleteUser" \/ req'[p].at = "remove")
        BY <2>1, <3>2 DEF Now
      <4>2. LeakKnown(req[p])
        BY <2>2 DEF LeakInv
      <4>3. ASSUME req[p].op = "DeleteUser", NEW u \in User \cap req[p].on
            PROVE  avatar'[u] \in req'[p].keys \cup lost' \cup {NoKey, NoRow} \/ avatar'[u] \notin stored'
        BY <2>2, <2>4, <4>1, <4>2, <4>3 DEF LeakKnown
      <4>4. (LeakKnown(req[p]))'
        BY <4>1, <4>3 DEF LeakKnown, TaskRead
      <4>5. Attaching(req'[p]) = {}
        BY <4>1 DEF Attaching
      <4> QED
        BY <4>4, <4>5 DEF Learns
    <3> QED
      BY <3>1, <3>2
  <2> QED
    BY <2>2, <2>3, <2>4, <2>6, <2>7, LeakAside
<1>8. CASE RequestFails(p)
  <2>1. /\ req[p] # Idle /\ Over(p) /\ lost' = lost \cup (Abandoned(req[p]) \cap stored)
        /\ UNCHANGED <<task, avatar, file, born, stored, used, loose>>
    BY <1>0, <1>8, FailStep
  <2>2. Owned(req[p]) \subseteq Abandoned(req[p])
    <3>1. req[p].op = "Attach" /\ req[p].at = "undo" => req[p].new \notin {NoKey, req[p].old}
      BY <1>0, <2>1, Where, KeyTypes DEF Stages, AttachStages
    <3> QED
      BY <3>1 DEF Owned, Abandoned, Uploaded
  <2> QED
    BY <1>1, <2>1, <2>2, LeakAside
<1> QED
  BY <1>2, <1>3, <1>4, <1>5, <1>6, <1>7, <1>8

LEMMA OnApart ==
    ASSUME LeakInv, NEW p \in Request, NEW o \in Request, p # o, req[p] # Idle, req[o] # Idle,
           {req[p].op, req[o].op} \notin Together
    PROVE  req[p].on \cap req[o].on = {}
  BY DEF LeakInv, Allowed

LEMMA LeakFiles ==
    ASSUME LeakInv, KeyInv', Allowed', LeaksApart, NEW p \in Request,
           CreateAttachment(p) \/ UndoAttach(p) \/ DeleteAttachment(p)
    PROVE  LeakInv'
<1>0. /\ KeyInv /\ TypeOK /\ RowsUsed /\ FilesHaveTasks /\ req[p] # Idle
      /\ \A k \in stored : Kept(k)
  BY CreateAttachmentStep, UndoAttachStep, DeleteAttachmentStep DEF LeakInv, KeyInv
<1>1. \A o \in Request : req[o] # Idle /\ req[o].op = "Delete" /\ req[o].at = "delete" => NoTask \notin req[o].on
  BY <1>0, Where, RowAssumption DEF Stages, DeleteStages
<1>2. \A o \in Request : req[o] # Idle /\ req[o].op = "Attach" /\ req[o].at = "put" =>
         req[o].new \in used /\ req[o].new \in req[o].on
  BY <1>0, Where DEF Stages, AttachStages
<1>3. CASE CreateAttachment(p)
  <2>1. /\ req[p].op = "Attach" /\ req[p].at = "insert"
        /\ UNCHANGED <<task, avatar, born, stored, loose, lost, spoiled>>
    BY <1>0, <1>3, CreateAttachmentStep
  <2>2. Owned(req[p]) = {}
    BY <2>1, OwnedIs
  <2>3. CASE Over(p) /\ UNCHANGED <<file, used>>
    BY <2>1, <2>2, <2>3, LeakAside DEF Over, Learns
  <2>4. ASSUME NEW f \in File \ used, NEW t \in Task, req[p].on = {t}, task[t] # NoRow,
               file' = [file EXCEPT ![f] = t], Now(p, "Attach", "put", {t, f}, NoKey, f, {})
        PROVE  LeakInv'
    <3>1. file'[f] = t /\ \A g \in File \ {f} : file'[g] = file[g]
      BY <1>0, <2>4 DEF TypeOK
    <3>2. /\ req'[p] # Idle /\ req'[p].op = "Attach" /\ req'[p].at = "put" /\ req'[p].on = {t, f}
          /\ req'[p].new = f /\ \A o \in Request \ {p} : req'[o] = req[o]
      BY <2>4 DEF Now
    <3>3. ASSUME NEW o \in Request \ {p}, req[o] # Idle PROVE Untouched(req[o])
      <4>1. req[o].op = "Delete" => t \notin req[o].on
        <5>1. {"Attach", "Delete"} \notin Together
          BY DEF LeaksApart
        <5> QED
          BY <1>0, <2>1, <2>4, <3>3, <5>1, OnApart
      <4>2. req[o].op = "Attach" /\ req[o].at = "put" => req[o].new \in File \ {f}
        BY <1>0, <2>4, <3>3, Where DEF Stages, AttachStages
      <4> QED
        BY <2>1, <3>1, <4>1, <4>2 DEF Untouched
    <3>4. Disturbs(p)
      BY <2>1, <3>2, <3>3 DEF Disturbs
    <3>5. Learns(p)
      <4>1. (LeakKnown(req[p]))'
        BY <3>1, <3>2, RowAssumption DEF LeakKnown, TaskRead
      <4>2. Attaching(req'[p]) \cap used = {}
        BY <2>4, <3>2 DEF Attaching
      <4> QED
        BY <4>1, <4>2 DEF Learns
    <3>6. FilesHaveTasks'
      BY <1>0, <2>1, <2>4, <3>1 DEF FilesHaveTasks
    <3>7. ASSUME NEW k \in stored' PROVE (Kept(k))'
      <4>1. k \in File /\ file[k] # NoTask => (Kept(k))'
        BY <1>0, <2>4, <3>1, KeptBy DEF RowsUsed
      <4>2. Kept(k)
        BY <1>0, <2>1
      <4> QED
        BY <2>1, <2>2, <3>2, <4>1, <4>2, KeptBy, KeptStays
    <3> QED
      BY <3>4, <3>5, <3>6, <3>7, LeakKept
  <2> QED
    BY <1>0, <1>3, <2>3, <2>4, CreateAttachmentStep
<1>4. CASE UndoAttach(p)
  <2>1. PICK f \in File : f = req[p].new
    BY <1>0, <1>4, UndoAttachStep
  <2>2. /\ req[p].op = "Attach" /\ req[p].at = "undo"
        /\ file' = [file EXCEPT ![f] = NoTask] \/ UNCHANGED file
        /\ Now(p, "Attach", "remove", req[p].on, NoKey, NoKey, {f})
        /\ UNCHANGED <<task, avatar, born, stored, used, loose, lost>>
    BY <1>0, <1>4, <2>1, UndoAttachStep
  <2>3. /\ req'[p] # Idle /\ req'[p].op = "Attach" /\ req'[p].at = "remove" /\ req'[p].keys = {f}
        /\ \A o \in Request \ {p} : req'[o] = req[o]
    BY <2>2 DEF Now
  <2>4. Owned(req[p]) = {f} /\ Owned(req'[p]) = {f}
    BY <2>1, <2>2, <2>3, OwnedIs
  <2>5. Learns(p)
    BY <2>3 DEF Learns, LeakKnown, TaskRead, Attaching
  <2>6. \A g \in File : file'[g] = file[g] \/ (g = f /\ file'[g] = NoTask)
    BY <1>0, <2>2 DEF TypeOK
  <2>7. ASSUME NEW o \in Request \ {p}, req[o] # Idle PROVE Untouched(req[o])
    <3>1. req[o].op = "Attach" /\ req[o].at = "put" => req[o].new \in File \ {f}
      <4>1. req[o].op = "Attach" /\ req[o].at = "put" => req[o].new \in File
        BY <1>0, <2>7, Where DEF Stages, AttachStages
      <4> QED
        BY <1>0, <2>1, <2>2, <2>7, <4>1 DEF LeakInv, AttachingApart, Attaching
    <3> QED
      BY <1>1, <2>2, <2>6, <2>7, <3>1 DEF Untouched
  <2>8. Disturbs(p)
    BY <2>2, <2>3, <2>7 DEF Disturbs
  <2>9. FilesHaveTasks'
    BY <1>0, <2>2, <2>6 DEF FilesHaveTasks
  <2>10. ASSUME NEW k \in stored' PROVE (Kept(k))'
    <3>1. Kept(k) /\ (k = f => (Kept(k))')
      BY <1>0, <2>2, <2>3, <2>4, KeptBy
    <3>2. k \in File /\ file[k] # NoTask => (Kept(k))'
      BY <2>6, <3>1, KeptBy
    <3> QED
      BY <2>2, <2>3, <2>4, <3>1, <3>2, KeptBy, KeptStays
  <2> QED
    BY <2>5, <2>8, <2>9, <2>10, LeakKept
<1>5. CASE DeleteAttachment(p)
  <2>1. PICK f \in File \cap used :
           /\ req[p].on = {f}
           /\ file' = [file EXCEPT ![f] = NoTask]
           /\ IF file[f] # NoTask THEN Now(p, "Detach", "remove", {f}, NoKey, NoKey, {f})
                                  ELSE Over(p)
    BY <1>0, <1>5, DeleteAttachmentStep
  <2>2. /\ req[p].op = "Detach" /\ req[p].at = "drop"
        /\ UNCHANGED <<task, avatar, born, stored, used, loose, lost>>
    BY <1>0, <1>5, DeleteAttachmentStep
  <2>3. \A o \in Request \ {p} : req'[o] = req[o]
    BY <2>1 DEF Now, Over
  <2>4. Owned(req[p]) = {}
    BY <2>2, OwnedIs
  <2>5. file[f] # NoTask => req'[p] # Idle /\ f \in Owned(req'[p])
    <3>1. file[f] # NoTask => req'[p] # Idle /\ req'[p].at = "remove" /\ req'[p].keys = {f}
      BY <2>1 DEF Now
    <3> QED
      BY <3>1, OwnedIs
  <2>6. Learns(p)
    BY <2>1 DEF Learns, LeakKnown, TaskRead, Attaching, Now, Over
  <2>7. \A g \in File : file'[g] = file[g] \/ (g = f /\ file'[g] = NoTask)
    BY <1>0, <2>1 DEF TypeOK
  <2>8. ASSUME NEW o \in Request \ {p}, req[o] # Idle PROVE Untouched(req[o])
    <3>1. req[o].op = "Attach" /\ req[o].at = "put" => req[o].new \in File \ {f}
      <4>1. req[o].op = "Attach" /\ req[o].at = "put" => req[o].new \in File /\ req[o].new \in req[o].on
        BY <1>0, <2>8, Where DEF Stages, AttachStages
      <4>2. {"Detach", "Attach"} \notin Together
        <5>1. {"Detach", "Attach"} = {"Attach", "Detach"}
          OBVIOUS
        <5> QED
          BY <5>1 DEF LeaksApart
      <4> QED
        BY <1>0, <2>1, <2>2, <2>8, <4>1, <4>2, OnApart
    <3> QED
      BY <1>1, <2>2, <2>7, <2>8, <3>1 DEF Untouched
  <2>9. Disturbs(p)
    BY <2>2, <2>3, <2>8 DEF Disturbs
  <2>10. FilesHaveTasks'
    BY <1>0, <2>2, <2>7 DEF FilesHaveTasks
  <2>11. ASSUME NEW k \in stored' PROVE (Kept(k))'
    <3>1. Kept(k)
      BY <1>0, <2>2
    <3>2. k \in File /\ file[k] # NoTask => (Kept(k))'
      BY <2>5, <2>7, KeptBy
    <3> QED
      BY <2>2, <2>3, <2>4, <3>1, <3>2, KeptBy, KeptStays
  <2> QED
    BY <2>6, <2>9, <2>10, <2>11, LeakKept
<1> QED
  BY <1>3, <1>4, <1>5

LEMMA LeakWrites ==
    ASSUME LeakInv, KeyInv', Allowed', LeaksApart, NEW p \in Request, UpdateTask(p) \/ UpdateUser(p)
    PROVE  LeakInv'
<1>0. /\ KeyInv /\ TypeOK /\ RowsUsed /\ FilesHaveTasks /\ req[p] # Idle /\ LeakKnown(req[p])
      /\ \A k \in stored : Kept(k) /\ k # NoKey /\ k # NoRow
  <2>1. req[p] # Idle
    BY UpdateTaskStep, UpdateUserStep DEF LeakInv
  <2> QED
    BY <2>1, KeyAssumption DEF LeakInv, KeyInv, TypeOK
<1> DEFINE keys == {req[p].old} \ {NoKey, req[p].new}
<1>1. ASSUME Removes(p, keys), req[p].op \in {"Update", "Account"}
      PROVE  /\ \A o \in Request \ {p} : req'[o] = req[o]
             /\ \A k \in keys : (Kept(k))'
             /\ Learns(p)
  <2>1. CASE keys = {}
    BY <1>1, <2>1 DEF Removes, Over, Learns
  <2>2. CASE keys # {}
    <3> HIDE DEF keys
    <3>1. Now(p, req[p].op, "remove", req[p].on, NoKey, NoKey, keys)
      BY <1>1, <2>2 DEF Removes
    <3>2. /\ req'[p] # Idle /\ req'[p].op = req[p].op /\ req'[p].at = "remove" /\ req'[p].keys = keys
          /\ \A o \in Request \ {p} : req'[o] = req[o]
      BY <3>1 DEF Now
    <3>3. Owned(req'[p]) = keys
      BY <3>2, OwnedIs
    <3>4. \A k \in keys : (Kept(k))'
      BY <3>2, <3>3, KeptBy
    <3>5. Learns(p)
      BY <1>1, <3>2 DEF Learns, LeakKnown, TaskRead, Attaching
    <3> QED
      BY <3>2, <3>4, <3>5
  <2> QED
    BY <2>1, <2>2
<1>2. CASE UpdateTask(p)
  <2>1. PICK t \in Task :
           /\ req[p].on = {t}
           /\ task' = [task EXCEPT ![t] = IF @ = NoRow THEN NoRow ELSE req[p].new]
           /\ IF task[t] = NoRow \/ req[p].new = req[p].old THEN UNCHANGED <<loose, spoiled>>
              ELSE Give(req[p].new)
    BY <1>0, <1>2, UpdateTaskStep
  <2>2. /\ req[p].op = "Update" /\ req[p].at = "write" /\ Removes(p, keys)
        /\ UNCHANGED <<avatar, file, born, stored, used, lost>>
    BY <1>0, <1>2, UpdateTaskStep
  <2>3. task[t] \in {req[p].old, NoRow}
    BY <1>0, <2>1, <2>2 DEF LeakKnown, TaskRead
  <2>4. task'[t] = (IF task[t] = NoRow THEN NoRow ELSE req[p].new) /\ \A s \in Task \ {t} : task'[s] = task[s]
    BY <1>0, <2>1 DEF TypeOK
  <2>5. /\ \A o \in Request \ {p} : req'[o] = req[o]
        /\ \A k \in keys : (Kept(k))'
        /\ Learns(p)
    BY <1>1, <2>2
  <2>6. ASSUME NEW o \in Request \ {p}, req[o] # Idle PROVE Untouched(req[o])
    <3>1. req[o].op \in {"Update", "Delete"} => t \notin req[o].on
      <4>1. {"Update", req[o].op} \notin Together => t \notin req[o].on
        BY <1>0, <2>1, <2>2, <2>6, OnApart
      <4>2. {"Update", "Update"} = {"Update"}
        OBVIOUS
      <4> QED
        BY <4>1, <4>2 DEF LeaksApart
    <3> QED
      BY <2>2, <2>4, <3>1 DEF Untouched
  <2>7. Disturbs(p)
    BY <2>2, <2>5, <2>6 DEF Disturbs
  <2>8. FilesHaveTasks'
    <3>1. req[p].new # NoRow
      BY <1>0, <2>2, Where, KeyTypes DEF Stages, UpdateStages
    <3>2. \A s \in Task : task[s] # NoRow => task'[s] # NoRow
      BY <2>4, <3>1
    <3> QED
      BY <1>0, <2>2, <3>2 DEF FilesHaveTasks, TypeOK
  <2>9. ASSUME NEW k \in stored' PROVE (Kept(k))'
    <3>1. Kept(k) /\ k # NoKey /\ k # NoRow
      BY <1>0, <2>2
    <3>2. k \in loose \cup lost => (Kept(k))'
      <4>1. k \in loose => k \in loose' \/ (task[t] # NoRow /\ k = req[p].new)
        BY <2>1 DEF Give
      <4> QED
        BY <2>2, <2>4, <4>1, KeptBy
    <3>3. ASSUME NEW s \in Task, task[s] = k PROVE (Kept(k))'
      <4>1. CASE s = t
        <5>1. k = req[p].old /\ task'[t] = req[p].new
          BY <2>3, <2>4, <3>1, <3>3, <4>1
        <5>2. CASE k = req[p].new
          BY <5>1, <5>2, KeptBy
        <5>3. CASE k # req[p].new
          BY <2>5, <3>1, <5>1, <5>3
        <5> QED
          BY <5>2, <5>3
      <4>2. CASE s # t
        BY <2>4, <3>3, <4>2, KeptBy
      <4> QED
        BY <4>1, <4>2
    <3>4. (\A u \in User : avatar[u] = k => (Kept(k))') /\ (k \in File /\ file[k] # NoTask => (Kept(k))')
      BY <2>2, KeptBy
    <3>5. Owned(req[p]) = {}
      BY <2>2, OwnedIs
    <3> QED
      BY <2>5, <3>1, <3>2, <3>3, <3>4, <3>5, KeptStays
  <2> QED
    BY <2>5, <2>7, <2>8, <2>9, LeakKept
<1>3. CASE UpdateUser(p)
  <2>1. PICK u \in User :
           /\ req[p].on = {u}
           /\ avatar' = [avatar EXCEPT ![u] = IF @ = NoRow THEN NoRow ELSE req[p].new]
    BY <1>0, <1>3, UpdateUserStep
  <2>2. /\ req[p].op = "Account" /\ req[p].at = "write" /\ Removes(p, keys)
        /\ UNCHANGED <<task, file, born, stored, used, loose, lost>>
    BY <1>0, <1>3, UpdateUserStep
  <2>3. avatar[u] = req[p].old /\ avatar[u] # NoRow
    <3>1. avatar[u] = req[p].old
      BY <1>0, <2>1, <2>2 DEF LeakKnown
    <3>2. req[p].old # NoRow
      BY <1>0, RequestTypes, KeyTypes
    <3> QED
      BY <3>1, <3>2
  <2>4. avatar'[u] = req[p].new /\ \A v \in User \ {u} : avatar'[v] = avatar[v]
    BY <1>0, <2>1, <2>3 DEF TypeOK
  <2>5. /\ \A o \in Request \ {p} : req'[o] = req[o]
        /\ \A k \in keys : (Kept(k))'
        /\ Learns(p)
    BY <1>1, <2>2
  <2>6. ASSUME NEW o \in Request \ {p}, req[o] # Idle PROVE Untouched(req[o])
    <3>1. req[o].op \in {"Account", "DeleteUser"} => u \notin req[o].on
      <4>1. {"Account", req[o].op} \notin Together => u \notin req[o].on
        BY <1>0, <2>1, <2>2, <2>6, OnApart
      <4>2. {"Account", "Account"} = {"Account"}
        OBVIOUS
      <4> QED
        BY <4>1, <4>2 DEF LeaksApart
    <3> QED
      BY <2>2, <2>4, <3>1 DEF Untouched
  <2>7. Disturbs(p)
    BY <2>2, <2>5, <2>6 DEF Disturbs
  <2>8. FilesHaveTasks'
    BY <1>0, <2>2 DEF FilesHaveTasks
  <2>9. ASSUME NEW k \in stored' PROVE (Kept(k))'
    <3>1. Kept(k) /\ k # NoKey /\ k # NoRow
      BY <1>0, <2>2
    <3>2. /\ k \in loose \cup lost => (Kept(k))'
          /\ \A s \in Task : task[s] = k => (Kept(k))'
          /\ k \in File /\ file[k] # NoTask => (Kept(k))'
      BY <2>2, KeptBy
    <3>3. ASSUME NEW v \in User, avatar[v] = k PROVE (Kept(k))'
      <4>1. CASE v = u /\ k = req[p].new
        BY <2>4, <4>1, KeptBy
      <4>2. CASE v = u /\ k # req[p].new
        BY <2>3, <2>5, <3>1, <3>3, <4>2
      <4>3. CASE v # u
        BY <2>4, <3>3, <4>3, KeptBy
      <4> QED
        BY <4>1, <4>2, <4>3
    <3>4. k \in Owned(req[p]) => (Kept(k))'
      <4>1. k \in Owned(req[p]) => avatar'[u] = k
        BY <2>2, <2>4, OwnedIs
      <4> QED
        BY <4>1, KeptBy
    <3> QED
      BY <2>5, <3>1, <3>2, <3>3, <3>4, KeptStays
  <2> QED
    BY <2>5, <2>7, <2>8, <2>9, LeakKept
<1> QED
  BY <1>2, <1>3

LEMMA LeakDeletions ==
    ASSUME LeakInv, KeyInv', Allowed', LeaksApart, NEW p \in Request, DeleteRows(p) \/ DeleteUserRow(p)
    PROVE  LeakInv'
<1>0. /\ KeyInv /\ TypeOK /\ RowsUsed /\ FilesHaveTasks /\ req[p] # Idle /\ LeakKnown(req[p])
      /\ \A k \in stored : Kept(k) /\ k # NoKey /\ k # NoRow
  <2>1. req[p] # Idle
    BY DeleteRowsStep, DeleteUserRowStep DEF LeakInv
  <2> QED
    BY <2>1, KeyAssumption DEF LeakInv, KeyInv, TypeOK
<1>1. CASE DeleteRows(p)
  <2>1. /\ req[p].op = "Delete" /\ req[p].at = "delete"
        /\ task' = [t \in Task |-> IF t \in req[p].on THEN NoRow ELSE task[t]]
        /\ file' = [f \in File |-> IF file[f] \in req[p].on THEN NoTask ELSE file[f]]
        /\ \/ Removes(p, req[p].keys)
           \/ (\A t \in req[p].on : task[t] = NoRow) /\ Over(p)
        /\ UNCHANGED <<avatar, born, stored, loose, lost>>
    BY <1>0, <1>1, DeleteRowsStep
  <2>2. /\ \A t \in Task : task'[t] = IF t \in req[p].on THEN NoRow ELSE task[t]
        /\ \A f \in File : file'[f] = IF file[f] \in req[p].on THEN NoTask ELSE file[f]
    BY <2>1
  <2>3. \A o \in Request \ {p} : req'[o] = req[o]
    BY <2>1 DEF Removes, Over, Now
  <2>4. \A t \in Task \cap req[p].on : task[t] \in req[p].keys \cup {NoKey, NoRow}
    BY <1>0, <2>1 DEF LeakKnown
  <2>5. \A f \in File : file[f] \in req[p].on => f \in req[p].keys
    BY <1>0, <2>1 DEF LeakKnown
  <2>6. Owned(req[p]) = {}
    BY <2>1, OwnedIs
  <2>7. Learns(p)
    BY <2>1 DEF Removes, Over, Now, Learns, LeakKnown, TaskRead, Attaching
  <2>8. ASSUME NEW o \in Request \ {p}, req[o] # Idle PROVE Untouched(req[o])
    <3>1. ASSUME req[o].op = "Attach", req[o].at = "put" PROVE file'[req[o].new] = file[req[o].new]
      <4>1. req[o].new \in File /\ file[req[o].new] \in req[o].on
        BY <1>0, <2>8, <3>1, Where DEF Stages, AttachStages, LeakInv, LeakKnown
      <4>2. {"Delete", "Attach"} = {"Attach", "Delete"}
        OBVIOUS
      <4>3. req[p].on \cap req[o].on = {}
        BY <1>0, <2>1, <2>8, <3>1, <4>2, OnApart DEF LeaksApart
      <4> QED
        BY <2>2, <4>1, <4>3
    <3>2. req[o].op = "Delete" /\ req[o].at = "delete" => NoTask \notin req[o].on
      BY <1>0, <2>8, Where, RowAssumption DEF Stages, DeleteStages
    <3> QED
      BY <2>1, <2>2, <3>1, <3>2 DEF Untouched
  <2>9. Disturbs(p)
    BY <2>1, <2>3, <2>8 DEF Disturbs
  <2>10. FilesHaveTasks'
    BY <1>0, <2>2 DEF FilesHaveTasks, TypeOK
  <2>11. ASSUME NEW k \in stored', k \in req[p].keys, Removes(p, req[p].keys) PROVE (Kept(k))'
    <3>1. req'[p] # Idle /\ req'[p].at = "remove" /\ req'[p].keys = req[p].keys
      BY <2>11 DEF Removes, Now
    <3> QED
      BY <2>11, <3>1, OwnedIs, KeptBy
  <2>12. ASSUME NEW k \in stored' PROVE (Kept(k))'
    <3>1. Kept(k) /\ k # NoKey /\ k # NoRow
      BY <1>0, <2>1
    <3>2. k \in loose \cup lost => (Kept(k))'
      BY <2>1, KeptBy
    <3>3. ASSUME NEW t \in Task, task[t] = k PROVE (Kept(k))'
      <4>1. CASE t \notin req[p].on
        BY <2>2, <3>3, <4>1, KeptBy
      <4>2. CASE t \in req[p].on
        BY <2>1, <2>4, <2>11, <3>1, <3>3, <4>2
      <4> QED
        BY <4>1, <4>2
    <3>4. \A u \in User : avatar[u] = k => (Kept(k))'
      BY <2>1, KeptBy
    <3>5. ASSUME k \in File, file[k] # NoTask PROVE (Kept(k))'
      <4>1. CASE file[k] \notin req[p].on
        BY <2>2, <3>5, <4>1, KeptBy
      <4>2. CASE file[k] \in req[p].on
        <5>1. task[file[k]] # NoRow
          BY <1>0, <3>5 DEF FilesHaveTasks
        <5> QED
          BY <2>1, <2>5, <2>11, <3>5, <4>2, <5>1
      <4> QED
        BY <4>1, <4>2
    <3> QED
      BY <2>3, <2>6, <3>1, <3>2, <3>3, <3>4, <3>5, KeptStays
  <2> QED
    BY <2>7, <2>9, <2>10, <2>12, LeakKept
<1>2. CASE DeleteUserRow(p)
  <2>1. PICK u \in User : req[p].on = {u} /\ avatar' = [avatar EXCEPT ![u] = NoRow]
    BY <1>0, <1>2, DeleteUserRowStep
  <2>2. /\ req[p].op = "DeleteUser" /\ req[p].at = "deleteUser" /\ Over(p)
        /\ UNCHANGED <<task, file, born, stored, loose, lost>>
    BY <1>0, <1>2, DeleteUserRowStep
  <2>3. avatar'[u] = NoRow /\ \A v \in User \ {u} : avatar'[v] = avatar[v]
    BY <1>0, <2>1 DEF TypeOK
  <2>4. avatar[u] \in lost \cup {NoKey, NoRow} \/ avatar[u] \notin stored
    <3>1. req[p].keys = {}
      BY <1>0, <2>2, Where DEF Stages, DeleteUserStages
    <3> QED
      BY <1>0, <2>1, <2>2, <3>1 DEF LeakKnown
  <2>5. Learns(p) /\ \A o \in Request \ {p} : req'[o] = req[o]
    BY <2>2 DEF Over, Learns
  <2>6. ASSUME NEW o \in Request \ {p}, req[o] # Idle PROVE Untouched(req[o])
    <3>1. req[o].op = "Account" => u \notin req[o].on
      <4>1. {"DeleteUser", "Account"} = {"Account", "DeleteUser"}
        OBVIOUS
      <4> QED
        BY <1>0, <2>1, <2>2, <2>6, <4>1, OnApart DEF LeaksApart
    <3> QED
      BY <2>2, <2>3, <3>1 DEF Untouched
  <2>7. Disturbs(p)
    BY <2>2, <2>5, <2>6 DEF Disturbs
  <2>8. FilesHaveTasks'
    BY <1>0, <2>2 DEF FilesHaveTasks
  <2>9. ASSUME NEW k \in stored' PROVE (Kept(k))'
    <3>1. Kept(k) /\ k # NoKey /\ k # NoRow /\ k \in stored
      BY <1>0, <2>2
    <3>2. /\ k \in loose \cup lost => (Kept(k))'
          /\ \A s \in Task : task[s] = k => (Kept(k))'
          /\ k \in File /\ file[k] # NoTask => (Kept(k))'
      BY <2>2, KeptBy
    <3>3. \A v \in User : avatar[v] = k => (Kept(k))'
      BY <2>3, <2>4, <3>1, <3>2, KeptBy
    <3>4. Owned(req[p]) = {}
      BY <2>2, OwnedIs
    <3> QED
      BY <2>5, <3>1, <3>2, <3>3, <3>4, KeptStays
  <2> QED
    BY <2>5, <2>7, <2>8, <2>9, LeakKept
<1> QED
  BY <1>1, <1>2

\* No object is left over: each is named by a row, was uploaded and not given to a row yet,
\* or will be removed by a request, unless a step failed.  It needs that no key is given to
\* a task beside its deletion, which has collected the keys; that no attachment is deleted
\* beside its creation; and one change of a row at a time, which removes what it has read.
THEOREM NothingLeftOver ==
    ASSUME LeaksApart
    PROVE  Spec => []NothingLeaks
<1>1. Init => LeakInv
  <2> SUFFICES ASSUME Init PROVE LeakInv
    OBVIOUS
  <2>1. /\ \A p \in Request : req[p] = Idle
        /\ \A f \in File : file[f] = NoTask
        /\ stored = {}
    BY DEF Init
  <2> QED
    BY <2>1, InitKeys DEF LeakInv, Allowed, AttachingApart, FilesHaveTasks
<1>2. LeakInv /\ KeyInv' /\ [Next]_vars => LeakInv'
  <2> SUFFICES ASSUME LeakInv, KeyInv', [Next]_vars PROVE LeakInv'
    OBVIOUS
  <2>1. Allowed'
    BY AllowedKept DEF LeakInv
  <2>2. CASE Next
    BY <2>1, <2>2, LeakClients, LeakBegins, LeakProgress, LeakFiles, LeakWrites, LeakDeletions DEF Next
  <2>3. CASE UNCHANGED vars
    <3>1. PICK p : p \notin Request
      BY NoSetContainsEverything
    <3>2. UNCHANGED <<task, avatar, file, stored, born, req, loose, lost>>
      BY <2>3 DEF vars, rows
    <3>3. Disturbs(p) /\ Learns(p) /\ FilesHaveTasks'
      BY <3>1, <3>2 DEF Disturbs, Untouched, Learns, LeakInv, FilesHaveTasks
    <3>4. \A k \in stored' : (Kept(k))'
      BY <3>1, <3>2, KeptAside
    <3> QED
      BY <2>1, <3>3, <3>4, LeakKept
  <2> QED
    BY <2>2, <2>3
<1>3. LeakInv => NothingLeaks
  <2> SUFFICES ASSUME LeakInv, NEW k \in stored
               PROVE  \/ k \in loose \cup lost
                      \/ k \in Image /\ Shown(k)
                      \/ k \in File /\ file[k] # NoTask
                      \/ \E op \in OpNames : Serving(op, k)
    BY DEF NothingLeaks
  <2>1. KeyInv /\ Kept(k) /\ k # NoKey /\ k # NoRow
    BY KeyAssumption DEF LeakInv, KeyInv, TypeOK
  <2>2. ASSUME NEW p \in Request, req[p] # Idle, k \in Owned(req[p])
        PROVE  \E op \in OpNames : Serving(op, k)
    <3>1. k \in req[p].keys \cup {req[p].new}
      BY <2>2 DEF Owned, Uploaded
    <3>2. req[p].op \in OpNames
      BY <2>1, <2>2, RequestTypes DEF KeyInv
    <3> QED
      BY <2>2, <3>1, <3>2 DEF Serving
  <2> QED
    BY <2>1, <2>2, KeyTypes DEF Kept, Shown
<1> QED
  BY <1>1, <1>2, <1>3, KeyInvariant, PTL DEF Spec

=============================================================================
