-------------------------------- MODULE Files --------------------------------
(***************************************************************************)
(* Files: the objects kept in MinIO and the rows that name them, which are *)
(* attachments, the images of tasks and the pictures of accounts.          *)
(*                                                                         *)
(* Nothing but the order of the commands keeps the two stores together: an *)
(* attachment has its row before its object, an image its object before    *)
(* its row, and what is deleted loses its row first, a picture aside.      *)
(* Objects are removed one by one, and a removal that fails is only        *)
(* logged.  A command of MinIO or of the database is one step.             *)
(*                                                                         *)
(* A client gives keys of objects that are there: a key without an object  *)
(* is as good as one whose object is deleted right after.                  *)
(***************************************************************************)
EXTENDS Naturals, FiniteSets

CONSTANTS
    Task,        \* task ids (never reused: uuid.New)
    User,
    Image, File, \* keys of images and of attachments (never reused: uuid.NewString)
    Scope,       \* what is deleted together: a task with its children, a board, a workspace
    Request,     \* the HTTP requests in progress at one time
    Idle,        \* a request slot that serves nobody
    NoRow, NoKey, NoTask,
    Together     \* the pairs of operations that may be in progress on the same

Key == Image \cup File
OpNames == {"CreateTask", "Attach", "Detach", "Update", "Delete", "Account", "DeleteUser"}

\* A request in progress: on are the tasks, the attachment or the account it is
\* about, old the key as read, new the key to be written, keys those of the objects
\* to be removed.
InProgress == [op: OpNames,
               at: {"insert", "put", "undo", "drop", "collect", "delete", "write", "remove",
                    "deleteUser"},
               on: SUBSET (Task \cup File \cup User),
               old: Image \cup {NoKey}, new: Key \cup {NoKey}, keys: SUBSET Key]

ASSUME KeyAssumption == /\ Image \cap File = {} /\ NoKey \notin Key /\ NoRow \notin Key \cup {NoKey}
                        /\ File \cap (Task \cup User) = {}
ASSUME RowAssumption == NoTask \notin Task /\ Idle \notin InProgress
ASSUME ScopeAssumption == Scope \subseteq SUBSET Task

VARIABLES
    task,    \* task[t]: the key of its image, NoKey, or NoRow
    avatar,  \* avatar[u]: the key of the picture, NoKey, or NoRow
    file,    \* file[f]: the task of the attachment with this key, or NoTask
    stored,  \* the objects
    used,    \* the keys used so far
    born,    \* the tasks that were created
    req,     \* req[p]: the request in progress, or Idle
    loose,   \* images that were uploaded and given to nothing yet
    lost,    \* keys whose object stays because a step failed
    spoiled  \* keys whose object clients deleted or used twice, or that a step that
             \* failed left without one

rows == <<task, avatar, file, born>>
vars == <<task, avatar, file, stored, used, born, req, loose, lost, spoiled>>

\* Every variable stays in its type, and objects have keys that were made.
TypeOK ==
    /\ task \in [Task -> Image \cup {NoKey, NoRow}]
    /\ avatar \in [User -> Image \cup {NoKey, NoRow}]
    /\ file \in [File -> Task \cup {NoTask}]
    /\ used \subseteq Key /\ stored \subseteq used
    /\ born \subseteq Task
    /\ req \in [Request -> InProgress \cup {Idle}]
    /\ loose \subseteq Image /\ lost \subseteq Key /\ spoiled \subseteq Key

Init ==
    /\ task = [t \in Task |-> NoRow]
    /\ avatar = [u \in User |-> NoKey]
    /\ file = [f \in File |-> NoTask]
    /\ stored = {} /\ used = {} /\ born = {}
    /\ req = [p \in Request |-> Idle]
    /\ loose = {} /\ lost = {} /\ spoiled = {}

-----------------------------------------------------------------------------
\* Requests.

Become(p, r) == req' = [req EXCEPT ![p] = r]
Finish(p) == Become(p, Idle)
At(p, stage) == req[p] # Idle /\ req[p].at = stage

Free(op, on) ==
    \A o \in Request : req[o] # Idle /\ req[o].on \cap on # {} => {op, req[o].op} \in Together

MayBegin(p, op, on) == req[p] = Idle /\ Free(op, on)

Fresh(op, stage, on) ==
    [op |-> op, at |-> stage, on |-> on, old |-> NoKey, new |-> NoKey, keys |-> {}]

\* RemoveMany of the keys, and nothing after it.
ThenRemove(p, r, keys) ==
    IF keys = {} THEN Finish(p)
    ELSE Become(p, [r EXCEPT !.at = "remove", !.keys = keys, !.old = NoKey, !.new = NoKey])

\* The commands of MinIO that succeed.  A key without an object may be removed too.
Put(k) == stored' = stored \cup {k}
Drop(k) == stored' = stored \ {k}

\* The key of an attachment, made once its size and its name are right.
PrepareAttachment == File \ used

Shown(k) == (\E t \in Task : task[t] = k) \/ (\E u \in User : avatar[u] = k)

-----------------------------------------------------------------------------
\* Images are uploaded before anything names them.  A client may have no use for the
\* key, or never hear of it.

\* A bug: the name of the file, which may be one used before, is the key.
UploadNamed ==
    /\ \E k \in Image \ stored : Put(k) /\ loose' = loose \cup {k}
    /\ UNCHANGED <<rows, req, used, lost, spoiled>>

UploadImage ==
    /\ \E k \in Image \ used :
          /\ Put(k)
          /\ used' = used \cup {k}
          /\ loose' = loose \cup {k}
    /\ UNCHANGED <<rows, req, lost, spoiled>>

\* The images whose key a client may know: not that of a picture that is on its way.
Known == {k \in Image \cap stored :
             ~\E p \in Request : At(p, "write") /\ req[p].op = "Account"
                                /\ req[p].new = k /\ req[p].old # k}

\* The owner's, who may delete what a task or an account still shows.
DeleteImage ==
    /\ \E k \in Known :
          /\ Drop(k)
          /\ loose' = loose \ {k}
          /\ lost' = lost \ {k}
          /\ spoiled' = IF Shown(k) THEN spoiled \cup {k} ELSE spoiled
    /\ UNCHANGED <<rows, req, used>>

\* A key is given to a row: ValidateImageKey looks at its form and its owner only.
Give(k) ==
    /\ loose' = loose \ {k}
    /\ spoiled' = IF k \in loose \cup {NoKey} THEN spoiled ELSE spoiled \cup {k}

-----------------------------------------------------------------------------
\* Tasks.
CreateTask(t) ==
    /\ t \notin born
    /\ Free("CreateTask", {t})
    /\ \E k \in Known \cup {NoKey} :
          /\ task' = [task EXCEPT ![t] = k]
          /\ Give(k)
    /\ born' = born \cup {t}
    /\ UNCHANGED <<avatar, file, stored, used, req, lost>>

\* Update: the image is changed or kept ...
Update(p, t) ==
    /\ MayBegin(p, "Update", {t})
    /\ task[t] # NoRow
    /\ \E k \in Known \cup {NoKey, task[t]} :
          Become(p, [Fresh("Update", "write", {t}) EXCEPT !.old = task[t], !.new = k])
    /\ UNCHANGED <<rows, stored, used, loose, lost, spoiled>>

\* A bug: the image before stays.
UpdateOnly(p) ==
    /\ At(p, "write") /\ req[p].op = "Update"
    /\ LET r == req[p] IN
       \E t \in r.on :
          /\ task' = [task EXCEPT ![t] = IF @ = NoRow THEN NoRow ELSE r.new]
          /\ IF task[t] = NoRow \/ r.new = r.old THEN UNCHANGED <<loose, spoiled>>
             ELSE Give(r.new)
    /\ Finish(p)
    /\ UNCHANGED <<avatar, file, born, stored, used, lost>>

\* ... and the image before is removed.  A task that is gone stays gone.
UpdateTask(p) ==
    /\ At(p, "write") /\ req[p].op = "Update"
    /\ LET r == req[p] IN
       /\ \E t \in r.on :
             /\ task' = [task EXCEPT ![t] = IF @ = NoRow THEN NoRow ELSE r.new]
             /\ IF task[t] = NoRow \/ r.new = r.old THEN UNCHANGED <<loose, spoiled>>
                ELSE Give(r.new)
       /\ ThenRemove(p, r, {r.old} \ {NoKey, r.new})
    /\ UNCHANGED <<avatar, file, born, stored, used, lost>>

-----------------------------------------------------------------------------
\* Deletions, of a task, a board or a workspace: the keys are collected, those of
\* the images ...
Delete(p, scope) ==
    /\ MayBegin(p, "Delete", scope)
    /\ \E t \in scope : task[t] # NoRow
    /\ Become(p, [Fresh("Delete", "collect", scope) EXCEPT
                     !.keys = {task[t] : t \in scope} \ {NoKey, NoRow}])
    /\ UNCHANGED <<rows, stored, used, loose, lost, spoiled>>

FilesOf(scope) == {f \in File : file[f] \in scope}

\* ... and those of the attachments ...
CollectKeys(p) ==
    /\ At(p, "collect")
    /\ Become(p, [req[p] EXCEPT !.at = "delete", !.keys = @ \cup FilesOf(req[p].on)])
    /\ UNCHANGED <<rows, stored, used, loose, lost, spoiled>>

\* ... before the rows are deleted and then the objects removed.  When there is
\* nothing any more, the board or the workspace may be there still.
DeleteRows(p) ==
    /\ At(p, "delete")
    /\ LET r == req[p] IN
       /\ task' = [t \in Task |-> IF t \in r.on THEN NoRow ELSE task[t]]
       /\ file' = [f \in File |-> IF file[f] \in r.on THEN NoTask ELSE file[f]]
       /\ \/ ThenRemove(p, r, r.keys)
          \/ (\A t \in r.on : task[t] = NoRow) /\ Finish(p)
    /\ UNCHANGED <<avatar, born, stored, used, loose, lost, spoiled>>

-----------------------------------------------------------------------------
\* Attachments.  The task is found ...
Attach(p, t) ==
    /\ MayBegin(p, "Attach", {t})
    /\ task[t] # NoRow
    /\ Become(p, Fresh("Attach", "insert", {t}))
    /\ UNCHANGED <<rows, stored, used, loose, lost, spoiled>>

\* ... the row is inserted, if the task is there (the foreign key) ...
CreateAttachment(p) ==
    /\ At(p, "insert")
    /\ \E f \in PrepareAttachment, t \in req[p].on :
          IF task[t] = NoRow
          THEN Finish(p) /\ UNCHANGED <<file, used>>
          ELSE /\ file' = [file EXCEPT ![f] = t]
               /\ used' = used \cup {f}
               /\ Become(p, [req[p] EXCEPT !.at = "put", !.new = f, !.on = {t, f}])
    /\ UNCHANGED <<task, avatar, born, stored, loose, lost, spoiled>>

\* ... and the object is put.
PutAttachment(p) ==
    /\ At(p, "put") /\ req[p].op = "Attach"
    /\ Put(req[p].new)
    /\ Finish(p)
    /\ UNCHANGED <<rows, used, loose, lost, spoiled>>

\* A bug: there is no way back.
PutGivenUp(p) ==
    /\ At(p, "put") /\ req[p].op = "Attach"
    /\ Finish(p)
    /\ UNCHANGED <<rows, stored, used, loose, lost, spoiled>>

\* When that fails, with the object or without, the row is deleted again ...
PutFails(p) ==
    /\ At(p, "put") /\ req[p].op = "Attach"
    /\ \/ Put(req[p].new)
       \/ UNCHANGED stored
    /\ Become(p, [req[p] EXCEPT !.at = "undo"])
    /\ UNCHANGED <<rows, used, loose, lost, spoiled>>

\* ... and the object, also if the row could not be.
UndoAttach(p) ==
    /\ At(p, "undo")
    /\ LET f == req[p].new IN
       /\ \/ file' = [file EXCEPT ![f] = NoTask] /\ UNCHANGED spoiled
          \/ UNCHANGED file /\ spoiled' = spoiled \cup {f}
       /\ ThenRemove(p, req[p], {f})
    /\ UNCHANGED <<task, avatar, born, stored, used, loose, lost>>

\* Delete: the attachment is found, and its row deleted unless another request did.
Detach(p, f) ==
    /\ file[f] # NoTask
    /\ MayBegin(p, "Detach", {f})
    /\ Become(p, [Fresh("Detach", "drop", {f}) EXCEPT !.keys = {f}])
    /\ UNCHANGED <<rows, stored, used, loose, lost, spoiled>>

DeleteAttachment(p) ==
    /\ At(p, "drop")
    /\ LET r == req[p] IN
       /\ file' = [f \in File |-> IF f \in r.keys THEN NoTask ELSE file[f]]
       /\ IF \E f \in r.keys : file[f] # NoTask THEN ThenRemove(p, r, r.keys) ELSE Finish(p)
    /\ UNCHANGED <<task, avatar, born, stored, used, loose, lost, spoiled>>

-----------------------------------------------------------------------------
\* Pictures of accounts.  The row is read, for a new picture, for none, or for
\* another change of the account, which writes the picture as read.
Account(p, u) ==
    /\ MayBegin(p, "Account", {u})
    /\ avatar[u] # NoRow
    /\ \/ Become(p, [Fresh("Account", "put", {u}) EXCEPT !.old = avatar[u]])
       \/ \E k \in {NoKey, avatar[u]} :
             Become(p, [Fresh("Account", "write", {u}) EXCEPT !.old = avatar[u], !.new = k])
    /\ UNCHANGED <<rows, stored, used, loose, lost, spoiled>>

\* UploadAvatar: the object is put ...
PutAvatar(p) ==
    /\ At(p, "put") /\ req[p].op = "Account"
    /\ \E k \in Image \ used :
          /\ used' = used \cup {k}
          /\ Put(k)
          /\ Become(p, [req[p] EXCEPT !.at = "write", !.new = k])
    /\ UNCHANGED <<rows, loose, lost, spoiled>>

\* A bug: the picture before is removed first.
RemoveFirst(p) ==
    /\ At(p, "write") /\ req[p].op = "Account"
    /\ LET r == req[p] IN
       IF r.old \in stored /\ r.old # r.new
       THEN Drop(r.old) /\ UNCHANGED <<avatar, req>>
       ELSE /\ avatar' = [u \in User |-> IF u \in r.on /\ avatar[u] # NoRow THEN r.new
                                         ELSE avatar[u]]
            /\ Finish(p)
            /\ UNCHANGED stored
    /\ UNCHANGED <<task, file, born, used, loose, lost, spoiled>>

\* ... it is written into the row, and the picture before is removed.
UpdateUser(p) ==
    /\ At(p, "write") /\ req[p].op = "Account"
    /\ LET r == req[p] IN
       /\ avatar' = [u \in User |-> IF u \in r.on /\ avatar[u] # NoRow THEN r.new
                                    ELSE avatar[u]]
       /\ ThenRemove(p, r, {r.old} \ {NoKey, r.new})
    /\ UNCHANGED <<task, file, born, stored, used, loose, lost, spoiled>>

\* A picture that could not be written is removed again.
UpdateUserFails(p) ==
    /\ At(p, "write") /\ req[p].op = "Account"
    /\ ThenRemove(p, req[p], {req[p].new} \ {NoKey, req[p].old})
    /\ UNCHANGED <<rows, stored, used, loose, lost, spoiled>>

\* DeleteUser: the picture is removed before the row is deleted.
DeleteUser(p, u) ==
    /\ MayBegin(p, "DeleteUser", {u})
    /\ avatar[u] # NoRow
    /\ LET keys == {avatar[u]} \ {NoKey} IN
       Become(p, [Fresh("DeleteUser", IF keys = {} THEN "deleteUser" ELSE "remove", {u}) EXCEPT
                     !.keys = keys])
    /\ UNCHANGED <<rows, stored, used, loose, lost, spoiled>>

DeleteUserRow(p) ==
    /\ At(p, "deleteUser")
    /\ avatar' = [u \in User |-> IF u \in req[p].on THEN NoRow ELSE avatar[u]]
    /\ Finish(p)
    /\ UNCHANGED <<task, file, born, stored, used, loose, lost, spoiled>>

-----------------------------------------------------------------------------
\* RemoveMany: one object more is removed, or is not and that is logged.
Remove(p) ==
    /\ At(p, "remove")
    /\ LET r == req[p] IN
       \E k \in r.keys :
          /\ \/ Drop(k) /\ lost' = lost \ {k}
             \/ k \in stored /\ lost' = lost \cup {k} /\ UNCHANGED stored
          /\ IF r.keys # {k} THEN Become(p, [r EXCEPT !.keys = @ \ {k}])
             ELSE IF r.op = "DeleteUser"
                  THEN Become(p, [r EXCEPT !.keys = {}, !.at = "deleteUser"])
                  ELSE Finish(p)
    /\ UNCHANGED <<rows, used, loose, spoiled>>

\* The objects that nobody will remove, and the rows left without one, when a
\* request goes no further.
Abandoned(r) ==
    CASE r.at = "remove" -> r.keys
      [] r.at = "undo" \/ (r.op = "Account" /\ r.at = "write") -> {r.new} \ {NoKey, r.old}
      [] OTHER -> {}

Bereft(r) ==
    CASE r.op = "Attach" /\ r.at \in {"put", "undo"} -> {r.new}
      [] r.op = "DeleteUser" -> {avatar[u] : u \in r.on} \ {NoKey, NoRow}
      [] OTHER -> {}

\* A command fails where nothing is undone, or the server stops.
RequestFails(p) ==
    /\ req[p] # Idle
    /\ lost' = lost \cup (Abandoned(req[p]) \cap stored)
    /\ spoiled' = spoiled \cup Bereft(req[p])
    /\ Finish(p)
    /\ UNCHANGED <<rows, stored, used, loose>>

Next ==
    \/ UploadImage \/ DeleteImage
    \/ \E t \in Task : CreateTask(t)
    \/ \E p \in Request :
          \/ \E t \in Task : Update(p, t) \/ Attach(p, t)
          \/ \E scope \in Scope : Delete(p, scope)
          \/ \E f \in File : Detach(p, f)
          \/ \E u \in User : Account(p, u) \/ DeleteUser(p, u)
          \/ UpdateTask(p) \/ CollectKeys(p) \/ DeleteRows(p)
          \/ CreateAttachment(p) \/ PutAttachment(p) \/ PutFails(p) \/ UndoAttach(p)
          \/ DeleteAttachment(p)
          \/ PutAvatar(p) \/ UpdateUser(p) \/ UpdateUserFails(p) \/ DeleteUserRow(p)
          \/ Remove(p) \/ RequestFails(p)

Spec == Init /\ [][Next]_vars

-----------------------------------------------------------------------------
Serving(op, k) == \E p \in Request : req[p] # Idle /\ req[p].op = op
                                     /\ k \in req[p].keys \cup {req[p].new}

\* An attachment that is listed can be downloaded once its creation is over: a
\* creation whose upload fails takes its row back.
AttachmentStored ==
    \A f \in File : file[f] # NoTask /\ f \notin spoiled =>
        f \in stored \/ Serving("Attach", f)

\* The image of a task or of an account is there while it is shown, unless it was
\* given to a second row or deleted by its owner: it is uploaded before it is given
\* to a row, and removed after it was taken from it.
ImageStored ==
    \A k \in Image : Shown(k) /\ k \notin spoiled =>
        k \in stored \/ \E u \in User : /\ avatar[u] = k
                                        /\ \E p \in Request : At(p, "deleteUser") /\ u \in req[p].on

\* No object is left over: each is named by a row, was uploaded and not given to a
\* row yet, or will be removed by a request, unless a step failed.  Deletions
\* collect the keys before the rows that name them are deleted.
NothingLeaks ==
    \A k \in stored :
        \/ k \in loose \cup lost
        \/ k \in Image /\ Shown(k)
        \/ k \in File /\ file[k] # NoTask
        \/ \E op \in OpNames : Serving(op, k)
=============================================================================
