----------------------------- MODULE CachedViews ----------------------------
(***************************************************************************)
(* The cached views of the service and the handlers that write what they   *)
(* show, as tables for VersionedCache.  The tables describe one viewer and *)
(* one workspace of which the viewer is a member:                          *)
(*                                                                         *)
(*   versions  "ws"      t:wsver:<the workspace>                           *)
(*             "user"    t:uver:<the viewer>                               *)
(*             "users"   t:usersver                                        *)
(*                                                                         *)
(*   facts     "listed"  the workspaces the viewer belongs to              *)
(*             "row"     the columns of the workspace                      *)
(*             "mine"    the viewer's role in it                           *)
(*             "owner"   who owns it                                       *)
(*             "members" all its member rows                               *)
(*             "fav"     the viewer's favourites                           *)
(*             "self"    the viewer's account                              *)
(*             "people"  other accounts                                    *)
(*             "boards"  which boards the workspace has                    *)
(*             "board"   the columns of a board                            *)
(*             "tasks"   the tasks of the workspace                        *)
(*             "files"   their attachments                                 *)
(*                                                                         *)
(* A row read only to authorize the request, or to learn that what is asked*)
(* for exists, is no fact of the view when no cached answer can replace that*)
(* reading.                                                                *)
(***************************************************************************)

AllKeys == {"ws", "user", "users"}
AllFacts == {"listed", "row", "mine", "owner", "members", "fav", "self", "people",
             "boards", "board", "tasks", "files"}

\* What the builders shared by several views show.
ResolveUsers == {"people", "self"}
ResolveOwner == {"owner"} \cup ResolveUsers
BuildMemberResponses == {"members"} \cup ResolveUsers
CountTasksByBoard == {"tasks", "board"}
ListFavoriteTargets == {"fav"}

\* The id of a task that users see begins with the prefix of the workspace.
DisplayID == {"row"}
BuildTaskResponse == {"tasks", "board"} \cup DisplayID
ResponsesFor == BuildTaskResponse \cup ResolveUsers

\* The tree has its own: the tasks of a board are those of its columns.
MatchingTasks == {"boards", "tasks"}
TaskResponses == BuildTaskResponse \cup ResolveUsers
BuildBrick == MatchingTasks \cup TaskResponses

\* A view that reads all its versions before anything it shows.
Cached(keys, facts) == [keys |-> keys, before |-> [f \in facts |-> keys]]

-----------------------------------------------------------------------------
\* Views.

WorkspaceList ==
    Cached({"user", "users"}, {"listed", "row", "mine"} \cup ResolveOwner \cup ListFavoriteTargets)

WorkspaceDetail ==
    Cached(AllKeys, {"listed", "row", "mine"} \cup ResolveOwner \cup BuildMemberResponses
                        \cup ListFavoriteTargets)

BoardList == Cached(AllKeys, {"listed", "boards"} \cup CountTasksByBoard \cup ListFavoriteTargets)

\* The board's own row, shown in the answer, is read before any version.
BoardDetail ==
    [keys |-> AllKeys,
     before |-> [f \in ResponsesFor |-> IF f = "board" THEN {} ELSE AllKeys]]

\* The task, its parent and its subtasks, each with its place.
TaskDetail == Cached(AllKeys, ResponsesFor)
TaskList == Cached(AllKeys, ResponsesFor)

\* One workspace of the tree.  The viewer's memberships, with the workspace's
\* row and the role, are read from the database before the workspace's version.
TreeBrick ==
    [keys |-> AllKeys,
     before |-> [f \in {"row", "mine"} \cup BuildBrick |->
                    IF f \in {"row", "mine"} THEN {"user", "users"} ELSE AllKeys]]

TreeFavourites == Cached({"user"}, ListFavoriteTargets)
Profile == Cached({"user"}, {"self"})
AdminList == Cached({"users"}, {"self", "people"})
AttachmentList == Cached({"ws", "user"}, {"files"})

-----------------------------------------------------------------------------
\* Handlers.  "My" handlers act on the viewer's rows, the others on another's.

Handler(writes, late) == [writes |-> writes, early |-> {}, late |-> late]

CreateWorkspace == Handler({"listed"}, {"user"})
UpdateWorkspace == Handler({"row"}, {"ws", "user"})

\* The members' versions are bumped while there are members, before the delete.
\* (The favourites that go with a workspace or a board are those of something
\* no view shows any more.)
DeleteWorkspace ==
    [writes |-> {"listed", "boards", "tasks", "files"}, early |-> {"user"}, late |-> {"ws"}]

ChangeMember == Handler({"members"}, {"ws"})
ChangeMyMembership == Handler({"listed", "mine", "members"}, {"ws", "user"})
TransferOwner == Handler({"owner", "members"}, {"ws", "users"})
TransferMine == Handler({"owner", "mine", "members"}, {"ws", "user", "users"})
JoinByInvite == Handler({"members"}, {"ws"})
JoinMyself == Handler({"listed", "mine", "members"}, {"ws", "user"})

\* The account of a member; the viewer may be the successor it appoints.
DeleteUser ==
    Handler({"owner", "mine", "members", "people", "tasks", "files"}, {"ws", "users"})

\* The account of one who has left the workspace: the tasks and attachments left
\* behind lose their author, but only the account's present workspaces are bumped.
DeleteFormerMember == Handler({"people", "tasks", "files"}, {"users"})

ChangeFavourites == Handler({"fav"}, {"user"})
UpdateMyProfile == Handler({"self"}, {"user", "users"})
UpdateProfile == Handler({"people"}, {"users"})
UpdateMyRole == Handler({"self"}, {"users", "user"})
CreateUser == Handler({"people"}, {"users"})

CreateBoard == Handler({"boards"}, {"ws"})
ChangeBoard == Handler({"board"}, {"ws"})
DeleteBoard == Handler({"boards", "tasks", "files"}, {"ws"})
ChangeTask == Handler({"tasks"}, {"ws"})
DeleteTask == Handler({"tasks", "files"}, {"ws"})
ChangeAttachment == Handler({"files"}, {"ws"})

-----------------------------------------------------------------------------
ViewTable ==
    [WorkspaceList |-> WorkspaceList, WorkspaceDetail |-> WorkspaceDetail,
     BoardList |-> BoardList, BoardDetail |-> BoardDetail,
     TaskDetail |-> TaskDetail, TaskList |-> TaskList,
     TreeBrick |-> TreeBrick, TreeFavourites |-> TreeFavourites,
     Profile |-> Profile, AdminList |-> AdminList, AttachmentList |-> AttachmentList]

HandlerTable ==
    [CreateWorkspace |-> CreateWorkspace, UpdateWorkspace |-> UpdateWorkspace,
     DeleteWorkspace |-> DeleteWorkspace, ChangeMember |-> ChangeMember,
     ChangeMyMembership |-> ChangeMyMembership, TransferOwner |-> TransferOwner,
     TransferMine |-> TransferMine, JoinByInvite |-> JoinByInvite,
     JoinMyself |-> JoinMyself, DeleteUser |-> DeleteUser,
     DeleteFormerMember |-> DeleteFormerMember,
     ChangeFavourites |-> ChangeFavourites, UpdateMyProfile |-> UpdateMyProfile,
     UpdateProfile |-> UpdateProfile, UpdateMyRole |-> UpdateMyRole,
     CreateUser |-> CreateUser,
     CreateBoard |-> CreateBoard, ChangeBoard |-> ChangeBoard,
     DeleteBoard |-> DeleteBoard, ChangeTask |-> ChangeTask,
     DeleteTask |-> DeleteTask, ChangeAttachment |-> ChangeAttachment]

\* The tables in the form VersionedCache wants them.
ViewKeys == [v \in DOMAIN ViewTable |-> ViewTable[v].keys]
ViewFacts == [v \in DOMAIN ViewTable |-> DOMAIN ViewTable[v].before]
ViewBefore ==
    [v \in DOMAIN ViewTable |->
        [f \in AllFacts |-> IF f \in ViewFacts[v] THEN ViewTable[v].before[f] ELSE {}]]
HandlerWrites == [o \in DOMAIN HandlerTable |-> HandlerTable[o].writes]
HandlerEarly == [o \in DOMAIN HandlerTable |-> HandlerTable[o].early]
HandlerLate == [o \in DOMAIN HandlerTable |-> HandlerTable[o].late]
=============================================================================
