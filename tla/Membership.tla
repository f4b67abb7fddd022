----------------------------- MODULE Membership -----------------------------
(***************************************************************************)
(* Who belongs to a workspace, who owns it, and how an invite admits a new *)
(* member: the workspace use cases, the staff operation that deletes an    *)
(* account, and the SQL statements of WorkspaceRepo they run.              *)
(*                                                                         *)
(* Handlers run concurrently, one per HTTP request, and most of them are   *)
(* not one transaction: they read the actor's role, read the target, and   *)
(* then write, each in a statement of its own.  A request is therefore a   *)
(* process with a stage, and one action is one statement or transaction of *)
(* the database (PostgreSQL, Read Committed: a statement sees the rows     *)
(* committed when it starts).  A read whose result no later step uses is   *)
(* not a step.  A parameter of a request is chosen where the code first    *)
(* looks at it.                                                            *)
(***************************************************************************)

CONSTANTS
    Workspace, \* workspace ids (never reused: uuid.New)
    User,      \* account ids
    Token,     \* invite tokens (never reused: uuid.New)
    NoToken,   \* the empty invite_token column
    Request,   \* the HTTP requests in progress at one time
    Idle,      \* a request slot that serves nobody
    Ops        \* the operations this instance allows

OpNames ==
    {"CreateWorkspace", "UpdateWorkspace", "DeleteWorkspace", "AddMember",
     "UpdateRole", "RemoveMember", "TransferOwner", "GenerateInvite",
     "DisableInvite", "JoinByInvite", "DeleteUser"}

Role == {"owner", "editor", "member"}
Stage == {"target", "read", "write", "clear", "count", "claim", "owner",
          "board", "undo", "list", "reassign", "transfer", "account"}

\* A request in progress.  In DeleteUser the actor is the account being
\* deleted, the target the successor picked for the workspace ws, and todo
\* the workspaces still to be reassigned.
InProgress == [op: OpNames, at: Stage, actor: User, ws: Workspace,
               target: User, token: Token \cup {NoToken},
               todo: SUBSET Workspace]

ASSUME OpsAssumption == Ops \subseteq OpNames
ASSUME TokenAssumption == NoToken \notin Token
ASSUME IdleAssumption == Idle \notin InProgress

VARIABLES
    accounts,   \* the rows of users
    workspaces, \* the rows of workspaces
    retired,    \* workspaces that were deleted
    role,       \* role[w][u]: the row of workspace_members, or "none"
    invite,     \* invite[w]: columns invite_token and invite_expires_at
    minted,     \* the tokens generated so far
    admitted,   \* admitted[t]: the users that joined with token t (history)
    req         \* req[p]: the request in progress in slot p, or Idle

db == <<accounts, workspaces, retired, role>>
vars == <<accounts, workspaces, retired, role, invite, minted, admitted, req>>

NoInvite == [token |-> NoToken, expires |-> "none"]

\* Every variable stays in its type: in particular workspace_members holds the
\* three roles normalizeMemberRole and Create can write and no other.
TypeOK ==
    /\ accounts \subseteq User
    /\ workspaces \subseteq Workspace
    /\ retired \subseteq Workspace
    /\ role \in [Workspace -> [User -> Role \cup {"none"}]]
    /\ invite \in [Workspace -> [token: Token \cup {NoToken},
                                 expires: {"none", "later", "past"}]]
    /\ minted \subseteq Token
    /\ admitted \in [Token -> SUBSET User]
    /\ req \in [Request -> InProgress \cup {Idle}]

Init ==
    /\ accounts = User
    /\ workspaces = {}
    /\ retired = {}
    /\ role = [w \in Workspace |-> [u \in User |-> "none"]]
    /\ invite = [w \in Workspace |-> NoInvite]
    /\ minted = {}
    /\ admitted = [t \in Token |-> {}]
    /\ req = [p \in Request |-> Idle]

Members(w) == {u \in User : role[w][u] # "none"}
Owners(w) == {u \in User : role[w][u] = "owner"}

-----------------------------------------------------------------------------
\* Statements of the repository: the rows after it.  A statement that finds
\* no row, or violates a constraint, returns an error and changes nothing.

Insertable(w, u) == w \in workspaces /\ u \in accounts /\ role[w][u] = "none"

InsertMember(w, u, r) ==
    IF Insertable(w, u) THEN [role EXCEPT ![w][u] = r] ELSE role

UpdateMemberRole(w, u, r) ==
    IF role[w][u] # "none" THEN [role EXCEPT ![w][u] = r] ELSE role

DeleteMember(w, u) == [role EXCEPT ![w][u] = "none"]

\* Two updates in one transaction, rolled back unless each finds its row.
TransferRows(w, old, new) == role[w][old] # "none" /\ role[w][new] # "none"

\* A bug: the old owner is not demoted.
TransferWithoutDemotion(w, old, new) ==
    IF TransferRows(w, old, new) THEN [role EXCEPT ![w][new] = "owner"] ELSE role

TransferOwnership(w, old, new) ==
    IF TransferRows(w, old, new)
    THEN [role EXCEPT ![w] = [role[w] EXCEPT ![old] = "editor", ![new] = "owner"]]
    ELSE role

DeleteMembersByUser(u) ==
    [w \in Workspace |-> [role[w] EXCEPT ![u] = "none"]]

UpdateInvite(w, t, expires) ==
    IF w \in workspaces
    THEN [invite EXCEPT ![w] = [token |-> t, expires |-> expires]]
    ELSE invite

\* DeleteWorkspace removes the row, its members and its invite columns.
DropWorkspace(w) ==
    /\ workspaces' = workspaces \ {w}
    /\ retired' = retired \cup {w}
    /\ role' = [role EXCEPT ![w] = [u \in User |-> "none"]]
    /\ invite' = [invite EXCEPT ![w] = NoInvite]
    /\ UNCHANGED <<accounts, minted, admitted>>

-----------------------------------------------------------------------------
\* Requests.

At(p, op, stage) == req[p] # Idle /\ req[p].op = op /\ req[p].at = stage

Become(p, r) == req' = [req EXCEPT ![p] = r]
Goto(p, stage) == Become(p, [req[p] EXCEPT !.at = stage])
Finish(p) == Become(p, Idle)

Begin(p, op, stage, u, w, t) ==
    /\ req[p] = Idle
    /\ op \in Ops
    /\ Become(p, [op |-> op, at |-> stage, actor |-> u, ws |-> w,
                  target |-> u, token |-> t, todo |-> {}])

RequireOwner(w, u) == role[w][u] = "owner"
RequireEditor(w, u) == role[w][u] \in {"owner", "editor"}

\* MemberOf and the role check with which an owner's operation starts.
AuthorizeOwner(p) ==
    \E w \in Workspace, u \in User :
        /\ RequireOwner(w, u)
        /\ \/ \E op \in {"AddMember", "UpdateRole", "RemoveMember", "TransferOwner"} :
                 Begin(p, op, "target", u, w, NoToken)
           \/ Begin(p, "DeleteWorkspace", "write", u, w, NoToken)
        /\ UNCHANGED <<db, invite, minted, admitted>>

\* The same for an editor's operation.
AuthorizeEditor(p) ==
    \E w \in Workspace, u \in User :
        /\ RequireEditor(w, u)
        /\ \/ Begin(p, "UpdateWorkspace", "read", u, w, NoToken)
           \/ \E op \in {"GenerateInvite", "DisableInvite"} :
                 Begin(p, op, "write", u, w, NoToken)
        /\ UNCHANGED <<db, invite, minted, admitted>>

-----------------------------------------------------------------------------
\* Members.

\* A bug: the owner's row may be updated or removed.  (The bugs defined in this
\* module are what the runs put in the place of the definition that follows
\* them, to see that a property notices.)
TargetWithOwner(op, w, u, v) ==
    \/ op = "AddMember" /\ v \in accounts /\ role[w][v] = "none"
    \/ op \in {"UpdateRole", "RemoveMember"} /\ role[w][v] # "none"
    \/ op = "TransferOwner" /\ v # u /\ role[w][v] # "none"

\* The target's row as the operation requires it: AddMember wants an account
\* that is no member, the others a member, UpdateRole and RemoveMember one
\* that is not the owner, TransferOwner one that is not the actor.
TargetAllowed(op, w, u, v) ==
    \/ op = "AddMember" /\ v \in accounts /\ role[w][v] = "none"
    \/ op \in {"UpdateRole", "RemoveMember"} /\ role[w][v] \notin {"none", "owner"}
    \/ op = "TransferOwner" /\ v # u /\ role[w][v] # "none"

FindTarget(p) ==
    /\ req[p] # Idle /\ req[p].at = "target"
    /\ \E v \in User :
          IF TargetAllowed(req[p].op, req[p].ws, req[p].actor, v)
          THEN Become(p, [req[p] EXCEPT !.at = "write", !.target = v])
          ELSE Finish(p)
    /\ UNCHANGED <<db, invite, minted, admitted>>

\* A bug: the role of the request is stored without normalizeMemberRole.
AddMemberAnyRole(p) ==
    /\ At(p, "AddMember", "write")
    /\ \E r \in {"editor", "member", "viewer"} :
          role' = InsertMember(req[p].ws, req[p].target, r)
    /\ Finish(p)
    /\ UNCHANGED <<accounts, workspaces, retired, invite, minted, admitted>>

AddMember(p) ==
    /\ At(p, "AddMember", "write")
    /\ \E r \in {"editor", "member"} :
          role' = InsertMember(req[p].ws, req[p].target, r)
    /\ Finish(p)
    /\ UNCHANGED <<accounts, workspaces, retired, invite, minted, admitted>>

\* A bug: normalizeMemberRole lets "owner" through.
UpdateRoleToOwner(p) ==
    /\ At(p, "UpdateRole", "write")
    /\ \E r \in Role : role' = UpdateMemberRole(req[p].ws, req[p].target, r)
    /\ Finish(p)
    /\ UNCHANGED <<accounts, workspaces, retired, invite, minted, admitted>>

UpdateRole(p) ==
    /\ At(p, "UpdateRole", "write")
    /\ \E r \in {"editor", "member"} :
          role' = UpdateMemberRole(req[p].ws, req[p].target, r)
    /\ Finish(p)
    /\ UNCHANGED <<accounts, workspaces, retired, invite, minted, admitted>>

RemoveMember(p) ==
    /\ At(p, "RemoveMember", "write")
    /\ role' = DeleteMember(req[p].ws, req[p].target)
    /\ Finish(p)
    /\ UNCHANGED <<accounts, workspaces, retired, invite, minted, admitted>>

TransferOwner(p) ==
    /\ At(p, "TransferOwner", "write")
    /\ role' = TransferOwnership(req[p].ws, req[p].actor, req[p].target)
    /\ Finish(p)
    /\ UNCHANGED <<accounts, workspaces, retired, invite, minted, admitted>>

-----------------------------------------------------------------------------
\* Workspaces.

\* Create inserts the workspace, then its owner, then the main board and its
\* columns, and deletes the workspace again when a later insert fails.
CreateWorkspace(p) ==
    \E w \in Workspace \ (workspaces \cup retired), u \in accounts :
        /\ Begin(p, "CreateWorkspace", "owner", u, w, NoToken)
        /\ workspaces' = workspaces \cup {w}
        /\ UNCHANGED <<accounts, retired, role, invite, minted, admitted>>

CreateOwner(p) ==
    /\ At(p, "CreateWorkspace", "owner")
    /\ role' = InsertMember(req[p].ws, req[p].actor, "owner")
    /\ Goto(p, IF Insertable(req[p].ws, req[p].actor) THEN "board" ELSE "undo")
    /\ UNCHANGED <<accounts, workspaces, retired, invite, minted, admitted>>

CreateBoard(p) ==
    /\ At(p, "CreateWorkspace", "board")
    /\ Finish(p)
    /\ UNCHANGED <<db, invite, minted, admitted>>

UndoCreate(p) ==
    /\ At(p, "CreateWorkspace", "undo")
    /\ DropWorkspace(req[p].ws)
    /\ Finish(p)

\* Update and SetTheme load the whole row, change it in memory, and write
\* name, theme and so on back together with the invite_token they read.
LoadWorkspace(p) ==
    /\ At(p, "UpdateWorkspace", "read")
    /\ IF req[p].ws \in workspaces
       THEN Become(p, [req[p] EXCEPT !.at = "write", !.token = invite[req[p].ws].token])
       ELSE Finish(p)
    /\ UNCHANGED <<db, invite, minted, admitted>>

UpdateWorkspace(p) ==
    /\ At(p, "UpdateWorkspace", "write")
    /\ invite' = IF req[p].ws \in workspaces
                 THEN [invite EXCEPT ![req[p].ws].token = req[p].token]
                 ELSE invite
    /\ Finish(p)
    /\ UNCHANGED <<db, minted, admitted>>

DeleteWorkspace(p) ==
    /\ At(p, "DeleteWorkspace", "write")
    /\ IF req[p].ws \in workspaces
       THEN DropWorkspace(req[p].ws)
       ELSE UNCHANGED <<db, invite, minted, admitted>>
    /\ Finish(p)

-----------------------------------------------------------------------------
\* Invites.

\* Two bugs: an invite without an expiry, and a token that is not fresh.
GenerateEternal(p) ==
    /\ At(p, "GenerateInvite", "write")
    /\ \E t \in Token \ minted :
          /\ invite' = UpdateInvite(req[p].ws, t, "none")
          /\ minted' = minted \cup {t}
    /\ Finish(p)
    /\ UNCHANGED <<db, admitted>>

GenerateAgain(p) ==
    /\ At(p, "GenerateInvite", "write")
    /\ \E t \in Token :
          /\ invite' = UpdateInvite(req[p].ws, t, "later")
          /\ minted' = minted \cup {t}
    /\ Finish(p)
    /\ UNCHANGED <<db, admitted>>

GenerateInvite(p) ==
    /\ At(p, "GenerateInvite", "write")
    /\ \E t \in Token \ minted :
          /\ invite' = UpdateInvite(req[p].ws, t, "later")
          /\ minted' = minted \cup {t}
    /\ Finish(p)
    /\ UNCHANGED <<db, admitted>>

DisableInvite(p) ==
    /\ At(p, "DisableInvite", "write")
    /\ invite' = UpdateInvite(req[p].ws, NoToken, "none")
    /\ Finish(p)
    /\ UNCHANGED <<db, minted, admitted>>

\* Time passes the expiry of an outstanding invite.
InviteExpires(w) ==
    /\ invite[w].expires = "later"
    /\ invite' = [invite EXCEPT ![w].expires = "past"]
    /\ UNCHANGED <<db, minted, admitted, req>>

\* A bug: the comparison of the expiry with the clock is the wrong way round.
FindInviteSwapped(p) ==
    \E w \in workspaces, u \in accounts :
        /\ invite[w].token # NoToken
        /\ Begin(p, "JoinByInvite",
                 IF invite[w].expires = "past" THEN "count" ELSE "clear",
                 u, w, invite[w].token)
        /\ UNCHANGED <<db, invite, minted, admitted>>

\* JoinByInvite finds the workspace by the token the caller presents.
FindInvite(p) ==
    \E w \in workspaces, u \in accounts :
        /\ invite[w].token # NoToken
        /\ Begin(p, "JoinByInvite",
                 IF invite[w].expires = "past" THEN "clear" ELSE "count",
                 u, w, invite[w].token)
        /\ UNCHANGED <<db, invite, minted, admitted>>

\* An expired invite is erased, whatever the columns hold by then.
ClearExpired(p) ==
    /\ At(p, "JoinByInvite", "clear")
    /\ invite' = UpdateInvite(req[p].ws, NoToken, "none")
    /\ Finish(p)
    /\ UNCHANGED <<db, minted, admitted>>

\* ClaimInviteAndAddMember, its first statement: a member joins for free.
CountMember(p) ==
    /\ At(p, "JoinByInvite", "count")
    /\ IF role[req[p].ws][req[p].actor] # "none" THEN Finish(p) ELSE Goto(p, "claim")
    /\ UNCHANGED <<db, invite, minted, admitted>>

\* The rest of the transaction: the conditional update locks the row and
\* erases the token, the insert ignores a row that is already there and is
\* rolled back with the update when the account is gone.
\* A bug would be an update conditional on the workspace alone.
ClaimableTwice(w, t) == w \in workspaces /\ t # NoToken

Claimable(w, t) == w \in workspaces /\ t # NoToken /\ invite[w].token = t

ClaimInvite(p) ==
    /\ At(p, "JoinByInvite", "claim")
    /\ LET w == req[p].ws  u == req[p].actor  t == req[p].token IN
       IF Claimable(w, t) /\ u \in accounts
       THEN /\ invite' = [invite EXCEPT ![w] = NoInvite]
            /\ role' = InsertMember(w, u, "member")
            /\ admitted' = IF role[w][u] = "none"
                           THEN [admitted EXCEPT ![t] = @ \cup {u}]
                           ELSE admitted
       ELSE UNCHANGED <<invite, role, admitted>>
    /\ Finish(p)
    /\ UNCHANGED <<accounts, workspaces, retired, minted>>

-----------------------------------------------------------------------------
\* DeleteUser, called by staff on an account.

FindAccount(p) ==
    \E u \in accounts, w \in Workspace :
        /\ Begin(p, "DeleteUser", "list", u, w, NoToken)
        /\ UNCHANGED <<db, invite, minted, admitted>>

\* ListWorkspacesForUser: the workspaces the account owns at this moment.
ListOwned(p) ==
    /\ At(p, "DeleteUser", "list")
    /\ Become(p, [req[p] EXCEPT
                    !.at = "reassign",
                    !.todo = {w \in Workspace : role[w][req[p].actor] = "owner"}])
    /\ UNCHANGED <<db, invite, minted, admitted>>

\* ListMembers of one of them: skip it when it has several owners, refuse when
\* nobody else is left, otherwise pick a successor.  pickSuccessor takes the
\* member of longest standing; membership age is not modelled, any other
\* member may be picked.
Successors(w, u) == Members(w) \ {u}
SeveralOwners(w) == \E u, v \in Owners(w) : u # v

PickSuccessor(p) ==
    /\ At(p, "DeleteUser", "reassign")
    /\ \E w \in req[p].todo :
          \/ /\ SeveralOwners(w)
             /\ Become(p, [req[p] EXCEPT !.todo = @ \ {w}])
          \/ /\ ~SeveralOwners(w)
             /\ Successors(w, req[p].actor) = {}
             /\ Finish(p)
          \/ /\ ~SeveralOwners(w)
             /\ \E v \in Successors(w, req[p].actor) :
                   Become(p, [req[p] EXCEPT !.at = "transfer", !.ws = w, !.target = v])
    /\ UNCHANGED <<db, invite, minted, admitted>>

TransferToSuccessor(p) ==
    /\ At(p, "DeleteUser", "transfer")
    /\ LET w == req[p].ws IN
       /\ role' = TransferOwnership(w, req[p].actor, req[p].target)
       /\ IF TransferRows(w, req[p].actor, req[p].target)
          THEN Become(p, [req[p] EXCEPT !.at = "reassign", !.todo = @ \ {w}])
          ELSE Finish(p)
    /\ UNCHANGED <<accounts, workspaces, retired, invite, minted, admitted>>

DeleteMemberships(p) ==
    /\ At(p, "DeleteUser", "reassign")
    /\ req[p].todo = {}
    /\ role' = DeleteMembersByUser(req[p].actor)
    /\ Goto(p, "account")
    /\ UNCHANGED <<accounts, workspaces, retired, invite, minted, admitted>>

\* A bug: the rows of a deleted account stay.
DeleteAccountOnly(p) ==
    /\ At(p, "DeleteUser", "account")
    /\ accounts' = accounts \ {req[p].actor}
    /\ Finish(p)
    /\ UNCHANGED <<workspaces, retired, role, invite, minted, admitted>>

\* Users.Delete, which cascades to memberships inserted meanwhile.
DeleteAccount(p) ==
    /\ At(p, "DeleteUser", "account")
    /\ accounts' = accounts \ {req[p].actor}
    /\ role' = DeleteMembersByUser(req[p].actor)
    /\ Finish(p)
    /\ UNCHANGED <<workspaces, retired, invite, minted, admitted>>

-----------------------------------------------------------------------------
\* A statement of the request fails and the handler returns.  Only Create
\* compensates for what it has already written.
StatementFails(p) ==
    /\ req[p] # Idle
    /\ IF req[p].op = "CreateWorkspace" /\ req[p].at \in {"owner", "board"}
       THEN Goto(p, "undo")
       ELSE Finish(p)
    /\ UNCHANGED <<db, invite, minted, admitted>>

\* The server stops: every request in progress is gone, what was committed stays.
Crash ==
    /\ \E p \in Request : req[p] # Idle
    /\ req' = [p \in Request |-> Idle]
    /\ UNCHANGED <<db, invite, minted, admitted>>

MemberStep(p) ==
    \/ AuthorizeOwner(p) \/ AuthorizeEditor(p) \/ FindTarget(p)
    \/ AddMember(p) \/ UpdateRole(p) \/ RemoveMember(p) \/ TransferOwner(p)

WorkspaceStep(p) ==
    \/ CreateWorkspace(p) \/ CreateOwner(p) \/ CreateBoard(p) \/ UndoCreate(p)
    \/ LoadWorkspace(p) \/ UpdateWorkspace(p) \/ DeleteWorkspace(p)

InviteStep(p) ==
    \/ GenerateInvite(p) \/ DisableInvite(p) \/ FindInvite(p)
    \/ ClearExpired(p) \/ CountMember(p) \/ ClaimInvite(p)

DeleteUserStep(p) ==
    \/ FindAccount(p) \/ ListOwned(p) \/ PickSuccessor(p)
    \/ TransferToSuccessor(p) \/ DeleteMemberships(p) \/ DeleteAccount(p)

Next ==
    \/ \E p \in Request :
          \/ MemberStep(p) \/ WorkspaceStep(p) \/ InviteStep(p)
          \/ DeleteUserStep(p) \/ StatementFails(p)
    \/ \E w \in Workspace : InviteExpires(w)
    \/ Crash

Spec == Init /\ [][Next]_vars

-----------------------------------------------------------------------------
\* A workspace that has members has an owner: the handlers refuse to remove
\* or demote the owner and DeleteUser appoints a successor first.
HasOwner == \A w \in workspaces : Members(w) # {} => Owners(w) # {}

\* Nor has it two of them: TransferOwnership demotes the old owner in the
\* transaction that appoints the new one.
AtMostOneOwner == \A w \in workspaces : \A u, v \in Owners(w) : u = v

\* An invite is for one person: of all the callers of JoinByInvite who
\* present the same token, at most one is admitted by it.
SingleUse == \A t \in Token : \A u, v \in admitted[t] : u = v

Outstanding(t) == \E w \in Workspace : invite[w].token = t

\* A token that was claimed, disabled, replaced or cleared never works again:
\* no later write brings it back into invite_token.
RetiredStaysRetired ==
    [][\A t \in minted : Outstanding(t)' => Outstanding(t)]_vars

\* Every outstanding invite has an expiry (InviteTTL): none is valid forever.
EveryInviteExpires ==
    \A w \in Workspace : invite[w].token # NoToken => invite[w].expires # "none"

\* JoinByInvite erases invites that have expired and no other: an unexpired
\* invite disappears by admitting its user, by DisableInvite or with the
\* workspace.
OnlyExpiredAreCleared ==
    [][\A w \in workspaces :
          (/\ invite[w].token # NoToken /\ invite[w].expires = "later"
           /\ w \in workspaces' /\ invite'[w].token = NoToken)
          => \/ invite[w].token \in {t \in Token : admitted'[t] # {}}
             \/ \E p \in Request : At(p, "DisableInvite", "write")]_vars

\* Member rows refer to rows that exist.  The foreign keys do it: the handlers
\* delete the account, the workspace and the member rows separately.
NoDanglingMember ==
    \A w \in Workspace, u \in User :
        role[w][u] # "none" => w \in workspaces /\ u \in accounts
=============================================================================
