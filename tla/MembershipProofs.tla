-------------------------- MODULE MembershipProofs --------------------------
EXTENDS Membership, TLAPS

\* A request that is not idle is a record of the right type.
LEMMA RequestTypes ==
    ASSUME TypeOK, NEW p \in Request, req[p] # Idle
    PROVE  req[p] \in InProgress
  BY DEF TypeOK

\* Begin, Finish, Goto and Become keep req in its type.
LEMMA BeginType ==
    ASSUME TypeOK, NEW p \in Request, NEW op \in OpNames, NEW stage \in Stage,
           NEW u \in User, NEW w \in Workspace, NEW t \in Token \cup {NoToken},
           Begin(p, op, stage, u, w, t)
    PROVE  req' \in [Request -> InProgress \cup {Idle}]
  BY DEF TypeOK, Begin, Become, InProgress

\* Likewise.
LEMMA FinishType ==
    ASSUME TypeOK, NEW p \in Request, Finish(p)
    PROVE  req' \in [Request -> InProgress \cup {Idle}]
  BY DEF TypeOK, Finish, Become

\* Likewise.
LEMMA GotoType ==
    ASSUME TypeOK, NEW p \in Request, NEW stage \in Stage, req[p] # Idle, Goto(p, stage)
    PROVE  req' \in [Request -> InProgress \cup {Idle}]
  BY DEF TypeOK, Goto, Become, InProgress

\* Likewise.
LEMMA ReplaceType ==
    ASSUME TypeOK, NEW p \in Request, NEW r \in InProgress, Become(p, r)
    PROVE  req' \in [Request -> InProgress \cup {Idle}]
  BY DEF TypeOK, Become

\* Every step keeps the types: one case per action.
LEMMA TypeStep == TypeOK /\ [Next]_vars => TypeOK'
<1> SUFFICES ASSUME TypeOK, [Next]_vars PROVE TypeOK'
  OBVIOUS
<1> USE DEF db
<1>1. ASSUME NEW p \in Request, AuthorizeOwner(p) PROVE TypeOK'
  BY <1>1, BeginType DEF AuthorizeOwner, TypeOK, OpNames, Stage
<1>2. ASSUME NEW p \in Request, AuthorizeEditor(p) PROVE TypeOK'
  BY <1>2, BeginType DEF AuthorizeEditor, TypeOK, OpNames, Stage
<1>3. ASSUME NEW p \in Request, FindTarget(p) PROVE TypeOK'
  <2>1. req[p] \in InProgress /\ "write" \in Stage
    BY <1>3, RequestTypes DEF FindTarget, Stage
  <2>2. PICK v \in User :
           \/ Become(p, [req[p] EXCEPT !.at = "write", !.target = v])
           \/ Finish(p)
    BY <1>3 DEF FindTarget
  <2>3. [req[p] EXCEPT !.at = "write", !.target = v] \in InProgress
    BY <2>1 DEF InProgress
  <2>4. req' \in [Request -> InProgress \cup {Idle}]
    BY <2>2, <2>3, FinishType, ReplaceType
  <2> QED
    BY <1>3, <2>4 DEF FindTarget, TypeOK
<1>4. ASSUME NEW p \in Request, AddMember(p) PROVE TypeOK'
  BY <1>4, RequestTypes, FinishType DEF AddMember, At, TypeOK, InsertMember, InProgress, Role
<1>5. ASSUME NEW p \in Request, UpdateRole(p) PROVE TypeOK'
  BY <1>5, RequestTypes, FinishType DEF UpdateRole, At, TypeOK, UpdateMemberRole, InProgress, Role
<1>6. ASSUME NEW p \in Request, RemoveMember(p) PROVE TypeOK'
  BY <1>6, RequestTypes, FinishType DEF RemoveMember, At, TypeOK, DeleteMember, InProgress, Role
<1>7. ASSUME NEW p \in Request, TransferOwner(p) PROVE TypeOK'
  BY <1>7, RequestTypes, FinishType DEF TransferOwner, At, TypeOK, TransferOwnership, InProgress, Role
<1>8. ASSUME NEW p \in Request, CreateWorkspace(p) PROVE TypeOK'
  BY <1>8, BeginType DEF CreateWorkspace, TypeOK, OpNames, Stage
<1>9. ASSUME NEW p \in Request, CreateOwner(p) PROVE TypeOK'
  BY <1>9, RequestTypes, GotoType DEF CreateOwner, At, TypeOK, InsertMember, InProgress, Role, Stage
<1>10. ASSUME NEW p \in Request, CreateBoard(p) PROVE TypeOK'
  BY <1>10, FinishType DEF CreateBoard, TypeOK
<1>11. ASSUME NEW p \in Request, UndoCreate(p) PROVE TypeOK'
  BY <1>11, RequestTypes, FinishType DEF UndoCreate, DropWorkspace, NoInvite, At, TypeOK, InProgress
<1>12. ASSUME NEW p \in Request, LoadWorkspace(p) PROVE TypeOK'
  <2> DEFINE t == invite[req[p].ws].token
  <2>1. req[p] \in InProgress
    BY <1>12, RequestTypes DEF LoadWorkspace, At
  <2>2. t \in Token \cup {NoToken}
    BY <2>1 DEF InProgress, TypeOK
  <2>3. [req[p] EXCEPT !.at = "write", !.token = t] \in InProgress
    BY <2>1, <2>2 DEF InProgress, Stage
  <2>4. req' \in [Request -> InProgress \cup {Idle}]
    BY <1>12, <2>3, FinishType, ReplaceType DEF LoadWorkspace
  <2> QED
    BY <1>12, <2>4 DEF LoadWorkspace, TypeOK
<1>13. ASSUME NEW p \in Request, UpdateWorkspace(p) PROVE TypeOK'
  BY <1>13, RequestTypes, FinishType DEF UpdateWorkspace, At, TypeOK, InProgress
<1>14. ASSUME NEW p \in Request, DeleteWorkspace(p) PROVE TypeOK'
  <2>1. req[p] \in InProgress
    BY <1>14, RequestTypes DEF DeleteWorkspace, At
  <2>2. req[p].ws \in Workspace
    BY <2>1 DEF InProgress
  <2>3. req' \in [Request -> InProgress \cup {Idle}]
    BY <1>14, FinishType DEF DeleteWorkspace
  <2>4. CASE DropWorkspace(req[p].ws)
    BY <2>2, <2>3, <2>4 DEF DropWorkspace, NoInvite, TypeOK
  <2>5. CASE UNCHANGED <<db, invite, minted, admitted>>
    BY <2>3, <2>5 DEF TypeOK
  <2> QED
    BY <1>14, <2>4, <2>5 DEF DeleteWorkspace
<1>15. ASSUME NEW p \in Request, GenerateInvite(p) PROVE TypeOK'
  BY <1>15, RequestTypes, FinishType DEF GenerateInvite, UpdateInvite, At, TypeOK, InProgress
<1>16. ASSUME NEW p \in Request, DisableInvite(p) PROVE TypeOK'
  BY <1>16, RequestTypes, FinishType DEF DisableInvite, UpdateInvite, At, TypeOK, InProgress
<1>17. ASSUME NEW w \in Workspace, InviteExpires(w) PROVE TypeOK'
  BY <1>17 DEF InviteExpires, TypeOK
<1>18. ASSUME NEW p \in Request, FindInvite(p) PROVE TypeOK'
  BY <1>18, BeginType DEF FindInvite, TypeOK, OpNames, Stage
<1>19. ASSUME NEW p \in Request, ClearExpired(p) PROVE TypeOK'
  BY <1>19, RequestTypes, FinishType DEF ClearExpired, UpdateInvite, At, TypeOK, InProgress
<1>20. ASSUME NEW p \in Request, CountMember(p) PROVE TypeOK'
  BY <1>20, RequestTypes, FinishType, GotoType DEF CountMember, At, TypeOK, Stage
<1>21. ASSUME NEW p \in Request, ClaimInvite(p) PROVE TypeOK'
  <2> DEFINE w == req[p].ws  u == req[p].actor  t == req[p].token
  <2>1. req[p] \in InProgress
    BY <1>21, RequestTypes DEF ClaimInvite, At
  <2>2. w \in Workspace /\ u \in User /\ t \in Token \cup {NoToken}
    BY <2>1 DEF InProgress
  <2>3. req' \in [Request -> InProgress \cup {Idle}]
    BY <1>21, FinishType DEF ClaimInvite
  <2>4. CASE Claimable(w, t) /\ u \in accounts
    <3>1. invite' = [invite EXCEPT ![w] = NoInvite] /\ role' = InsertMember(w, u, "member")
      BY <1>21, <2>4 DEF ClaimInvite
    <3>2. admitted' \in [Token -> SUBSET User]
      BY <1>21, <2>2, <2>4 DEF ClaimInvite, Claimable, TypeOK
    <3>3. role' \in [Workspace -> [User -> Role \cup {"none"}]]
      BY <2>2, <3>1 DEF InsertMember, Role, TypeOK
    <3> QED
      BY <1>21, <2>2, <2>3, <3>1, <3>2, <3>3 DEF ClaimInvite, NoInvite, TypeOK
  <2>5. CASE ~(Claimable(w, t) /\ u \in accounts)
    BY <1>21, <2>3, <2>5 DEF ClaimInvite, TypeOK
  <2> QED
    BY <2>4, <2>5
<1>22. ASSUME NEW p \in Request, FindAccount(p) PROVE TypeOK'
  BY <1>22, BeginType DEF FindAccount, TypeOK, OpNames, Stage
<1>23. ASSUME NEW p \in Request, ListOwned(p) PROVE TypeOK'
  <2> DEFINE S == {w \in Workspace : role[w][req[p].actor] = "owner"}
  <2>1. req[p] \in InProgress /\ S \in SUBSET Workspace
    BY <1>23, RequestTypes DEF ListOwned, At
  <2> HIDE DEF S
  <2>2. [req[p] EXCEPT !.at = "reassign", !.todo = S] \in InProgress
    BY <2>1 DEF InProgress, Stage
  <2>3. req' \in [Request -> InProgress \cup {Idle}]
    BY <1>23, <2>2, ReplaceType DEF ListOwned, S
  <2> QED
    BY <1>23, <2>3 DEF ListOwned, TypeOK
<1>24. ASSUME NEW p \in Request, PickSuccessor(p) PROVE TypeOK'
  <2>1. req[p] \in InProgress
    BY <1>24, RequestTypes DEF PickSuccessor, At
  <2>2. PICK w \in req[p].todo :
           \/ Become(p, [req[p] EXCEPT !.todo = req[p].todo \ {w}])
           \/ Finish(p)
           \/ \E v \in Successors(w, req[p].actor) :
                 Become(p, [req[p] EXCEPT !.at = "transfer", !.ws = w, !.target = v])
    BY <1>24 DEF PickSuccessor
  <2>3. w \in Workspace /\ req[p].todo \ {w} \in SUBSET Workspace
    BY <2>1, <2>2 DEF InProgress
  <2>4. [req[p] EXCEPT !.todo = req[p].todo \ {w}] \in InProgress
    BY <2>1, <2>3 DEF InProgress
  <2>5. ASSUME NEW v \in Successors(w, req[p].actor)
        PROVE [req[p] EXCEPT !.at = "transfer", !.ws = w, !.target = v] \in InProgress
    BY <2>1, <2>3 DEF InProgress, Stage, Successors, Members
  <2>6. req' \in [Request -> InProgress \cup {Idle}]
    BY <2>2, <2>4, <2>5, FinishType, ReplaceType
  <2> QED
    BY <1>24, <2>6 DEF PickSuccessor, TypeOK
<1>25. ASSUME NEW p \in Request, TransferToSuccessor(p) PROVE TypeOK'
  <2> DEFINE w == req[p].ws  S == req[p].todo \ {w}
  <2>1. req[p] \in InProgress
    BY <1>25, RequestTypes DEF TransferToSuccessor, At
  <2>2. w \in Workspace /\ req[p].actor \in User /\ req[p].target \in User /\ S \in SUBSET Workspace
    BY <2>1 DEF InProgress
  <2>3. [req[p] EXCEPT !.at = "reassign", !.todo = S] \in InProgress
    BY <2>1, <2>2 DEF InProgress, Stage
  <2>4. req' \in [Request -> InProgress \cup {Idle}]
    <3>1. \/ Become(p, [req[p] EXCEPT !.at = "reassign", !.todo = S])
          \/ Finish(p)
      BY <1>25 DEF TransferToSuccessor
    <3> QED
      BY <2>3, <3>1, FinishType, ReplaceType
  <2>5. role' \in [Workspace -> [User -> Role \cup {"none"}]]
    BY <1>25, <2>2 DEF TransferToSuccessor, TransferOwnership, Role, TypeOK
  <2> QED
    BY <1>25, <2>4, <2>5 DEF TransferToSuccessor, TypeOK
<1>26. ASSUME NEW p \in Request, DeleteMemberships(p) PROVE TypeOK'
  BY <1>26, RequestTypes, GotoType DEF DeleteMemberships, DeleteMembersByUser, At, TypeOK, InProgress, Stage
<1>27. ASSUME NEW p \in Request, DeleteAccount(p) PROVE TypeOK'
  BY <1>27, RequestTypes, FinishType DEF DeleteAccount, DeleteMembersByUser, At, TypeOK, InProgress
<1>28. ASSUME NEW p \in Request, StatementFails(p) PROVE TypeOK'
  BY <1>28, FinishType, GotoType DEF StatementFails, TypeOK, Stage
<1>29. CASE Crash
  BY <1>29 DEF Crash, TypeOK
<1>30. CASE UNCHANGED vars
  BY <1>30 DEF vars, TypeOK
<1> QED
  BY <1>1, <1>2, <1>3, <1>4, <1>5, <1>6, <1>7, <1>8, <1>9, <1>10, <1>11, <1>12, <1>13,
     <1>14, <1>15, <1>16, <1>17, <1>18, <1>19, <1>20, <1>21, <1>22, <1>23, <1>24, <1>25,
     <1>26, <1>27, <1>28, <1>29, <1>30
     DEF Next, MemberStep, WorkspaceStep, InviteStep, DeleteUserStep

\* Every variable has its type in every reachable state, whatever the constants:
\* no sequence of operations, failures and crashes writes anything else.
THEOREM TypeCorrect == Spec => []TypeOK
<1>1. Init => TypeOK
  BY DEF Init, TypeOK, NoInvite
<1> QED
  BY <1>1, TypeStep, PTL DEF Spec

-----------------------------------------------------------------------------
(***************************************************************************)
(* Invites.  A token is admitted only while it is outstanding, the claim   *)
(* erases it, and no statement but UpdateWorkspace's can write an old      *)
(* token: so it never comes back, however the requests interleave.         *)
(***************************************************************************)
OpsAllowed == \A p \in Request : req[p] # Idle => req[p].op \in Ops

\* What is known of a token: only generated ones are outstanding, each in one
\* workspace, and one that has admitted somebody is gone.
TokenInv ==
    /\ \A w \in Workspace : invite[w].token \in minted \cup {NoToken}
    /\ \A v, w \in Workspace :
          invite[v].token = invite[w].token /\ invite[v].token # NoToken => v = w
    /\ \A t \in Token : admitted[t] # {} => t \in minted /\ ~Outstanding(t)
    /\ SingleUse
    /\ EveryInviteExpires

InviteInv == TypeOK /\ OpsAllowed /\ TokenInv

\* A step that generates no invite and claims none leaves each workspace its
\* token, or erases it.
Fades ==
    /\ \A w \in Workspace :
          \/ invite'[w] = invite[w]
          \/ invite'[w].token = NoToken
          \/ invite'[w].token = invite[w].token /\ invite'[w].expires = "past"
    /\ UNCHANGED <<minted, admitted>>

\* Only the operations in Ops are ever in progress.
LEMMA OpsAllowedStep ==
    ASSUME TypeOK, OpsAllowed, [Next]_vars
    PROVE  OpsAllowed'
<1>1. CASE UNCHANGED vars
  BY <1>1 DEF vars, OpsAllowed
<1>2. CASE Crash
  BY <1>2 DEF Crash, OpsAllowed
<1>3. ASSUME NEW w \in Workspace, InviteExpires(w) PROVE OpsAllowed'
  BY <1>3 DEF InviteExpires, OpsAllowed
<1>4. ASSUME NEW p \in Request, NEW op, NEW stage, NEW u, NEW w, NEW t,
             Begin(p, op, stage, u, w, t)
      PROVE OpsAllowed'
  BY <1>4 DEF Begin, Become, OpsAllowed, TypeOK
<1>5. ASSUME NEW p \in Request, Finish(p) PROVE OpsAllowed'
  BY <1>5 DEF Finish, Become, OpsAllowed, TypeOK
<1>6. ASSUME NEW p \in Request, req[p] # Idle, NEW r, r.op = req[p].op, Become(p, r)
      PROVE OpsAllowed'
  BY <1>6 DEF Become, OpsAllowed, TypeOK
<1>7. ASSUME NEW p \in Request, MemberStep(p) PROVE OpsAllowed'
  <2>1. CASE AuthorizeOwner(p) \/ AuthorizeEditor(p)
    BY <1>4, <2>1 DEF AuthorizeOwner, AuthorizeEditor
  <2>2. CASE FindTarget(p)
    <3>1. req[p] \in InProgress
      BY <2>2, RequestTypes DEF FindTarget
    <3>2. \A v : [req[p] EXCEPT !.at = "write", !.target = v].op = req[p].op
      BY <3>1 DEF InProgress
    <3> QED
      BY <1>5, <1>6, <2>2, <3>2 DEF FindTarget
  <2> QED
    BY <1>5, <1>7, <2>1, <2>2 DEF MemberStep, AddMember, UpdateRole, RemoveMember, TransferOwner
<1>8. ASSUME NEW p \in Request, WorkspaceStep(p) PROVE OpsAllowed'
  <2>1. ASSUME NEW stage, Goto(p, stage), req[p] # Idle PROVE OpsAllowed'
    <3>1. req[p] \in InProgress
      BY <2>1, RequestTypes
    <3>2. [req[p] EXCEPT !.at = stage].op = req[p].op
      BY <3>1 DEF InProgress
    <3> QED
      BY <1>6, <2>1, <3>2 DEF Goto
  <2>2. CASE LoadWorkspace(p)
    <3>1. req[p] # Idle /\ req[p] \in InProgress
      BY <2>2, RequestTypes DEF LoadWorkspace, At
    <3>2. \A t : [req[p] EXCEPT !.at = "write", !.token = t].op = req[p].op
      BY <3>1 DEF InProgress
    <3> QED
      BY <1>5, <1>6, <2>2, <3>1, <3>2 DEF LoadWorkspace
  <2> QED
    BY <1>4, <1>5, <1>8, <2>1, <2>2
       DEF WorkspaceStep, CreateWorkspace, CreateOwner, CreateBoard, UndoCreate,
           UpdateWorkspace, DeleteWorkspace, At
<1>9. ASSUME NEW p \in Request, InviteStep(p) PROVE OpsAllowed'
  <2>1. CASE CountMember(p)
    <3>1. req[p] \in InProgress
      BY <2>1, RequestTypes DEF CountMember, At
    <3>2. [req[p] EXCEPT !.at = "claim"].op = req[p].op
      BY <3>1 DEF InProgress
    <3> QED
      BY <1>5, <1>6, <2>1, <3>2 DEF CountMember, Goto, At
  <2> QED
    BY <1>4, <1>5, <1>9, <2>1
       DEF InviteStep, GenerateInvite, DisableInvite, FindInvite, ClearExpired, ClaimInvite
<1>10. ASSUME NEW p \in Request, DeleteUserStep(p) PROVE OpsAllowed'
  <2>1. CASE FindAccount(p)
    BY <1>4, <2>1 DEF FindAccount
  <2>2. CASE DeleteAccount(p)
    BY <1>5, <2>2 DEF DeleteAccount
  <2>3. CASE ListOwned(p) \/ PickSuccessor(p) \/ TransferToSuccessor(p) \/ DeleteMemberships(p)
    <3>1. req[p] # Idle /\ req[p] \in InProgress
      BY <2>3, RequestTypes DEF ListOwned, PickSuccessor, TransferToSuccessor, DeleteMemberships, At
    <3>2. \A stage, S : [req[p] EXCEPT !.at = stage, !.todo = S].op = req[p].op
      BY <3>1 DEF InProgress
    <3>3. \A stage, w, v : [req[p] EXCEPT !.at = stage, !.ws = w, !.target = v].op = req[p].op
      BY <3>1 DEF InProgress
    <3>4. \A S : [req[p] EXCEPT !.todo = S].op = req[p].op
      BY <3>1 DEF InProgress
    <3>5. \A stage : [req[p] EXCEPT !.at = stage].op = req[p].op
      BY <3>1 DEF InProgress
    <3>6. CASE ListOwned(p)
      BY <1>6, <3>1, <3>2, <3>6 DEF ListOwned
    <3>7. CASE PickSuccessor(p)
      <4>1. PICK w \in req[p].todo :
               \/ Become(p, [req[p] EXCEPT !.todo = req[p].todo \ {w}])
               \/ Finish(p)
               \/ \E v \in Successors(w, req[p].actor) :
                     Become(p, [req[p] EXCEPT !.at = "transfer", !.ws = w, !.target = v])
        BY <3>7 DEF PickSuccessor
      <4>2. CASE Become(p, [req[p] EXCEPT !.todo = req[p].todo \ {w}])
        BY <1>6, <3>1, <3>4, <4>2
      <4>3. ASSUME NEW v, Become(p, [req[p] EXCEPT !.at = "transfer", !.ws = w, !.target = v])
            PROVE OpsAllowed'
        BY <1>6, <3>1, <3>3, <4>3
      <4> QED
        BY <1>5, <4>1, <4>2, <4>3
    <3>8. CASE TransferToSuccessor(p)
      BY <1>5, <1>6, <3>1, <3>2, <3>8 DEF TransferToSuccessor
    <3>9. CASE DeleteMemberships(p)
      BY <1>6, <3>1, <3>5, <3>9 DEF DeleteMemberships, Goto
    <3> QED
      BY <2>3, <3>6, <3>7, <3>8, <3>9
  <2> QED
    BY <1>10, <2>1, <2>2, <2>3 DEF DeleteUserStep
<1>11. ASSUME NEW p \in Request, StatementFails(p) PROVE OpsAllowed'
  <2>1. req[p] # Idle /\ req[p] \in InProgress
    BY <1>11, RequestTypes DEF StatementFails
  <2>2. [req[p] EXCEPT !.at = "undo"].op = req[p].op
    BY <2>1 DEF InProgress
  <2> QED
    BY <1>5, <1>6, <1>11, <2>1, <2>2 DEF StatementFails, Goto
<1> QED
  BY <1>1, <1>2, <1>3, <1>7, <1>8, <1>9, <1>10, <1>11 DEF Next

\* A step other than GenerateInvite, UpdateWorkspace and ClaimInvite leaves each
\* invite as it is, erases it or lets it expire, and admits nobody.
LEMMA StepsThatFade ==
    ASSUME TypeOK, OpsAllowed, "UpdateWorkspace" \notin Ops, [Next]_vars
    PROVE  \/ Fades
           \/ \E p \in Request : GenerateInvite(p)
           \/ \E p \in Request : ClaimInvite(p)
<1>1. ASSUME invite' = invite, minted' = minted, admitted' = admitted PROVE Fades
  BY <1>1 DEF Fades
<1>2. ASSUME NEW w \in Workspace, InviteExpires(w) PROVE Fades
  BY <1>2 DEF InviteExpires, Fades, TypeOK
<1>3. ASSUME NEW w, DropWorkspace(w) PROVE Fades
  BY <1>3 DEF DropWorkspace, NoInvite, Fades, TypeOK
<1>4. ASSUME NEW w, invite' = UpdateInvite(w, NoToken, "none"), UNCHANGED <<minted, admitted>>
      PROVE Fades
  BY <1>4 DEF UpdateInvite, Fades, TypeOK
<1>5. ASSUME NEW p \in Request, MemberStep(p) PROVE Fades
  BY <1>1, <1>5 DEF MemberStep, AuthorizeOwner, AuthorizeEditor, FindTarget, AddMember,
                    UpdateRole, RemoveMember, TransferOwner
<1>6. ASSUME NEW p \in Request, WorkspaceStep(p) PROVE Fades
  <2>1. ~UpdateWorkspace(p)
    BY DEF UpdateWorkspace, At, OpsAllowed
  <2> QED
    BY <1>1, <1>3, <1>6, <2>1 DEF WorkspaceStep, CreateWorkspace, CreateOwner, CreateBoard,
                                  UndoCreate, LoadWorkspace, DeleteWorkspace
<1>7. ASSUME NEW p \in Request, InviteStep(p), ~GenerateInvite(p), ~ClaimInvite(p) PROVE Fades
  BY <1>1, <1>4, <1>7 DEF InviteStep, DisableInvite, FindInvite, ClearExpired, CountMember
<1>8. ASSUME NEW p \in Request, DeleteUserStep(p) PROVE Fades
  BY <1>1, <1>8 DEF DeleteUserStep, FindAccount, ListOwned, PickSuccessor, TransferToSuccessor,
                    DeleteMemberships, DeleteAccount
<1>9. ASSUME NEW p \in Request, StatementFails(p) PROVE Fades
  BY <1>1, <1>9 DEF StatementFails
<1>10. CASE Crash
  BY <1>1, <1>10 DEF Crash
<1>11. CASE UNCHANGED vars
  BY <1>1, <1>11 DEF vars
<1> QED
  BY <1>2, <1>5, <1>6, <1>7, <1>8, <1>9, <1>10, <1>11 DEF Next

\* Whatever the step, a token that is outstanding after it was outstanding
\* before it or has just been generated.
LEMMA NoTokenReturns ==
    ASSUME InviteInv, "UpdateWorkspace" \notin Ops, [Next]_vars,
           NEW t \in minted, Outstanding(t)'
    PROVE  Outstanding(t)
<1> USE DEF InviteInv, Outstanding
<1>1. t \in Token /\ t # NoToken
  BY TokenAssumption DEF TypeOK
<1>2. CASE Fades
  BY <1>1, <1>2 DEF Fades
<1>3. ASSUME NEW p \in Request, GenerateInvite(p) PROVE Outstanding(t)
  BY <1>1, <1>3 DEF GenerateInvite, UpdateInvite, TypeOK
<1>4. ASSUME NEW p \in Request, ClaimInvite(p) PROVE Outstanding(t)
  BY <1>1, <1>4 DEF ClaimInvite, NoInvite, TypeOK
<1> QED
  BY <1>2, <1>3, <1>4, StepsThatFade

\* Every step keeps InviteInv: the interesting ones mint a token or claim one.
LEMMA InviteStepInv ==
    ASSUME InviteInv, "UpdateWorkspace" \notin Ops, [Next]_vars
    PROVE  InviteInv'
<1> USE DEF InviteInv
<1>1. TypeOK' /\ OpsAllowed'
  BY TypeStep, OpsAllowedStep
<1>2. CASE Fades
  <2>1. \A w \in Workspace : invite'[w].token \in {invite[w].token, NoToken}
    BY <1>2 DEF Fades
  <2>2. EveryInviteExpires'
    BY <1>2 DEF Fades, EveryInviteExpires, TokenInv
  <2>3. \A t \in Token : Outstanding(t)' => Outstanding(t)
    BY <2>1, TokenAssumption DEF Outstanding
  <2> QED
    BY <1>1, <1>2, <2>1, <2>2, <2>3 DEF Fades, TokenInv, SingleUse
<1>3. ASSUME NEW p \in Request, GenerateInvite(p) PROVE InviteInv'
  <2>1. PICK t \in Token \ minted :
           invite' = UpdateInvite(req[p].ws, t, "later") /\ minted' = minted \cup {t}
    BY <1>3 DEF GenerateInvite
  <2>2. admitted' = admitted
    BY <1>3 DEF GenerateInvite
  <2>3. \A w \in Workspace : \/ invite'[w] = invite[w]
                             \/ w = req[p].ws /\ invite'[w] = [token |-> t, expires |-> "later"]
    BY <2>1 DEF UpdateInvite, TypeOK
  <2>4. \A s \in minted : Outstanding(s)' => Outstanding(s)
    BY NoTokenReturns
  <2>5. TokenInv'
    <3>1. \A w \in Workspace : invite'[w].token \in minted' \cup {NoToken}
      BY <2>1, <2>3 DEF TokenInv
    <3>2. \A v, w \in Workspace :
             invite'[v].token = invite'[w].token /\ invite'[v].token # NoToken => v = w
      BY <2>1, <2>3, TokenAssumption DEF TokenInv
    <3>3. \A s \in Token : admitted'[s] # {} => s \in minted' /\ ~Outstanding(s)'
      BY <2>1, <2>2, <2>4 DEF TokenInv
    <3>4. SingleUse' /\ EveryInviteExpires'
      BY <2>2, <2>3 DEF TokenInv, SingleUse, EveryInviteExpires
    <3> QED
      BY <3>1, <3>2, <3>3, <3>4 DEF TokenInv
  <2> QED
    BY <1>1, <2>5
<1>4. ASSUME NEW p \in Request, ClaimInvite(p) PROVE InviteInv'
  <2> SUFFICES ASSUME NEW w, NEW u, NEW t,
                      w = req[p].ws, u = req[p].actor, t = req[p].token
               PROVE  InviteInv'
    OBVIOUS
  <2>1. w \in Workspace /\ t \in Token \cup {NoToken}
    BY <1>4, RequestTypes DEF ClaimInvite, At, InProgress
  <2>2. CASE UNCHANGED <<invite, admitted>>
    BY <1>1, <1>4, <2>2 DEF ClaimInvite, TokenInv, SingleUse, EveryInviteExpires, Outstanding
  <2>3. CASE /\ Claimable(w, t) /\ invite' = [invite EXCEPT ![w] = NoInvite]
             /\ admitted' \in {admitted, [admitted EXCEPT ![t] = admitted[t] \cup {u}]}
    <3>1. t \in Token /\ Outstanding(t) /\ admitted[t] = {} /\ t \in minted
      BY <2>1, <2>3 DEF Claimable, Outstanding, TokenInv
    <3>2. \A v \in Workspace : invite'[v] = (IF v = w THEN NoInvite ELSE invite[v])
      BY <2>1, <2>3 DEF TypeOK
    <3>3. ~Outstanding(t)'
      <4>1. invite[w].token = t /\ t # NoToken
        BY <2>3 DEF Claimable
      <4>2. \A v \in Workspace : v # w => invite[v].token # t
        BY <2>1, <4>1 DEF TokenInv
      <4> QED
        BY <3>2, <4>1, <4>2 DEF Outstanding, NoInvite
    <3>4. \A s \in Token : Outstanding(s)' => Outstanding(s)
      BY <3>2, TokenAssumption DEF Outstanding, NoInvite
    <3>5. \A s \in Token : admitted'[s] \in {admitted[s], {u}} /\ (s # t => admitted'[s] = admitted[s])
      BY <2>3, <3>1 DEF TypeOK
    <3>6. minted' = minted
      BY <1>4 DEF ClaimInvite
    <3>7. \A v \in Workspace : invite'[v].token \in minted' \cup {NoToken}
      BY <3>2, <3>6 DEF TokenInv, NoInvite
    <3>8. \A v1, v2 \in Workspace :
             invite'[v1].token = invite'[v2].token /\ invite'[v1].token # NoToken => v1 = v2
      BY <3>2 DEF TokenInv, NoInvite
    <3>9. \A s \in Token : admitted'[s] # {} => s \in minted' /\ ~Outstanding(s)'
      BY <3>1, <3>3, <3>4, <3>5, <3>6 DEF TokenInv
    <3>10. SingleUse'
      BY <3>5 DEF TokenInv, SingleUse
    <3>11. EveryInviteExpires'
      BY <3>2 DEF TokenInv, EveryInviteExpires, NoInvite
    <3> QED
      BY <1>1, <3>7, <3>8, <3>9, <3>10, <3>11 DEF TokenInv
  <2> QED
    BY <1>4, <2>2, <2>3 DEF ClaimInvite
<1> QED
  BY <1>2, <1>3, <1>4, StepsThatFade

\* It holds at the start.
LEMMA InviteInit == Init => InviteInv
  BY TokenAssumption DEF Init, InviteInv, TypeOK, OpsAllowed, TokenInv, NoInvite,
     SingleUse, EveryInviteExpires, Outstanding

\* One token admits at most one person, for any number of concurrent requests,
\* as long as nobody updates the workspace or its theme.
THEOREM InviteAdmitsOne ==
    ASSUME "UpdateWorkspace" \notin Ops
    PROVE  Spec => []SingleUse
<1>1. InviteInv => SingleUse
  BY DEF InviteInv, TokenInv
<1> QED
  BY <1>1, InviteInit, InviteStepInv, PTL DEF Spec

\* No invite is valid forever, under the same condition: an update writes a token back
\* to columns whose expiry DisableInvite has erased.
THEOREM InvitesExpire ==
    ASSUME "UpdateWorkspace" \notin Ops
    PROVE  Spec => []EveryInviteExpires
<1>1. InviteInv => EveryInviteExpires
  BY DEF InviteInv, TokenInv
<1> QED
  BY <1>1, InviteInit, InviteStepInv, PTL DEF Spec

\* A retired token stays retired, under the same condition.
THEOREM InviteStaysRetired ==
    ASSUME "UpdateWorkspace" \notin Ops
    PROVE  Spec => RetiredStaysRetired
<1>1. InviteInv /\ [Next]_vars =>
         [\A t \in minted : Outstanding(t)' => Outstanding(t)]_vars
  BY NoTokenReturns
<1> QED
  BY <1>1, InviteInit, InviteStepInv, PTL DEF Spec, RetiredStaysRetired

-----------------------------------------------------------------------------
(***************************************************************************)
(* Ownership.  While nobody transfers ownership, the owner row is written  *)
(* once, for a workspace no other request can know of yet, and the checks  *)
(* of UpdateRole and RemoveMember cannot become stale: their target is not *)
(* the owner and never becomes it.                                         *)
(***************************************************************************)
NoMembers(w) == \A u \in User : role[w][u] = "none"
NoOwner(w) == \A u \in User : role[w][u] # "owner"
InUse(p, w) == req[p] # Idle /\ req[p].ws = w

\* A workspace whose creator is about to become its owner is known to nobody else.
CreatingInv ==
    \A p \in Request : At(p, "CreateWorkspace", "owner") =>
        /\ NoMembers(req[p].ws)
        /\ invite[req[p].ws].token = NoToken
        /\ \A q \in Request : InUse(q, req[p].ws) => q = p

\* A workspace without owner is empty and only its creation can be under way.
OwnerlessInv ==
    \A w \in workspaces : NoOwner(w) =>
        /\ NoMembers(w)
        /\ invite[w].token = NoToken
        /\ \A p \in Request : InUse(p, w) => req[p].op = "CreateWorkspace"

\* An id without a row has no members and no invite; a fresh one no requests.
AbsentInv ==
    \A w \in Workspace \ workspaces :
        /\ NoMembers(w)
        /\ invite[w].token = NoToken
        /\ w \notin retired => \A p \in Request : ~InUse(p, w)

\* The target UpdateRole or RemoveMember has checked is still not the owner.
TargetInv ==
    \A p \in Request :
        req[p] # Idle /\ req[p].at = "write" /\ req[p].op \in {"UpdateRole", "RemoveMember"}
        => role[req[p].ws][req[p].target] # "owner"

OwnershipInv ==
    /\ TypeOK /\ OpsAllowed
    /\ CreatingInv /\ OwnerlessInv /\ AbsentInv /\ TargetInv /\ AtMostOneOwner

\* A request that has begun: the actor is a member of the workspace, holds its
\* invite, or has just inserted it.
LEMMA BeginEffect ==
    ASSUME TypeOK, NEW p \in Request, NEW op, NEW stage, NEW u, NEW w, NEW t,
           Begin(p, op, stage, u, w, t)
    PROVE  /\ req[p] = Idle
           /\ req'[p] # Idle => req'[p].op = op /\ req'[p].at = stage /\ req'[p].ws = w
           /\ \A q \in Request : q # p => req'[q] = req[q]
  BY DEF Begin, Become, TypeOK

\* A step of a request that leaves op and ws alone.
LEMMA SameWorkspace ==
    ASSUME TypeOK, NEW p \in Request, NEW r, Become(p, r),
           r = Idle \/ (req[p] # Idle /\ r.op = req[p].op /\ r.ws = req[p].ws)
    PROVE  /\ req'[p] = r
           /\ \A q \in Request : q # p => req'[q] = req[q]
           /\ \A q \in Request, w \in Workspace : InUse(q, w)' => InUse(q, w)
  BY DEF Become, TypeOK, InUse

\* Every request stays, ends, or moves on without becoming dangerous: it
\* reaches no "owner" stage, and checks its target before it writes.
TameRequests ==
    \A q \in Request :
        \/ req'[q] = Idle
        \/ req'[q] = req[q]
        \/ /\ req[q] # Idle
           /\ req'[q].op = req[q].op /\ req'[q].ws = req[q].ws
           /\ ~(req'[q].op = "CreateWorkspace" /\ req'[q].at = "owner")
           /\ req'[q].op \in {"UpdateRole", "RemoveMember"} /\ req'[q].at = "write"
              => role[req'[q].ws][req'[q].target] # "owner"

\* Workspaces stay, owners stay; members and invites change only where there
\* is an owner.
TameRows ==
    /\ UNCHANGED <<workspaces, retired>>
    /\ \A w \in Workspace, u \in User :
          \/ role'[w][u] = role[w][u]
          \/ /\ w \in workspaces /\ ~NoOwner(w)
             /\ role[w][u] # "owner" /\ role'[w][u] # "owner"
    /\ \A w \in Workspace :
          \/ invite'[w].token \in {invite[w].token, NoToken}
          \/ w \in workspaces /\ ~NoOwner(w)

\* A step that adds no owner, takes none away and leaves the rest of the rows of a
\* workspace in use alone keeps OwnershipInv.
LEMMA TameStep ==
    ASSUME OwnershipInv, TypeOK', OpsAllowed', TameRequests, TameRows
    PROVE  OwnershipInv'
<1> USE DEF OwnershipInv
<1>1. \A w \in Workspace, u \in User : role'[w][u] = "owner" <=> role[w][u] = "owner"
  BY DEF TameRows
<1>2. \A w \in Workspace : NoOwner(w)' <=> NoOwner(w)
  BY <1>1 DEF NoOwner
<1>3. \A w \in Workspace : (w \notin workspaces \/ NoOwner(w)) =>
         /\ NoMembers(w) => NoMembers(w)'
         /\ invite[w].token = NoToken => invite'[w].token = NoToken
  BY DEF TameRows, NoMembers
<1>4. \A q \in Request, w \in Workspace : InUse(q, w)' => InUse(q, w) /\ req'[q].op = req[q].op
  BY DEF TameRequests, InUse
<1>5. CreatingInv'
  <2> SUFFICES ASSUME NEW p \in Request, At(p, "CreateWorkspace", "owner")'
               PROVE  /\ NoMembers(req[p].ws)'
                      /\ invite'[req[p].ws].token = NoToken
                      /\ \A q \in Request : InUse(q, req[p].ws)' => q = p
                      /\ req'[p].ws = req[p].ws
    BY DEF CreatingInv
  <2>1. req'[p] = req[p] /\ At(p, "CreateWorkspace", "owner")
    BY DEF TameRequests, At
  <2>2. req[p].ws \in Workspace
    BY <2>1, RequestTypes DEF At, InProgress
  <2>3. NoOwner(req[p].ws)
    BY <2>1, <2>2 DEF CreatingInv, NoMembers, NoOwner
  <2> QED
    BY <1>3, <1>4, <2>1, <2>2, <2>3 DEF CreatingInv
<1>6. OwnerlessInv'
  BY <1>2, <1>3, <1>4 DEF OwnerlessInv, TameRows, TypeOK
<1>7. AbsentInv'
  BY <1>3, <1>4 DEF AbsentInv, TameRows
<1>8. TargetInv'
  <2> SUFFICES ASSUME NEW p \in Request, req'[p] # Idle, req'[p].at = "write",
                      req'[p].op \in {"UpdateRole", "RemoveMember"}
               PROVE  role'[req'[p].ws][req'[p].target] # "owner"
    BY DEF TargetInv
  <2>1. role[req'[p].ws][req'[p].target] # "owner"
    BY DEF TameRequests, TargetInv
  <2>2. req'[p].ws \in Workspace /\ req'[p].target \in User
    BY DEF TypeOK, InProgress
  <2> QED
    BY <1>1, <2>1, <2>2
<1>9. AtMostOneOwner'
  BY <1>1 DEF AtMostOneOwner, Owners, TameRows, TypeOK
<1> QED
  BY <1>5, <1>6, <1>7, <1>8, <1>9

\* A new request of an owner, an editor or the bearer of an invite.
LEMMA BeginStep ==
    ASSUME OwnershipInv, TypeOK', OpsAllowed',
           NEW p \in Request, NEW op, NEW stage, NEW u, NEW w \in workspaces, NEW t,
           Begin(p, op, stage, u, w, t), ~NoOwner(w),
           op # "CreateWorkspace", stage = "write" => op \notin {"UpdateRole", "RemoveMember"},
           UNCHANGED <<db, invite>>
    PROVE  OwnershipInv'
<1> USE DEF OwnershipInv, db
<1>1. /\ req[p] = Idle
      /\ req'[p] # Idle => req'[p].op = op /\ req'[p].at = stage /\ req'[p].ws = w
      /\ \A q \in Request : q # p => req'[q] = req[q]
  BY BeginEffect
<1>2. \A v : (NoOwner(v)' <=> NoOwner(v)) /\ (NoMembers(v)' <=> NoMembers(v))
  BY DEF NoOwner, NoMembers
<1>3. \A q \in Request : \A v : InUse(q, v)' => (InUse(q, v) /\ req'[q] = req[q]) \/ (q = p /\ v = w)
  BY <1>1 DEF InUse
<1>4. CreatingInv'
  <2> SUFFICES ASSUME NEW q \in Request, At(q, "CreateWorkspace", "owner")'
               PROVE  /\ NoMembers(req[q].ws)'
                      /\ invite'[req'[q].ws].token = NoToken
                      /\ \A r \in Request : InUse(r, req[q].ws)' => r = q
    BY DEF CreatingInv
  <2>1. q # p /\ req'[q] = req[q] /\ At(q, "CreateWorkspace", "owner")
    BY <1>1 DEF At
  <2>2. NoMembers(req[q].ws) /\ req[q].ws # w
    BY <2>1 DEF CreatingInv, NoMembers, NoOwner
  <2> QED
    BY <1>2, <1>3, <2>1, <2>2 DEF CreatingInv
<1>5. OwnerlessInv'
  BY <1>2, <1>3 DEF OwnerlessInv
<1>6. AbsentInv'
  BY <1>2, <1>3 DEF AbsentInv
<1>7. TargetInv'
  BY <1>1 DEF TargetInv
<1>8. AtMostOneOwner'
  BY DEF AtMostOneOwner, Owners
<1> QED
  BY <1>4, <1>5, <1>6, <1>7, <1>8

\* A new workspace: nobody refers to its id.
LEMMA CreateStep ==
    ASSUME OwnershipInv, TypeOK', OpsAllowed', NEW p \in Request, CreateWorkspace(p)
    PROVE  OwnershipInv'
<1> USE DEF OwnershipInv
<1>1. PICK w \in Workspace \ (workspaces \cup retired), u \in accounts :
         /\ Begin(p, "CreateWorkspace", "owner", u, w, NoToken)
         /\ workspaces' = workspaces \cup {w}
         /\ UNCHANGED <<accounts, retired, role, invite, minted, admitted>>
  BY DEF CreateWorkspace
<1>2. /\ req[p] = Idle
      /\ req'[p] # Idle => /\ req'[p].op = "CreateWorkspace"
                           /\ req'[p].at = "owner" /\ req'[p].ws = w
      /\ \A q \in Request : q # p => req'[q] = req[q]
  BY <1>1, BeginEffect
<1>3. \A v : (NoOwner(v)' <=> NoOwner(v)) /\ (NoMembers(v)' <=> NoMembers(v))
  BY <1>1 DEF NoOwner, NoMembers
<1>4. \A q \in Request : \A v : InUse(q, v)' => (InUse(q, v) /\ req'[q] = req[q]) \/ (q = p /\ v = w)
  BY <1>2 DEF InUse
<1>5. NoMembers(w) /\ invite[w].token = NoToken /\ \A q \in Request : ~InUse(q, w)
  BY DEF AbsentInv
<1>6. CreatingInv'
  <2> SUFFICES ASSUME NEW q \in Request, At(q, "CreateWorkspace", "owner")'
               PROVE  /\ NoMembers(req[q].ws)'
                      /\ invite'[req'[q].ws].token = NoToken
                      /\ \A r \in Request : InUse(r, req[q].ws)' => r = q
    BY DEF CreatingInv
  <2>1. CASE q = p
    BY <1>1, <1>2, <1>3, <1>4, <1>5, <2>1 DEF At
  <2>2. CASE q # p
    <3>1. req'[q] = req[q] /\ At(q, "CreateWorkspace", "owner") /\ req[q].ws # w
      BY <1>2, <1>5, <2>2 DEF At, InUse
    <3> QED
      BY <1>1, <1>3, <1>4, <3>1 DEF CreatingInv
  <2> QED
    BY <2>1, <2>2
<1>7. OwnerlessInv'
  BY <1>1, <1>2, <1>3, <1>4, <1>5 DEF OwnerlessInv, InUse
<1>8. AbsentInv'
  BY <1>1, <1>3, <1>4 DEF AbsentInv
<1>9. TargetInv'
  BY <1>1, <1>2 DEF TargetInv
<1>10. AtMostOneOwner'
  BY <1>1, <1>5 DEF AtMostOneOwner, Owners, NoMembers, TypeOK
<1> QED
  BY <1>6, <1>7, <1>8, <1>9, <1>10

\* The row of the first owner.
LEMMA CreateOwnerStep ==
    ASSUME OwnershipInv, TypeOK', OpsAllowed', NEW p \in Request, CreateOwner(p)
    PROVE  OwnershipInv'
<1> USE DEF OwnershipInv
<1> SUFFICES ASSUME NEW w, NEW u, w = req[p].ws, u = req[p].actor
             PROVE  OwnershipInv'
  OBVIOUS
<1>1. /\ At(p, "CreateWorkspace", "owner") /\ req[p] \in InProgress
      /\ w \in Workspace /\ u \in User
  BY RequestTypes DEF CreateOwner, At, InProgress
<1>2. /\ NoMembers(w) /\ invite[w].token = NoToken
      /\ \A q \in Request : InUse(q, w) => q = p
  BY <1>1 DEF CreatingInv
<1>3. /\ req'[p].op = "CreateWorkspace" /\ req'[p].ws = w /\ req'[p] # Idle
      /\ req'[p].at \in {"board", "undo"}
      /\ \A q \in Request : q # p => req'[q] = req[q]
  <2>1. PICK stage \in {"board", "undo"} : Goto(p, stage)
    BY DEF CreateOwner
  <2>2. req'[p] = [req[p] EXCEPT !.at = stage] /\ \A q \in Request : q # p => req'[q] = req[q]
    BY <2>1 DEF Goto, Become, TypeOK
  <2>3. [req[p] EXCEPT !.at = stage] \in InProgress
    BY <1>1 DEF InProgress, Stage
  <2> QED
    BY <1>1, <2>2, <2>3, IdleAssumption DEF At, InProgress
<1>4. UNCHANGED <<workspaces, retired, invite>>
  BY DEF CreateOwner
<1>5. CASE ~Insertable(w, u)
  <2>1. role' = role
    BY <1>5 DEF CreateOwner, InsertMember
  <2>2. TameRequests
    BY <1>1, <1>3 DEF TameRequests, At
  <2>3. TameRows
    BY <1>4, <2>1 DEF TameRows
  <2> QED
    BY <2>2, <2>3, TameStep
<1>6. CASE Insertable(w, u)
  <2>1. w \in workspaces /\ role' = [role EXCEPT ![w][u] = "owner"]
    BY <1>6 DEF CreateOwner, InsertMember, Insertable
  <2>2. \A v \in Workspace, x \in User :
           role'[v][x] = (IF v = w /\ x = u THEN "owner" ELSE role[v][x])
    BY <1>1, <2>1 DEF TypeOK
  <2>3. \A v \in Workspace : v # w => (NoOwner(v)' <=> NoOwner(v)) /\ (NoMembers(v)' <=> NoMembers(v))
    BY <2>2 DEF NoOwner, NoMembers
  <2>4. ~NoOwner(w)'
    BY <1>1, <2>2 DEF NoOwner
  <2>5. \A q \in Request : \A v : InUse(q, v)' => InUse(q, v) /\ req'[q].op = req[q].op
    BY <1>1, <1>3 DEF InUse, At
  <2>6. CreatingInv'
    <3> SUFFICES ASSUME NEW q \in Request, At(q, "CreateWorkspace", "owner")'
                 PROVE  /\ NoMembers(req[q].ws)'
                        /\ invite'[req'[q].ws].token = NoToken
                        /\ \A r \in Request : InUse(r, req[q].ws)' => r = q
      BY DEF CreatingInv
    <3>1. q # p /\ req'[q] = req[q] /\ At(q, "CreateWorkspace", "owner")
      BY <1>3 DEF At
    <3>2. req[q].ws \in Workspace /\ req[q].ws # w
      BY <1>2, <3>1, RequestTypes DEF At, InUse, InProgress
    <3> QED
      BY <1>4, <2>3, <2>5, <3>1, <3>2 DEF CreatingInv
  <2>7. OwnerlessInv'
    BY <1>4, <2>3, <2>4, <2>5 DEF OwnerlessInv, TypeOK
  <2>8. AbsentInv'
    BY <1>4, <2>1, <2>3, <2>5 DEF AbsentInv
  <2>9. TargetInv'
    <3> SUFFICES ASSUME NEW q \in Request, req'[q] # Idle, req'[q].at = "write",
                        req'[q].op \in {"UpdateRole", "RemoveMember"}
                 PROVE  role'[req'[q].ws][req'[q].target] # "owner"
      BY DEF TargetInv
    <3>1. q # p /\ req'[q] = req[q]
      BY <1>3
    <3>2. req[q].ws # w /\ req[q].ws \in Workspace /\ req[q].target \in User
      BY <1>2, <3>1, RequestTypes DEF InUse, InProgress
    <3> QED
      BY <2>2, <3>1, <3>2 DEF TargetInv
  <2>10. AtMostOneOwner'
    <3> SUFFICES ASSUME NEW v \in workspaces', NEW x \in User, NEW y \in User,
                        role'[v][x] = "owner", role'[v][y] = "owner"
                 PROVE  x = y
      BY DEF AtMostOneOwner, Owners
    <3>1. v \in workspaces /\ v \in Workspace
      BY <1>4 DEF TypeOK
    <3>2. CASE v = w
      BY <1>1, <1>2, <2>2, <3>1, <3>2 DEF NoMembers
    <3>3. CASE v # w
      BY <2>2, <3>1, <3>3 DEF AtMostOneOwner, Owners
    <3> QED
      BY <3>2, <3>3
  <2> QED
    BY <2>6, <2>7, <2>8, <2>9, <2>10
<1> QED
  BY <1>5, <1>6

\* A workspace that goes takes its members and its invite with it.
LEMMA DropStep ==
    ASSUME OwnershipInv, TypeOK', OpsAllowed', NEW p \in Request, NEW w \in Workspace,
           req[p] # Idle, req[p].ws = w, DropWorkspace(w), Finish(p),
           ~At(p, "CreateWorkspace", "owner")
    PROVE  OwnershipInv'
<1> USE DEF OwnershipInv
<1>1. req'[p] = Idle /\ \A q \in Request : q # p => req'[q] = req[q]
  BY DEF Finish, Become, TypeOK
<1>2. /\ workspaces' = workspaces \ {w} /\ retired' = retired \cup {w}
      /\ \A v \in Workspace, x \in User :
            role'[v][x] = (IF v = w THEN "none" ELSE role[v][x])
      /\ \A v \in Workspace : invite'[v] = (IF v = w THEN NoInvite ELSE invite[v])
  BY DEF DropWorkspace, TypeOK
<1>3. \A v \in Workspace : v # w => (NoOwner(v)' <=> NoOwner(v)) /\ (NoMembers(v)' <=> NoMembers(v))
  BY <1>2 DEF NoOwner, NoMembers
<1>4. NoMembers(w)' /\ invite'[w].token = NoToken
  BY <1>2 DEF NoMembers, NoInvite
<1>5. \A q \in Request : \A v : InUse(q, v)' => InUse(q, v) /\ req'[q].op = req[q].op
  BY <1>1 DEF InUse
<1>6. CreatingInv'
  <2> SUFFICES ASSUME NEW q \in Request, At(q, "CreateWorkspace", "owner")'
               PROVE  /\ NoMembers(req[q].ws)'
                      /\ invite'[req'[q].ws].token = NoToken
                      /\ \A r \in Request : InUse(r, req[q].ws)' => r = q
    BY DEF CreatingInv
  <2>1. q # p /\ req'[q] = req[q] /\ At(q, "CreateWorkspace", "owner")
    BY <1>1 DEF At
  <2>2. req[q].ws \in Workspace
    BY <2>1, RequestTypes DEF At, InProgress
  <2> QED
    BY <1>2, <1>3, <1>4, <1>5, <2>1, <2>2 DEF CreatingInv
<1>7. OwnerlessInv'
  <2> SUFFICES ASSUME NEW v \in workspaces', NoOwner(v)'
               PROVE  /\ NoMembers(v)' /\ invite'[v].token = NoToken
                      /\ \A q \in Request : InUse(q, v)' => req'[q].op = "CreateWorkspace"
    BY DEF OwnerlessInv
  <2>1. v \in Workspace /\ v \in workspaces /\ v # w
    BY <1>2 DEF TypeOK
  <2>2. /\ NoMembers(v) /\ invite[v].token = NoToken
        /\ \A q \in Request : InUse(q, v) => req[q].op = "CreateWorkspace"
    BY <1>3, <2>1 DEF OwnerlessInv
  <2>3. \A q \in Request : InUse(q, v)' => req'[q].op = "CreateWorkspace"
    BY <1>5, <2>2
  <2> QED
    BY <1>2, <1>3, <2>1, <2>2, <2>3
<1>8. AbsentInv'
  BY <1>2, <1>3, <1>4, <1>5 DEF AbsentInv
<1>9. TargetInv'
  <2> SUFFICES ASSUME NEW q \in Request, req'[q] # Idle, req'[q].at = "write",
                      req'[q].op \in {"UpdateRole", "RemoveMember"}
               PROVE  role'[req'[q].ws][req'[q].target] # "owner"
    BY DEF TargetInv
  <2>1. q # p /\ req'[q] = req[q] /\ req[q].ws \in Workspace /\ req[q].target \in User
    BY <1>1, RequestTypes DEF InProgress
  <2> QED
    BY <1>2, <2>1 DEF TargetInv
<1>10. AtMostOneOwner'
  BY <1>2 DEF AtMostOneOwner, Owners, TypeOK
<1> QED
  BY <1>6, <1>7, <1>8, <1>9, <1>10

\* The writes to member rows: where the workspace still exists it has an
\* owner, who is neither the row added nor the row updated or removed.
LEMMA MemberWriteStep ==
    ASSUME OwnershipInv, TypeOK', OpsAllowed', NEW p \in Request,
           AddMember(p) \/ UpdateRole(p) \/ RemoveMember(p)
    PROVE  OwnershipInv'
<1> USE DEF OwnershipInv
<1> SUFFICES ASSUME NEW w, NEW v, w = req[p].ws, v = req[p].target
             PROVE  TameRequests /\ TameRows
  BY TameStep
<1>1. req[p] # Idle /\ req[p] \in InProgress /\ req[p].op # "CreateWorkspace"
  BY RequestTypes DEF AddMember, UpdateRole, RemoveMember, At
<1>2. w \in Workspace /\ v \in User
  BY <1>1 DEF InProgress
<1>3. TameRequests
  BY DEF AddMember, UpdateRole, RemoveMember, Finish, Become, TameRequests, TypeOK
<1>4. UNCHANGED <<workspaces, retired, invite>>
  BY DEF AddMember, UpdateRole, RemoveMember
<1>5. w \in workspaces => ~NoOwner(w)
  BY <1>1 DEF OwnerlessInv, InUse
<1>6. \A x \in Workspace, y \in User :
         \/ role'[x][y] = role[x][y]
         \/ /\ x = w /\ y = v /\ w \in workspaces
            /\ role[w][v] # "owner" /\ role'[w][v] # "owner"
  <2>1. CASE AddMember(p)
    BY <1>2, <2>1 DEF AddMember, InsertMember, Insertable, TypeOK
  <2>2. CASE UpdateRole(p)
    <3>1. role[w][v] # "owner"
      BY <2>2 DEF UpdateRole, At, TargetInv
    <3>2. w \notin workspaces => role[w][v] = "none"
      BY <1>2 DEF AbsentInv, NoMembers
    <3> QED
      BY <1>2, <2>2, <3>1, <3>2 DEF UpdateRole, UpdateMemberRole, TypeOK
  <2>3. CASE RemoveMember(p)
    <3>1. role[w][v] # "owner"
      BY <2>3 DEF RemoveMember, At, TargetInv
    <3>2. w \notin workspaces => role[w][v] = "none"
      BY <1>2 DEF AbsentInv, NoMembers
    <3> QED
      BY <1>2, <2>3, <3>1, <3>2 DEF RemoveMember, DeleteMember, TypeOK
  <2> QED
    BY <2>1, <2>2, <2>3
<1> QED
  BY <1>3, <1>4, <1>5, <1>6 DEF TameRows

\* Every step keeps OwnershipInv: one case per action.
LEMMA OwnershipStep ==
    ASSUME OwnershipInv, {"TransferOwner", "DeleteUser"} \cap Ops = {}, [Next]_vars
    PROVE  OwnershipInv'
<1> USE DEF OwnershipInv
<1>1. TypeOK' /\ OpsAllowed'
  BY TypeStep, OpsAllowedStep
<1>2. ASSUME NEW p \in Request, Finish(p) PROVE TameRequests
  BY <1>2 DEF Finish, Become, TameRequests, TypeOK
<1>3. ASSUME NEW p \in Request, NEW stage \in Stage \ {"owner", "write"},
             req[p] # Idle, Goto(p, stage)
      PROVE TameRequests
  <2>1. req[p] \in InProgress
    BY <1>3, RequestTypes
  <2>2. LET r == [req[p] EXCEPT !.at = stage] IN
           r.op = req[p].op /\ r.ws = req[p].ws /\ r.at = stage
    BY <2>1 DEF InProgress
  <2> QED
    BY <1>3, <2>2 DEF Goto, Become, TameRequests, TypeOK
<1>4. ASSUME UNCHANGED db, \A w \in Workspace : invite'[w].token \in {invite[w].token, NoToken}
      PROVE TameRows
  BY <1>4 DEF db, TameRows
<1>5. ASSUME invite' = invite PROVE \A w \in Workspace : invite'[w].token \in {invite[w].token, NoToken}
  BY <1>5
<1>6. ASSUME NEW w, invite' = UpdateInvite(w, NoToken, "none")
      PROVE \A v \in Workspace : invite'[v].token \in {invite[v].token, NoToken}
  BY <1>6 DEF UpdateInvite, TypeOK
<1>7. ASSUME NEW p \in Request, AuthorizeOwner(p) \/ AuthorizeEditor(p) PROVE OwnershipInv'
  <2>1. PICK w \in Workspace, u \in User, op \in OpNames, stage \in Stage :
           /\ role[w][u] # "none"
           /\ Begin(p, op, stage, u, w, NoToken)
           /\ op # "CreateWorkspace" /\ (stage = "write" => op \notin {"UpdateRole", "RemoveMember"})
           /\ UNCHANGED <<db, invite, minted, admitted>>
    BY <1>7 DEF AuthorizeOwner, AuthorizeEditor, RequireOwner, RequireEditor, OpNames, Stage
  <2>2. w \in workspaces /\ ~NoOwner(w)
    BY <2>1 DEF AbsentInv, OwnerlessInv, NoMembers
  <2> QED
    BY <1>1, <2>1, <2>2, BeginStep
<1>8. ASSUME NEW p \in Request, FindTarget(p) PROVE OwnershipInv'
  <2>1. req[p] # Idle /\ req[p] \in InProgress
    BY <1>8, RequestTypes DEF FindTarget
  <2>2. PICK v \in User :
           \/ /\ TargetAllowed(req[p].op, req[p].ws, req[p].actor, v)
              /\ Become(p, [req[p] EXCEPT !.at = "write", !.target = v])
           \/ Finish(p)
    BY <1>8 DEF FindTarget
  <2>3. ASSUME TargetAllowed(req[p].op, req[p].ws, req[p].actor, v),
               Become(p, [req[p] EXCEPT !.at = "write", !.target = v])
        PROVE  TameRequests
    <3>1. LET r == [req[p] EXCEPT !.at = "write", !.target = v] IN
             r.op = req[p].op /\ r.ws = req[p].ws /\ r.at = "write" /\ r.target = v
      BY <2>1 DEF InProgress
    <3>2. req[p].op \in {"UpdateRole", "RemoveMember"} => role[req[p].ws][v] # "owner"
      BY <2>3 DEF TargetAllowed
    <3>3. /\ req'[p] = [req[p] EXCEPT !.at = "write", !.target = v]
          /\ \A q \in Request : q # p => req'[q] = req[q]
      BY <2>3 DEF Become, TypeOK
    <3>4. /\ req'[p].op = req[p].op /\ req'[p].ws = req[p].ws
          /\ req'[p].at = "write" /\ req'[p].target = v
      BY <3>1, <3>3
    <3> QED
      BY <2>1, <3>2, <3>3, <3>4 DEF TameRequests
  <2>4. TameRequests
    BY <1>2, <2>2, <2>3
  <2>5. TameRows
    BY <1>4, <1>5, <1>8 DEF FindTarget
  <2> QED
    BY <1>1, <2>4, <2>5, TameStep
<1>9. ASSUME NEW p \in Request, UndoCreate(p) \/ DeleteWorkspace(p) PROVE OwnershipInv'
  <2>1. /\ req[p] # Idle /\ req[p] \in InProgress /\ Finish(p)
        /\ ~At(p, "CreateWorkspace", "owner")
    BY <1>9, RequestTypes DEF UndoCreate, DeleteWorkspace, At
  <2>2. req[p].ws \in Workspace
    BY <2>1 DEF InProgress
  <2>3. CASE DropWorkspace(req[p].ws)
    BY <1>1, <2>1, <2>2, <2>3, DropStep
  <2>4. CASE UNCHANGED <<db, invite, minted, admitted>>
    BY <1>1, <1>2, <1>4, <1>5, <2>1, <2>4, TameStep
  <2> QED
    BY <1>9, <2>3, <2>4 DEF UndoCreate, DeleteWorkspace
<1>10. ASSUME NEW p \in Request, CreateBoard(p) PROVE OwnershipInv'
  BY <1>1, <1>2, <1>4, <1>5, <1>10, TameStep DEF CreateBoard
<1>11. ASSUME NEW p \in Request, LoadWorkspace(p) PROVE OwnershipInv'
  <2>1. req[p] # Idle /\ req[p] \in InProgress /\ req[p].op = "UpdateWorkspace"
    BY <1>11, RequestTypes DEF LoadWorkspace, At
  <2>2. ASSUME NEW t, Become(p, [req[p] EXCEPT !.at = "write", !.token = t])
        PROVE  TameRequests
    <3>1. /\ req'[p] = [req[p] EXCEPT !.at = "write", !.token = t]
          /\ \A q \in Request : q # p => req'[q] = req[q]
      BY <2>2 DEF Become, TypeOK
    <3>2. req'[p].op = req[p].op /\ req'[p].ws = req[p].ws
      BY <2>1, <3>1 DEF InProgress
    <3> QED
      BY <2>1, <3>1, <3>2 DEF TameRequests
  <2>3. TameRequests
    BY <1>2, <1>11, <2>2 DEF LoadWorkspace
  <2> QED
    BY <1>1, <1>4, <1>5, <1>11, <2>3, TameStep DEF LoadWorkspace
<1>12. ASSUME NEW p \in Request, UpdateWorkspace(p) \/ GenerateInvite(p) PROVE OwnershipInv'
  <2>1. /\ req[p] # Idle /\ req[p] \in InProgress /\ Finish(p)
        /\ req[p].op # "CreateWorkspace" /\ UNCHANGED db
    BY <1>12, RequestTypes DEF UpdateWorkspace, GenerateInvite, At
  <2>2. req[p].ws \in workspaces => ~NoOwner(req[p].ws)
    BY <2>1 DEF OwnerlessInv, InUse
  <2>3. \A w \in Workspace : invite'[w] = invite[w] \/ (w = req[p].ws /\ w \in workspaces)
    BY <1>12 DEF UpdateWorkspace, GenerateInvite, UpdateInvite, TypeOK
  <2>4. TameRows
    BY <2>1, <2>2, <2>3 DEF TameRows, db
  <2> QED
    BY <1>1, <1>2, <2>1, <2>4, TameStep
<1>13. ASSUME NEW p \in Request, DisableInvite(p) \/ ClearExpired(p) PROVE OwnershipInv'
  <2>1. TameRows
    BY <1>4, <1>6, <1>13 DEF DisableInvite, ClearExpired
  <2> QED
    BY <1>1, <1>2, <1>13, <2>1, TameStep DEF DisableInvite, ClearExpired
<1>14. ASSUME NEW p \in Request, FindInvite(p) PROVE OwnershipInv'
  <2>1. PICK w \in workspaces, u \in accounts, stage \in {"clear", "count"} :
           /\ invite[w].token # NoToken
           /\ Begin(p, "JoinByInvite", stage, u, w, invite[w].token)
           /\ UNCHANGED <<db, invite, minted, admitted>>
    BY <1>14 DEF FindInvite
  <2>2. ~NoOwner(w)
    BY <2>1 DEF OwnerlessInv
  <2> QED
    BY <1>1, <2>1, <2>2, BeginStep
<1>15. ASSUME NEW p \in Request, CountMember(p) PROVE OwnershipInv'
  <2>1. TameRequests
    BY <1>2, <1>3, <1>15 DEF CountMember, At, Stage
  <2> QED
    BY <1>1, <1>4, <1>5, <1>15, <2>1, TameStep DEF CountMember
<1>16. ASSUME NEW p \in Request, ClaimInvite(p) PROVE OwnershipInv'
  <2>1. /\ req[p] # Idle /\ req[p] \in InProgress /\ req[p].op # "CreateWorkspace"
        /\ Finish(p) /\ UNCHANGED <<workspaces, retired>>
    BY <1>16, RequestTypes DEF ClaimInvite, At
  <2> DEFINE w == req[p].ws  u == req[p].actor
  <2>2. w \in Workspace /\ u \in User /\ (w \in workspaces => ~NoOwner(w))
    BY <2>1 DEF InProgress, OwnerlessInv, InUse
  <2>3. \A x \in Workspace, y \in User :
           \/ role'[x][y] = role[x][y]
           \/ x = w /\ w \in workspaces /\ role[x][y] # "owner" /\ role'[x][y] # "owner"
    BY <1>16, <2>2 DEF ClaimInvite, InsertMember, Insertable, TypeOK
  <2>4. \A x \in Workspace : invite'[x].token \in {invite[x].token, NoToken}
    BY <1>16 DEF ClaimInvite, NoInvite, TypeOK
  <2>5. TameRows
    BY <2>1, <2>2, <2>3, <2>4 DEF TameRows
  <2> QED
    BY <1>1, <1>2, <2>1, <2>5, TameStep
<1>17. ASSUME NEW w \in Workspace, InviteExpires(w) PROVE OwnershipInv'
  <2>1. TameRequests
    BY <1>17 DEF InviteExpires, TameRequests
  <2>2. \A v \in Workspace : invite'[v].token = invite[v].token
    BY <1>17 DEF InviteExpires, TypeOK
  <2>3. UNCHANGED db
    BY <1>17 DEF InviteExpires
  <2> QED
    BY <1>1, <1>4, <2>1, <2>2, <2>3, TameStep
<1>18. ASSUME NEW p \in Request, StatementFails(p) PROVE OwnershipInv'
  <2>1. TameRequests
    BY <1>2, <1>3, <1>18 DEF StatementFails, Stage
  <2> QED
    BY <1>1, <1>4, <1>5, <1>18, <2>1, TameStep DEF StatementFails
<1>19. CASE Crash
  <2>1. TameRequests
    BY <1>19 DEF Crash, TameRequests
  <2> QED
    BY <1>1, <1>4, <1>5, <1>19, <2>1, TameStep DEF Crash
<1>20. CASE UNCHANGED vars
  <2>1. TameRequests /\ TameRows
    BY <1>20 DEF vars, TameRequests, TameRows
  <2> QED
    BY <1>1, <2>1, TameStep
<1>21. ASSUME NEW p \in Request PROVE ~TransferOwner(p) /\ ~DeleteUserStep(p)
  <2>1. req[p] # Idle => req[p].op \notin {"TransferOwner", "DeleteUser"}
    BY DEF OpsAllowed
  <2> QED
    BY <2>1 DEF TransferOwner, DeleteUserStep, FindAccount, Begin, ListOwned, PickSuccessor,
                TransferToSuccessor, DeleteMemberships, DeleteAccount, At
<1> QED
  BY <1>1, <1>7, <1>8, <1>9, <1>10, <1>11, <1>12, <1>13, <1>14, <1>15, <1>16, <1>17, <1>18,
     <1>19, <1>20, <1>21, MemberWriteStep, CreateStep, CreateOwnerStep
     DEF Next, MemberStep, WorkspaceStep, InviteStep

LEMMA OwnershipInvariant ==
    ASSUME {"TransferOwner", "DeleteUser"} \cap Ops = {}
    PROVE  Spec => []OwnershipInv
<1>1. Init => OwnershipInv
  BY DEF Init, NoInvite, OwnershipInv, TypeOK, OpsAllowed, CreatingInv, OwnerlessInv,
         AbsentInv, TargetInv, AtMostOneOwner, NoMembers, InUse, At
<1> QED
  BY <1>1, OwnershipStep, PTL DEF Spec

\* Every workspace with members has an owner, for any number of concurrent requests,
\* as long as nobody transfers ownership or deletes a user.
THEOREM OwnerRemains ==
    ASSUME {"TransferOwner", "DeleteUser"} \cap Ops = {}
    PROVE  Spec => []HasOwner
<1>1. OwnershipInv => HasOwner
  BY DEF OwnershipInv, OwnerlessInv, HasOwner, Members, Owners, NoOwner, NoMembers
<1> QED
  BY <1>1, OwnershipInvariant, PTL

\* It has no second one, under the same condition.
THEOREM OneOwnerAtMost ==
    ASSUME {"TransferOwner", "DeleteUser"} \cap Ops = {}
    PROVE  Spec => []AtMostOneOwner
<1>1. OwnershipInv => AtMostOneOwner
  BY DEF OwnershipInv
<1> QED
  BY <1>1, OwnershipInvariant, PTL

-----------------------------------------------------------------------------
(***************************************************************************)
(* The rows.  A member is inserted by statements that the foreign keys     *)
(* check, and what deletes an account or a workspace takes its rows with   *)
(* it, however the requests interleave and wherever they stop.             *)
(***************************************************************************)

\* Accounts and workspaces stay, and so do the rows, but for some between them.
LEMMA RowsAdded ==
    ASSUME NoDanglingMember, accounts' = accounts, workspaces \subseteq workspaces',
           \A w \in Workspace, u \in User :
              role'[w][u] # "none" => role[w][u] # "none" \/ (w \in workspaces /\ u \in accounts)
    PROVE  NoDanglingMember'
  BY DEF NoDanglingMember

LEMMA RowsStep ==
    ASSUME TypeOK, NoDanglingMember, [Next]_vars
    PROVE  NoDanglingMember'
<1>0. role \in [Workspace -> [User -> Role \cup {"none"}]]
  BY DEF TypeOK
<1>1. ASSUME NEW w \in Workspace, DropWorkspace(w) PROVE NoDanglingMember'
  <2>1. /\ \A u \in User : role'[w][u] = "none"
        /\ \A v \in Workspace \ {w} : role'[v] = role[v]
    BY <1>0, <1>1 DEF DropWorkspace
  <2> QED
    BY <1>1, <2>1 DEF DropWorkspace, NoDanglingMember
<1>2. ASSUME NEW w \in Workspace, NEW u \in User, NEW r, role' = InsertMember(w, u, r),
             UNCHANGED <<accounts, workspaces>>
      PROVE  NoDanglingMember'
  <2>1. \A v \in Workspace, z \in User :
           role'[v][z] = IF Insertable(w, u) /\ v = w /\ z = u THEN r ELSE role[v][z]
    BY <1>0, <1>2 DEF InsertMember
  <2> QED
    BY <1>2, <2>1, RowsAdded DEF Insertable
<1>3. ASSUME NEW w \in Workspace, NEW u \in User, NEW v \in User, role' = TransferOwnership(w, u, v),
             UNCHANGED <<accounts, workspaces>>
      PROVE  NoDanglingMember'
  <2>1. \A z \in Workspace, x \in User : role'[z][x] # "none" => role[z][x] # "none"
    BY <1>0, <1>3 DEF TransferOwnership, TransferRows
  <2> QED
    BY <1>3, <2>1, RowsAdded
<1>4. ASSUME NEW p \in Request, MemberStep(p) PROVE NoDanglingMember'
  <2>1. CASE UNCHANGED db
    BY <2>1 DEF db, NoDanglingMember
  <2>2. CASE AddMember(p) \/ UpdateRole(p) \/ RemoveMember(p) \/ TransferOwner(p)
    <3>0. req[p].ws \in Workspace /\ req[p].target \in User /\ req[p].actor \in User
      <4>1. req[p] # Idle
        BY <2>2 DEF AddMember, UpdateRole, RemoveMember, TransferOwner, At
      <4> QED
        BY <4>1, RequestTypes DEF InProgress
    <3>1. CASE AddMember(p)
      BY <1>2, <3>0, <3>1 DEF AddMember
    <3>2. CASE UpdateRole(p)
      <4>1. \A z \in Workspace, x \in User : role'[z][x] # "none" => role[z][x] # "none"
        BY <1>0, <3>0, <3>2 DEF UpdateRole, UpdateMemberRole
      <4> QED
        BY <3>2, <4>1, RowsAdded DEF UpdateRole
    <3>3. CASE RemoveMember(p)
      <4>1. \A z \in Workspace, x \in User : role'[z][x] # "none" => role[z][x] # "none"
        BY <1>0, <3>0, <3>3 DEF RemoveMember, DeleteMember
      <4> QED
        BY <3>3, <4>1, RowsAdded DEF RemoveMember
    <3>4. CASE TransferOwner(p)
      BY <1>3, <3>0, <3>4 DEF TransferOwner
    <3> QED
      BY <2>2, <3>1, <3>2, <3>3, <3>4
  <2> QED
    BY <1>4, <2>1, <2>2 DEF MemberStep, AuthorizeOwner, AuthorizeEditor, FindTarget
<1>5. ASSUME NEW p \in Request, WorkspaceStep(p) PROVE NoDanglingMember'
  <2>1. CASE UNCHANGED db
    BY <2>1 DEF db, NoDanglingMember
  <2>2. CASE CreateWorkspace(p)
    BY <2>2, RowsAdded DEF CreateWorkspace
  <2>3. CASE CreateOwner(p)
    <3>1. req[p].ws \in Workspace /\ req[p].actor \in User
      BY <2>3, RequestTypes DEF CreateOwner, At, InProgress
    <3> QED
      BY <1>2, <2>3, <3>1 DEF CreateOwner
  <2>4. CASE UndoCreate(p) \/ DeleteWorkspace(p)
    <3>1. req[p].ws \in Workspace
      BY <2>4, RequestTypes DEF UndoCreate, DeleteWorkspace, At, InProgress
    <3>2. DropWorkspace(req[p].ws) \/ UNCHANGED db
      BY <2>4 DEF UndoCreate, DeleteWorkspace
    <3> QED
      BY <1>1, <2>1, <3>1, <3>2
  <2> QED
    BY <1>5, <2>1, <2>2, <2>3, <2>4 DEF WorkspaceStep, CreateBoard, LoadWorkspace, UpdateWorkspace
<1>6. ASSUME NEW p \in Request, InviteStep(p) PROVE NoDanglingMember'
  <2>1. CASE UNCHANGED db
    BY <2>1 DEF db, NoDanglingMember
  <2>2. CASE ClaimInvite(p)
    <3>1. req[p].ws \in Workspace /\ req[p].actor \in User
      BY <2>2, RequestTypes DEF ClaimInvite, At, InProgress
    <3> QED
      BY <1>2, <2>1, <2>2, <3>1 DEF ClaimInvite, db
  <2> QED
    BY <1>6, <2>1, <2>2
       DEF InviteStep, GenerateInvite, DisableInvite, FindInvite, ClearExpired, CountMember
<1>7. ASSUME NEW p \in Request, DeleteUserStep(p) PROVE NoDanglingMember'
  <2>1. CASE UNCHANGED db
    BY <2>1 DEF db, NoDanglingMember
  <2>2. CASE TransferToSuccessor(p)
    <3>1. req[p].ws \in Workspace /\ req[p].actor \in User /\ req[p].target \in User
      BY <2>2, RequestTypes DEF TransferToSuccessor, At, InProgress
    <3> QED
      BY <1>3, <2>2, <3>1 DEF TransferToSuccessor
  <2>3. ASSUME DeleteMemberships(p) \/ DeleteAccount(p) PROVE NoDanglingMember'
    <3>1. /\ role' = DeleteMembersByUser(req[p].actor) /\ workspaces' = workspaces
          /\ accounts \ {req[p].actor} \subseteq accounts'
      BY <2>3 DEF DeleteMemberships, DeleteAccount
    <3>2. \A w \in Workspace, u \in User :
             role'[w][u] # "none" => role[w][u] # "none" /\ u # req[p].actor
      BY <1>0, <3>1 DEF DeleteMembersByUser
    <3> QED
      BY <3>1, <3>2 DEF NoDanglingMember
  <2> QED
    BY <1>7, <2>1, <2>2, <2>3 DEF DeleteUserStep, FindAccount, ListOwned, PickSuccessor
<1>8. CASE (\E p \in Request : StatementFails(p)) \/ (\E w \in Workspace : InviteExpires(w))
           \/ Crash \/ UNCHANGED vars
  BY <1>8 DEF StatementFails, InviteExpires, Crash, vars, db, NoDanglingMember
<1> QED
  BY <1>4, <1>5, <1>6, <1>7, <1>8 DEF Next

\* A member's row is of an account and of a workspace that are there, with every
\* operation and any number of requests at a time.
THEOREM RowsRefer == Spec => []NoDanglingMember
<1>1. Init => NoDanglingMember
  BY DEF Init, NoDanglingMember
<1> QED
  BY <1>1, RowsStep, TypeCorrect, PTL DEF Spec

-----------------------------------------------------------------------------
(***************************************************************************)
(* One request at a time.  Requests are then cut short by failures and     *)
(* crashes and by nobody else, and what a request has read holds until it  *)
(* writes, for every operation.                                            *)
(***************************************************************************)
OneRequest == \A p, q \in Request : p = q

\* A workspace has one owner at most, and has one if it has members or an invite.
Owned(w) ==
    /\ \A u, v \in User : role[w][u] = "owner" /\ role[w][v] = "owner" => u = v
    /\ (\E u \in User : role[w][u] # "none") \/ invite[w].token # NoToken =>
          \E u \in User : role[w][u] = "owner"

\* What a request has read is still so.
StillSo(r) ==
    /\ r.op \in {"AddMember", "UpdateRole", "RemoveMember", "TransferOwner"} =>
          /\ role[r.ws][r.actor] = "owner"
          /\ r.at = "write" => r.target # r.actor
    /\ r.op = "CreateWorkspace" /\ r.at = "owner" => \A u \in User : role[r.ws][u] = "none"
    /\ r.op = "GenerateInvite" => role[r.ws][r.actor] # "none"
    /\ r.op = "UpdateWorkspace" /\ r.at = "write" => r.token = invite[r.ws].token
    /\ r.op = "JoinByInvite" =>
          /\ r.at = "clear" => invite[r.ws].expires # "later"
          /\ r.at = "claim" => role[r.ws][r.actor] = "none"
    /\ r.op = "DeleteUser" =>
          /\ r.at \in {"reassign", "transfer"} =>
                \A w \in Workspace : w \in r.todo <=> role[w][r.actor] = "owner"
          /\ r.at = "transfer" => r.ws \in r.todo /\ r.target # r.actor
          /\ r.at = "account" => \A w \in Workspace : role[w][r.actor] = "none"

SerialInv ==
    /\ TypeOK
    /\ \A w \in Workspace, u \in User : role[w][u] # "none" => w \in workspaces
    /\ \A w \in Workspace : Owned(w)
    /\ \A p \in Request : req[p] # Idle => StillSo(req[p])

LEMMA SerialKept ==
    ASSUME OneRequest, TypeOK', NEW p \in Request, req'[p] # Idle => (StillSo(req[p]))',
           \A w \in Workspace, u \in User : role'[w][u] # "none" => w \in workspaces',
           \A w \in Workspace : (Owned(w))'
    PROVE  SerialInv'
<1>1. ASSUME NEW o \in Request, req'[o] # Idle PROVE (StillSo(req[o]))'
  <2>1. o = p
    BY DEF OneRequest
  <2> QED
    BY <1>1, <2>1
<1> QED
  BY <1>1 DEF SerialInv

\* The same for a step that leaves the rows.
LEMMA ReadingKeeps ==
    ASSUME OneRequest, SerialInv, TypeOK', NEW p \in Request, UNCHANGED <<workspaces, role, invite>>,
           req'[p] # Idle => (StillSo(req[p]))'
    PROVE  SerialInv'
<1>1. \A w \in Workspace : (Owned(w))'
  BY DEF SerialInv, Owned
<1> QED
  BY <1>1, SerialKept DEF SerialInv

\* What a request is after it began, went on, or ended.
LEMMA BeginRecord ==
    ASSUME TypeOK, NEW p \in Request, NEW op, NEW stage, NEW u, NEW w, NEW t,
           Begin(p, op, stage, u, w, t)
    PROVE  /\ req'[p].op = op /\ req'[p].at = stage
           /\ req'[p].actor = u /\ req'[p].ws = w /\ req'[p].token = t
  BY DEF Begin, Become, TypeOK

LEMMA GotoRecord ==
    ASSUME TypeOK, NEW p \in Request, req[p] # Idle, NEW stage, Goto(p, stage)
    PROVE  /\ req'[p].op = req[p].op /\ req'[p].at = stage
           /\ req'[p].actor = req[p].actor /\ req'[p].ws = req[p].ws
           /\ req'[p].target = req[p].target /\ req'[p].token = req[p].token
           /\ req'[p].todo = req[p].todo
<1>1. req[p] \in InProgress
  BY RequestTypes
<1>2. req'[p] = [req[p] EXCEPT !.at = stage]
  BY DEF Goto, Become, TypeOK
<1> QED
  BY <1>1, <1>2 DEF InProgress

LEMMA FinishRecord ==
    ASSUME TypeOK, NEW p \in Request, Finish(p)
    PROVE  req'[p] = Idle
  BY DEF Finish, Become, TypeOK

\* Steps that read, and begin or end a request.
LEMMA SerialReads ==
    ASSUME OneRequest, SerialInv, TypeOK', NEW p \in Request,
           \/ AuthorizeOwner(p) \/ AuthorizeEditor(p) \/ CreateBoard(p) \/ FindInvite(p)
           \/ CountMember(p) \/ FindAccount(p) \/ StatementFails(p)
    PROVE  SerialInv'
<1>0. TypeOK
  BY DEF SerialInv
<1>1. UNCHANGED <<workspaces, role, invite>>
  BY DEF AuthorizeOwner, AuthorizeEditor, CreateBoard, FindInvite, CountMember, FindAccount,
         StatementFails, db
<1>2. CASE AuthorizeOwner(p)
  <2>1. /\ req'[p].op \in {"AddMember", "UpdateRole", "RemoveMember", "TransferOwner", "DeleteWorkspace"}
        /\ req'[p].op # "DeleteWorkspace" => req'[p].at = "target"
        /\ role[req'[p].ws][req'[p].actor] = "owner"
    BY <1>0, <1>2, BeginRecord DEF AuthorizeOwner, RequireOwner
  <2>2. (StillSo(req[p]))'
    BY <1>1, <2>1 DEF StillSo
  <2> QED
    BY <1>1, <2>2, ReadingKeeps
<1>3. CASE AuthorizeEditor(p)
  <2>1. /\ req'[p].op \in {"UpdateWorkspace", "GenerateInvite", "DisableInvite"}
        /\ req'[p].op = "UpdateWorkspace" => req'[p].at = "read"
        /\ role[req'[p].ws][req'[p].actor] # "none"
    BY <1>0, <1>3, BeginRecord DEF AuthorizeEditor, RequireEditor
  <2>2. (StillSo(req[p]))'
    BY <1>1, <2>1 DEF StillSo
  <2> QED
    BY <1>1, <2>2, ReadingKeeps
<1>4. CASE CreateBoard(p)
  BY <1>0, <1>1, <1>4, FinishRecord, ReadingKeeps DEF CreateBoard
<1>5. CASE FindInvite(p)
  <2>1. /\ req'[p].op = "JoinByInvite" /\ req'[p].at \in {"clear", "count"}
        /\ req'[p].at = "clear" => invite[req'[p].ws].expires = "past"
    BY <1>0, <1>5, BeginRecord DEF FindInvite
  <2>2. (StillSo(req[p]))'
    BY <1>1, <2>1 DEF StillSo
  <2> QED
    BY <1>1, <2>2, ReadingKeeps
<1>6. CASE CountMember(p)
  <2>1. req[p] # Idle /\ req[p].op = "JoinByInvite"
    BY <1>6 DEF CountMember, At
  <2>2. CASE role[req[p].ws][req[p].actor] # "none"
    BY <1>0, <1>1, <1>6, <2>2, FinishRecord, ReadingKeeps DEF CountMember
  <2>3. CASE role[req[p].ws][req[p].actor] = "none"
    <3>1. Goto(p, "claim")
      BY <1>6, <2>3 DEF CountMember
    <3>2. (StillSo(req[p]))'
      BY <1>0, <1>1, <2>1, <2>3, <3>1, GotoRecord DEF StillSo
    <3> QED
      BY <1>1, <3>2, ReadingKeeps
  <2> QED
    BY <2>2, <2>3
<1>7. CASE FindAccount(p)
  <2>1. req'[p].op = "DeleteUser" /\ req'[p].at = "list"
    BY <1>0, <1>7, BeginRecord DEF FindAccount
  <2>2. (StillSo(req[p]))'
    BY <2>1 DEF StillSo
  <2> QED
    BY <1>1, <2>2, ReadingKeeps
<1>8. CASE StatementFails(p)
  <2>1. CASE req[p].op = "CreateWorkspace" /\ req[p].at \in {"owner", "board"}
    <3>1. req[p] # Idle /\ Goto(p, "undo")
      BY <1>8, <2>1 DEF StatementFails
    <3>2. (StillSo(req[p]))'
      BY <1>0, <2>1, <3>1, GotoRecord DEF StillSo
    <3> QED
      BY <1>1, <3>2, ReadingKeeps
  <2>2. CASE ~(req[p].op = "CreateWorkspace" /\ req[p].at \in {"owner", "board"})
    BY <1>0, <1>1, <1>8, <2>2, FinishRecord, ReadingKeeps DEF StatementFails
  <2> QED
    BY <2>1, <2>2
<1> QED
  BY <1>2, <1>3, <1>4, <1>5, <1>6, <1>7, <1>8

\* Steps that read, and go on.
LEMMA SerialGoesOn ==
    ASSUME OneRequest, SerialInv, TypeOK', NEW p \in Request,
           FindTarget(p) \/ LoadWorkspace(p) \/ ListOwned(p) \/ PickSuccessor(p)
    PROVE  SerialInv'
<1>0. TypeOK
  BY DEF SerialInv
<1>1. UNCHANGED <<workspaces, role, invite>>
  BY DEF FindTarget, LoadWorkspace, ListOwned, PickSuccessor, db
<1>2. req[p] # Idle /\ req[p] \in InProgress
  BY <1>0, RequestTypes DEF FindTarget, LoadWorkspace, ListOwned, PickSuccessor, At
<1>3. StillSo(req[p])
  BY <1>2 DEF SerialInv
<1>4. CASE Finish(p)
  BY <1>0, <1>1, <1>4, FinishRecord, ReadingKeeps
<1> DEFINE r == req[p]
<1>5. CASE FindTarget(p)
  <2>1. PICK v \in User :
           IF TargetAllowed(r.op, r.ws, r.actor, v)
           THEN Become(p, [r EXCEPT !.at = "write", !.target = v])
           ELSE Finish(p)
    BY <1>5 DEF FindTarget
  <2>2. CASE TargetAllowed(r.op, r.ws, r.actor, v)
    <3>1. req'[p] = [r EXCEPT !.at = "write", !.target = v]
      BY <1>0, <2>1, <2>2 DEF Become, TypeOK
    <3>2. /\ req'[p].op = r.op /\ req'[p].ws = r.ws /\ req'[p].actor = r.actor
          /\ req'[p].at = "write" /\ req'[p].target = v
      BY <1>2, <3>1 DEF InProgress
    <3>3. r.op \in {"AddMember", "UpdateRole", "RemoveMember", "TransferOwner"}
      BY <2>2 DEF TargetAllowed
    <3>4. role[r.ws][r.actor] = "owner" /\ v # r.actor
      BY <1>3, <2>2, <3>3 DEF StillSo, TargetAllowed
    <3>5. (StillSo(req[p]))'
      BY <1>1, <3>2, <3>3, <3>4 DEF StillSo
    <3> QED
      BY <1>1, <3>5, ReadingKeeps
  <2> QED
    BY <1>4, <2>1, <2>2
<1>6. CASE LoadWorkspace(p)
  <2>1. CASE r.ws \in workspaces
    <3>1. req'[p] = [r EXCEPT !.at = "write", !.token = invite[r.ws].token]
      BY <1>0, <1>6, <2>1 DEF LoadWorkspace, Become, TypeOK
    <3>2. /\ req'[p].op = "UpdateWorkspace" /\ req'[p].ws = r.ws
          /\ req'[p].token = invite[r.ws].token
      BY <1>2, <1>6, <3>1 DEF InProgress, LoadWorkspace, At
    <3>3. (StillSo(req[p]))'
      BY <1>1, <3>2 DEF StillSo
    <3> QED
      BY <1>1, <3>3, ReadingKeeps
  <2> QED
    BY <1>4, <1>6, <2>1 DEF LoadWorkspace
<1>7. CASE ListOwned(p)
  <2>1. req'[p] = [r EXCEPT !.at = "reassign",
                            !.todo = {w \in Workspace : role[w][r.actor] = "owner"}]
    BY <1>0, <1>7 DEF ListOwned, Become, TypeOK
  <2>2. /\ req'[p].op = "DeleteUser" /\ req'[p].at = "reassign" /\ req'[p].actor = r.actor
        /\ req'[p].todo = {w \in Workspace : role[w][r.actor] = "owner"}
    BY <1>2, <1>7, <2>1 DEF InProgress, ListOwned, At
  <2>3. (StillSo(req[p]))'
    BY <1>1, <2>2 DEF StillSo
  <2> QED
    BY <1>1, <2>3, ReadingKeeps
<1>8. CASE PickSuccessor(p)
  <2>1. r.op = "DeleteUser" /\ r.at = "reassign"
    BY <1>8 DEF PickSuccessor, At
  <2>2. PICK w \in r.todo :
           \/ SeveralOwners(w)
           \/ Finish(p)
           \/ \E v \in Successors(w, r.actor) :
                 Become(p, [r EXCEPT !.at = "transfer", !.ws = w, !.target = v])
    BY <1>8 DEF PickSuccessor
  <2>3. w \in Workspace
    BY <1>2, <2>2 DEF InProgress
  <2>4. ~SeveralOwners(w)
    BY <2>3 DEF SerialInv, Owned, SeveralOwners, Owners
  <2>5. ASSUME NEW v \in Successors(w, r.actor),
               Become(p, [r EXCEPT !.at = "transfer", !.ws = w, !.target = v])
        PROVE  SerialInv'
    <3>1. req'[p] = [r EXCEPT !.at = "transfer", !.ws = w, !.target = v]
      BY <1>0, <2>5 DEF Become, TypeOK
    <3>2. /\ req'[p].op = "DeleteUser" /\ req'[p].at = "transfer" /\ req'[p].ws = w
          /\ req'[p].target = v /\ req'[p].todo = r.todo /\ req'[p].actor = r.actor
      BY <1>2, <2>1, <3>1 DEF InProgress
    <3>3. v # r.actor /\ \A z \in Workspace : z \in r.todo <=> role[z][r.actor] = "owner"
      BY <1>3, <2>1 DEF Successors, StillSo
    <3>4. (StillSo(req[p]))'
      BY <1>1, <2>2, <3>2, <3>3 DEF StillSo
    <3> QED
      BY <1>1, <3>4, ReadingKeeps
  <2> QED
    BY <1>4, <2>2, <2>4, <2>5
<1> QED
  BY <1>5, <1>6, <1>7, <1>8

\* A request ends that has written rows: each workspace keeps an owner, or had none.
LEMMA SerialEnds ==
    ASSUME OneRequest, SerialInv, TypeOK', NEW p \in Request, Finish(p),
           workspaces' = workspaces,
           \A w \in Workspace, u \in User : role'[w][u] # "none" => w \in workspaces,
           \A w \in Workspace : (Owned(w))'
    PROVE  SerialInv'
  BY FinishRecord, SerialKept DEF SerialInv

\* A workspace whose owners stay, and that gets no other, has an owner still.
LEMMA OwnersStay ==
    ASSUME NEW w \in Workspace, Owned(w),
           \A u \in User : role'[w][u] = "owner" <=> role[w][u] = "owner",
           (\E u \in User : role'[w][u] # "none") \/ invite'[w].token # NoToken =>
              (\E u \in User : role[w][u] # "none") \/ invite[w].token # NoToken
    PROVE  (Owned(w))'
  BY DEF Owned

\* Steps of members and workspaces that write.
LEMMA SerialMembers ==
    ASSUME OneRequest, SerialInv, TypeOK', NEW p \in Request,
           AddMember(p) \/ UpdateRole(p) \/ RemoveMember(p) \/ TransferOwner(p)
    PROVE  SerialInv'
<1>0. TypeOK /\ role \in [Workspace -> [User -> Role \cup {"none"}]]
  BY DEF SerialInv, TypeOK
<1> DEFINE r == req[p]
<1>1. req[p] # Idle /\ req[p].at = "write" /\ workspaces' = workspaces /\ invite' = invite /\ Finish(p)
  BY DEF AddMember, UpdateRole, RemoveMember, TransferOwner, At
<1>2. r.ws \in Workspace /\ r.actor \in User /\ r.target \in User
  BY <1>0, <1>1, RequestTypes DEF InProgress
<1>3. /\ r.op \in {"AddMember", "UpdateRole", "RemoveMember", "TransferOwner"}
      /\ role[r.ws][r.actor] = "owner" /\ r.target # r.actor
  <2>1. r.op \in {"AddMember", "UpdateRole", "RemoveMember", "TransferOwner"}
    BY DEF AddMember, UpdateRole, RemoveMember, TransferOwner, At
  <2> QED
    BY <1>1, <2>1 DEF SerialInv, StillSo
<1>4. \A v \in User : role[r.ws][v] = "owner" => v = r.actor
  BY <1>2, <1>3 DEF SerialInv, Owned
<1>5. r.ws \in workspaces
  BY <1>2, <1>3 DEF SerialInv
<1>6. CASE AddMember(p) \/ UpdateRole(p) \/ RemoveMember(p)
  <2>1. PICK x \in {"editor", "member", "none"} :
           role' \in {role, [role EXCEPT ![r.ws][r.target] = x]}
    <3>1. CASE AddMember(p)
      BY <3>1 DEF AddMember, InsertMember
    <3>2. CASE UpdateRole(p)
      BY <3>2 DEF UpdateRole, UpdateMemberRole
    <3>3. CASE RemoveMember(p)
      BY <3>3 DEF RemoveMember, DeleteMember
    <3> QED
      BY <1>6, <3>1, <3>2, <3>3
  <2>2. /\ \A w \in Workspace, u \in User : w # r.ws \/ u # r.target => role'[w][u] = role[w][u]
        /\ role'[r.ws][r.target] \in {role[r.ws][r.target], x}
    BY <1>0, <1>2, <2>1
  <2>3. role[r.ws][r.target] # "owner"
    BY <1>2, <1>3, <1>4
  <2>4. ASSUME NEW w \in Workspace PROVE (Owned(w))'
    <3>1. \A u \in User : role'[w][u] = "owner" <=> role[w][u] = "owner"
      BY <1>2, <2>2, <2>3
    <3>2. w # r.ws => \A u \in User : role'[w][u] = role[w][u]
      BY <2>2
    <3>3. w = r.ws => \E u \in User : role[w][u] # "none"
      BY <1>2, <1>3
    <3> QED
      BY <1>1, <3>1, <3>2, <3>3, OwnersStay DEF SerialInv
  <2>5. \A w \in Workspace, u \in User : role'[w][u] # "none" => w \in workspaces
    BY <1>5, <2>2 DEF SerialInv
  <2> QED
    BY <1>1, <2>4, <2>5, SerialEnds
<1>7. CASE TransferOwner(p)
  <2>1. CASE role' = role
    <3>1. \A w \in Workspace : (Owned(w))'
      BY <1>1, <2>1 DEF SerialInv, Owned
    <3> QED
      BY <1>1, <2>1, <3>1, SerialEnds DEF SerialInv
  <2>2. CASE role' # role
    <3>1. role' = [role EXCEPT ![r.ws] = [role[r.ws] EXCEPT ![r.actor] = "editor", ![r.target] = "owner"]]
      BY <1>7, <2>2 DEF TransferOwner, TransferOwnership
    <3>2. /\ \A w \in Workspace \ {r.ws}, u \in User : role'[w][u] = role[w][u]
          /\ role'[r.ws][r.target] = "owner"
          /\ \A u \in User \ {r.target} : role'[r.ws][u] # "owner"
      BY <1>0, <1>2, <1>3, <1>4, <3>1
    <3>3. ASSUME NEW w \in Workspace PROVE (Owned(w))'
      <4>1. CASE w = r.ws
        BY <1>2, <3>2, <4>1 DEF Owned
      <4>2. CASE w # r.ws
        BY <1>1, <3>2, <4>2, OwnersStay DEF SerialInv
      <4> QED
        BY <4>1, <4>2
    <3>4. \A w \in Workspace, u \in User : role'[w][u] # "none" => w \in workspaces
      BY <1>5, <3>2 DEF SerialInv
    <3> QED
      BY <1>1, <3>3, <3>4, SerialEnds
  <2> QED
    BY <2>1, <2>2
<1> QED
  BY <1>6, <1>7

LEMMA SerialDrops ==
    ASSUME OneRequest, SerialInv, TypeOK', NEW p \in Request,
           UndoCreate(p) \/ DeleteWorkspace(p)
    PROVE  SerialInv'
<1>0. TypeOK /\ role \in [Workspace -> [User -> Role \cup {"none"}]]
      /\ invite \in [Workspace -> [token: Token \cup {NoToken}, expires: {"none", "later", "past"}]]
  BY DEF SerialInv, TypeOK
<1>1. Finish(p) /\ req[p] # Idle
  BY DEF UndoCreate, DeleteWorkspace, At
<1> DEFINE w == req[p].ws
<1>2. w \in Workspace
  BY <1>0, <1>1, RequestTypes DEF InProgress
<1>3. CASE UNCHANGED <<workspaces, role, invite>>
  BY <1>0, <1>1, <1>3, FinishRecord, ReadingKeeps
<1>4. CASE DropWorkspace(w)
  <2>1. /\ workspaces' = workspaces \ {w}
        /\ \A u \in User : role'[w][u] = "none"
        /\ invite'[w].token = NoToken
        /\ \A v \in Workspace \ {w} : role'[v] = role[v] /\ invite'[v] = invite[v]
    BY <1>0, <1>2, <1>4 DEF DropWorkspace, NoInvite
  <2>2. ASSUME NEW v \in Workspace PROVE (Owned(v))'
    BY <2>1 DEF SerialInv, Owned
  <2>3. \A v \in Workspace, u \in User : role'[v][u] # "none" => v \in workspaces'
    BY <2>1 DEF SerialInv
  <2>4. req'[p] = Idle
    BY <1>0, <1>1, FinishRecord
  <2> QED
    BY <2>2, <2>3, <2>4, SerialKept
<1> QED
  BY <1>3, <1>4 DEF UndoCreate, DeleteWorkspace, db

LEMMA SerialCreates ==
    ASSUME OneRequest, SerialInv, TypeOK', NEW p \in Request,
           CreateWorkspace(p) \/ CreateOwner(p)
    PROVE  SerialInv'
<1>0. TypeOK /\ role \in [Workspace -> [User -> Role \cup {"none"}]]
  BY DEF SerialInv, TypeOK
<1>1. CASE CreateWorkspace(p)
  <2>1. PICK w \in Workspace \ workspaces, u \in accounts :
           Begin(p, "CreateWorkspace", "owner", u, w, NoToken)
    BY <1>1 DEF CreateWorkspace
  <2>2. role' = role /\ invite' = invite /\ workspaces \subseteq workspaces'
    BY <1>1 DEF CreateWorkspace
  <2>3. req'[p].op = "CreateWorkspace" /\ req'[p].ws = w
    BY <1>0, <2>1, BeginRecord
  <2>4. \A v \in User : role[w][v] = "none"
    BY <2>1 DEF SerialInv
  <2>5. (StillSo(req[p]))'
    BY <2>2, <2>3, <2>4 DEF StillSo
  <2>6. \A v \in Workspace : (Owned(v))'
    BY <2>2 DEF SerialInv, Owned
  <2>7. \A v \in Workspace, z \in User : role'[v][z] # "none" => v \in workspaces'
    BY <2>2 DEF SerialInv
  <2> QED
    BY <2>5, <2>6, <2>7, SerialKept
<1>2. CASE CreateOwner(p)
  <2> DEFINE w == req[p].ws
             u == req[p].actor
  <2>1. /\ req[p] # Idle /\ req[p].op = "CreateWorkspace" /\ req[p].at = "owner"
        /\ workspaces' = workspaces /\ invite' = invite
        /\ w \in Workspace /\ u \in User
    BY <1>0, <1>2, RequestTypes DEF CreateOwner, At, InProgress
  <2>2. \A v \in User : role[w][v] = "none"
    BY <2>1 DEF SerialInv, StillSo
  <2>3. PICK stage \in {"board", "undo"} : Goto(p, stage)
    BY <1>2 DEF CreateOwner
  <2>4. (StillSo(req[p]))'
    BY <1>0, <2>1, <2>3, GotoRecord DEF StillSo
  <2>5. CASE role' = role
    BY <2>1, <2>4, <2>5, ReadingKeeps
  <2>6. CASE Insertable(w, u) /\ role' = [role EXCEPT ![w][u] = "owner"]
    <3>1. /\ w \in workspaces
          /\ \A v \in Workspace \ {w} : role'[v] = role[v]
          /\ role'[w][u] = "owner" /\ \A z \in User \ {u} : role'[w][z] = "none"
      BY <1>0, <2>1, <2>2, <2>6 DEF Insertable
    <3>2. ASSUME NEW v \in Workspace PROVE (Owned(v))'
      <4>1. CASE v = w
        BY <2>1, <3>1, <4>1 DEF Owned
      <4>2. CASE v # w
        BY <2>1, <3>1, <4>2 DEF SerialInv, Owned
      <4> QED
        BY <4>1, <4>2
    <3>3. \A v \in Workspace, z \in User : role'[v][z] # "none" => v \in workspaces'
      BY <2>1, <3>1 DEF SerialInv
    <3> QED
      BY <2>4, <3>2, <3>3, SerialKept
  <2> QED
    BY <1>2, <2>5, <2>6 DEF CreateOwner, InsertMember
<1> QED
  BY <1>1, <1>2

\* Steps that write the invite columns.
LEMMA SerialInvites ==
    ASSUME OneRequest, SerialInv, TypeOK', NEW p \in Request,
           \/ UpdateWorkspace(p) \/ GenerateInvite(p) \/ DisableInvite(p)
           \/ ClearExpired(p) \/ ClaimInvite(p)
    PROVE  SerialInv'
<1>0. /\ TypeOK /\ role \in [Workspace -> [User -> Role \cup {"none"}]]
      /\ invite \in [Workspace -> [token: Token \cup {NoToken}, expires: {"none", "later", "past"}]]
  BY DEF SerialInv, TypeOK
<1> DEFINE w == req[p].ws
           u == req[p].actor
<1>1. req[p] # Idle /\ workspaces' = workspaces /\ Finish(p)
  BY DEF UpdateWorkspace, GenerateInvite, DisableInvite, ClearExpired, ClaimInvite, At, db
<1>2. w \in Workspace /\ u \in User
  BY <1>0, <1>1, RequestTypes DEF InProgress
<1>3. StillSo(req[p])
  BY <1>1 DEF SerialInv
<1>4. ASSUME role' = role,
             \A v \in Workspace : invite'[v].token # NoToken =>
                invite[v].token # NoToken \/ \E z \in User : role[v][z] # "none"
      PROVE  SerialInv'
  <2>1. \A v \in Workspace : (Owned(v))'
    BY <1>4 DEF SerialInv, Owned
  <2> QED
    BY <1>1, <1>4, <2>1, SerialEnds DEF SerialInv
<1>5. CASE UpdateWorkspace(p)
  <2>1. role' = role /\ req[p].token = invite[w].token
    BY <1>3, <1>5 DEF UpdateWorkspace, At, StillSo, db
  <2>2. \A v \in Workspace : invite'[v].token = invite[v].token
    BY <1>0, <1>2, <1>5, <2>1 DEF UpdateWorkspace
  <2> QED
    BY <1>4, <2>1, <2>2
<1>6. CASE GenerateInvite(p)
  <2>1. role' = role /\ role[w][u] # "none"
    BY <1>3, <1>6 DEF GenerateInvite, At, StillSo, db
  <2>2. \A v \in Workspace : v # w => invite'[v] = invite[v]
    BY <1>0, <1>2, <1>6 DEF GenerateInvite, UpdateInvite
  <2> QED
    BY <1>2, <1>4, <2>1, <2>2
<1>7. CASE DisableInvite(p) \/ ClearExpired(p)
  <2>1. role' = role /\ invite' = UpdateInvite(w, NoToken, "none")
    BY <1>7 DEF DisableInvite, ClearExpired, db
  <2>2. \A v \in Workspace : invite'[v] = invite[v] \/ invite'[v].token = NoToken
    BY <1>0, <1>2, <2>1 DEF UpdateInvite
  <2> QED
    BY <1>4, <2>1, <2>2
<1>8. CASE ClaimInvite(p)
  <2>1. CASE role' = role /\ invite' = invite
    BY <1>4, <2>1
  <2>2. CASE /\ Claimable(w, req[p].token)
             /\ invite' = [invite EXCEPT ![w] = NoInvite]
             /\ role' = InsertMember(w, u, "member")
    <3>1. w \in workspaces /\ invite[w].token # NoToken
      BY <2>2 DEF Claimable
    <3>2. /\ \A v \in Workspace : v # w => role'[v] = role[v] /\ invite'[v] = invite[v]
          /\ \A z \in User : role'[w][z] = "owner" <=> role[w][z] = "owner"
      BY <1>0, <1>2, <2>2 DEF InsertMember, Insertable
    <3>3. ASSUME NEW v \in Workspace PROVE (Owned(v))'
      <4>1. \A z \in User : role'[v][z] = "owner" <=> role[v][z] = "owner"
        BY <3>2
      <4>2. v # w => role'[v] = role[v] /\ invite'[v] = invite[v]
        BY <3>2
      <4> QED
        BY <3>1, <4>1, <4>2, OwnersStay DEF SerialInv
    <3>4. \A v \in Workspace, z \in User : role'[v][z] # "none" => v \in workspaces
      BY <3>1, <3>2 DEF SerialInv
    <3> QED
      BY <1>1, <3>3, <3>4, SerialEnds
  <2> QED
    BY <1>8, <2>1, <2>2 DEF ClaimInvite
<1> QED
  BY <1>5, <1>6, <1>7, <1>8

\* Time passes, or the server stops.
LEMMA SerialOutside ==
    ASSUME OneRequest, SerialInv, TypeOK',
           (\E w \in Workspace : InviteExpires(w)) \/ Crash \/ UNCHANGED vars
    PROVE  SerialInv'
<1>1. CASE \E w \in Workspace : InviteExpires(w)
  <2>1. PICK w \in Workspace : InviteExpires(w)
    BY <1>1
  <2>2. workspaces' = workspaces /\ role' = role /\ req' = req
    BY <2>1 DEF InviteExpires, db
  <2>3. \A v \in Workspace : /\ invite'[v].token = invite[v].token
                             /\ invite'[v].expires = "later" => invite[v].expires = "later"
    BY <2>1 DEF InviteExpires, SerialInv, TypeOK
  <2>4. \A v \in Workspace : (Owned(v))'
    BY <2>2, <2>3 DEF SerialInv, Owned
  <2>5. ASSUME NEW p \in Request, req[p] # Idle PROVE (StillSo(req[p]))'
    <3>1. req[p].ws \in Workspace
      BY <2>5, RequestTypes DEF SerialInv, InProgress
    <3> QED
      BY <2>2, <2>3, <2>5, <3>1 DEF SerialInv, StillSo
  <2> QED
    BY <2>2, <2>4, <2>5 DEF SerialInv
<1>2. CASE Crash
  <2>1. UNCHANGED <<workspaces, role, invite>> /\ \A p \in Request : req'[p] = Idle
    BY <1>2 DEF Crash, db
  <2>2. \A v \in Workspace : (Owned(v))'
    BY <2>1 DEF SerialInv, Owned
  <2> QED
    BY <2>1, <2>2 DEF SerialInv
<1>3. CASE UNCHANGED vars
  <2>1. UNCHANGED <<workspaces, role, invite, req>>
    BY <1>3 DEF vars, db
  <2>2. \A v \in Workspace : (Owned(v))'
    BY <2>1 DEF SerialInv, Owned
  <2>3. ASSUME NEW p \in Request, req[p] # Idle PROVE (StillSo(req[p]))'
    BY <2>1, <2>3 DEF SerialInv, StillSo
  <2> QED
    BY <2>1, <2>2, <2>3 DEF SerialInv
<1> QED
  BY <1>1, <1>2, <1>3

\* DeleteUser: each workspace of the account has its new owner before its rows go.
LEMMA SerialDeletesUser ==
    ASSUME OneRequest, SerialInv, TypeOK', NEW p \in Request,
           TransferToSuccessor(p) \/ DeleteMemberships(p) \/ DeleteAccount(p)
    PROVE  SerialInv'
<1>0. TypeOK /\ role \in [Workspace -> [User -> Role \cup {"none"}]]
  BY DEF SerialInv, TypeOK
<1> DEFINE r == req[p]
<1>1. req[p] # Idle /\ r.op = "DeleteUser" /\ workspaces' = workspaces /\ invite' = invite
  BY DEF TransferToSuccessor, DeleteMemberships, DeleteAccount, At
<1>2. r \in InProgress /\ r.ws \in Workspace /\ r.actor \in User /\ r.target \in User
  BY <1>0, <1>1, RequestTypes DEF InProgress
<1>3. StillSo(r)
  BY <1>1 DEF SerialInv
<1>4. CASE TransferToSuccessor(p)
  <2>1. /\ r.ws \in r.todo /\ r.target # r.actor
        /\ \A w \in Workspace : w \in r.todo <=> role[w][r.actor] = "owner"
    BY <1>1, <1>3, <1>4 DEF TransferToSuccessor, At, StillSo
  <2>2. role[r.ws][r.actor] = "owner" /\ r.ws \in workspaces
    BY <1>2, <2>1 DEF SerialInv
  <2>3. \A v \in User : role[r.ws][v] = "owner" => v = r.actor
    BY <1>2, <2>2 DEF SerialInv, Owned
  <2>4. CASE TransferRows(r.ws, r.actor, r.target)
    <3>1. /\ role' = [role EXCEPT ![r.ws] = [role[r.ws] EXCEPT ![r.actor] = "editor",
                                                               ![r.target] = "owner"]]
          /\ req'[p] = [r EXCEPT !.at = "reassign", !.todo = @ \ {r.ws}]
      BY <1>0, <1>4, <2>4 DEF TransferToSuccessor, TransferOwnership, Become, TypeOK
    <3>2. /\ \A w \in Workspace \ {r.ws}, v \in User : role'[w][v] = role[w][v]
          /\ role'[r.ws][r.target] = "owner"
          /\ \A v \in User \ {r.target} : role'[r.ws][v] # "owner"
      BY <1>0, <1>2, <2>1, <2>3, <3>1
    <3>3. /\ req'[p].op = "DeleteUser" /\ req'[p].at = "reassign"
          /\ req'[p].actor = r.actor /\ req'[p].todo = r.todo \ {r.ws}
      BY <1>1, <1>2, <3>1 DEF InProgress
    <3>4. \A w \in Workspace : w \in r.todo \ {r.ws} <=> role'[w][r.actor] = "owner"
      BY <1>2, <2>1, <3>2
    <3>5. (StillSo(req[p]))'
      BY <3>3, <3>4 DEF StillSo
    <3>6. ASSUME NEW w \in Workspace PROVE (Owned(w))'
      <4>1. CASE w = r.ws
        BY <1>2, <3>2, <4>1 DEF Owned
      <4>2. CASE w # r.ws
        BY <1>1, <3>2, <4>2, OwnersStay DEF SerialInv
      <4> QED
        BY <4>1, <4>2
    <3>7. \A w \in Workspace, v \in User : role'[w][v] # "none" => w \in workspaces'
      BY <1>1, <2>2, <3>2 DEF SerialInv
    <3> QED
      BY <3>5, <3>6, <3>7, SerialKept
  <2>5. CASE ~TransferRows(r.ws, r.actor, r.target)
    <3>1. role' = role /\ Finish(p)
      BY <1>4, <2>5 DEF TransferToSuccessor, TransferOwnership
    <3> QED
      BY <1>0, <1>1, <3>1, FinishRecord, ReadingKeeps
  <2> QED
    BY <2>4, <2>5
<1>5. ASSUME role' = DeleteMembersByUser(r.actor),
             \A w \in Workspace : role[w][r.actor] # "owner"
      PROVE  /\ \A w \in Workspace : (Owned(w))'
             /\ \A w \in Workspace : role'[w][r.actor] = "none"
             /\ \A w \in Workspace, v \in User : role'[w][v] # "none" => w \in workspaces'
  <2>1. \A w \in Workspace : /\ role'[w][r.actor] = "none"
                             /\ \A v \in User \ {r.actor} : role'[w][v] = role[w][v]
    BY <1>0, <1>2, <1>5 DEF DeleteMembersByUser
  <2>2. ASSUME NEW w \in Workspace PROVE (Owned(w))'
    <3>1. \A v \in User : role'[w][v] = "owner" <=> role[w][v] = "owner"
      BY <1>2, <1>5, <2>1
    <3>2. \A v \in User : role'[w][v] # "none" => role[w][v] # "none"
      BY <2>1
    <3> QED
      BY <1>1, <3>1, <3>2, OwnersStay DEF SerialInv
  <2>3. \A w \in Workspace, v \in User : role'[w][v] # "none" => w \in workspaces'
    BY <1>1, <2>1 DEF SerialInv
  <2> QED
    BY <2>1, <2>2, <2>3
<1>6. CASE DeleteMemberships(p)
  <2>1. \A w \in Workspace : role[w][r.actor] # "owner"
    BY <1>3, <1>6 DEF DeleteMemberships, At, StillSo
  <2>2. role' = DeleteMembersByUser(r.actor) /\ Goto(p, "account")
    BY <1>6 DEF DeleteMemberships
  <2>3. req'[p].op = "DeleteUser" /\ req'[p].at = "account" /\ req'[p].actor = r.actor
    BY <1>0, <1>1, <2>2, GotoRecord
  <2>4. (StillSo(req[p]))'
    BY <1>5, <2>1, <2>2, <2>3 DEF StillSo
  <2> QED
    BY <1>5, <2>1, <2>2, <2>4, SerialKept
<1>7. CASE DeleteAccount(p)
  <2>1. \A w \in Workspace : role[w][r.actor] # "owner"
    BY <1>3, <1>7 DEF DeleteAccount, At, StillSo
  <2>2. role' = DeleteMembersByUser(r.actor) /\ req'[p] = Idle
    BY <1>0, <1>7, FinishRecord DEF DeleteAccount
  <2> QED
    BY <1>5, <2>1, <2>2, SerialKept
<1> QED
  BY <1>4, <1>6, <1>7

LEMMA SerialStep ==
    ASSUME OneRequest, SerialInv, [Next]_vars
    PROVE  SerialInv'
<1>0. TypeOK'
  BY TypeStep DEF SerialInv
<1>1. ASSUME NEW p \in Request, MemberStep(p) PROVE SerialInv'
  BY <1>0, <1>1, SerialReads, SerialGoesOn, SerialMembers DEF MemberStep
<1>2. ASSUME NEW p \in Request, WorkspaceStep(p) PROVE SerialInv'
  BY <1>0, <1>2, SerialReads, SerialGoesOn, SerialCreates, SerialDrops, SerialInvites DEF WorkspaceStep
<1>3. ASSUME NEW p \in Request, InviteStep(p) PROVE SerialInv'
  BY <1>0, <1>3, SerialReads, SerialInvites DEF InviteStep
<1>4. ASSUME NEW p \in Request, DeleteUserStep(p) PROVE SerialInv'
  BY <1>0, <1>4, SerialReads, SerialGoesOn, SerialDeletesUser DEF DeleteUserStep
<1>5. ASSUME NEW p \in Request, StatementFails(p) PROVE SerialInv'
  BY <1>0, <1>5, SerialReads
<1> QED
  BY <1>0, <1>1, <1>2, <1>3, <1>4, <1>5, SerialOutside DEF Next

LEMMA SerialInvariant == OneRequest => (Spec => []SerialInv)
<1> SUFFICES ASSUME OneRequest PROVE Spec => []SerialInv
  OBVIOUS
<1>1. Init => SerialInv
  <2>1. Init => TypeOK
    BY DEF Init, TypeOK, NoInvite
  <2> QED
    BY <2>1 DEF Init, NoInvite, SerialInv, Owned
<1> QED
  BY <1>1, SerialStep, PTL DEF Spec

\* With one request at a time a workspace that has members has an owner, and not
\* two, whatever the operations are and wherever a failure or a crash of the server
\* cuts them short: what goes wrong with several at a time is the interleaving.
THEOREM OwnersOneAtATime ==
    ASSUME OneRequest
    PROVE  Spec => [](HasOwner /\ AtMostOneOwner)
<1>1. SerialInv => HasOwner /\ AtMostOneOwner
  <2> SUFFICES ASSUME SerialInv PROVE HasOwner /\ AtMostOneOwner
    OBVIOUS
  <2>1. workspaces \subseteq Workspace
    BY DEF SerialInv, TypeOK
  <2> QED
    BY <2>1 DEF SerialInv, Owned, HasOwner, AtMostOneOwner, Members, Owners
<1> QED
  BY <1>1, SerialInvariant, PTL

\* With one request at a time, an invite that has not expired leaves the row of its
\* workspace by admitting a user or by DisableInvite: what JoinByInvite erases has
\* expired, and Update writes back the token it finds.
THEOREM OnlyExpiredCleared ==
    ASSUME OneRequest
    PROVE  Spec => OnlyExpiredAreCleared
<1> DEFINE Cleared(w) == /\ invite[w].token # NoToken /\ invite[w].expires = "later"
                         /\ w \in workspaces' /\ invite'[w].token = NoToken
           Reason(w) == \/ invite[w].token \in {t \in Token : admitted'[t] # {}}
                        \/ \E p \in Request : At(p, "DisableInvite", "write")
<1>1. SerialInv /\ [Next]_vars => [\A w \in workspaces : Cleared(w) => Reason(w)]_vars
  <2> SUFFICES ASSUME SerialInv, Next, NEW w \in workspaces, Cleared(w) PROVE Reason(w)
    OBVIOUS
  <2>0. /\ TypeOK /\ w \in Workspace
        /\ invite \in [Workspace -> [token: Token \cup {NoToken}, expires: {"none", "later", "past"}]]
        /\ role \in [Workspace -> [User -> Role \cup {"none"}]]
        /\ admitted \in [Token -> SUBSET User]
    BY DEF SerialInv, TypeOK
  <2>1. invite'[w] # invite[w]
    BY <2>0
  <2>2. ~ \E v \in Workspace : InviteExpires(v)
    BY <2>0 DEF InviteExpires
  <2>3. ~ Crash
    BY <2>1 DEF Crash
  <2>4. PICK p \in Request :
           \/ CreateWorkspace(p) \/ UndoCreate(p) \/ DeleteWorkspace(p) \/ UpdateWorkspace(p)
           \/ GenerateInvite(p) \/ DisableInvite(p) \/ ClearExpired(p) \/ ClaimInvite(p)
           \/ invite' = invite
    BY <2>2, <2>3
       DEF Next, MemberStep, WorkspaceStep, InviteStep, DeleteUserStep, StatementFails,
           AuthorizeOwner, AuthorizeEditor, FindTarget, AddMember, UpdateRole, RemoveMember,
           TransferOwner, CreateOwner, CreateBoard, LoadWorkspace, FindInvite, CountMember,
           FindAccount, ListOwned, PickSuccessor, TransferToSuccessor, DeleteMemberships,
           DeleteAccount
  <2>5. /\ req[p] # Idle => StillSo(req[p])
        /\ \/ req[p] # Idle /\ req[p].ws \in Workspace /\ req[p].actor \in User
           \/ CreateWorkspace(p)
           \/ invite' = invite
    <3>1. req[p] # Idle => req[p].ws \in Workspace /\ req[p].actor \in User
      BY <2>0, RequestTypes DEF InProgress
    <3> QED
      BY <2>4, <3>1 DEF SerialInv, UndoCreate, DeleteWorkspace, UpdateWorkspace, GenerateInvite,
                        DisableInvite, ClearExpired, ClaimInvite, At
  <2>6. CASE CreateWorkspace(p) \/ invite' = invite
    BY <2>1, <2>6 DEF CreateWorkspace
  <2>7. CASE req[p] # Idle /\ req[p].ws \in Workspace /\ req[p].actor \in User
    <3>1. CASE DropWorkspace(req[p].ws)
      BY <2>0, <2>1, <2>7, <3>1 DEF DropWorkspace
    <3>2. CASE UpdateWorkspace(p)
      <4>1. req[p].token = invite[req[p].ws].token
        BY <2>5, <2>7, <3>2 DEF UpdateWorkspace, At, StillSo
      <4> QED
        BY <2>0, <2>7, <3>2, <4>1 DEF UpdateWorkspace
    <3>3. CASE GenerateInvite(p)
      BY <2>0, <2>7, <3>3, TokenAssumption DEF GenerateInvite, UpdateInvite
    <3>4. CASE DisableInvite(p)
      BY <3>4 DEF DisableInvite
    <3>5. CASE ClearExpired(p)
      <4>1. invite[req[p].ws].expires # "later"
        BY <2>5, <2>7, <3>5 DEF ClearExpired, At, StillSo
      <4> QED
        BY <2>0, <2>1, <2>7, <3>5, <4>1 DEF ClearExpired, UpdateInvite
    <3>6. CASE ClaimInvite(p)
      <4>1. role[req[p].ws][req[p].actor] = "none"
        BY <2>5, <2>7, <3>6 DEF ClaimInvite, At, StillSo
      <4>2. /\ Claimable(req[p].ws, req[p].token)
            /\ invite' = [invite EXCEPT ![req[p].ws] = NoInvite]
            /\ admitted' = [admitted EXCEPT ![req[p].token] = @ \cup {req[p].actor}]
        BY <2>1, <3>6, <4>1 DEF ClaimInvite
      <4>3. w = req[p].ws /\ invite[w].token = req[p].token
        BY <2>0, <2>1, <2>7, <4>2 DEF Claimable
      <4>4. invite[w].token \in Token
        BY <2>0
      <4> QED
        BY <2>0, <4>2, <4>3, <4>4
    <3> QED
      BY <2>1, <2>4, <2>7, <3>1, <3>2, <3>3, <3>4, <3>5, <3>6, <2>6
         DEF UndoCreate, DeleteWorkspace
  <2> QED
    BY <2>5, <2>6, <2>7
<1> QED
  BY <1>1, SerialInvariant, PTL DEF Spec, OnlyExpiredAreCleared
=============================================================================
