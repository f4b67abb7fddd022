---------------------------- MODULE MCMembership ----------------------------
(* Small instances of Membership.  Ids are interchangeable, hence symmetry. *)
EXTENDS Membership, TLC

\* Every operation but the one that writes invite_token back.
OpsWithoutUpdate == OpNames \ {"UpdateWorkspace"}

\* The operations the violations need.
OpsTransferRemove == {"CreateWorkspace", "AddMember", "TransferOwner", "RemoveMember"}
OpsInvite == {"CreateWorkspace", "GenerateInvite", "UpdateWorkspace", "JoinByInvite"}

Symmetry ==
    Permutations(Workspace) \cup Permutations(User)
        \cup Permutations(Token) \cup Permutations(Request)
=============================================================================
