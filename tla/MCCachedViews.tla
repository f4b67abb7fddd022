---------------------------- MODULE MCCachedViews ---------------------------
(* VersionedCache on the tables of CachedViews. *)
EXTENDS VersionedCache, CachedViews, TLC

Views == DOMAIN ViewTable
Handlers == DOMAIN HandlerTable

\* The pairs that are not covered: BoardDetail reads the board too early,
\* DeleteWorkspace bumps the members' versions before the delete and not after
\* it, and DeleteUser bumps no workspace the account has left.
Uncovered == {<<"ChangeBoard", "BoardDetail">>, <<"DeleteWorkspace", "WorkspaceList">>,
              <<"DeleteFormerMember", "AttachmentList">>}

\* Every other pair is.
ASSUME TablesCovered ==
    \A o \in Handlers, v \in Views : <<o, v>> \notin Uncovered =>
        \A f \in HandlerWrites[o] \cap ViewFacts[v] :
            HandlerLate[o] \cap ViewBefore[v][f] # {}

\* A run takes a few of the facts, with the views that show them and the
\* handlers that write them.
FewFacts == {"row", "tasks"}
FewViews == {"TreeBrick"}
FewHandlers == {"UpdateWorkspace", "DeleteWorkspace"}

ShownFacts == [v \in Views |-> ViewFacts[v] \cap Fact]
WrittenFacts == [o \in Handlers |-> HandlerWrites[o] \cap Fact]

Symmetry == Permutations(Reader) \cup Permutations(Writer)
=============================================================================
