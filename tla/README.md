# Verification of the tandem backend

Tandem is a Go service for workspaces, boards and tasks. It keeps its rows in PostgreSQL, versions and cached
views and sessions in Redis, and files in MinIO; clients call it over HTTP and receive events over WebSockets. One
goroutine serves each request, and several instances of the service may share the stores. This directory holds TLA+
models of the parts whose correctness depends on the order in which such goroutines run, the TLC configurations that
check them, and proofs for TLAPS.

`PROJECT.json` lists components, runs, findings, hazards and theorems, and gives for every definition the lines of
source it stands for.

## Inventory

| Component | State | Operations | What makes it correct |
|---|---|---|---|
| Membership, ownership, invites (`usecase/workspace`, `usecase/admin/features/roles`, `repository/workspace`) | tables `workspaces` (with the invite columns), `workspace_members`, `users` | create, update, delete a workspace; add, change, remove members; transfer ownership; generate, disable, use an invite; delete an account | a workspace with members has exactly one owner; an invite admits one person, expires, and never works again after that; no row refers to one that is gone |
| Versioned cache and cached views (`usecase/shared/cache`, `shared/base`, every `List` and `Get`) | version counters and entries in Redis | read versions, load, read rows, store; write rows, bump versions | an answer shows every write acknowledged before it was asked for |
| WebSocket hub (`infrastructure/ws`, `http/handler/ws`, `App.Close`) | clients, rooms, a queue and two goroutines per connection, a wait group | register, join, leave, broadcast, disconnect, close, wait | limits hold; rooms hold live connections; goroutines end; shutdown is neither early nor held up |
| Tokens and sessions (`infrastructure/token`, `usecase/auth`) | a version per user and an entry per refresh token in Redis, versions remembered in process | login, parse, refresh, logout, change of password | a revoked token stays revoked; a refresh token is used once; an old password lets nobody in |
| Accounts and profiles (`usecase/profile`, `usecase/admin`, `repository/user`) | table `users` | create, delete, change role, password, profile, avatar | an update changes what it is about and nothing else |
| Boards and columns (`usecase/board`, `repository/board`, `repository/column`) | tables `boards`, `columns` | create, rename, delete, reorder, set the main board | one main board per workspace, which is not deleted; a new board comes last and complete; only a new order moves boards |
| Favorites (`usecase/favorite`) | table `favorites` | add, remove | a favorite is of something that is there |
| Order of tasks (`usecase/task`, `repository/task`) | columns `column_id`, `position` of `tasks` | create, move, update, delete | positions in a column are distinct; an edit does not move a task |
| Parents of tasks (`usecase/task/features/mutate`) | column `parent_id` | set a parent, delete | no cycles; no task without its parent |
| Files and attachments (`usecase/file`, `usecase/attachment`, `infrastructure/minio`) | rows with keys, objects in MinIO | upload, replace, delete, remove with the task or board | a row has its object, an object has its row |
| Rate limiter (`infrastructure/ratelimit`) | a window per client in Redis and in process | allow, forget | no more than the limit in a window, and no refusal below it |
| Start-up, migrations (`app`, `pkg/migrations`) | table `schema_migrations` | run | each migration is applied once |
| HTTP layer, configuration, validation, thin clients, test doubles | none that outlives a request | decode, map, validate | pure functions; left to tests |

How they interact. A handler of any use case reads and writes PostgreSQL through a repository, mostly one statement at
a time, then bumps versions in Redis, then broadcasts an event through the hub. Views are read through the cache. The
hub asks the workspace repository whether a user may join a room. Deleting an account touches memberships, boards,
tasks and files. `App.Close` stops the hub before Redis and the database.

What is hard. Handlers are concurrent and seldom one transaction: they authorize, check and write in separate
statements, and several write back whole rows as they read them. Any statement may fail, the server may stop between
two of them, and nothing is repeated on restart. Cache entries are built while others write. Connections come, join
and go while the hub is closing. `PROJECT.json` lists each of these hazards at the line where it bites, with the
property that watches it or the reason why there is none.

## Modules

| Module | What it models |
|---|---|
| `Membership` | the statements of the workspace use cases and of account deletion |
| `MCMembership` | instances: which operations a run allows |
| `MembershipProofs` | theorems about `Membership` |
| `FreshViews` | the promise of the cached views, without a cache |
| `VersionedCache` | the cache protocol, for any table of views and handlers |
| `CachedViews` | the tables of this service |
| `MCCachedViews` | both together, and what a run takes of the tables |
| `VersionedCacheProofs` | theorems about `VersionedCache`, and that it implements `FreshViews` |
| `WsHub` | the hub, its connections and shutdown |
| `MCWsHub` | its instance |
| `WsHubProofs` | theorems about `WsHub` |
| `TaskBoard` | what the task operations promise: a list of tasks per column, and trees |
| `Tasks` | the statements of the task use cases: places and parents |
| `MCTasks` | instances: which operations a run lets overlap |
| `TasksProofs` | theorems about `Tasks`, which implements `TaskBoard` |
| `Tokens` | `JWTManager`: what Redis and each server keep about tokens, and its commands |
| `Sessions` | logins, refreshes, logouts, changes of password and profile, made of those commands |
| `MCSessions` | its instance |
| `SessionsProofs` | theorems about `Sessions` and the commands of `Tokens` |
| `BoardList` | what the board operations promise: a list with a main board |
| `Boards` | the statements of the board and favorite use cases |
| `MCBoards` | its instance |
| `BoardsProofs` | theorems about `Boards`, which implements `BoardList` |
| `Files` | the commands of MinIO and the database that make and remove files |
| `MCFiles` | its instance |
| `FilesProofs` | theorems about `Files` |
| `RateLimiter` | the two sliding windows |
| `MCRateLimiter` | its instance |
| `RateLimiterProofs` | theorems about `RateLimiter` |

Definitions commented as bugs are no part of any specification. Each is a variant of the definition that follows it,
with a mistake somebody could make there; put in its place it breaks a property, which shows the property can break.

### Membership

The variables are the tables (`accounts`, `workspaces`, `role`, `invite`), a history of who used which token
(`admitted`) and the requests in progress (`req`). A request is a record with the operation, its stage and the
local variables of the handler that a later step uses; one action is one SQL statement or transaction, under
PostgreSQL's Read Committed. `AuthorizeOwner` and `FindTarget` are the reads at the head of a handler, the action named
like the operation is its write. `StatementFails` lets any statement fail and runs the one compensation the code has
(`Create` deletes the workspace again); `Crash` forgets every request. Time is reduced to `InviteExpires`.

Abstracted: names, themes, boards (a step of `Create` that may fail), the age of memberships (`pickSuccessor` may
pick any other member), bumps and events. `User` holds the accounts that staff may delete; the checks on the role of
the account itself are left out.

### Versioned cache

A fact is what a handler writes as a whole and a view reads at once; its value is the number of writes made to it. A
view has the versions in its key (`KeysOf`), the facts it shows (`FactsOf`), and for each fact the versions read before
it (`Before`); a handler has the facts it writes and the versions it bumps before and after. A reader goes through
`Ask`, `ReadVersion` and `ReadFact` in any order the table allows, `LoadHit` or `LoadMiss`, `ReadFact`, `Store` and
`Leave`; a writer through `Begin`, `BumpEarly`, `Commit` per fact, `BumpLate` per version, `Complete`, or
`Abort` anywhere, which is also what a crash does. Writes of an aborted handler are never counted as acknowledged.

`CachedViews` is read off the handlers, for one viewer and one workspace. The condition `Covered` says that each
handler bumps, after writing, a version each view showing the fact had read before reading it. `MCCachedViews`
checks the tables against it in an assumption TLC evaluates: it holds for all pairs of handler and view but three,
which are named there. `Get` of a board reads the row before the versions (boards.go:121): with a rename and its bump in
between the old name is stored under the new version, where readers find it for a minute. `DeleteWorkspace` bumps the members while there still are some, so
before the delete; deleting an account bumps the workspaces it belongs to and not those it has left, where its tasks and
attachments change too.

Assumed: reading and incrementing a version succeeds (the code takes a failed read for version 0 and ignores a failed
increment), and no version is reset (their keys live for seven days and are renewed, entries live for a minute).

### WebSocket hub

The variables are the fields of `Hub` (`clients`, `rooms`, `closed`, `wg`), those of each `Client` (`done`, `queue`,
`own` for `Client.rooms`), where its `readPump` is (`pump`) and whether its `writePump` runs (`writers`). What a
method does under the mutex is a step. A broadcast takes a snapshot and then sends to one receiver per step (`todo`), so
that connections break and close in between; a `readPump` that announces presence does the same (`agenda`). `Send` is
Go's `select`: with room in the queue of a closed connection either branch may be taken. `ReadFails` stands for every
reason a read fails, the throttle included, `WriterStops` for every reason a write does.

Messages are counted, not told apart. A join that is refused covers a refusing and a failing database. `Hub.JoinRoom` with
`Client.AddRoom`, and `LeaveRoom` with `RemoveRoom`, are one step: nobody but the connection's own `readPump` reads
`Client.rooms`.

### Tasks

The variables are the table (`row`), the ids used and the requests in progress (`req`). `UpdateTask` and
`DeleteTask` are single statements. A creation and a move are transactions that start with statements that lock rows;
such a statement chooses its rows by a snapshot, waits for their locks and then sees their newest versions, so each is two
steps: `LockColumn` and `InsertTask`, `SelectRows` and `MoveTask`. `Walk` is one round of the loop of `ValidateParent`.
The lists the code builds in a move are not built here: the place of a task is the number of those above it (`Rank`),
plus one beyond the place asked for (`PlaceAround`).

`TaskBoard` is the abstract specification, with sequences instead of positions; `List` is the mapping, sorted as
`ListTasksForColumn` sorts. `NoCycles` says that every set of tasks has one whose parent is outside of it, which is the
same as that no task is its own ancestor and needs no recursion.

Abstracted: titles, dates, people and images; boards (a move to another board is one to a column); workspaces (all tasks
are in one). What an update reads is one row, so its other fields would go the way of its column.

### Sessions

`Tokens` holds the state of `JWTManager`: per account a `version` with the time its key is kept (no key means version 1),
the unused `refresh` tokens with theirs, and for every server the version it saw last (`mem`). Its operators are the
commands: `Answered` is a read that Redis answers and that renews the key, `Recalled` one it does not answer and memory
does; `FirstVersion` and `NextVersion` are the `SET` and the `INCR` at the end of `Revoke`; `TakeHandle` is the `GETDEL`.
`Sessions` has the rows of accounts and the requests; an action is one command or one statement, so `Login` goes through
`Generate`, `GenerateRefresh` and `Answer`, and `ChangePassword` through `FindByID`, `Update`, `Revoke`, `RevokeVersion`
and then the same three. What a server remembers is written after the command, in the next step (`Note`), because two
requests may do so in either order. `RequestFails` ends a request anywhere, `Restart` stops a server with its memory and
its requests, `Tick` lets time pass and keys and tokens expire. History: `revoked`, `retired`, `taken`.

A token carries the password of the login it stems from, through refreshes. One that a server took without asking Redis
and whose version was out of date is marked `blind`: for as long as Redis is down, the code lets it in, and a pair made from
it is good afterwards.

Abstracted: signatures, claims, the bcrypt hash (a password is a number), other fields of the row (`Details`). Time moves
only between requests and in steps longer than the ten minutes a memory is good for.

### Boards

The variables are the boards of one workspace (`row`), how many columns each has (`columns`), the favorites and the
requests. `Find` is the read at the head of an update, a deletion or a choice of the main board; the action named like the
repository method is the write. `CreateBoardNext` is a transaction that locks the workspace, so `LockWorkspace` waits for
another's `CreateBoard` and for nothing else; `CreateColumn` follows once per column, `UndoCreate` deletes the board
when one fails. `left` holds boards whose creation stopped where nothing takes it back. `BoardList` is the abstract
specification; the mapping sorts boards by position and age, as `ListBoards` does.

Abstracted: names, colours, columns but for their number, other workspaces. A favorite of a workspace is not modelled.

### Files

The variables are the rows that hold keys (`task`, `avatar`, `file`), the objects (`stored`) and the requests. An action is
one command of MinIO or of the database: `CreateAttachment`, `PutAttachment`, `PutFails` and `UndoAttach` for an upload,
`Delete`, `CollectKeys`, `DeleteRows` and then `Remove` per object for the deletion of a task with its children, a board or
a workspace (`Scope`). A failed `PutAttachment` may have stored the object; a failed `Remove` is only logged. `lost`,
`spoiled` and `loose` say which keys the properties do not speak of, and why: a step failed, an owner deleted an image in
use or used it twice, an upload has not been given to a row. All three are read off the actions, none is guessed.

Abstracted: contents, sizes and types, and titles and positions of the rows. Keys that clients make up behave as ones whose
object was deleted.

### Rate limiter

The variables are the sorted set in Redis (`entries`, with `expires`), the window of every server (`mem`), its `nonce`, and
the requests. `Allow` reads the clock, `Script` is the Lua script, `ScriptFails` the script with its answer lost or the
script not run, after which `AllowByMemory` decides by a newer reading of the clock. Requests arrive out of order, at most
`Delay` after their clock was read. The log of what was counted is cut where no later decision can depend on it.

Abstracted: other clients, whose keys are apart (`Gc` is what they do to this one); the rest of the clock, which is whole
steps. `WindowAssumption` says that the window is a whole number of seconds, as `EXPIRE` needs; the configuration does not.

## Runs

| Run | Question | Bounds |
|---|---|---|
| `membership_serial` | Is every operation right by itself, with failures and crashes between its statements? | 1 request at a time, 2 workspaces, 3 users, 2 tokens, all operations |
| `membership_invites` | Are invites right under concurrency? | 2 requests, 1 workspace, 3 users, 2 tokens, all operations but `UpdateWorkspace` |
| `owner_removed` | Can a workspace lose its owner? Yes | 2 requests, 1 workspace, 3 users, 1 token, the operations it takes |
| `invite_resurrected` | Can one invite admit two? Yes | the same |
| `cached_views` | Does the cache keep its promise where versions are read in two rounds? | tree view, 2 readers, 1 writer, 2 handlers, 1 write per fact, 1 bump per version, 1 entry |
| `ws_hub` | Are the limits kept, does every goroutine end, does shutdown end? | 2 connections of one user or two, 1 room, 1 broadcasting request, queues of 1, limit 1 |
| `tasks` | Are columns what users made of them, and parents trees? | 3 tasks in all, 2 columns, 2 requests; creations overlap each other, deletes overlap anything, an update runs beside deletes only |
| `parent_cycle` | Can two updates make a circle? Yes | as above, everything overlaps |
| `sessions` | Is a refresh token used once, and does a revoked token or an old password let nobody in? | 2 servers, 1 account, 2 refresh tokens, 2 requests, versions up to 3, passwords up to 2, 2 units of time |
| `boards` | Is the list of boards what `BoardList` promises, with one main board, boards complete and favorites alive? | 3 boards of 2 columns, 1 user, 2 requests |
| `files` | Has each row its object and each object its row? | a task and its child, 1 account, 2 images, 1 attachment, 2 requests |
| `rate_limiter` | Do the limits hold in both windows, and are refusals rightful? | 2 servers, limit 2, window 3, delay 1, 4 requests, 2 at a time, 5 units of time |

Ownership under concurrency is proved (`OwnerRemains`, `OneOwnerAtMost`) and not run.

Why these bounds are enough to be of interest. A race here is between two requests at a time, hence two of them; three
users are an owner, a target and a bystander (or the successor); two tokens are an old invite and its replacement. With
one write per fact and one bump per version every order of a read, a write, a bump and a store occurs; the theorems
carry the result to any number. In `ws_hub` queues of one message are full after the first, and a limit of one refuses a
second connection of the same user (`userOf` is chosen in the initial state, so both assignments occur). Two connections
are enough for one to be closed while the other broadcasts to it. In `tasks` three tasks are one that moves and two
whose order can be told, or a chain of three parents. In `sessions` two servers are one that remembers an old version and
one that asks; two units of time are enough for a version to expire with the tokens it refuses, since they live no longer;
one password is replaced, and two refresh tokens are one and the one it is exchanged for. In `boards` three boards are the
main one and two whose order can be told; a creation fails before the first column, between the two and after. In `files`
two images are the old and the new one of a row. In `rate_limiter` one server alone reaches the limit and goes beyond it,
the other adds one that is late or has the same name.

### What the runs keep apart

`Together` names, in `tasks`, `sessions`, `boards` and `files`, the pairs of operations that may be in progress at one time
on the same object. With any pair of the table below added to it TLC finds the property violated; the code has nothing
that keeps the two apart. Except for circles of parents (`parent_cycle`) nothing in the repository says that such requests
may not meet, so the table is a limit of what holds and no list of findings.

| Pair | What goes wrong |
|---|---|
| two updates of a task, moves included (task.go:62) | the place read is written back, positions are equal: `PositionsDistinct`, `ListsKept`; parents make a circle: `NoCycles` |
| an update of a task, moves included, and a creation | positions are equal, and a list is not what its users made it: `PositionsDistinct`, `ListsKept` |
| any two of logout, change of password, deletion of the account, two deletions aside (jwt_manager.go:192) | both find no version and set version 2; tokens made in between stay good: `RevokedRefused` |
| a login or a refresh beside a change of password (jwt_manager.go:93) | a pair from the old password is made after the revocation: `OldPasswordOut` |
| an edit of the profile or role beside a change of password (user.go:109) | the old password is written back: `OldPasswordOut` |
| an update of a board beside a new order or a choice of the main board (boards.go:185) | the place and `is_main` as read are written back: `OnlyReorderMoves`, `OneMain` |
| a choice of the main board beside a deletion, or a creation that is undone | the main board is deleted: `OneMain` |
| a creation of a board beside a new order (boards.go:158) | boards deleted after the order was read: the last place is read, the new order sets a later one, and the new board does not come last: `ListKept`, with four boards |
| a favorite beside the deletion of its board, or its undone creation (crud.go:32) | a favorite of nothing: `NoDanglingFavorite` |
| two updates of a task or of an account, or one beside its deletion; the creation of an attachment beside its deletion or that of its task; a creation of a task beside its deletion | the object of one of them stays behind: `NothingLeaks` |

To keep the runs small three more kinds are left out, which break nothing when they are added one at a time: in `sessions`
an edit beside anything but a deletion and a login beside a login or a refresh, in `boards` a favorite beside an update or
a new order. Deletes of tasks
are single statements and meet everything.

Deadlock is not checked in the Membership runs (all workspaces and tokens may be used up and every account deleted), in
`ws_hub` (after shutdown nothing is left to do), in `files` (tasks and keys are used up) and in `rate_limiter` (time ends).
It is checked in the others.

### What the violations show

* `owner_removed`: `RemoveMember` (members.go:146) refuses to remove the owner, looking at the role it has just read.
  Between that read and the delete the old owner transfers the workspace to the target: the new owner's row is deleted
  and nobody owns the workspace. `UpdateRole` has the same gap.
* `invite_resurrected`: `UpdateWorkspace` (workspace.go:66) saves the name and the theme together with the
  `invite_token` it loaded. When somebody joins with the token in between, the token is written back, and works again.
* `parent_cycle`: `ValidateParent` (mutate.go:136) walks up from the new parent before the update is written. Two updates
  that make two tasks each other's parent both find nothing wrong, and both are written.

## Fairness

Only `ws_hub` has liveness properties. `Fairness` assumes that a goroutine that can take a step by itself eventually does
(the Go scheduler; the mutexes are held for a bounded time, `canJoin` has a deadline of five seconds); that reading a
closed connection eventually fails, strongly, because what had been received before is handled first and is finite; that
a `writePump` whose connection is closed stops, since its write fails at once or after `writeWait`. Nothing is assumed
of clients: they need not read, write or answer. Nor is `Close` assumed to be called or a request to broadcast.

The other modules promise nothing about progress: a request may fail or be cut off at any statement.

## Proofs

TLC shows a property for the bounds above. The theorems hold for any sets of workspaces, users, boards, tasks, files, keys,
tokens, servers, connections, views, handlers and requests, any limits and any lifetimes. What a model bounds for TLC
(`MaxTime`, `MaxVersion`, `MaxNonce`) is an arbitrary number in the proofs. The assumptions on constants are those the modules name; most say that a
model value is none of the values it stands beside. Of substance are that ids are finitely many (`TaskAssumption`,
`BoardAssumption`: a position is computed by counting rows), that a workspace has a member (`BoardAssumption`), that no token
outlives the version that refuses it (`TTLAssumption`), that a request is not on its way for a whole window and Redis keeps
the set for one (`WindowAssumption`), and that ids of files are none of tasks or accounts (`KeyAssumption`).

Each component has `TypeCorrect`, without a condition. Several other theorems assume that certain operations do not meet:
that they are not among `Ops` in `Membership`, that their pair is not in `Together` elsewhere. These are the pairs of
"What the runs keep apart", which break the property, or the operations of a run that finds a violation; nothing else
is kept apart, so each theorem allows more than the run of its property.

**Membership.** `RowsRefer` (`NoDanglingMember`) has no condition. `InviteAdmitsOne`, `InvitesExpire` and
`InviteStaysRetired` assume that nobody updates the workspace, `OwnerRemains` and `OneOwnerAtMost` that ownership is not transferred
and no account deleted. None is inductive by itself:

* a token admits once because it is outstanding in at most one workspace, every outstanding token was minted, and a token
  that has admitted somebody is not outstanding; the conditional update of `ClaimInvite` then decides each race;
* a workspace keeps its owner because a request about to remove or demote a member targets one who is not the owner, and,
  while ownership does not move, cannot become it; a workspace without members is either one still being created, by one
  request, or stays without.

`OwnersOneAtATime` and `OnlyExpiredCleared` allow every operation, failure and crash, but one request at a time. `SerialInv` says
that what a request has read is still so (`StillSo`): the actor is the owner, the workspaces left to reassign are the ones the
account owns, an invite to be cleared has expired, the token to be written back is the one that is there. With the
theorems before, they tell which wrongs are due to interleaving alone.

**Cache.** All but `TypeCorrect` assume `Covered`. The invariant `CacheInv` rests on
barriers: for a view, a fact, one of the versions read before the fact and a number n of writes, a barrier at x says that
every entry and every reader of the view that has read version x or later of that key shows at least n writes. Barriers
stand for ever (`BarrierStands`), and a bump after the n-th write raises one (`BumpRaises`). So for each acknowledged
write there is a barrier at or below the current version (`DoneInv`), and a reader that asks afterwards reads a version
at or above it (`ReaderInv`) and finds, or builds, an answer that shows the write (`Fresh`). `CacheKeepsPromise`
concludes that each step is a step of `FreshViews` or changes nothing in it, with `Query` as the refinement mapping.

**Hub.** No conditions. `HubInv` adds to the three invariants that the wait group is the number of connections whose
`readPump` has not finished (`WaitGroupCounts`), that the hub knows exactly those not unregistered until it closes
(`HubKnows`), and that nothing is counted once `Wait` has returned: `Register` refuses under the same mutex under which
`Close` sets `closed`.

**Sessions.** `ExchangedOnce` (`RefreshOnce`) and `UnusedStaysGood` (`RefreshGood`) have no condition: `GETDEL` reads and removes in one
command. `RevokedStaysOut` (`RevokedRefused`) assumes `RevokesApart`: no two of logout, change of password and deletion on one
account, except two deletions. `OldTokensInv` says that versions in Redis only grow while a token lives that needs them: the key
of a version outlives every token made of it (`Fitting`) and every token it outdates (`Outdated`), what a server or a request
remembers is not above it (`Seen`). `OldPasswordStaysOut` (`OldPasswordOut`) assumes besides that nothing else runs on an account while its password
changes (`ChangesApart`), and adds what requests hold of the password (`PasswordFits`).

**Rate limiter.** No conditions. What the log counted in the last window is still in the sorted set, or in the memory of
its server (`RedisKeeps`, `MemoryKeeps`), for requests late by no more than `Delay` (`Timely`) whose names are apart on one server
(`Numbered`); the log of any window then injects into a set of at most `Limit`. `RefusedOnlyAtLimit` (`RefusedAtLimit`) turns this
around: what the set holds was counted.

**Boards.** `NoHalfBoard` (`ColumnsComplete`) has no condition: a board lacking columns has one request that makes them
(`Creations`). `OneMainBoard` (`OneMain`) needs the choice of the main board apart from updates, deletions and
creations (`MainApart`), `FavoritesPoint` (`NoDanglingFavorite`) a new favorite apart from deletions and creations, `PlacesKeptButByOrder`
(`OnlyReorderMoves`) a new order apart from updates. Each has an invariant that says of every request that what it read of the
board still holds if the board is there (`MainKnown`, `FavoriteKnown`, `PlaceKnown`). `BoardsKeepTheList` (`ListKept`), under
these conditions and no creation beside a new order, is the refinement of `BoardList`: `ListInv` adds that ages are distinct (`AgeInv`) and that
a board about to be created still has the last place (`LastInv`). The provers have no induction over sequences; instead, a sorted list is
determined by its set and its order (`SortedUnique`), by the pigeonhole theorem, so that each step need only show that
appending, removing or rearranging leaves the list sorted.

**Tasks.** `TreesStayTrees` (`NoCycles`) needs two updates apart, `PlacesStayDistinct` (`PositionsDistinct`) an update apart from
creations too. For trees, `TreeInv` says of a walk in progress that the tasks it has passed lead from the new parent to the
one it looks at (`Climbed`), and of an update about to be written that no ancestor of the new parent is the task (`Sound`); a creation adds
a task without children, a deletion only cuts. For places, `PlaceInv` says that what the locking statement of a move saw of a
column is what is still there (`StillThere`), that of two creations in one column one waits (`OneCreates`), and that an update
writes back the place the task has. That the numbers `MoveTask` gives are distinct follows from ranks: of two tasks ordered, one has fewer above it. `TasksKeepTheLists` (`ListsKept`) is the refinement of
`TaskBoard` from both invariants: the ranks in a column are the numbers from 0 on (`RanksFill`), so its list shows
each of its tasks once, by position, and each step keeps the order of the tasks that it does not move.

**Files.** `AttachmentsStored` has no condition, and holds through every overlap and failure: keys a request is about to remove have
no row any more, or one it deletes first (`DropKnown`). `ImagesStored` needs changes of one task, and of one account, apart;
`ImageInv` says that an image is shown by one row or is spoiled (`OneRow`), and of each request which rows may still
show what it will remove (`ImagesKnown`). `NothingLeftOver` (`NothingLeaks`) needs the seven pairs of `LeaksApart`; `LeakInv` says of every object who keeps it
(`Kept`): a row, a request that will remove it or give it to a row, or `lost` or `loose`.

**Only model-checked.** The liveness of the hub: the prover handles neither liveness under fairness nor `ENABLED`. The violations, which are counterexamples. The
prover cannot use induction over data either: what a recursive function computes for all inputs (`SelectSeq`, for
one) stays with TLC, and modules with theorems contain no `RECURSIVE` operators.

## Limits of the properties

* `RateLimiter`: a member of the sorted set is named by the time and a counter of its server, so two servers may give one
  name to two requests, which then count as one: `LimitKept` counts names. It speaks of windows shorter by `Delay`, because
  a request that is late may have its window measured from an earlier time. While Redis does not answer each server has
  the limit for itself (`MemoryLimitKept`), beside what Redis has counted.
* `Sessions`: `RevokedRefused` is about servers that Redis answers. Under `TTLAssumption` no token outlives the version
  that refuses it; the code fixes `versionTTL` and reads the life of refresh tokens from the configuration without comparing.
* `Files`: after a step that failed, an object may stay for ever; nothing in the code looks for such objects.
* Cache: an increment that fails, and reads of versions that fail, are outside the model (see there).

## Plan

Done: all modules above, and proofs of every invariant, action property and refinement the runs check. Next, in order:

1. Invites with one request at a time and `UpdateWorkspace` among the operations.
2. `WsHub` composed with `Membership` for members who are removed while connected, once the code says what they may see.

## Not modelled

* The HTTP layer, configuration, validation and mapping keep nothing between requests and have table tests. The clients of
  Redis, MinIO and the hasher are wrappers; the modules that use them model their effects, failures included.
* Start-up and migrations: a straight line per process. Two servers that start together may both find a migration missing;
  each runs it in a transaction with the row that records it, so the second one fails, rolls back and stops before it
  serves. There are no further states for a model to find.
* Which role may administer which account: comparisons of constants with rows that are read once.
* Favorites of workspaces, which repeat those of boards; search, pagination and the layout of views, which change nothing.
* Test doubles.
