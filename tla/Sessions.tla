------------------------------ MODULE Sessions ------------------------------
(***************************************************************************)
(* The requests that make and end sessions and that write the row of an    *)
(* account: login, refresh, logout, a change of password, of the profile   *)
(* and of the role, and the creation and the deletion of an account.  Each *)
(* is a sequence of single commands of the database and of Redis (module   *)
(* Tokens), next to those of other requests, also on other servers.        *)
(*                                                                         *)
(* A write of an account is of the whole row, as read and changed.  A      *)
(* token is in the hands of its client when the answer that carries it is: *)
(* a login whose second token cannot be made gives none.  What a password  *)
(* is does not matter here: each change makes a new one, counted from 1.   *)
(***************************************************************************)
EXTENDS Tokens

CONSTANTS
    Request,     \* the HTTP requests in progress at one time
    Idle,        \* a request slot that serves nobody
    NoRow,
    Details,     \* what else a row has: role, name, bio, picture
    MaxPassword, \* bound: the last password
    Together     \* the sets of operations that may be in progress at one time

OpNames == {"Login", "Refresh", "Logout", "ChangePassword", "Edit", "DeleteUser"}

Row == [password: Nat, details: Details]

\* A token: password is that of the login it stems from, used the handle of the
\* refresh token it was given for, blind that a server took such a token since
\* without an answer of Redis.
Token == [type: {"access", "refresh"}, subject: Subject, number: Nat, until: Nat,
          handle: Handle \cup {NoHandle}, password: Nat, used: Handle \cup {NoHandle},
          blind: BOOLEAN]

Stages == {"find", "write", "revoke", "set", "incr", "take", "access", "store", "refresh",
           "answer"}

\* A request in progress: mine is the row as read and changed, noted the version
\* to remember with its next step, number the version for the access token, used
\* the refresh token given and handle the one to be given.
InProgress == [op: OpNames, at: Stages, server: Server, subject: Subject, mine: Row \cup {NoRow},
               password: Nat, noted: Nat, number: Nat,
               used: Handle \cup {NoHandle}, handle: Handle \cup {NoHandle}, blind: BOOLEAN]

ASSUME NothingAssumption == NoRow \notin Row /\ Idle \notin InProgress

VARIABLES
    row,     \* row[s]: the row of the account, or NoRow
    born,    \* the accounts that were created
    req,     \* req[p]: the request in progress, or Idle
    tokens,  \* the tokens in the hands of clients, until they expire
    revoked, \* those given out before a Revoke of their account was done
    retired, \* retired[s]: the passwords that were replaced, up to the Revoke, by a change
    taken    \* the handles of the refresh tokens that were used, with an answer or without

vars == <<now, version, refresh, handles, mem, row, born, req, tokens, revoked, retired,
          taken>>

\* Every variable stays in its type.
TypeOK ==
    /\ TokensTypeOK
    /\ row \in [Subject -> Row \cup {NoRow}]
    /\ born \subseteq Subject
    /\ req \in [Request -> InProgress \cup {Idle}]
    /\ tokens \subseteq Token
    /\ revoked \subseteq tokens
    /\ retired \in [Subject -> SUBSET Nat]
    /\ taken \subseteq Handle

Init ==
    /\ TokensInit
    /\ row = [s \in Subject |-> NoRow]
    /\ born = {}
    /\ req = [p \in Request |-> Idle]
    /\ tokens = {}
    /\ revoked = {}
    /\ retired = [s \in Subject |-> {}]
    /\ taken = {}

-----------------------------------------------------------------------------
\* Requests.

Become(p, r) == req' = [req EXCEPT ![p] = r]
Finish(p) == Become(p, Idle)
At(p, stage) == req[p] # Idle /\ req[p].at = stage

MayBegin(p, op, s) ==
    /\ req[p] = Idle
    /\ \A o \in Request : req[o] # Idle /\ req[o].subject = s => {op, req[o].op} \in Together

Fresh(op, stage, w, s) ==
    [op |-> op, at |-> stage, server |-> w, subject |-> s,
     mine |-> NoRow, password |-> 0, noted |-> 0, number |-> 0,
     used |-> NoHandle, handle |-> NoHandle, blind |-> FALSE]

\* The next step of a request remembers the version the last one saw.
Note(p) == Remember(req[p].server, req[p].subject, req[p].noted)

\* What is in the hands of clients, and what was taken from them.
Given == <<tokens, revoked, retired, taken>>
Accounts == <<row, born>>

-----------------------------------------------------------------------------
\* Accounts come and go.

\* ExistsByLogin and Create, CreateUser and seedAdmin: the unique index on logins
\* decides, so that the look before it only spares the attempt.
CreateUser(s) ==
    /\ s \notin born
    /\ \E d \in Details : row' = [row EXCEPT ![s] = [password |-> 1, details |-> d]]
    /\ born' = born \cup {s}
    /\ UNCHANGED <<tokenVars, req, Given>>

\* The account is deleted, and its tokens are revoked after that.
DeleteUser(p, w, s) ==
    /\ MayBegin(p, "DeleteUser", s)
    /\ row[s] # NoRow
    /\ row' = [row EXCEPT ![s] = NoRow]
    /\ Become(p, Fresh("DeleteUser", "revoke", w, s))
    /\ UNCHANGED <<tokenVars, born, Given>>

-----------------------------------------------------------------------------
\* The beginnings.

\* Login and password are right.
Login(p, w, s) ==
    /\ MayBegin(p, "Login", s)
    /\ row[s] # NoRow
    /\ Become(p, [Fresh("Login", "access", w, s) EXCEPT !.password = row[s].password])
    /\ UNCHANGED <<tokenVars, Accounts, Given>>

\* ParseRefresh: a refresh token of the version that holds.
Refresh(p, w, t) ==
    /\ MayBegin(p, "Refresh", t.subject)
    /\ t.type = "refresh"
    /\ \E noted \in 0..MaxVersion :
          /\ CheckVersion(w, t.subject, t.number, noted)
          /\ Become(p, [Fresh("Refresh", "take", w, t.subject) EXCEPT
                           !.password = t.password, !.noted = noted, !.used = t.handle,
                           !.blind = t.blind \/ t.number # Current(t.subject)])
    /\ UNCHANGED <<now, refresh, handles, mem, Accounts, Given>>

\* Parse: an access token of the version that holds opens the other requests.
FirstStage(op) == IF op = "Logout" THEN "revoke" ELSE "find"

Authorised(p, w, t, op) ==
    /\ op \in {"Logout", "ChangePassword", "Edit"}
    /\ MayBegin(p, op, t.subject)
    /\ t.type = "access"
    /\ \E noted \in 0..MaxVersion :
          /\ CheckVersion(w, t.subject, t.number, noted)
          /\ Become(p, [Fresh(op, FirstStage(op), w, t.subject) EXCEPT !.noted = noted])
    /\ UNCHANGED <<now, refresh, handles, mem, Accounts, Given>>

\* An administrator's, whose own account is another.
UpdateUserRole(p, w, s) ==
    /\ MayBegin(p, "Edit", s)
    /\ Become(p, Fresh("Edit", "find", w, s))
    /\ UNCHANGED <<tokenVars, Accounts, Given>>

-----------------------------------------------------------------------------
\* The row of the account is read, and written back with what was asked for.

Changed(r, op) ==
    IF op = "ChangePassword" THEN {[r EXCEPT !.password = @ + 1]}
    ELSE {[r EXCEPT !.details = d] : d \in Details}

FindByID(p) ==
    /\ At(p, "find")
    /\ LET r == req[p] IN
       IF row[r.subject] = NoRow
       THEN Finish(p)
       ELSE /\ r.op = "ChangePassword" => row[r.subject].password < MaxPassword
            /\ \E mine \in Changed(row[r.subject], r.op) :
                  Become(p, [r EXCEPT !.at = "write", !.mine = mine, !.noted = 0])
    /\ Note(p)
    /\ UNCHANGED <<now, version, refresh, handles, Accounts, Given>>

\* An account that is gone stays gone, and nobody is told.
Written(s, mine) == IF row[s] = NoRow THEN NoRow ELSE mine

Update(p) ==
    /\ At(p, "write")
    /\ LET r == req[p] IN
       /\ row' = [row EXCEPT ![r.subject] = Written(r.subject, r.mine)]
       /\ IF r.op = "ChangePassword"
          THEN Become(p, [r EXCEPT !.at = "revoke", !.password = r.mine.password,
                              !.mine = NoRow])
          ELSE Finish(p)
    /\ UNCHANGED <<tokenVars, born, Given>>

-----------------------------------------------------------------------------
\* A bug: a change of password revokes nothing.
RevokeNever(p) ==
    /\ At(p, "revoke")
    /\ Note(p)
    /\ LET r == req[p] IN
       IF r.op = "ChangePassword"
       THEN /\ Become(p, [r EXCEPT !.noted = 0, !.at = "access"])
            /\ retired' = [retired EXCEPT ![r.subject] = @ \cup 1..(r.password - 1)]
       ELSE /\ Become(p, [r EXCEPT !.noted = 0,
                           !.at = IF version[r.subject].number = 0 THEN "set" ELSE "incr"])
            /\ UNCHANGED retired
    /\ UNCHANGED <<now, version, refresh, handles, Accounts, tokens, revoked, taken>>

\* Revoke: is there a version?
Revoke(p) ==
    /\ At(p, "revoke")
    /\ Note(p)
    /\ LET r == req[p] IN
       Become(p, [r EXCEPT !.noted = 0,
                           !.at = IF version[r.subject].number = 0 THEN "set" ELSE "incr"])
    /\ UNCHANGED <<now, version, refresh, handles, Accounts, Given>>

\* A new one.  A change of password goes on to a new pair.
AfterRevoke(p) == IF req[p].op = "ChangePassword" THEN Become(p, [req[p] EXCEPT !.at = "access"])
                  ELSE Finish(p)

RevokeVersion(p) ==
    /\ LET r == req[p] IN
       /\ \/ At(p, "set") /\ FirstVersion(r.server, r.subject)
          \/ At(p, "incr") /\ NextVersion(r.server, r.subject)
       /\ revoked' = revoked \cup {t \in tokens : t.subject = r.subject}
       /\ retired' = [retired EXCEPT ![r.subject] =
                         IF r.op = "ChangePassword" THEN @ \cup 1..(r.password - 1) ELSE @]
    /\ AfterRevoke(p)
    /\ UNCHANGED <<now, refresh, handles, Accounts, tokens, taken>>

-----------------------------------------------------------------------------
\* RotateRefresh: the token is used up, or was.
TakeRefresh(p) ==
    /\ At(p, "take")
    /\ Note(p)
    /\ LET r == req[p] IN
       /\ TakeHandle(r.used)
       /\ IF refresh[r.used] = 0 THEN Finish(p)
          ELSE Become(p, [r EXCEPT !.at = "access", !.noted = 0])
       /\ taken' = taken \cup {r.used}
    /\ UNCHANGED <<now, version, handles, Accounts, tokens, revoked, retired>>

\* mintPair: the version for the access token ...
Generate(p) ==
    /\ At(p, "access")
    /\ LET r == req[p] IN
       \E v, noted \in 0..MaxVersion :
          /\ FindVersion(r.server, r.subject, v, noted)
          /\ Become(p, [r EXCEPT !.at = "store", !.number = v, !.noted = noted])
    /\ UNCHANGED <<now, refresh, handles, mem, Accounts, Given>>

\* A bug: the id is not stored.
GenerateUnstored(p) ==
    /\ At(p, "store")
    /\ Note(p)
    /\ \E h \in Handle \ handles :
          /\ handles' = handles \cup {h}
          /\ Become(p, [req[p] EXCEPT !.at = "refresh", !.handle = h, !.noted = 0])
    /\ UNCHANGED <<now, version, refresh, Accounts, Given>>

\* ... the id of the refresh token ...
GenerateRefresh(p) ==
    /\ At(p, "store")
    /\ Note(p)
    /\ \E h \in Handle :
          /\ StoreHandle(h)
          /\ Become(p, [req[p] EXCEPT !.at = "refresh", !.handle = h, !.noted = 0])
    /\ UNCHANGED <<now, version, Accounts, Given>>

\* ... and its version, read again; both are in the answer.
Pair(r, v) ==
    LET token == [type |-> "access", subject |-> r.subject, number |-> r.number,
                  until |-> now + AccessTTL, handle |-> NoHandle,
                  password |-> r.password, used |-> r.used, blind |-> r.blind]
    IN {token, [token EXCEPT !.type = "refresh", !.number = v, !.until = now + RefreshTTL,
                             !.handle = r.handle]}

Answer(p) ==
    /\ At(p, "refresh")
    /\ LET r == req[p] IN
       \E v, noted \in 0..MaxVersion :
          /\ FindVersion(r.server, r.subject, v, noted)
          /\ tokens' = tokens \cup Pair(r, v)
          /\ Remember(r.server, r.subject, noted)
    /\ Finish(p)
    /\ UNCHANGED <<now, refresh, handles, Accounts, revoked, retired, taken>>

-----------------------------------------------------------------------------
\* A command fails, or its answer is lost: the request goes no further.
RequestFails(p) ==
    /\ req[p] # Idle
    /\ Finish(p)
    /\ UNCHANGED <<tokenVars, Accounts, Given>>

\* A server stops, and its memory with it.
Restart(w) ==
    /\ ForgetAll(w)
    /\ req' = [p \in Request |-> IF req[p] # Idle /\ req[p].server = w THEN Idle ELSE req[p]]
    /\ UNCHANGED <<now, version, refresh, handles, Accounts, Given>>

\* Time goes by between requests, and tokens expire.
Tick ==
    /\ \A p \in Request : req[p] = Idle
    /\ TimePasses
    /\ tokens' = {t \in tokens : t.until > now + 1}
    /\ revoked' = {t \in revoked : t.until > now + 1}
    /\ UNCHANGED <<Accounts, req, retired, taken>>

Next ==
    \/ \E p \in Request :
          \/ \E w \in Server, s \in Subject :
                DeleteUser(p, w, s) \/ Login(p, w, s) \/ UpdateUserRole(p, w, s)
          \/ \E w \in Server, t \in tokens :
                Refresh(p, w, t) \/ \E op \in OpNames : Authorised(p, w, t, op)
          \/ FindByID(p) \/ Update(p) \/ Revoke(p) \/ RevokeVersion(p)
          \/ TakeRefresh(p) \/ Generate(p) \/ GenerateRefresh(p) \/ Answer(p)
          \/ RequestFails(p)
    \/ \E s \in Subject : CreateUser(s)
    \/ \E w \in Server : Restart(w)
    \/ Tick

Spec == Init /\ [][Next]_vars

-----------------------------------------------------------------------------
\* A server that asks Redis takes the token.
Accepted(t) == t.number = Current(t.subject)

Exchanging(p) == req[p] # Idle /\ req[p].used # NoHandle /\ req[p].at # "take"

\* For a refresh token at most one pair is made, however often and on however many
\* servers it is used: it is read and removed in one command.
RefreshOnce ==
    /\ \A t, u \in tokens :
          t.used # NoHandle /\ t.used = u.used /\ t.type = u.type => t = u
    /\ \A p \in Request : Exchanging(p) =>
          /\ \A t \in tokens : t.used # req[p].used
          /\ \A o \in Request : Exchanging(o) /\ req[o].used = req[p].used => o = p

\* What was given out before a Revoke of the account was done (logout, change of
\* password, deletion) is refused from then on, also when Redis forgets the
\* version after a time without requests.
RevokedRefused == \A t \in revoked : ~Accepted(t)

\* After a change of password nobody is in by the one before: it is not the
\* account's again, and no token that holds stems from a login with it, through
\* any number of refreshes, unless a server has taken an outdated one for good
\* while Redis did not answer.
OldPasswordOut ==
    /\ \A s \in Subject : row[s] # NoRow => row[s].password \notin retired[s]
    /\ \A t \in tokens : Accepted(t) /\ ~t.blind => t.password \notin retired[t.subject]

\* A refresh token that nobody used is still good when its version is: the id was
\* stored before it was made, and is kept as long.
RefreshGood ==
    \A t \in tokens :
        t.type = "refresh" /\ t.handle \notin taken => refresh[t.handle] = t.until
=============================================================================
