------------------------------- MODULE Tokens -------------------------------
(***************************************************************************)
(* JWTManager: what Redis and the memory of each server keep about tokens, *)
(* and the commands the manager is made of.  Redis has a version for each  *)
(* account, from its first Revoke until nobody asks for it any more, and   *)
(* the refresh tokens that were not used yet.  A server remembers the      *)
(* version it saw last, for the time Redis does not answer.                *)
(*                                                                         *)
(* A version is read and its key kept alive in one step: the two commands  *)
(* succeed together.  Time is counted in steps longer than a request and   *)
(* longer than a server remembers a version.                               *)
(***************************************************************************)
EXTENDS Naturals

CONSTANTS
    Server,
    Subject,    \* account ids
    Handle,     \* refresh token ids (never reused: randomJTI)
    NoHandle,
    VersionTTL, \* versionTTL
    AccessTTL,  \* JWT_TTL
    RefreshTTL, \* JWT_REFRESH_TTL
    MaxTime,    \* bound: how far time goes
    MaxVersion  \* bound: the last version

\* The version of an account is kept for as long as any token lives.
ASSUME TTLAssumption ==
    /\ VersionTTL \in Nat \ {0} /\ AccessTTL \in Nat \ {0} /\ RefreshTTL \in Nat \ {0}
    /\ AccessTTL <= VersionTTL /\ RefreshTTL <= VersionTTL
ASSUME BoundAssumption == MaxTime \in Nat /\ MaxVersion \in Nat
ASSUME HandleAssumption == NoHandle \notin Handle

VARIABLES
    now,
    version, \* version[s]: number 0 when there is no key, and the time the key is kept until
    refresh, \* refresh[h]: the time the unused refresh token is kept until, or 0
    handles, \* the ids used so far
    mem      \* mem[w][s]: the version the server w saw last, or 0

tokenVars == <<now, version, refresh, handles, mem>>

TokensTypeOK ==
    /\ now \in Nat
    /\ version \in [Subject -> [number: Nat \ {1}, until: Nat]]
    /\ refresh \in [Handle -> Nat]
    /\ handles \subseteq Handle
    /\ mem \in [Server -> [Subject -> Nat]]

TokensInit ==
    /\ now = 0
    /\ version = [s \in Subject |-> [number |-> 0, until |-> 0]]
    /\ refresh = [h \in Handle |-> 0]
    /\ handles = {}
    /\ mem = [w \in Server |-> [s \in Subject |-> 0]]

\* No key means the first version.
Current(s) == IF version[s].number = 0 THEN 1 ELSE version[s].number

-----------------------------------------------------------------------------
\* Reading the version, for a new token and for a check.  Every read of a key
\* keeps it for its whole time again.

\* A bug: a read does not prolong the key.
Untouched(s) == version[s]

Touched(s) == IF version[s].number = 0 THEN version[s]
              ELSE [version[s] EXCEPT !.until = now + VersionTTL]

KeepAlive(s) == version' = [version EXCEPT ![s] = Touched(s)]

\* The version v a server w finds for s; noted is what it will remember of it.
\* It asks its memory when Redis does not answer.
Answered(s, v, noted) == v = Current(s) /\ noted = v /\ KeepAlive(s)
Recalled(w, s, v, noted) == v = mem[w][s] /\ v # 0 /\ noted = 0 /\ UNCHANGED version

FindVersion(w, s, v, noted) == Answered(s, v, noted) \/ Recalled(w, s, v, noted)

\* A check does not remember that there is no key.
CheckVersion(w, s, v, noted) ==
    \/ version[s].number # 0 /\ Answered(s, v, noted)
    \/ version[s].number = 0 /\ v = 1 /\ noted = 0 /\ UNCHANGED version
    \/ Recalled(w, s, v, noted)

\* memPut, which nothing orders with what other requests note.
Remember(w, s, noted) ==
    mem' = IF noted = 0 THEN mem ELSE [mem EXCEPT ![w][s] = noted]

-----------------------------------------------------------------------------
\* Refresh tokens: the id is stored before the token is made, and removed with
\* the read that asks for it.
StoreHandle(h) ==
    /\ h \in Handle \ handles
    /\ refresh' = [refresh EXCEPT ![h] = now + RefreshTTL]
    /\ handles' = handles \cup {h}

\* A bug: the id is read and not removed.
ReadHandle(h) == refresh' = refresh

TakeHandle(h) == refresh' = [refresh EXCEPT ![h] = 0]

-----------------------------------------------------------------------------
\* Revoke, its last command: SET when there was no key, or INCR.
\* A bug: it starts with the version that tokens have without a key.
FirstVersionAgain(w, s) ==
    /\ version' = [version EXCEPT ![s] = [number |-> 1, until |-> now + VersionTTL]]
    /\ Remember(w, s, 1)

FirstVersion(w, s) ==
    /\ version' = [version EXCEPT ![s] = [number |-> 2, until |-> now + VersionTTL]]
    /\ Remember(w, s, 2)

NextVersion(w, s) ==
    /\ version[s].number < MaxVersion
    /\ version' = [version EXCEPT ![s] = [number |-> @.number + 1, until |-> now + VersionTTL]]
    /\ Remember(w, s, version[s].number + 1)

-----------------------------------------------------------------------------
\* Keys end, and memories with them.
Forgetful == [w \in Server |-> [s \in Subject |-> 0]]

TimePasses ==
    /\ now < MaxTime
    /\ now' = now + 1
    /\ version' = [s \in Subject |-> IF version[s].until <= now + 1
                                     THEN [number |-> 0, until |-> 0] ELSE version[s]]
    /\ refresh' = [h \in Handle |-> IF refresh[h] <= now + 1 THEN 0 ELSE refresh[h]]
    /\ mem' = Forgetful
    /\ UNCHANGED handles

\* A server starts anew.
ForgetAll(w) == mem' = [mem EXCEPT ![w] = [s \in Subject |-> 0]]
=============================================================================
