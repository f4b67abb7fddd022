--------------------------- MODULE SessionsProofs ---------------------------
(***************************************************************************)
(* Proofs about Sessions, for any number of servers, accounts, refresh     *)
(* tokens and requests, and any lifetimes under TTLAssumption.  That a     *)
(* refresh token is used once holds whatever happens; that a revoked token *)
(* stays revoked, and an old password out, takes operations kept apart.    *)
(***************************************************************************)
EXTENDS Sessions, TLAPS

Version == [number: Nat \ {1}, until: Nat]

-----------------------------------------------------------------------------
\* The commands of Tokens keep their types.

\* Whatever a server finds as the version, the number in Redis stays.
LEMMA FindTypes ==
    ASSUME TokensTypeOK, NEW s \in Subject, NEW w \in Server, NEW v, NEW noted,
           FindVersion(w, s, v, noted) \/ CheckVersion(w, s, v, noted)
    PROVE  /\ v \in Nat /\ noted \in Nat
           /\ version' \in [Subject -> Version]
           /\ \A z \in Subject : version'[z].number = version[z].number
<1>1. CASE KeepAlive(s) /\ v = Current(s) /\ noted = v
  <2>1. version[s] \in Version /\ now + VersionTTL \in Nat
    BY TTLAssumption DEF TokensTypeOK, Version
  <2>2. Touched(s) \in Version /\ Touched(s).number = version[s].number
    BY <2>1 DEF Touched, Version
  <2>3. v \in Nat
    BY <1>1, <2>1 DEF Current, Version
  <2> QED
    BY <1>1, <2>2, <2>3 DEF KeepAlive, TokensTypeOK, Version
<1>2. CASE UNCHANGED version /\ noted = 0 /\ (v = 1 \/ v = mem[w][s])
  BY <1>2 DEF TokensTypeOK, Version
<1> QED
  BY <1>1, <1>2 DEF FindVersion, CheckVersion, Answered, Recalled

\* A server remembers a number.
LEMMA RememberTypes ==
    ASSUME TokensTypeOK, NEW w \in Server, NEW s \in Subject, NEW n \in Nat, Remember(w, s, n)
    PROVE  mem' \in [Server -> [Subject -> Nat]]
  BY DEF TokensTypeOK, Remember

\* The last command of Revoke writes a version that is a number above 1.
LEMMA RevokeTypes ==
    ASSUME TokensTypeOK, NEW w \in Server, NEW s \in Subject,
           FirstVersion(w, s) \/ (NextVersion(w, s) /\ version[s].number # 0)
    PROVE  /\ version' \in [Subject -> Version] /\ version'[s].number # 0
           /\ \A z \in Subject \ {s} : version'[z] = version[z]
           /\ mem' \in [Server -> [Subject -> Nat]]
<1>1. version[s] \in Version /\ now + VersionTTL \in Nat
  BY TTLAssumption DEF TokensTypeOK, Version
<1>2. CASE FirstVersion(w, s)
  BY <1>1, <1>2 DEF FirstVersion, Remember, TokensTypeOK, Version
<1>3. CASE NextVersion(w, s) /\ version[s].number # 0
  <2>1. [number |-> version[s].number + 1, until |-> now + VersionTTL] \in Version
    BY <1>1, <1>3 DEF Version
  <2> QED
    BY <1>1, <1>3, <2>1 DEF NextVersion, Remember, TokensTypeOK, Version
<1> QED
  BY <1>2, <1>3

-----------------------------------------------------------------------------
\* A request's record has its type, and so has one that begins.
LEMMA RequestTypes ==
    ASSUME TypeOK, NEW p \in Request, req[p] # Idle
    PROVE  req[p] \in InProgress
  BY DEF TypeOK

LEMMA Names ==
    /\ "Login" \in OpNames /\ "Refresh" \in OpNames /\ "Logout" \in OpNames
    /\ "ChangePassword" \in OpNames /\ "Edit" \in OpNames /\ "DeleteUser" \in OpNames
    /\ "find" \in Stages /\ "write" \in Stages /\ "revoke" \in Stages /\ "set" \in Stages
    /\ "incr" \in Stages /\ "take" \in Stages /\ "access" \in Stages /\ "store" \in Stages
    /\ "refresh" \in Stages
  BY DEF OpNames, Stages

LEMMA FreshTypes ==
    ASSUME NEW op \in OpNames, NEW stage \in Stages, NEW w \in Server, NEW s \in Subject
    PROVE  Fresh(op, stage, w, s) \in InProgress
  BY DEF Fresh, InProgress

\* A request becomes another record, or ends; the others stay.
LEMMA BecomeTypes ==
    ASSUME TypeOK, NEW p \in Request, NEW x \in InProgress \cup {Idle}, Become(p, x)
    PROVE  /\ req' \in [Request -> InProgress \cup {Idle}]
           /\ req'[p] = x
           /\ \A o \in Request \ {p} : req'[o] = req[o]
  BY DEF TypeOK, Become

-----------------------------------------------------------------------------
(***************************************************************************)
(* What holds whatever overlaps.  A refresh token that was used is gone    *)
(* from Redis and its id is never made again, so that what is exchanged    *)
(* for it belongs to one request.                                          *)
(***************************************************************************)
RequestOK(r) ==
    /\ r.at = "incr" => version[r.subject].number # 0
    /\ r.at = "write" => r.mine # NoRow
    /\ r.used \in handles \cup {NoHandle}
    /\ r.at = "take" => r.used # NoHandle
    /\ r.at # "take" => r.used \in taken \cup {NoHandle}
    /\ r.at = "refresh" =>
          r.handle \in handles /\ (r.handle \in taken \/ refresh[r.handle] = now + RefreshTTL)

RequestsOK == \A p \in Request : req[p] # Idle => RequestOK(req[p])

UsedAreGone ==
    /\ \A h \in taken : h \in handles /\ refresh[h] = 0
    /\ \A t \in tokens : /\ t.used \in taken \cup {NoHandle}
                         /\ t.type = "refresh" => t.handle \in handles

SessionInv == TypeOK /\ RequestsOK /\ UsedAreGone /\ RefreshOnce /\ RefreshGood

\* A step of p leaves what is known of the other requests.
LEMMA OthersOK ==
    ASSUME SessionInv, NEW p \in Request,
           \A o \in Request \ {p} : req'[o] = req[o],
           (req[p] # Idle => RequestOK(req[p]))',
           now' = now, handles \subseteq handles', taken \subseteq taken',
           \A s \in Subject : version[s].number # 0 => version'[s].number # 0,
           \A h \in handles : h \in taken' \/ refresh'[h] = refresh[h]
    PROVE  RequestsOK'
<1> SUFFICES ASSUME NEW o \in Request, req'[o] # Idle PROVE RequestOK(req[o])'
  BY DEF RequestsOK
<1>1. CASE o = p
  BY <1>1
<1>2. CASE o # p
  <2>1. req'[o] = req[o] /\ req[o] \in InProgress /\ RequestOK(req[o])
    BY <1>2, RequestTypes DEF SessionInv, RequestsOK
  <2> QED
    BY <2>1 DEF RequestOK, InProgress
<1> QED
  BY <1>1, <1>2

\* A step in which no token is given out or used up, and no request begins to
\* exchange one, keeps what is known of the used ones.
LEMMA QuietHandles ==
    ASSUME SessionInv, UNCHANGED <<tokens, refresh, handles, taken>>,
           \A o \in Request : Exchanging(o)' => Exchanging(o) /\ req'[o].used = req[o].used
    PROVE  (UsedAreGone /\ RefreshOnce /\ RefreshGood)'
<1>1. UsedAreGone' /\ RefreshGood'
  BY DEF SessionInv, UsedAreGone, RefreshGood
<1>2. RefreshOnce'
  BY DEF SessionInv, RefreshOnce
<1> QED
  BY <1>1, <1>2

\* The usual step: one request goes on, with the same refresh token or none.
LEMMA QuietStep ==
    ASSUME SessionInv, NEW p \in Request, NEW x \in InProgress \cup {Idle}, Become(p, x),
           TypeOK',
           UNCHANGED <<now, refresh, handles, taken, tokens>>,
           \A s \in Subject : version[s].number # 0 => version'[s].number # 0,
           x # Idle =>
              /\ x.at = "incr" => version'[x.subject].number # 0
              /\ x.at = "write" => x.mine # NoRow
              /\ x.at # "refresh"
              /\ \/ x.used = NoHandle /\ x.at # "take"
                 \/ x.used \in handles /\ x.at = "take"
                 \/ req[p] # Idle /\ x.used = req[p].used /\ x.at # "take" /\ req[p].at # "take"
    PROVE  SessionInv'
<1>1. req'[p] = x /\ \A o \in Request \ {p} : req'[o] = req[o]
  BY BecomeTypes DEF SessionInv
<1>2. (req[p] # Idle => RequestOK(req[p]))'
  <2> SUFFICES ASSUME x # Idle PROVE RequestOK(req[p])'
    BY <1>1
  <2>1. x.used \in handles \cup {NoHandle}
    BY DEF SessionInv, RequestsOK, RequestOK
  <2>2. x.at = "take" => x.used # NoHandle
    BY HandleAssumption DEF SessionInv, TypeOK, TokensTypeOK
  <2>3. x.at # "take" => x.used \in taken \cup {NoHandle}
    BY DEF SessionInv, RequestsOK, RequestOK
  <2> QED
    BY <1>1, <2>1, <2>2, <2>3 DEF RequestOK
<1>3. RequestsOK'
  BY <1>1, <1>2, OthersOK
<1>4. \A o \in Request : Exchanging(o)' => Exchanging(o) /\ req'[o].used = req[o].used
  BY <1>1 DEF Exchanging
<1> QED
  BY <1>3, <1>4, QuietHandles DEF SessionInv

\* The actions that begin a request.
LEMMA BeginStep ==
    ASSUME SessionInv, NEW p \in Request, NEW w \in Server,
           \/ \E s \in Subject : DeleteUser(p, w, s) \/ Login(p, w, s) \/ UpdateUserRole(p, w, s)
           \/ \E t \in tokens : Refresh(p, w, t) \/ \E op \in OpNames : Authorised(p, w, t, op)
    PROVE  SessionInv'
<1> USE DEF SessionInv
<1>1. ASSUME NEW s \in Subject, DeleteUser(p, w, s) PROVE SessionInv'
  <2> DEFINE x == Fresh("DeleteUser", "revoke", w, s)
  <2>1. x \in InProgress /\ x.at = "revoke" /\ x.used = NoHandle
    BY FreshTypes, Names DEF Fresh
  <2>2. Become(p, x)
    BY <1>1 DEF DeleteUser
  <2> HIDE DEF x
  <2>3. TypeOK'
    BY <1>1, <2>1, <2>2, BecomeTypes DEF DeleteUser, Given, tokenVars, TypeOK, TokensTypeOK
  <2> QED
    BY <1>1, <2>1, <2>2, <2>3, QuietStep DEF DeleteUser, Given, tokenVars
<1>2. ASSUME NEW s \in Subject, Login(p, w, s) PROVE SessionInv'
  <2> DEFINE f == Fresh("Login", "access", w, s)  x == [f EXCEPT !.password = row[s].password]
  <2>0. f \in InProgress /\ f.at = "access" /\ f.used = NoHandle
    BY FreshTypes, Names DEF Fresh
  <2>1. row[s].password \in Nat
    BY <1>2 DEF Login, TypeOK, Row
  <2>2. x \in InProgress /\ x.at = "access" /\ x.used = NoHandle
    <3> HIDE DEF f
    <3> QED
      BY <2>0, <2>1 DEF InProgress
  <2>3. Become(p, x)
    BY <1>2 DEF Login
  <2> HIDE DEF f, x
  <2>4. TypeOK'
    BY <1>2, <2>2, <2>3, BecomeTypes DEF Login, Given, Accounts, tokenVars, TypeOK, TokensTypeOK
  <2> QED
    BY <1>2, <2>2, <2>3, <2>4, QuietStep DEF Login, Given, tokenVars
<1>3. ASSUME NEW s \in Subject, UpdateUserRole(p, w, s) PROVE SessionInv'
  <2> DEFINE x == Fresh("Edit", "find", w, s)
  <2>1. x \in InProgress /\ x.at = "find" /\ x.used = NoHandle
    BY FreshTypes, Names DEF Fresh
  <2>2. Become(p, x)
    BY <1>3 DEF UpdateUserRole
  <2> HIDE DEF x
  <2>3. TypeOK'
    BY <1>3, <2>1, <2>2, BecomeTypes
       DEF UpdateUserRole, Given, Accounts, tokenVars, TypeOK, TokensTypeOK
  <2> QED
    BY <1>3, <2>1, <2>2, <2>3, QuietStep DEF UpdateUserRole, Given, tokenVars
<1>4. ASSUME NEW t \in tokens, Refresh(p, w, t) PROVE SessionInv'
  <2>1. PICK noted \in 0..MaxVersion :
           /\ CheckVersion(w, t.subject, t.number, noted)
           /\ Become(p, [Fresh("Refresh", "take", w, t.subject) EXCEPT
                            !.password = t.password, !.noted = noted, !.used = t.handle,
                            !.blind = t.blind \/ t.number # Current(t.subject)])
    BY <1>4 DEF Refresh
  <2> DEFINE b == t.blind \/ t.number # Current(t.subject)
             f == Fresh("Refresh", "take", w, t.subject)
             x == [f EXCEPT !.password = t.password, !.noted = noted, !.used = t.handle, !.blind = b]
  <2>2. t \in Token /\ t.handle \in handles /\ handles \subseteq Handle
    BY <1>4 DEF TypeOK, TokensTypeOK, UsedAreGone, Refresh
  <2>3. b \in BOOLEAN
    OBVIOUS
  <2> HIDE DEF b
  <2>4. x \in InProgress /\ x.at = "take" /\ x.used \in handles
    <3>1. f \in InProgress /\ f.at = "take"
      BY <2>2, FreshTypes, Names DEF Fresh, Token
    <3>2. t.password \in Nat /\ t.handle \in Handle /\ noted \in Nat
      BY <2>2 DEF Token
    <3> HIDE DEF f
    <3>3. x \in InProgress
      BY <2>3, <3>1, <3>2 DEF InProgress
    <3>4. x.used = t.handle
      BY <3>1 DEF InProgress
    <3>5. x.at = "take"
      BY <3>1 DEF InProgress
    <3> QED
      BY <2>2, <3>3, <3>4, <3>5
  <2>5. Become(p, x)
    BY <2>1 DEF b
  <2> HIDE DEF f, x
  <2>6. version' \in [Subject -> Version] /\ \A z \in Subject : version'[z].number = version[z].number
    BY <2>1, <2>2, FindTypes DEF TypeOK, Token
  <2>7. TypeOK'
    BY <1>4, <2>4, <2>5, <2>6, BecomeTypes
       DEF Refresh, Given, Accounts, TypeOK, TokensTypeOK, Version
  <2> QED
    BY <1>4, <2>4, <2>5, <2>6, <2>7, QuietStep DEF Refresh, Given
<1>5. ASSUME NEW t \in tokens, NEW op \in OpNames, Authorised(p, w, t, op) PROVE SessionInv'
  <2>1. PICK noted \in 0..MaxVersion :
           /\ CheckVersion(w, t.subject, t.number, noted)
           /\ Become(p, [Fresh(op, FirstStage(op), w, t.subject) EXCEPT !.noted = noted])
    BY <1>5 DEF Authorised
  <2> DEFINE f == Fresh(op, FirstStage(op), w, t.subject)  x == [f EXCEPT !.noted = noted]
  <2>2. t \in Token
    BY DEF TypeOK
  <2>3. x \in InProgress /\ x.at \in {"revoke", "find"} /\ x.used = NoHandle
    <3>1. FirstStage(op) \in Stages /\ FirstStage(op) \in {"revoke", "find"}
      BY DEF FirstStage, Stages
    <3>2. f \in InProgress /\ f.at \in {"revoke", "find"} /\ f.used = NoHandle
      BY <2>2, <3>1, FreshTypes DEF Fresh, Token
    <3> HIDE DEF f
    <3> QED
      BY <3>2 DEF InProgress
  <2>4. Become(p, x)
    BY <2>1
  <2> HIDE DEF f, x
  <2>5. version' \in [Subject -> Version] /\ \A z \in Subject : version'[z].number = version[z].number
    BY <2>1, <2>2, FindTypes DEF TypeOK, Token
  <2>6. TypeOK'
    BY <1>5, <2>3, <2>4, <2>5, BecomeTypes
       DEF Authorised, Given, Accounts, TypeOK, TokensTypeOK, Version
  <2> QED
    BY <1>5, <2>3, <2>4, <2>5, <2>6, QuietStep DEF Authorised, Given
<1> QED
  BY <1>1, <1>2, <1>3, <1>4, <1>5

\* The row is read and written, and the version replaced.
LEMMA WriteStep ==
    ASSUME SessionInv, NEW p \in Request,
           FindByID(p) \/ Update(p) \/ Revoke(p) \/ RevokeVersion(p)
    PROVE  SessionInv'
<1> DEFINE r == req[p]
<1> USE DEF SessionInv
<1>0. r \in InProgress /\ RequestOK(r) /\ r.subject \in Subject /\ r.server \in Server
  <2>1. r # Idle
    BY DEF FindByID, Update, Revoke, RevokeVersion, At
  <2> QED
    BY <2>1, RequestTypes DEF RequestsOK, InProgress
<1> HIDE DEF r
<1>1. CASE FindByID(p)
  <2>1. mem' \in [Server -> [Subject -> Nat]]
    BY <1>0, <1>1, RememberTypes DEF FindByID, Note, InProgress, TypeOK, r
  <2>2. CASE row[r.subject] = NoRow
    <3>1. Become(p, Idle)
      BY <1>1, <2>2 DEF FindByID, Finish, r
    <3>2. TypeOK'
      BY <1>1, <2>1, <3>1, BecomeTypes DEF FindByID, Given, Accounts, TypeOK, TokensTypeOK
    <3> QED
      BY <1>1, <3>1, <3>2, QuietStep DEF FindByID, Given
  <2>3. CASE row[r.subject] # NoRow
    <3>1. PICK mine \in Changed(row[r.subject], r.op) :
             Become(p, [r EXCEPT !.at = "write", !.mine = mine, !.noted = 0])
      BY <1>1, <2>3 DEF FindByID, r
    <3>2. row[r.subject] \in Row
      BY <1>0, <2>3 DEF TypeOK
    <3>3. mine \in Row
      BY <3>1, <3>2 DEF Changed, Row
    <3> DEFINE x == [r EXCEPT !.at = "write", !.mine = mine, !.noted = 0]
    <3>4. x \in InProgress /\ x.at = "write" /\ x.mine = mine
      BY <1>0, <3>3, Names DEF InProgress
    <3>5. x.used = r.used
      BY <1>0 DEF InProgress
    <3>6. Become(p, x) /\ mine # NoRow
      BY <3>1, <3>3, NothingAssumption
    <3> HIDE DEF x
    <3>7. TypeOK'
      BY <1>1, <2>1, <3>4, <3>6, BecomeTypes DEF FindByID, Given, Accounts, TypeOK, TokensTypeOK
    <3>8. r # Idle /\ r.at = "find"
      BY <1>1 DEF FindByID, At, r
    <3> QED
      BY <1>1, <3>4, <3>5, <3>6, <3>7, <3>8, QuietStep DEF FindByID, Given, r
  <2> QED
    BY <2>2, <2>3
<1>2. CASE Update(p)
  <2>1. r # Idle /\ r.at = "write" /\ r.mine \in Row
    BY <1>0, <1>2 DEF Update, At, RequestOK, InProgress, r
  <2>2. row' \in [Subject -> Row \cup {NoRow}]
    BY <1>0, <1>2, <2>1 DEF Update, Written, TypeOK, r
  <2> DEFINE x == [r EXCEPT !.at = "revoke", !.password = r.mine.password, !.mine = NoRow]
  <2>3. x \in InProgress /\ x.at = "revoke" /\ x.used = r.used
    <3>1. r.mine.password \in Nat
      BY <2>1 DEF Row
    <3>2. x \in InProgress
      BY <1>0, <3>1, Names DEF InProgress
    <3> QED
      BY <1>0, <3>2 DEF InProgress
  <2>4. Become(p, x) \/ Become(p, Idle)
    BY <1>2 DEF Update, Finish, r
  <2> HIDE DEF x
  <2>5. TypeOK'
    BY <1>2, <2>2, <2>3, <2>4, BecomeTypes DEF Update, Given, tokenVars, TypeOK, TokensTypeOK
  <2> QED
    BY <1>2, <2>1, <2>3, <2>4, <2>5, QuietStep DEF Update, Given, tokenVars, r
<1>3. CASE Revoke(p)
  <2> DEFINE stage == IF version[r.subject].number = 0 THEN "set" ELSE "incr"
             x == [r EXCEPT !.noted = 0, !.at = stage]
  <2>1. mem' \in [Server -> [Subject -> Nat]]
    BY <1>0, <1>3, RememberTypes DEF Revoke, Note, InProgress, TypeOK, r
  <2>2. stage \in Stages
    BY Names
  <2>3. x \in InProgress
    <3> HIDE DEF stage
    <3> QED
      BY <1>0, <2>2 DEF InProgress
  <2>4. x.at = stage /\ x.used = r.used /\ x.subject = r.subject
    <3> HIDE DEF stage
    <3> QED
      BY <1>0 DEF InProgress
  <2>5. Become(p, x)
    BY <1>3 DEF Revoke, r
  <2>6. stage \in {"set", "incr"} /\ (stage = "incr" => version[r.subject].number # 0)
    OBVIOUS
  <2> HIDE DEF x, stage
  <2>7. TypeOK'
    BY <1>3, <2>1, <2>3, <2>5, BecomeTypes DEF Revoke, Given, Accounts, TypeOK, TokensTypeOK
  <2>8. r # Idle /\ r.at = "revoke"
    BY <1>3 DEF Revoke, At, r
  <2> QED
    BY <1>3, <2>3, <2>4, <2>5, <2>6, <2>7, <2>8, QuietStep DEF Revoke, Given, r
<1>4. CASE RevokeVersion(p)
  <2>1. r # Idle /\ r.at \in {"set", "incr"}
    BY <1>4 DEF RevokeVersion, At, r
  <2>2. /\ version' \in [Subject -> Version] /\ mem' \in [Server -> [Subject -> Nat]]
        /\ \A z \in Subject : version[z].number # 0 => version'[z].number # 0
    <3>1. \/ FirstVersion(r.server, r.subject)
          \/ NextVersion(r.server, r.subject) /\ r.at = "incr"
      BY <1>4 DEF RevokeVersion, At, r
    <3>2. r.at = "incr" => version[r.subject].number # 0
      BY <1>0 DEF RequestOK
    <3> QED
      BY <1>0, <3>1, <3>2, RevokeTypes DEF TypeOK
  <2>3. revoked' \subseteq tokens' /\ retired' \in [Subject -> SUBSET Nat]
    BY <1>0, <1>4 DEF RevokeVersion, TypeOK, r
  <2> DEFINE x == [r EXCEPT !.at = "access"]
  <2>4. x \in InProgress /\ x.at = "access" /\ x.used = r.used
    BY <1>0, Names DEF InProgress
  <2>5. Become(p, x) \/ Become(p, Idle)
    BY <1>4 DEF RevokeVersion, AfterRevoke, Finish, r
  <2> HIDE DEF x
  <2>6. TypeOK'
    BY <1>4, <2>2, <2>3, <2>4, <2>5, BecomeTypes
       DEF RevokeVersion, Accounts, TypeOK, TokensTypeOK, Version
  <2> QED
    BY <1>4, <2>1, <2>2, <2>4, <2>5, <2>6, QuietStep DEF RevokeVersion, r
<1> QED
  BY <1>1, <1>2, <1>3, <1>4

\* Exactly one request finds the id of a refresh token.
LEMMA TakeStep ==
    ASSUME SessionInv, NEW p \in Request, TakeRefresh(p)
    PROVE  SessionInv'
<1> DEFINE r == req[p]  x == [r EXCEPT !.at = "access", !.noted = 0]
<1> USE DEF SessionInv
<1>1. r \in InProgress /\ RequestOK(r) /\ r # Idle /\ r.at = "take"
  BY RequestTypes DEF TakeRefresh, At, RequestsOK
<1> HIDE DEF r
<1>2. r.used \in handles /\ r.used \in Handle
  BY <1>1 DEF RequestOK, TypeOK, TokensTypeOK
<1>3. refresh' = [refresh EXCEPT ![r.used] = 0] /\ taken' = taken \cup {r.used}
  BY DEF TakeRefresh, TakeHandle, r
<1>4. x \in InProgress /\ x.at = "access"
  BY <1>1, Names DEF InProgress
<1>5. x.used = r.used
  BY <1>1 DEF InProgress
<1>6. \/ Become(p, Idle) /\ refresh[r.used] = 0
      \/ Become(p, x) /\ refresh[r.used] # 0
  BY DEF TakeRefresh, Finish, r
<1> HIDE DEF x
<1>7. TypeOK'
  <2>1. mem' \in [Server -> [Subject -> Nat]]
    BY <1>1, RememberTypes DEF TakeRefresh, Note, InProgress, TypeOK, r
  <2> QED
    BY <1>2, <1>3, <1>4, <1>6, <2>1, BecomeTypes DEF TakeRefresh, Accounts, TypeOK, TokensTypeOK
<1>8. \A o \in Request \ {p} : req'[o] = req[o]
  BY <1>4, <1>6, BecomeTypes
<1>9. req'[p] = Idle \/ (req'[p] = x /\ r.used \notin taken)
  BY <1>4, <1>6, BecomeTypes DEF UsedAreGone
<1>10. RequestsOK'
  <2>1. (req[p] # Idle => RequestOK(req[p]))'
    BY <1>2, <1>3, <1>4, <1>5, <1>9, NothingAssumption DEF RequestOK, TakeRefresh
  <2> QED
    BY <1>3, <1>8, <2>1, OthersOK DEF TakeRefresh, TypeOK, TokensTypeOK
<1>11. UsedAreGone'
  BY <1>2, <1>3 DEF TakeRefresh, UsedAreGone, TypeOK, TokensTypeOK
<1>12. RefreshOnce'
  <2>1. \A t \in tokens : t.used \in taken \cup {NoHandle}
    BY DEF UsedAreGone
  <2>2. \A o \in Request : Exchanging(o) => req[o].used \in taken
    BY DEF RequestsOK, RequestOK, Exchanging
  <2>3. r.used # NoHandle
    BY <1>2, HandleAssumption
  <2>4. \A o \in Request : Exchanging(o)' =>
           \/ o = p /\ req'[p].used = r.used /\ r.used \notin taken
           \/ o # p /\ Exchanging(o) /\ req'[o].used = req[o].used
    BY <1>5, <1>8, <1>9 DEF Exchanging
  <2>5. tokens' = tokens
    BY DEF TakeRefresh
  <2> QED
    BY <2>1, <2>2, <2>3, <2>4, <2>5 DEF RefreshOnce
<1>13. RefreshGood'
  BY <1>2, <1>3 DEF TakeRefresh, RefreshGood, UsedAreGone, TypeOK, TokensTypeOK
<1> QED
  BY <1>7, <1>10, <1>11, <1>12, <1>13

\* A new pair is made: the version for the access token is looked up, the id of
\* the refresh token is stored.
LEMMA GenerateStep ==
    ASSUME SessionInv, NEW p \in Request, Generate(p) \/ GenerateRefresh(p)
    PROVE  SessionInv'
<1> DEFINE r == req[p]
<1> USE DEF SessionInv
<1>0. r \in InProgress /\ RequestOK(r) /\ r # Idle /\ r.at \in {"access", "store"}
  BY RequestTypes DEF Generate, GenerateRefresh, At, RequestsOK
<1> HIDE DEF r
<1>1. CASE Generate(p)
  <2>1. PICK v \in 0..MaxVersion, noted \in 0..MaxVersion :
           /\ FindVersion(r.server, r.subject, v, noted)
           /\ Become(p, [r EXCEPT !.at = "store", !.number = v, !.noted = noted])
    BY <1>1 DEF Generate, r
  <2> DEFINE x == [r EXCEPT !.at = "store", !.number = v, !.noted = noted]
  <2>2. x \in InProgress /\ x.at = "store" /\ x.used = r.used
    <3>0. v \in Nat /\ noted \in Nat
      BY BoundAssumption
    <3>1. x \in InProgress
      BY <1>0, <3>0, Names DEF InProgress
    <3>2. x.used = r.used
      BY <1>0 DEF InProgress
    <3>3. x.at = "store"
      BY <1>0 DEF InProgress
    <3> QED
      BY <3>1, <3>2, <3>3
  <2>3. Become(p, x)
    BY <2>1
  <2> HIDE DEF x
  <2>4. version' \in [Subject -> Version] /\ \A z \in Subject : version'[z].number = version[z].number
    BY <1>0, <2>1, FindTypes DEF TypeOK, InProgress
  <2>5. TypeOK'
    BY <1>1, <2>2, <2>3, <2>4, BecomeTypes
       DEF Generate, Given, Accounts, TypeOK, TokensTypeOK, Version
  <2> QED
    BY <1>0, <1>1, <2>2, <2>3, <2>4, <2>5, QuietStep DEF Generate, Given, r
<1>2. CASE GenerateRefresh(p)
  <2>1. PICK h \in Handle :
           /\ StoreHandle(h)
           /\ Become(p, [r EXCEPT !.at = "refresh", !.handle = h, !.noted = 0])
    BY <1>2 DEF GenerateRefresh, r
  <2> DEFINE x == [r EXCEPT !.at = "refresh", !.handle = h, !.noted = 0]
  <2>2. x \in InProgress /\ x.at = "refresh" /\ x.used = r.used /\ x.handle = h
    <3>1. x \in InProgress
      BY <1>0, Names DEF InProgress
    <3> QED
      BY <1>0, <3>1 DEF InProgress
  <2>3. Become(p, x)
    BY <2>1
  <2> HIDE DEF x
  <2>4. /\ h \in Handle \ handles /\ handles' = handles \cup {h}
        /\ refresh' = [refresh EXCEPT ![h] = now + RefreshTTL]
        /\ now + RefreshTTL \in Nat
    BY <2>1, TTLAssumption DEF StoreHandle, TypeOK, TokensTypeOK
  <2>5. mem' \in [Server -> [Subject -> Nat]]
    BY <1>0, <1>2, RememberTypes DEF GenerateRefresh, Note, InProgress, TypeOK, r
  <2>6. TypeOK'
    BY <1>2, <2>2, <2>3, <2>4, <2>5, BecomeTypes
       DEF GenerateRefresh, Given, Accounts, TypeOK, TokensTypeOK
  <2>7. req'[p] = x /\ \A o \in Request \ {p} : req'[o] = req[o]
    BY <2>2, <2>3, BecomeTypes
  <2>8. RequestsOK'
    <3>1. RequestOK(r) /\ r.at = "store"
      BY <1>0, <1>2 DEF GenerateRefresh, At, r
    <3>2. (req[p] # Idle => RequestOK(req[p]))'
      BY <1>2, <2>2, <2>4, <2>7, <3>1 DEF RequestOK, GenerateRefresh, Given, TypeOK, TokensTypeOK
    <3> QED
      BY <1>2, <2>4, <2>7, <3>2, OthersOK DEF GenerateRefresh, Given, TypeOK, TokensTypeOK
  <2>9. UsedAreGone'
    BY <1>2, <2>4 DEF GenerateRefresh, Given, UsedAreGone, TypeOK, TokensTypeOK
  <2>10. RefreshOnce'
    <3>1. \A o \in Request : Exchanging(o)' => Exchanging(o) /\ req'[o].used = req[o].used
      BY <1>0, <2>2, <2>7 DEF Exchanging, r
    <3>2. tokens' = tokens
      BY <1>2 DEF GenerateRefresh, Given
    <3> QED
      BY <3>1, <3>2 DEF RefreshOnce
  <2>11. RefreshGood'
    BY <1>2, <2>4 DEF GenerateRefresh, Given, RefreshGood, UsedAreGone, TypeOK, TokensTypeOK
  <2> QED
    BY <2>6, <2>8, <2>9, <2>10, <2>11
<1> QED
  BY <1>1, <1>2

\* The tokens of the answer.
LEMMA PairTypes ==
    ASSUME TypeOK, NEW r \in InProgress, NEW v \in Nat
    PROVE  /\ Pair(r, v) \subseteq Token
           /\ \A t \in Pair(r, v) :
                 /\ t.subject = r.subject /\ t.used = r.used /\ t.password = r.password
                 /\ t.blind = r.blind
                 /\ \/ t.type = "access" /\ t.number = r.number /\ t.until = now + AccessTTL
                    \/ /\ t.type = "refresh" /\ t.number = v /\ t.until = now + RefreshTTL
                       /\ t.handle = r.handle
           /\ \A t, u \in Pair(r, v) : t.type = u.type => t = u
<1> DEFINE a == [type |-> "access", subject |-> r.subject, number |-> r.number,
                 until |-> now + AccessTTL, handle |-> NoHandle,
                 password |-> r.password, used |-> r.used, blind |-> r.blind]
           b == [a EXCEPT !.type = "refresh", !.number = v, !.until = now + RefreshTTL,
                          !.handle = r.handle]
<1>1. now + AccessTTL \in Nat /\ now + RefreshTTL \in Nat
  BY TTLAssumption DEF TypeOK, TokensTypeOK
<1>2. /\ r.subject \in Subject /\ r.number \in Nat /\ r.password \in Nat /\ r.blind \in BOOLEAN
      /\ r.used \in Handle \cup {NoHandle} /\ r.handle \in Handle \cup {NoHandle}
  BY DEF InProgress
<1>3. a \in Token
  BY <1>1, <1>2 DEF Token
<1>4. /\ a.type = "access" /\ a.subject = r.subject /\ a.used = r.used /\ a.password = r.password
      /\ a.blind = r.blind /\ a.number = r.number /\ a.until = now + AccessTTL
  OBVIOUS
<1>5. Pair(r, v) = {a, b}
  BY DEF Pair
<1> HIDE DEF a
<1>6. b \in Token
  BY <1>1, <1>2, <1>3 DEF Token
<1>7. b.type = "refresh" /\ b.number = v /\ b.until = now + RefreshTTL /\ b.handle = r.handle
  BY <1>3 DEF Token
<1>8. /\ b.subject = r.subject /\ b.used = r.used /\ b.password = r.password
      /\ b.blind = r.blind
  BY <1>3, <1>4 DEF Token
<1> HIDE DEF b
<1> QED
  BY <1>3, <1>4, <1>5, <1>6, <1>7, <1>8

\* The answer carries a new pair, the first that stems from the token exchanged.
LEMMA AnswerStep ==
    ASSUME SessionInv, NEW p \in Request, Answer(p)
    PROVE  SessionInv'
<1> DEFINE r == req[p]
<1> USE DEF SessionInv
<1>0. r \in InProgress /\ RequestOK(r) /\ r # Idle /\ r.at = "refresh"
  BY RequestTypes DEF Answer, At, RequestsOK
<1>1. PICK v \in 0..MaxVersion, noted \in 0..MaxVersion :
         /\ FindVersion(r.server, r.subject, v, noted)
         /\ tokens' = tokens \cup Pair(r, v)
         /\ Remember(r.server, r.subject, noted)
  BY DEF Answer
<1>2. v \in Nat /\ noted \in Nat /\ r.subject \in Subject /\ r.server \in Server
  BY <1>0, BoundAssumption DEF InProgress
<1>3. /\ version' \in [Subject -> Version]
      /\ \A z \in Subject : version'[z].number = version[z].number
      /\ mem' \in [Server -> [Subject -> Nat]]
  BY <1>1, <1>2, FindTypes, RememberTypes DEF TypeOK
<1>4. Become(p, Idle)
  BY DEF Answer, Finish
<1>5. req'[p] = Idle /\ \A o \in Request \ {p} : req'[o] = req[o]
  BY <1>4, BecomeTypes
<1> DEFINE N == Pair(r, v)
<1>6. /\ N \subseteq Token
      /\ \A t \in N :
            /\ t.used = r.used
            /\ t.type = "refresh" => t.until = now + RefreshTTL /\ t.handle = r.handle
      /\ \A t, u \in N : t.type = u.type => t = u
  BY <1>0, <1>2, PairTypes
<1>7. tokens' = tokens \cup N
  BY <1>1
<1> HIDE DEF r, N
<1>8. TypeOK'
  BY <1>3, <1>4, <1>6, <1>7, BecomeTypes DEF Answer, Accounts, TypeOK, TokensTypeOK, Version
<1>9. RequestsOK'
  BY <1>3, <1>5, OthersOK DEF Answer
<1>10. UsedAreGone'
  <2>1. r.used \in taken \cup {NoHandle} /\ r.handle \in handles
    BY <1>0 DEF RequestOK
  <2> QED
    BY <1>6, <1>7, <2>1 DEF Answer, UsedAreGone
<1>11. RefreshOnce'
  <2>1. r.used # NoHandle => Exchanging(p)
    BY <1>0 DEF Exchanging, r
  <2>2. r.used # NoHandle => \A t \in tokens : t.used # r.used
    BY <2>1 DEF RefreshOnce, r
  <2>3. \A o \in Request : Exchanging(o)' => Exchanging(o) /\ req'[o].used = req[o].used /\ o # p
    BY <1>5 DEF Exchanging
  <2>4. \A o \in Request : Exchanging(o)' => req[o].used # r.used
    BY <2>1, <2>3 DEF RefreshOnce, Exchanging, r
  <2> QED
    BY <1>6, <1>7, <2>2, <2>3, <2>4 DEF RefreshOnce
<1>12. RefreshGood'
  <2>1. r.handle \in taken \/ refresh[r.handle] = now + RefreshTTL
    BY <1>0 DEF RequestOK
  <2> QED
    BY <1>6, <1>7, <2>1 DEF Answer, RefreshGood
<1> QED
  BY <1>8, <1>9, <1>10, <1>11, <1>12

-----------------------------------------------------------------------------
\* Accounts are created, requests fail, servers restart, time passes.
LEMMA WorldStep ==
    ASSUME SessionInv,
           \/ \E p \in Request : RequestFails(p)
           \/ \E s \in Subject : CreateUser(s)
           \/ \E w \in Server : Restart(w)
           \/ Tick
           \/ UNCHANGED vars
    PROVE  SessionInv'
<1> USE DEF SessionInv
<1>1. ASSUME NEW p \in Request, RequestFails(p) PROVE SessionInv'
  <2>1. Become(p, Idle)
    BY <1>1 DEF RequestFails, Finish
  <2>2. TypeOK'
    BY <1>1, <2>1, BecomeTypes DEF RequestFails, Given, Accounts, tokenVars, TypeOK, TokensTypeOK
  <2> QED
    BY <1>1, <2>1, <2>2, QuietStep DEF RequestFails, Given, tokenVars
<1>2. ASSUME UNCHANGED <<req, refresh, handles, tokens, taken, now, version>>, TypeOK' PROVE SessionInv'
  <2>1. RequestsOK'
    BY <1>2 DEF RequestsOK, RequestOK
  <2>2. \A o \in Request : Exchanging(o)' => Exchanging(o) /\ req'[o].used = req[o].used
    BY <1>2 DEF Exchanging
  <2> QED
    BY <1>2, <2>1, <2>2, QuietHandles
<1>3. ASSUME NEW s \in Subject, CreateUser(s) PROVE SessionInv'
  <2>1. PICK d \in Details : row' = [row EXCEPT ![s] = [password |-> 1, details |-> d]]
    BY <1>3 DEF CreateUser
  <2>2. row' \in [Subject -> Row \cup {NoRow}]
    BY <2>1 DEF TypeOK, Row
  <2>3. TypeOK'
    BY <1>3, <2>2 DEF CreateUser, Given, tokenVars, TypeOK, TokensTypeOK
  <2> QED
    BY <1>2, <1>3, <2>3 DEF CreateUser, Given, tokenVars
<1>4. ASSUME NEW w \in Server, Restart(w) PROVE SessionInv'
  <2>1. mem' \in [Server -> [Subject -> Nat]]
    BY <1>4 DEF Restart, ForgetAll, TypeOK, TokensTypeOK
  <2>2. /\ req' \in [Request -> InProgress \cup {Idle}]
        /\ \A o \in Request : req'[o] # Idle => req'[o] = req[o]
    BY <1>4 DEF Restart, TypeOK
  <2>3. TypeOK'
    BY <1>4, <2>1, <2>2 DEF Restart, Given, Accounts, TypeOK, TokensTypeOK
  <2>4. RequestsOK'
    BY <1>4, <2>2 DEF Restart, Given, RequestsOK, RequestOK
  <2>5. \A o \in Request : Exchanging(o)' => Exchanging(o) /\ req'[o].used = req[o].used
    BY <2>2 DEF Exchanging
  <2> QED
    BY <1>4, <2>3, <2>4, <2>5, QuietHandles DEF Restart, Given
<1>5. CASE Tick
  <2>1. /\ version' \in [Subject -> Version] /\ refresh' \in [Handle -> Nat]
        /\ mem' \in [Server -> [Subject -> Nat]]
    BY <1>5 DEF Tick, TimePasses, Forgetful, TypeOK, TokensTypeOK, Version
  <2>2. TypeOK'
    BY <1>5, <2>1 DEF Tick, TimePasses, Accounts, TypeOK, TokensTypeOK, Version
  <2>3. RequestsOK'
    BY <1>5 DEF Tick, RequestsOK
  <2>4. UsedAreGone'
    BY <1>5 DEF Tick, TimePasses, UsedAreGone, TypeOK, TokensTypeOK
  <2>5. RefreshOnce'
    BY <1>5 DEF Tick, RefreshOnce, Exchanging
  <2>6. RefreshGood'
    <3> SUFFICES ASSUME NEW t \in tokens', t.type = "refresh", t.handle \notin taken
                 PROVE  refresh'[t.handle] = t.until
      BY <1>5 DEF Tick, RefreshGood
    <3>1. t \in tokens /\ t.until > now + 1 /\ t.until \in Nat
      BY <1>5 DEF Tick, TypeOK, Token
    <3>2. t.handle \in Handle /\ refresh[t.handle] = t.until
      BY <3>1 DEF RefreshGood, UsedAreGone, TypeOK, TokensTypeOK
    <3> QED
      BY <1>5, <3>1, <3>2 DEF Tick, TimePasses, TypeOK, TokensTypeOK
  <2> QED
    BY <2>2, <2>3, <2>4, <2>5, <2>6
<1>6. CASE UNCHANGED vars
  BY <1>2, <1>6 DEF vars, TypeOK, TokensTypeOK
<1> QED
  BY <1>1, <1>3, <1>4, <1>5, <1>6

LEMMA InitInv == Init => SessionInv
<1> SUFFICES ASSUME Init PROVE SessionInv
  OBVIOUS
<1>1. TypeOK
  BY DEF Init, TokensInit, TypeOK, TokensTypeOK
<1>2. RequestsOK /\ UsedAreGone /\ RefreshOnce /\ RefreshGood
  BY DEF Init, RequestsOK, UsedAreGone, RefreshOnce, RefreshGood, Exchanging
<1> QED
  BY <1>1, <1>2 DEF SessionInv

\* Every step keeps the invariant.
LEMMA InvStep == SessionInv /\ [Next]_vars => SessionInv'
  BY BeginStep, WriteStep, TakeStep, GenerateStep, AnswerStep, WorldStep DEF Next

LEMMA Invariant == Spec => []SessionInv
  BY InitInv, InvStep, PTL DEF Spec

\* Every variable has its type in every reachable state.  For the versions this
\* says that Redis never holds version 1, the one that tokens have without a key:
\* INCR follows a look that found a key, and keys do not end during a request.
THEOREM TypeCorrect == Spec => []TypeOK
<1>1. SessionInv => TypeOK
  BY DEF SessionInv
<1> QED
  BY <1>1, Invariant, PTL

\* A refresh token is exchanged for one pair at most, on any number of servers and
\* by any number of requests at a time, whatever fails and restarts: RotateRefresh
\* reads the id and removes it in one command.
THEOREM ExchangedOnce == Spec => []RefreshOnce
<1>1. SessionInv => RefreshOnce
  BY DEF SessionInv
<1> QED
  BY <1>1, Invariant, PTL

\* The refresh token of every pair given out can be exchanged for as long as it
\* lives, until somebody does: mintPair stores its id before.
THEOREM UnusedStaysGood == Spec => []RefreshGood
<1>1. SessionInv => RefreshGood
  BY DEF SessionInv
<1> QED
  BY <1>1, Invariant, PTL

-----------------------------------------------------------------------------
(***************************************************************************)
(* What is revoked stays refused, when no two Revokes of one account       *)
(* overlap.  Versions only grow while any token of the account that is     *)
(* above the first one lives: the key in Redis outlives it.                *)
(***************************************************************************)
Ending == {"Logout", "ChangePassword", "DeleteUser"}

\* Deletions may overlap: only one of them finds the account.
RevokesApart ==
    \A a, b \in Ending : {a, b} \in Together => a = "DeleteUser" /\ b = "DeleteUser"

\* Which operation is where.
StageFits(r) ==
    /\ r.at \in {"find", "write"} => r.op \in {"ChangePassword", "Edit"}
    /\ r.at \in {"revoke", "set", "incr"} => r.op \in Ending
    /\ r.at = "take" => r.op = "Refresh"
    /\ r.at \in {"access", "store", "refresh"} => r.op \in {"Login", "Refresh", "ChangePassword"}

\* Two requests in progress on one account are two that may be; an account is
\* deleted once.
Gone(s) == row[s] = NoRow /\ s \in born

InvolvedInv ==
    /\ \A s \in Subject : row[s] # NoRow => s \in born
    /\ \A p \in Request : req[p] # Idle =>
          StageFits(req[p]) /\ (req[p].op = "DeleteUser" => Gone(req[p].subject))
    /\ \A p, o \in Request :
          p # o /\ req[p] # Idle /\ req[o] # Idle /\ req[p].subject = req[o].subject =>
             /\ {req[p].op, req[o].op} \in Together
             /\ ~(req[p].op = "DeleteUser" /\ req[o].op = "DeleteUser")

\* A version that was read in this step of time.
Seen(s, v) ==
    /\ v <= Current(s)
    /\ v > 1 => version[s].number # 0 /\ version[s].until = now + VersionTTL

VersionInv ==
    /\ \A w \in Server, s \in Subject : Seen(s, mem[w][s])
    /\ \A p \in Request : req[p] # Idle =>
          /\ Seen(req[p].subject, req[p].noted) /\ Seen(req[p].subject, req[p].number)
          /\ req[p].at = "set" => version[req[p].subject].number = 0

\* The key of the version outlives the tokens of a version above the first one,
\* and those that a Revoke has outdated.
Fitting(t) ==
    /\ t.until <= now + VersionTTL
    /\ t.number <= Current(t.subject)
    /\ t.number > 1 => version[t.subject].number # 0 /\ t.until <= version[t.subject].until

Outdated(t) == t.number < version[t.subject].number /\ t.until <= version[t.subject].until

TokensInv == (\A t \in tokens : Fitting(t)) /\ (\A t \in revoked : Outdated(t))

OldTokensInv == SessionInv /\ InvolvedInv /\ VersionInv /\ TokensInv

-----------------------------------------------------------------------------
\* What a request r becomes when it goes on.
Successor(r, x) ==
    /\ x.op = r.op /\ x.subject = r.subject /\ x.blind = r.blind
    /\ (x.number = r.number /\ x.noted \in {0, r.noted}) \/ r.at = "access"
    /\ x.password = r.password \/ (r.at = "write" /\ x.password = r.mine.password)
    /\ \/ r.at = "find" /\ x.at = "write"
       \/ r.at = "write" /\ x.at = "revoke" /\ r.op = "ChangePassword"
       \/ r.at = "revoke" /\ x.at = "set" /\ version[r.subject].number = 0
       \/ r.at = "revoke" /\ x.at = "incr"
       \/ r.at \in {"set", "incr"} /\ x.at = "access" /\ r.op = "ChangePassword"
       \/ r.at = "take" /\ x.at = "access"
       \/ r.at = "access" /\ x.at = "store"
       \/ r.at = "store" /\ x.at = "refresh"

\* The steps of a request in progress.
Advance(p) ==
    \/ FindByID(p) \/ Update(p) \/ Revoke(p) \/ RevokeVersion(p)
    \/ TakeRefresh(p) \/ Generate(p) \/ GenerateRefresh(p) \/ Answer(p)
    \/ RequestFails(p)

LEMMA AdvanceFacts ==
    ASSUME TypeOK, NEW p \in Request, Advance(p)
    PROVE  /\ req[p] # Idle /\ \A o \in Request \ {p} : req'[o] = req[o]
           /\ req'[p] = Idle \/ Successor(req[p], req'[p])
<1> DEFINE r == req[p]
<1>0. r # Idle /\ r \in InProgress
  <2>1. r # Idle
    BY DEF Advance, FindByID, Update, Revoke, RevokeVersion, TakeRefresh, Generate,
           GenerateRefresh, Answer, RequestFails, At
  <2> QED
    BY <2>1, RequestTypes
<1>1. ASSUME NEW x, Become(p, x), x = Idle \/ Successor(r, x) PROVE
         /\ r # Idle /\ \A o \in Request \ {p} : req'[o] = req[o]
         /\ req'[p] = Idle \/ Successor(r, req'[p])
  <2>1. req'[p] = x /\ \A o \in Request \ {p} : req'[o] = req[o]
    BY <1>1 DEF Become, TypeOK
  <2> QED
    BY <1>0, <1>1, <2>1
<1>2. ASSUME Finish(p) PROVE
         /\ r # Idle /\ \A o \in Request \ {p} : req'[o] = req[o]
         /\ req'[p] = Idle \/ Successor(r, req'[p])
  BY <1>1, <1>2 DEF Finish
<1> HIDE DEF r
<1>3. CASE FindByID(p) /\ row[r.subject] # NoRow
  <2>1. PICK mine : Become(p, [r EXCEPT !.at = "write", !.mine = mine, !.noted = 0])
    BY <1>3 DEF FindByID, r
  <2> DEFINE x == [r EXCEPT !.at = "write", !.mine = mine, !.noted = 0]
  <2>2. r.at = "find"
    BY <1>3 DEF FindByID, At, r
  <2>3. Successor(r, x)
    <3>1. x.op = r.op /\ x.subject = r.subject /\ x.blind = r.blind
      BY <1>0 DEF InProgress
    <3>2. x.number = r.number /\ x.noted = 0
      BY <1>0 DEF InProgress
    <3>3. x.password = r.password
      BY <1>0 DEF InProgress
    <3>4. x.at = "write"
      BY <1>0 DEF InProgress
    <3> QED
      BY <2>2, <3>1, <3>2, <3>3, <3>4 DEF Successor
  <2> HIDE DEF x
  <2> QED
    BY <1>1, <2>1, <2>3 DEF r, x
<1>4. CASE Update(p) /\ r.op = "ChangePassword"
  <2>1. Become(p, [r EXCEPT !.at = "revoke", !.password = r.mine.password, !.mine = NoRow])
    BY <1>4 DEF Update, r
  <2> DEFINE x == [r EXCEPT !.at = "revoke", !.password = r.mine.password, !.mine = NoRow]
  <2>2. r.at = "write" /\ r.op = "ChangePassword"
    BY <1>4 DEF Update, At, r
  <2>3. Successor(r, x)
    <3>1. x.op = r.op /\ x.subject = r.subject /\ x.blind = r.blind
      BY <1>0 DEF InProgress
    <3>2. x.number = r.number /\ x.noted = r.noted
      BY <1>0 DEF InProgress
    <3>3. x.password = r.mine.password
      BY <1>0 DEF InProgress
    <3>4. x.at = "revoke"
      BY <1>0 DEF InProgress
    <3> QED
      BY <2>2, <3>1, <3>2, <3>3, <3>4 DEF Successor
  <2> HIDE DEF x
  <2> QED
    BY <1>1, <2>1, <2>3 DEF r, x
<1>5. CASE Revoke(p)
  <2> DEFINE stage == IF version[r.subject].number = 0 THEN "set" ELSE "incr"
             x == [r EXCEPT !.noted = 0, !.at = stage]
  <2>1. Become(p, x)
    BY <1>5 DEF Revoke, r
  <2>2. r.at = "revoke"
    BY <1>5 DEF Revoke, At, r
  <2>3. (stage = "set" /\ version[r.subject].number = 0) \/ stage = "incr"
    OBVIOUS
  <2> HIDE DEF stage
  <2>4. Successor(r, x)
    <3>1. x.op = r.op /\ x.subject = r.subject /\ x.blind = r.blind
      BY <1>0 DEF InProgress
    <3>2. x.number = r.number /\ x.noted = 0
      BY <1>0 DEF InProgress
    <3>3. x.password = r.password
      BY <1>0 DEF InProgress
    <3>4. x.at = stage
      BY <1>0 DEF InProgress
    <3> QED
      BY <2>2, <2>3, <3>1, <3>2, <3>3, <3>4 DEF Successor
  <2> HIDE DEF x
  <2> QED
    BY <1>1, <2>1, <2>4 DEF r
<1>6. CASE RevokeVersion(p) /\ r.op = "ChangePassword"
  <2>1. Become(p, [r EXCEPT !.at = "access"])
    BY <1>6 DEF RevokeVersion, AfterRevoke, r
  <2> DEFINE x == [r EXCEPT !.at = "access"]
  <2>2. r.at \in {"set", "incr"} /\ r.op = "ChangePassword"
    BY <1>6 DEF RevokeVersion, At, r
  <2>3. Successor(r, x)
    <3>1. x.op = r.op /\ x.subject = r.subject /\ x.blind = r.blind
      BY <1>0 DEF InProgress
    <3>2. x.number = r.number /\ x.noted = r.noted
      BY <1>0 DEF InProgress
    <3>3. x.password = r.password
      BY <1>0 DEF InProgress
    <3>4. x.at = "access"
      BY <1>0 DEF InProgress
    <3> QED
      BY <2>2, <3>1, <3>2, <3>3, <3>4 DEF Successor
  <2> HIDE DEF x
  <2> QED
    BY <1>1, <2>1, <2>3 DEF r, x
<1>7. CASE TakeRefresh(p) /\ refresh[r.used] # 0
  <2>1. Become(p, [r EXCEPT !.at = "access", !.noted = 0])
    BY <1>7 DEF TakeRefresh, r
  <2> DEFINE x == [r EXCEPT !.at = "access", !.noted = 0]
  <2>2. r.at = "take"
    BY <1>7 DEF TakeRefresh, At, r
  <2>3. Successor(r, x)
    <3>1. x.op = r.op /\ x.subject = r.subject /\ x.blind = r.blind
      BY <1>0 DEF InProgress
    <3>2. x.number = r.number /\ x.noted = 0
      BY <1>0 DEF InProgress
    <3>3. x.password = r.password
      BY <1>0 DEF InProgress
    <3>4. x.at = "access"
      BY <1>0 DEF InProgress
    <3> QED
      BY <2>2, <3>1, <3>2, <3>3, <3>4 DEF Successor
  <2> HIDE DEF x
  <2> QED
    BY <1>1, <2>1, <2>3 DEF r, x
<1>8. CASE Generate(p)
  <2>1. PICK v, noted : Become(p, [r EXCEPT !.at = "store", !.number = v, !.noted = noted])
    BY <1>8 DEF Generate, r
  <2> DEFINE x == [r EXCEPT !.at = "store", !.number = v, !.noted = noted]
  <2>2. r.at = "access"
    BY <1>8 DEF Generate, At, r
  <2>3. Successor(r, x)
    <3>1. x.op = r.op /\ x.subject = r.subject /\ x.blind = r.blind
      BY <1>0 DEF InProgress
    <3>2. x.password = r.password
      BY <1>0 DEF InProgress
    <3>3. x.at = "store"
      BY <1>0 DEF InProgress
    <3> QED
      BY <2>2, <3>1, <3>2, <3>3 DEF Successor
  <2> HIDE DEF x
  <2> QED
    BY <1>1, <2>1, <2>3 DEF r, x
<1>9. CASE GenerateRefresh(p)
  <2>1. PICK h : Become(p, [r EXCEPT !.at = "refresh", !.handle = h, !.noted = 0])
    BY <1>9 DEF GenerateRefresh, r
  <2> DEFINE x == [r EXCEPT !.at = "refresh", !.handle = h, !.noted = 0]
  <2>2. r.at = "store"
    BY <1>9 DEF GenerateRefresh, At, r
  <2>3. Successor(r, x)
    <3>1. x.op = r.op /\ x.subject = r.subject /\ x.blind = r.blind
      BY <1>0 DEF InProgress
    <3>2. x.number = r.number /\ x.noted = 0
      BY <1>0 DEF InProgress
    <3>3. x.password = r.password
      BY <1>0 DEF InProgress
    <3>4. x.at = "refresh"
      BY <1>0 DEF InProgress
    <3> QED
      BY <2>2, <3>1, <3>2, <3>3, <3>4 DEF Successor
  <2> HIDE DEF x
  <2> QED
    BY <1>1, <2>1, <2>3 DEF r, x
<1> QED
  BY <1>2, <1>3, <1>4, <1>5, <1>6, <1>7, <1>8, <1>9
     DEF Advance, FindByID, Update, RevokeVersion, AfterRevoke, TakeRefresh, Answer, RequestFails, r

\* The steps that begin one.
Begins(p) ==
    \E w \in Server :
       \/ \E s \in Subject : DeleteUser(p, w, s) \/ Login(p, w, s) \/ UpdateUserRole(p, w, s)
       \/ \E t \in tokens : Refresh(p, w, t) \/ \E op \in OpNames : Authorised(p, w, t, op)

\* What a request x is that begins.
Starter(x) ==
    /\ x.subject \in Subject /\ x.number = 0 /\ StageFits(x)
    /\ x.at \in {"revoke", "access", "find", "take"}
    /\ x.op \in {"Edit", "ChangePassword"} => x.at = "find"
    /\ \A o \in Request :
          req[o] # Idle /\ req[o].subject = x.subject => {x.op, req[o].op} \in Together
    /\ \/ x.noted = 0 /\ version' = version
       \/ \E w \in Server : \E v : CheckVersion(w, x.subject, v, x.noted)
    /\ \/ /\ x.op = "DeleteUser" /\ row[x.subject] # NoRow
          /\ row' = [row EXCEPT ![x.subject] = NoRow]
       \/ x.op # "DeleteUser" /\ row' = row
    /\ x.at = "access" => row[x.subject] # NoRow /\ x.password = row[x.subject].password
    /\ x.at = "take" /\ ~x.blind =>
          \E t \in tokens : t.subject = x.subject /\ t.password = x.password /\ ~t.blind /\ Accepted(t)

LEMMA BeginsFacts ==
    ASSUME TypeOK, NEW p \in Request, Begins(p)
    PROVE  /\ req[p] = Idle /\ \A o \in Request \ {p} : req'[o] = req[o]
           /\ Starter(req'[p])
           /\ UNCHANGED <<now, mem, born, tokens, revoked, retired, taken>>
<1> DEFINE Goal == /\ req[p] = Idle /\ \A o \in Request \ {p} : req'[o] = req[o]
                   /\ Starter(req'[p])
                   /\ UNCHANGED <<now, mem, born, tokens, revoked, retired, taken>>
<1>1. ASSUME NEW x, Become(p, x), Starter(x), req[p] = Idle,
             UNCHANGED <<now, mem, born, tokens, revoked, retired, taken>>
      PROVE Goal
  <2>1. req'[p] = x /\ \A o \in Request \ {p} : req'[o] = req[o]
    BY <1>1 DEF Become, TypeOK
  <2> QED
    BY <1>1, <2>1
<1> HIDE DEF Goal
<1>2. PICK w \in Server :
         \/ \E s \in Subject : DeleteUser(p, w, s) \/ Login(p, w, s) \/ UpdateUserRole(p, w, s)
         \/ \E t \in tokens : Refresh(p, w, t) \/ \E op \in OpNames : Authorised(p, w, t, op)
  BY DEF Begins
<1>3. ASSUME NEW s \in Subject, DeleteUser(p, w, s) PROVE Goal
  <2> DEFINE x == Fresh("DeleteUser", "revoke", w, s)
  <2>1. x.op = "DeleteUser" /\ x.at = "revoke" /\ x.subject = s
    BY DEF Fresh
  <2>2. x.number = 0 /\ x.noted = 0
    BY DEF Fresh
  <2> HIDE DEF x
  <2>3. Starter(x)
    BY <1>3, <2>1, <2>2 DEF DeleteUser, MayBegin, Starter, StageFits, Ending, tokenVars
  <2>4. Become(p, x)
    BY <1>3 DEF DeleteUser, x
  <2> QED
    BY <1>1, <1>3, <2>3, <2>4 DEF DeleteUser, MayBegin, Given, tokenVars
<1>4. ASSUME NEW s \in Subject, Login(p, w, s) PROVE Goal
  <2> DEFINE x == [Fresh("Login", "access", w, s) EXCEPT !.password = row[s].password]
  <2>1. x.op = "Login" /\ x.at = "access" /\ x.subject = s
    BY DEF Fresh
  <2>2. x.number = 0 /\ x.noted = 0 /\ x.password = row[s].password
    BY DEF Fresh
  <2> HIDE DEF x
  <2>3. Starter(x)
    BY <1>4, <2>1, <2>2 DEF Login, MayBegin, Starter, StageFits, Accounts, tokenVars
  <2>4. Become(p, x)
    BY <1>4 DEF Login, x
  <2> QED
    BY <1>1, <1>4, <2>3, <2>4 DEF Login, MayBegin, Given, Accounts, tokenVars
<1>5. ASSUME NEW s \in Subject, UpdateUserRole(p, w, s) PROVE Goal
  <2> DEFINE x == Fresh("Edit", "find", w, s)
  <2>1. x.op = "Edit" /\ x.at = "find" /\ x.subject = s
    BY DEF Fresh
  <2>2. x.number = 0 /\ x.noted = 0
    BY DEF Fresh
  <2> HIDE DEF x
  <2>3. Starter(x)
    BY <1>5, <2>1, <2>2 DEF UpdateUserRole, MayBegin, Starter, StageFits, Accounts, tokenVars
  <2>4. Become(p, x)
    BY <1>5 DEF UpdateUserRole, x
  <2> QED
    BY <1>1, <1>5, <2>3, <2>4 DEF UpdateUserRole, MayBegin, Given, Accounts, tokenVars
<1>6. ASSUME NEW t \in tokens, Refresh(p, w, t) PROVE Goal
  <2>1. PICK noted \in 0..MaxVersion :
           /\ CheckVersion(w, t.subject, t.number, noted)
           /\ Become(p, [Fresh("Refresh", "take", w, t.subject) EXCEPT
                            !.password = t.password, !.noted = noted, !.used = t.handle,
                            !.blind = t.blind \/ t.number # Current(t.subject)])
    BY <1>6 DEF Refresh
  <2> DEFINE b == t.blind \/ t.number # Current(t.subject)
             x == [Fresh("Refresh", "take", w, t.subject) EXCEPT
                      !.password = t.password, !.noted = noted, !.used = t.handle, !.blind = b]
  <2>2. b <=> t.blind \/ ~Accepted(t)
    BY DEF Accepted
  <2> HIDE DEF b
  <2>3. x.op = "Refresh" /\ x.at = "take" /\ x.subject = t.subject
    BY DEF Fresh
  <2>4. x.number = 0 /\ x.noted = noted /\ x.password = t.password
    BY DEF Fresh
  <2>5. x.blind = b
    BY DEF Fresh
  <2>6. Become(p, x)
    BY <2>1 DEF b
  <2> HIDE DEF x
  <2>7. t.subject \in Subject
    BY DEF TypeOK, Token
  <2>8. Starter(x)
    BY <1>6, <2>1, <2>2, <2>3, <2>4, <2>5, <2>7
       DEF Refresh, MayBegin, Starter, StageFits, Accounts
  <2> QED
    BY <1>1, <1>6, <2>6, <2>8 DEF Refresh, MayBegin, Given, Accounts
<1>7. ASSUME NEW t \in tokens, NEW op \in OpNames, Authorised(p, w, t, op) PROVE Goal
  <2>1. PICK noted \in 0..MaxVersion :
           /\ CheckVersion(w, t.subject, t.number, noted)
           /\ Become(p, [Fresh(op, FirstStage(op), w, t.subject) EXCEPT !.noted = noted])
    BY <1>7 DEF Authorised
  <2> DEFINE x == [Fresh(op, FirstStage(op), w, t.subject) EXCEPT !.noted = noted]
  <2>2. x.op = op /\ x.at = FirstStage(op) /\ x.subject = t.subject
    BY DEF Fresh
  <2>3. x.number = 0 /\ x.noted = noted
    BY DEF Fresh
  <2> HIDE DEF x
  <2>4. t.subject \in Subject
    BY DEF TypeOK, Token
  <2>5. Starter(x)
    BY <1>7, <2>1, <2>2, <2>3, <2>4
       DEF Authorised, MayBegin, FirstStage, Starter, StageFits, Ending, Accounts
  <2>6. Become(p, x)
    BY <2>1 DEF x
  <2> QED
    BY <1>1, <1>7, <2>5, <2>6 DEF Authorised, MayBegin, Given, Accounts
<1> QED
  BY <1>2, <1>3, <1>4, <1>5, <1>6, <1>7 DEF Goal

LEMMA StepCases ==
    ASSUME [Next]_vars
    PROVE  \/ \E p \in Request : Begins(p) \/ Advance(p)
           \/ \E s \in Subject : CreateUser(s)
           \/ \E w \in Server : Restart(w)
           \/ Tick
           \/ UNCHANGED vars
  BY DEF Next, Begins, Advance

\* A request that goes on brings no account back.
LEMMA RowAdvance ==
    ASSUME TypeOK, NEW p \in Request, Advance(p)
    PROVE  born' = born /\ \A s \in Subject : row[s] = NoRow => row'[s] = NoRow
<1>1. CASE Update(p)
  BY <1>1 DEF Update, Written, TypeOK
<1>2. CASE UNCHANGED <<row, born>>
  BY <1>2
<1> QED
  BY <1>1, <1>2 DEF Advance, FindByID, Revoke, RevokeVersion, TakeRefresh, Generate,
                    GenerateRefresh, Answer, RequestFails, Accounts

LEMMA InvolvedStep ==
    ASSUME SessionInv, InvolvedInv, [Next]_vars
    PROVE  InvolvedInv'
<1>0. TypeOK
  BY DEF SessionInv
<1>1. ASSUME NEW p \in Request, Begins(p) PROVE InvolvedInv'
  <2> DEFINE x == req'[p]
  <2>1. /\ req[p] = Idle /\ \A o \in Request \ {p} : req'[o] = req[o]
        /\ Starter(x) /\ born' = born
    BY <1>0, <1>1, BeginsFacts
  <2> HIDE DEF x
  <2>2. /\ \A s \in Subject : row[s] = NoRow => row'[s] = NoRow
        /\ x.op = "DeleteUser" => row[x.subject] # NoRow /\ row'[x.subject] = NoRow
    BY <1>0, <2>1 DEF Starter, TypeOK
  <2>3. StageFits(x) /\ x.subject \in Subject
    BY <2>1 DEF Starter
  <2>4. \A s \in Subject : row'[s] # NoRow => s \in born'
    BY <2>1, <2>2 DEF InvolvedInv
  <2>5. \A o \in Request : req'[o] # Idle =>
           StageFits(req'[o]) /\ (req[o].op = "DeleteUser" => Gone(req[o].subject))'
    <3> SUFFICES ASSUME NEW o \in Request, req'[o] # Idle
                 PROVE  StageFits(req'[o]) /\ (req[o].op = "DeleteUser" => Gone(req[o].subject))'
      OBVIOUS
    <3>1. CASE o = p
      BY <2>1, <2>2, <2>3, <3>1 DEF Gone, InvolvedInv, x
    <3>2. CASE o # p
      <4>1. req'[o] = req[o] /\ req[o] \in InProgress
        BY <1>0, <2>1, <3>2, RequestTypes
      <4> QED
        BY <2>1, <2>2, <4>1 DEF Gone, InvolvedInv, InProgress
    <3> QED
      BY <3>1, <3>2
  <2>6. \A o \in Request \ {p} : req[o] # Idle /\ req[o].subject = x.subject =>
           {x.op, req[o].op} \in Together /\ ~(x.op = "DeleteUser" /\ req[o].op = "DeleteUser")
    BY <2>1, <2>2, <2>3 DEF Starter, InvolvedInv, Gone
  <2>7. \A a, b : {a, b} = {b, a}
    OBVIOUS
  <2>8. ASSUME NEW q \in Request, NEW o \in Request, q # o, req'[q] # Idle, req'[o] # Idle,
               req'[q].subject = req'[o].subject
        PROVE  /\ {req'[q].op, req'[o].op} \in Together
               /\ ~(req'[q].op = "DeleteUser" /\ req'[o].op = "DeleteUser")
    <3>1. CASE q = p
      BY <2>1, <2>6, <2>8, <3>1 DEF x
    <3>2. CASE o = p
      BY <2>1, <2>6, <2>7, <2>8, <3>2 DEF x
    <3>3. CASE q # p /\ o # p
      BY <2>1, <2>8, <3>3 DEF InvolvedInv
    <3> QED
      BY <3>1, <3>2, <3>3
  <2> QED
    BY <2>4, <2>5, <2>8 DEF InvolvedInv
<1>2. ASSUME NEW p \in Request, Advance(p) PROVE InvolvedInv'
  <2> DEFINE x == req'[p]
  <2>1. /\ req[p] # Idle /\ \A o \in Request \ {p} : req'[o] = req[o]
        /\ x = Idle \/ Successor(req[p], x)
    BY <1>0, <1>2, AdvanceFacts
  <2>2. born' = born /\ \A s \in Subject : row[s] = NoRow => row'[s] = NoRow
    BY <1>0, <1>2, RowAdvance
  <2>3. x # Idle => /\ x.op = req[p].op /\ x.subject = req[p].subject
                    /\ StageFits(req[p]) => StageFits(x)
    BY <2>1 DEF Successor, StageFits, Ending
  <2>4. \A o \in Request : req'[o] # Idle =>
           /\ req[o] # Idle /\ req'[o].op = req[o].op /\ req'[o].subject = req[o].subject
           /\ StageFits(req[o]) => StageFits(req'[o])
    BY <2>1, <2>3
  <2>5. \A o \in Request : req[o] # Idle => req[o].subject \in Subject
    BY <1>0, RequestTypes DEF InProgress
  <2>6. \A o \in Request : req'[o] # Idle =>
           StageFits(req'[o]) /\ (req[o].op = "DeleteUser" => Gone(req[o].subject))'
    BY <2>2, <2>4, <2>5 DEF InvolvedInv, Gone
  <2> QED
    BY <2>2, <2>4, <2>6 DEF InvolvedInv, Gone, StageFits
<1>3. ASSUME NEW s \in Subject, CreateUser(s) PROVE InvolvedInv'
  <2>1. /\ s \notin born /\ born' = born \cup {s} /\ req' = req
        /\ \A z \in Subject \ {s} : row'[z] = row[z]
    BY <1>0, <1>3 DEF CreateUser, TypeOK
  <2>2. \A p \in Request : req[p] # Idle => req[p].subject \in Subject
    BY <1>0, RequestTypes DEF InProgress
  <2> QED
    BY <2>1, <2>2 DEF InvolvedInv, StageFits, Gone
<1>4. ASSUME NEW w \in Server, Restart(w) PROVE InvolvedInv'
  <2>1. /\ row' = row /\ born' = born
        /\ \A p \in Request : req'[p] # Idle => req'[p] = req[p]
    BY <1>4 DEF Restart, Accounts
  <2> QED
    BY <2>1 DEF InvolvedInv, StageFits, Gone
<1>5. CASE Tick
  BY <1>5 DEF Tick, Accounts, InvolvedInv
<1>6. CASE UNCHANGED vars
  BY <1>6 DEF vars, InvolvedInv, StageFits, Gone
<1> QED
  BY <1>1, <1>2, <1>3, <1>4, <1>5, <1>6, StepCases

-----------------------------------------------------------------------------
\* Outside a Tick a version is left, touched, or replaced by a later one.
Grows ==
    \A s \in Subject :
       \/ version'[s] = version[s]
       \/ /\ version'[s].number >= version[s].number /\ version'[s].number >= 2
          /\ version'[s].until = now + VersionTTL

\* What was read stays read.
LEMMA SeenStays ==
    ASSUME TypeOK, TypeOK', Grows, now' = now, NEW s \in Subject, NEW v \in Nat, Seen(s, v)
    PROVE  Seen(s, v)'
<1>1. /\ version[s].number \in Nat /\ version'[s].number \in Nat
      /\ version[s].number # 1
  BY DEF TypeOK, TokensTypeOK
<1> QED
  BY <1>1 DEF Grows, Seen, Current

\* So do the versions of the tokens, and what is outdated.
LEMMA TokenStays ==
    ASSUME TypeOK, TypeOK', Grows, now' = now, NEW t \in tokens, Fitting(t)
    PROVE  Fitting(t)' /\ (Outdated(t) => Outdated(t)')
<1> DEFINE s == t.subject
<1>1. s \in Subject /\ t.number \in Nat /\ t.until \in Nat
  BY DEF TypeOK, Token
<1>2. /\ version[s].number \in Nat /\ version'[s].number \in Nat
      /\ version[s].number # 1
  BY <1>1 DEF TypeOK, TokensTypeOK
<1> QED
  BY <1>1, <1>2 DEF Grows, Current, Fitting, Outdated

\* The version that is found is one that was read, now or before.
LEMMA FindSees ==
    ASSUME TypeOK, TypeOK', now' = now, NEW w \in Server, NEW s \in Subject, NEW v \in Nat,
           NEW noted \in Nat, Seen(s, mem[w][s]),
           FindVersion(w, s, v, noted) \/ CheckVersion(w, s, v, noted)
    PROVE  /\ Grows /\ Seen(s, v)' /\ Seen(s, noted)'
           /\ \A z \in Subject : version'[z].number = version[z].number
<1>1. version[s] \in Version /\ now \in Nat /\ mem[w][s] \in Nat
  BY DEF TypeOK, TokensTypeOK, Version
<1>2. version[s].number \in Nat \ {1} /\ version[s].until \in Nat
  BY <1>1 DEF Version
<1>3. CASE Answered(s, v, noted)
  <2>1. version' = [version EXCEPT ![s] = Touched(s)]
    BY <1>3 DEF Answered, KeepAlive
  <2>2. /\ \A z \in Subject \ {s} : version'[z] = version[z]
        /\ version'[s] = Touched(s)
    BY <2>1 DEF TypeOK, TokensTypeOK
  <2>3. Touched(s) = version[s] \/
           /\ version[s].number # 0 /\ Touched(s).number = version[s].number
           /\ Touched(s).until = now + VersionTTL
    BY <1>1 DEF Touched, Version
  <2>4. Grows /\ \A z \in Subject : version'[z].number = version[z].number
    BY <1>2, <2>2, <2>3 DEF Grows
  <2>5. v = Current(s) /\ noted = v
    BY <1>3 DEF Answered
  <2>6. version[s].number # 0 => version'[s].until = now + VersionTTL
    BY <1>1, <2>2 DEF Touched, Version
  <2>7. Seen(s, v)'
    BY <1>2, <2>4, <2>5, <2>6 DEF Seen, Current
  <2> QED
    BY <2>4, <2>5, <2>7
<1>4. CASE version' = version /\ noted = 0 /\ (v = 1 \/ v = mem[w][s])
  <2>1. Seen(s, 0)' /\ Seen(s, 1)' /\ Grows
    BY <1>2, <1>4 DEF Seen, Current, Grows
  <2>2. Seen(s, mem[w][s]) => Seen(s, v)'
    BY <1>4, <2>1 DEF Seen, Current
  <2> QED
    BY <1>4, <2>1, <2>2
<1> QED
  BY <1>3, <1>4 DEF FindVersion, CheckVersion, Recalled

\* Revoke's last command writes a version above all there were: the look before it
\* is not outdated, since no other Revoke of the account is under way.
LEMMA RevokeGrows ==
    ASSUME SessionInv, SessionInv', VersionInv, NEW p \in Request, RevokeVersion(p)
    PROVE  /\ Grows
           /\ version'[req[p].subject].number > Current(req[p].subject)
           /\ version'[req[p].subject].until = now + VersionTTL
           /\ mem' = [mem EXCEPT ![req[p].server][req[p].subject] = version'[req[p].subject].number]
           /\ \A s \in Subject \ {req[p].subject} : version'[s] = version[s]
<1> DEFINE r == req[p]  s == r.subject
<1>1. r # Idle /\ r \in InProgress /\ s \in Subject /\ RequestOK(r)
  <2>1. r # Idle
    BY DEF RevokeVersion, At
  <2> QED
    BY <2>1, RequestTypes DEF SessionInv, RequestsOK, InProgress
<1>2. version \in [Subject -> Version] /\ version[s] \in Version /\ now \in Nat
  BY <1>1 DEF SessionInv, TypeOK, TokensTypeOK, Version
<1>3. CASE r.at = "set" /\ FirstVersion(r.server, s)
  <2>1. version[s].number = 0
    BY <1>1, <1>3 DEF VersionInv
  <2>2. version' = [version EXCEPT ![s] = [number |-> 2, until |-> now + VersionTTL]]
    BY <1>3 DEF FirstVersion
  <2>3. /\ version'[s].number = 2 /\ version'[s].until = now + VersionTTL
        /\ \A z \in Subject \ {s} : version'[z] = version[z]
    BY <1>1, <1>2, <2>2
  <2>4. mem' = [mem EXCEPT ![r.server][s] = 2]
    BY <1>3 DEF FirstVersion, Remember
  <2> QED
    BY <1>2, <2>1, <2>3, <2>4 DEF Grows, Current
<1>4. CASE r.at = "incr" /\ NextVersion(r.server, s)
  <2>1. version[s].number # 0 /\ version[s].number \in Nat \ {1}
    BY <1>1, <1>2, <1>4 DEF RequestOK, Version
  <2>2. version' = [version EXCEPT ![s] = [number |-> @.number + 1, until |-> now + VersionTTL]]
    BY <1>4 DEF NextVersion
  <2>3. /\ version'[s].number = version[s].number + 1 /\ version'[s].until = now + VersionTTL
        /\ \A z \in Subject \ {s} : version'[z] = version[z]
    BY <1>1, <1>2, <2>2
  <2>4. mem' = [mem EXCEPT ![r.server][s] = version[s].number + 1]
    BY <1>4, <2>1 DEF NextVersion, Remember
  <2> QED
    BY <1>2, <2>1, <2>3, <2>4 DEF Grows, Current
<1> QED
  BY <1>3, <1>4 DEF RevokeVersion, At

\* Outside a Tick the versions read stay versions read.
LEMMA VersionKept ==
    ASSUME TypeOK, TypeOK', VersionInv, Grows, now' = now, NEW p \in Request,
           \A o \in Request \ {p} : req'[o] = req[o],
           \A w \in Server, s \in Subject : mem'[w][s] = mem[w][s] \/ Seen(s, mem[w][s])',
           (req[p] # Idle =>
              /\ Seen(req[p].subject, req[p].noted) /\ Seen(req[p].subject, req[p].number)
              /\ req[p].at = "set" => version[req[p].subject].number = 0)',
           \A o \in Request \ {p} : req[o] # Idle /\ req[o].at = "set" =>
              version'[req[o].subject].number = 0
    PROVE  VersionInv'
<1>1. ASSUME NEW w \in Server, NEW s \in Subject PROVE Seen(s, mem[w][s])'
  <2>1. CASE mem'[w][s] = mem[w][s]
    <3>1. mem[w][s] \in Nat /\ Seen(s, mem[w][s])
      BY DEF VersionInv, TypeOK, TokensTypeOK
    <3>2. \A v \in Nat : Seen(s, v) => Seen(s, v)'
      BY SeenStays
    <3> QED
      BY <2>1, <3>1, <3>2 DEF Seen
  <2> QED
    BY <2>1
<1>2. ASSUME NEW o \in Request, req'[o] # Idle, o # p
      PROVE  (/\ Seen(req[o].subject, req[o].noted) /\ Seen(req[o].subject, req[o].number)
              /\ req[o].at = "set" => version[req[o].subject].number = 0)'
  <2>1. req'[o] = req[o] /\ req[o] # Idle /\ req[o] \in InProgress
    BY <1>2, RequestTypes
  <2>2. req[o].subject \in Subject /\ req[o].noted \in Nat /\ req[o].number \in Nat
    BY <2>1 DEF InProgress
  <2>3. \A s \in Subject : \A v \in Nat : Seen(s, v) => Seen(s, v)'
    BY SeenStays
  <2>4. Seen(req[o].subject, req[o].noted) /\ Seen(req[o].subject, req[o].number)
    BY <2>1 DEF VersionInv
  <2>5. (Seen(req[o].subject, req[o].noted) /\ Seen(req[o].subject, req[o].number))'
    BY <2>1, <2>2, <2>3, <2>4 DEF Seen, Current
  <2> QED
    BY <1>2, <2>1, <2>5
<1> QED
  BY <1>1, <1>2 DEF VersionInv

LEMMA VersionStep ==
    ASSUME SessionInv, SessionInv', InvolvedInv, RevokesApart, VersionInv, [Next]_vars
    PROVE  VersionInv' /\ (Tick \/ (Grows /\ now' = now))
<1> DEFINE Goal == VersionInv' /\ (Tick \/ (Grows /\ now' = now))
<1>0. TypeOK /\ TypeOK' /\ now \in Nat
  BY DEF SessionInv, TypeOK, TokensTypeOK
<1>1. \A s \in Subject : Seen(s, 0)'
  BY <1>0 DEF TypeOK, TokensTypeOK, Seen, Current
<1>2. ASSUME NEW p \in Request, Begins(p) PROVE Goal
  <2> DEFINE s == req'[p].subject  n == req'[p].noted
  <2>1. /\ req[p] = Idle /\ \A o \in Request \ {p} : req'[o] = req[o]
        /\ Starter(req'[p]) /\ now' = now /\ mem' = mem
    BY <1>0, <1>2, BeginsFacts
  <2>2. s \in Subject /\ req'[p].number = 0 /\ req'[p].at # "set"
    BY <2>1 DEF Starter
  <2>3. PICK z \in Subject : z = s
    BY <2>2
  <2>4. PICK m : m = n
    OBVIOUS
  <2>5. /\ Grows /\ Seen(z, m)'
        /\ \A y \in Subject : version'[y].number = version[y].number
    <3>1. CASE m = 0 /\ version' = version
      BY <1>1, <3>1 DEF Grows, Seen, Current
    <3>2. ASSUME NEW w \in Server, NEW v, CheckVersion(w, z, v, m)
          PROVE  /\ Grows /\ Seen(z, m)'
                 /\ \A y \in Subject : version'[y].number = version[y].number
      <4>1. v \in Nat /\ m \in Nat
        BY <1>0, <3>2, FindTypes DEF TypeOK
      <4>2. Seen(z, mem[w][z])
        BY DEF VersionInv
      <4> QED
        BY <1>0, <2>1, <3>2, <4>1, <4>2, FindSees
    <3> QED
      BY <2>1, <2>3, <2>4, <3>1, <3>2 DEF Starter
  <2>6. (/\ Seen(req[p].subject, req[p].noted) /\ Seen(req[p].subject, req[p].number)
         /\ req[p].at = "set" => version[req[p].subject].number = 0)'
    BY <1>1, <2>2, <2>3, <2>4, <2>5 DEF Seen, Current
  <2>7. \A o \in Request \ {p} : req[o] # Idle /\ req[o].at = "set" =>
           version'[req[o].subject].number = 0
    BY <1>0, <2>5, RequestTypes DEF VersionInv, InProgress
  <2> QED
    BY <1>0, <2>1, <2>5, <2>6, <2>7, VersionKept
<1>3. ASSUME NEW p \in Request, Advance(p), UNCHANGED <<now, version>>, req[p].at # "access",
             mem' = mem \/ Note(p)
      PROVE  Goal
  <2> DEFINE r == req[p]
  <2>1. /\ r # Idle /\ \A o \in Request \ {p} : req'[o] = req[o]
        /\ req'[p] = Idle \/ Successor(r, req'[p])
    BY <1>0, <1>3, AdvanceFacts
  <2>2. r \in InProgress /\ r.subject \in Subject /\ r.server \in Server /\ r.noted \in Nat
    BY <1>0, <2>1, RequestTypes DEF InProgress
  <2>3. Seen(r.subject, r.noted) /\ Seen(r.subject, r.number)
    BY <2>1 DEF VersionInv
  <2>4. \A w \in Server, s \in Subject : mem'[w][s] = mem[w][s] \/ Seen(s, mem[w][s])'
    <3> SUFFICES ASSUME mem' = [mem EXCEPT ![r.server][r.subject] = r.noted],
                        NEW w \in Server, NEW s \in Subject
                 PROVE  mem'[w][s] = mem[w][s] \/ Seen(s, mem[w][s])'
      BY <1>3 DEF Note, Remember
    <3>1. CASE w = r.server /\ s = r.subject
      BY <1>0, <1>3, <2>2, <2>3, <3>1 DEF TypeOK, TokensTypeOK, Seen, Current
    <3>2. CASE w # r.server \/ s # r.subject
      BY <1>0, <2>2, <3>2 DEF TypeOK, TokensTypeOK
    <3> QED
      BY <3>1, <3>2
  <2>5. (req[p] # Idle =>
           /\ Seen(req[p].subject, req[p].noted) /\ Seen(req[p].subject, req[p].number)
           /\ req[p].at = "set" => version[req[p].subject].number = 0)'
    BY <1>1, <1>3, <2>1, <2>2, <2>3 DEF Successor, Seen, Current
  <2>6. \A o \in Request \ {p} : req[o] # Idle /\ req[o].at = "set" =>
           version'[req[o].subject].number = 0
    BY <1>3 DEF VersionInv
  <2>7. Grows
    BY <1>3 DEF Grows
  <2> QED
    BY <1>0, <1>3, <2>1, <2>4, <2>5, <2>6, <2>7, VersionKept
<1>4. ASSUME NEW p \in Request, RequestFails(p) PROVE Goal
  <2>1. /\ req'[p] = Idle /\ \A o \in Request \ {p} : req'[o] = req[o]
        /\ UNCHANGED <<now, version, mem>>
    BY <1>0, <1>4, BecomeTypes DEF RequestFails, Finish, tokenVars
  <2> QED
    BY <1>0, <2>1, VersionKept DEF Grows, VersionInv
<1>5. ASSUME NEW p \in Request, FindByID(p) \/ Update(p) \/ Revoke(p) \/ TakeRefresh(p) \/ GenerateRefresh(p)
      PROVE  Goal
  BY <1>3, <1>5 DEF Advance, FindByID, Update, Revoke, TakeRefresh, GenerateRefresh, At, tokenVars
<1>6. ASSUME NEW p \in Request, Generate(p) PROVE Goal
  <2> DEFINE r == req[p]
  <2>1. /\ r # Idle /\ r \in InProgress /\ r.subject \in Subject /\ r.server \in Server
    <3>1. r # Idle
      BY <1>6 DEF Generate, At
    <3> QED
      BY <1>0, <3>1, RequestTypes DEF InProgress
  <2>2. PICK v \in 0..MaxVersion, noted \in 0..MaxVersion :
           /\ FindVersion(r.server, r.subject, v, noted)
           /\ Become(p, [r EXCEPT !.at = "store", !.number = v, !.noted = noted])
    BY <1>6 DEF Generate
  <2>3. v \in Nat /\ noted \in Nat
    BY BoundAssumption
  <2>4. PICK s \in Subject : s = r.subject
    BY <2>1
  <2>5. Seen(s, mem[r.server][s])
    BY <2>1 DEF VersionInv
  <2>6. now' = now /\ mem' = mem
    BY <1>6 DEF Generate
  <2>7. /\ Grows /\ Seen(s, v)' /\ Seen(s, noted)'
        /\ \A z \in Subject : version'[z].number = version[z].number
    BY <1>0, <2>1, <2>2, <2>3, <2>4, <2>5, <2>6, FindSees
  <2>8. \A o \in Request \ {p} : req'[o] = req[o]
    BY <1>0, <2>2 DEF Become, TypeOK
  <2>9. /\ req'[p].subject = s /\ req'[p].number = v /\ req'[p].noted = noted
        /\ req'[p].at = "store"
    <3>1. req'[p] = [r EXCEPT !.at = "store", !.number = v, !.noted = noted]
      BY <1>0, <2>2 DEF Become, TypeOK
    <3>2. req'[p].at = "store"
      BY <2>1, <3>1 DEF InProgress
    <3> QED
      BY <2>1, <2>4, <3>1, <3>2 DEF InProgress
  <2>10. (req[p] # Idle =>
           /\ Seen(req[p].subject, req[p].noted) /\ Seen(req[p].subject, req[p].number)
           /\ req[p].at = "set" => version[req[p].subject].number = 0)'
    BY <2>7, <2>9 DEF Seen, Current
  <2>11. \A o \in Request \ {p} : req[o] # Idle /\ req[o].at = "set" =>
           version'[req[o].subject].number = 0
    BY <1>0, <2>7, RequestTypes DEF VersionInv, InProgress
  <2> QED
    BY <1>0, <2>6, <2>7, <2>8, <2>10, <2>11, VersionKept
<1>7. ASSUME NEW p \in Request, Answer(p) PROVE Goal
  <2> DEFINE r == req[p]
  <2>1. /\ r # Idle /\ r \in InProgress /\ r.subject \in Subject /\ r.server \in Server
    <3>1. r # Idle
      BY <1>7 DEF Answer, At
    <3> QED
      BY <1>0, <3>1, RequestTypes DEF InProgress
  <2>2. PICK v \in 0..MaxVersion, noted \in 0..MaxVersion :
           FindVersion(r.server, r.subject, v, noted) /\ Remember(r.server, r.subject, noted)
    BY <1>7 DEF Answer
  <2>3. v \in Nat /\ noted \in Nat
    BY BoundAssumption
  <2>4. PICK s \in Subject : s = r.subject
    BY <2>1
  <2>5. Seen(s, mem[r.server][s])
    BY <2>1 DEF VersionInv
  <2>6. now' = now
    BY <1>7 DEF Answer
  <2>7. /\ Grows /\ Seen(s, noted)'
        /\ \A z \in Subject : version'[z].number = version[z].number
    BY <1>0, <2>1, <2>2, <2>3, <2>4, <2>5, <2>6, FindSees
  <2>8. req'[p] = Idle /\ \A o \in Request \ {p} : req'[o] = req[o]
    BY <1>0, <1>7, BecomeTypes DEF Answer, Finish
  <2>9. \A w \in Server, z \in Subject : mem'[w][z] = mem[w][z] \/ Seen(z, mem[w][z])'
    <3> SUFFICES ASSUME mem' = [mem EXCEPT ![r.server][s] = noted],
                        NEW w \in Server, NEW z \in Subject
                 PROVE  mem'[w][z] = mem[w][z] \/ Seen(z, mem[w][z])'
      BY <2>2, <2>4 DEF Remember
    <3>1. CASE w = r.server /\ z = s
      <4>1. mem'[w][z] = noted
        BY <1>0, <2>1, <3>1 DEF TypeOK, TokensTypeOK
      <4> QED
        BY <2>7, <3>1, <4>1 DEF Seen, Current
    <3>2. CASE w # r.server \/ z # s
      BY <1>0, <2>1, <3>2 DEF TypeOK, TokensTypeOK
    <3> QED
      BY <3>1, <3>2
  <2>10. \A o \in Request \ {p} : req[o] # Idle /\ req[o].at = "set" =>
           version'[req[o].subject].number = 0
    BY <1>0, <2>7, RequestTypes DEF VersionInv, InProgress
  <2> QED
    BY <1>0, <2>6, <2>7, <2>8, <2>9, <2>10, VersionKept
<1>8. ASSUME NEW p \in Request, RevokeVersion(p) PROVE Goal
  <2> DEFINE r == req[p]  s == r.subject
  <2>1. /\ r # Idle /\ r \in InProgress /\ s \in Subject /\ r.server \in Server
        /\ r.at \in {"set", "incr"} /\ r.op \in Ending
    <3>1. r # Idle /\ r.at \in {"set", "incr"}
      BY <1>8 DEF RevokeVersion, At
    <3>2. StageFits(r)
      BY <3>1 DEF InvolvedInv
    <3> QED
      BY <1>0, <3>1, <3>2, RequestTypes DEF InProgress, StageFits
  <2>2. /\ Grows
        /\ version'[s].number > Current(s) /\ version'[s].until = now + VersionTTL
        /\ mem' = [mem EXCEPT ![r.server][s] = version'[s].number]
        /\ \A z \in Subject \ {s} : version'[z] = version[z]
    BY <1>8, RevokeGrows
  <2>3. now' = now
    BY <1>8 DEF RevokeVersion
  <2>4. /\ \A o \in Request \ {p} : req'[o] = req[o]
        /\ req'[p] = Idle \/ Successor(r, req'[p])
    BY <1>0, <1>8, AdvanceFacts DEF Advance
  <2>5. /\ version[s].number \in Nat /\ version'[s].number \in Nat
        /\ Current(s) \in Nat /\ Current(s) >= 1
    BY <1>0, <2>1 DEF TypeOK, TokensTypeOK, Current
  <2>6. PICK z \in Subject : z = s
    BY <2>1
  <2>7. PICK n \in Nat : n = version'[s].number
    BY <2>5
  <2>8. Seen(z, n)'
    BY <2>2, <2>3, <2>5, <2>6, <2>7 DEF Seen, Current
  <2>9. \A w \in Server, y \in Subject : mem'[w][y] = mem[w][y] \/ Seen(y, mem[w][y])'
    <3> SUFFICES ASSUME NEW w \in Server, NEW y \in Subject
                 PROVE  mem'[w][y] = mem[w][y] \/ Seen(y, mem[w][y])'
      OBVIOUS
    <3>1. CASE w = r.server /\ y = s
      <4>1. mem'[w][y] = n
        BY <1>0, <2>1, <2>2, <2>7, <3>1 DEF TypeOK, TokensTypeOK
      <4> QED
        BY <2>6, <2>8, <3>1, <4>1 DEF Seen, Current
    <3>2. CASE w # r.server \/ y # s
      BY <1>0, <2>1, <2>2, <3>2 DEF TypeOK, TokensTypeOK
    <3> QED
      BY <3>1, <3>2
  <2>10. (req[p] # Idle =>
           /\ Seen(req[p].subject, req[p].noted) /\ Seen(req[p].subject, req[p].number)
           /\ req[p].at = "set" => version[req[p].subject].number = 0)'
    <3>1. CASE req'[p] = Idle
      BY <3>1
    <3>2. CASE req'[p] # Idle
      <4>1. /\ req'[p].subject = s /\ req'[p].noted \in {0, r.noted} /\ req'[p].number = r.number
            /\ req'[p].at = "access"
        BY <2>1, <2>4, <3>2 DEF Successor
      <4>2. PICK a \in Nat, b \in Nat : a = r.noted /\ b = r.number
        BY <2>1 DEF InProgress
      <4>3. Seen(z, a) /\ Seen(z, b)
        BY <2>1, <2>6, <4>2 DEF VersionInv
      <4>4. Seen(z, a)' /\ Seen(z, b)' /\ Seen(z, 0)'
        BY <1>0, <1>1, <2>2, <2>3, <4>3, SeenStays
      <4> QED
        BY <2>6, <4>1, <4>2, <4>4 DEF Seen, Current
    <3> QED
      BY <3>1, <3>2
  <2>11. \A o \in Request \ {p} : req[o] # Idle /\ req[o].at = "set" =>
           version'[req[o].subject].number = 0
    <3> SUFFICES ASSUME NEW o \in Request \ {p}, req[o] # Idle, req[o].at = "set"
                 PROVE  version'[req[o].subject].number = 0
      OBVIOUS
    <3>1. req[o].op \in Ending /\ req[o].subject \in Subject
      BY <1>0, RequestTypes DEF InvolvedInv, StageFits, InProgress
    <3>2. req[o].subject # s
      <4> SUFFICES ASSUME req[o].subject = s PROVE FALSE
        OBVIOUS
      <4>1. {r.op, req[o].op} \in Together /\ ~(r.op = "DeleteUser" /\ req[o].op = "DeleteUser")
        BY <2>1 DEF InvolvedInv
      <4> QED
        BY <2>1, <3>1, <4>1 DEF RevokesApart
    <3> QED
      BY <2>2, <3>1, <3>2 DEF VersionInv
  <2> QED
    BY <1>0, <2>2, <2>3, <2>4, <2>9, <2>10, <2>11, VersionKept
<1>9. ASSUME NEW s \in Subject, CreateUser(s) PROVE Goal
  BY <1>9 DEF CreateUser, tokenVars, VersionInv, Seen, Current, Grows
<1>10. ASSUME NEW w \in Server, Restart(w) PROVE Goal
  <2>1. /\ UNCHANGED <<now, version>>
        /\ \A p \in Request : req'[p] # Idle => req'[p] = req[p]
    BY <1>10 DEF Restart
  <2>2. \A v \in Server, s \in Subject : mem'[v][s] = mem[v][s] \/ mem'[v][s] = 0
    BY <1>0, <1>10 DEF Restart, ForgetAll, TypeOK, TokensTypeOK
  <2>3. \A v \in Server, s \in Subject : Seen(s, mem[v][s])'
    BY <1>1, <2>1, <2>2 DEF VersionInv, Seen, Current
  <2> QED
    BY <2>1, <2>3 DEF VersionInv, Seen, Current, Grows
<1>11. CASE Tick
  <2>1. \A w \in Server, s \in Subject : mem'[w][s] = 0
    BY <1>11 DEF Tick, TimePasses, Forgetful
  <2>2. \A p \in Request : req'[p] = Idle
    BY <1>11 DEF Tick
  <2> QED
    BY <1>1, <1>11, <2>1, <2>2 DEF VersionInv, Seen
<1>12. CASE UNCHANGED vars
  BY <1>12 DEF vars, VersionInv, Seen, Current, Grows
<1> QED
  BY <1>2, <1>4, <1>5, <1>6, <1>7, <1>8, <1>9, <1>10, <1>11, <1>12, StepCases DEF Advance

\* What the tokens' step leaves of the tokens it does not touch.
LEMMA TokensKept ==
    ASSUME TypeOK, TypeOK', TokensInv, Grows, now' = now,
           UNCHANGED <<tokens, revoked>>
    PROVE  TokensInv'
<1>1. \A t \in revoked : t \in tokens
  BY DEF TypeOK
<1>2. \A t \in tokens : Fitting(t)' /\ (Outdated(t) => Outdated(t)')
  BY TokenStays DEF TokensInv
<1> QED
  BY <1>1, <1>2 DEF TokensInv

LEMMA TokensStep ==
    ASSUME SessionInv, SessionInv', InvolvedInv, RevokesApart, VersionInv, TokensInv, [Next]_vars
    PROVE  TokensInv'
<1>0. TypeOK /\ TypeOK' /\ now \in Nat /\ revoked \subseteq tokens
  BY DEF SessionInv, TypeOK, TokensTypeOK
<1>1. Tick \/ (Grows /\ now' = now)
  BY VersionStep
<1>2. CASE Tick
  <2>1. /\ now' = now + 1
        /\ \A t \in tokens' : t \in tokens /\ t.until > now + 1
        /\ \A t \in revoked' : t \in revoked /\ t.until > now + 1
        /\ version' = [s \in Subject |-> IF version[s].until <= now + 1
                                         THEN [number |-> 0, until |-> 0] ELSE version[s]]
    BY <1>2 DEF Tick, TimePasses
  <2>2. ASSUME NEW t \in tokens PROVE t.subject \in Subject /\ t.until \in Nat /\ t.number \in Nat
    BY <1>0 DEF TypeOK, Token
  <2>3. \A s \in Subject : version[s].until \in Nat /\ version[s].number \in Nat
    BY <1>0 DEF TypeOK, TokensTypeOK
  <2>4. ASSUME NEW t \in tokens'
        PROVE  Fitting(t)'
    <3>1. /\ t \in tokens /\ t.until > now + 1 /\ t.until <= now + VersionTTL
          /\ t.number <= Current(t.subject)
          /\ t.number > 1 => version[t.subject].number # 0 /\ t.until <= version[t.subject].until
      BY <2>1 DEF TokensInv, Fitting
    <3>2. CASE t.number > 1
      <4>1. version'[t.subject] = version[t.subject]
        BY <2>1, <2>2, <2>3, <3>1, <3>2, <1>0
      <4> QED
        BY <1>0, <2>1, <2>2, <3>1, <3>2, <4>1, TTLAssumption DEF Current, Fitting
    <3>3. CASE t.number <= 1
      <4>1. Current(t.subject)' >= 1
        BY <1>0, <2>2, <3>1 DEF TypeOK, TokensTypeOK, Current
      <4>2. Current(t.subject)' \in Nat
        BY <1>0, <2>2, <3>1 DEF TypeOK, TokensTypeOK, Current
      <4> QED
        BY <1>0, <2>1, <2>2, <3>1, <3>3, <4>1, <4>2, TTLAssumption DEF Fitting
    <3> QED
      BY <2>2, <3>1, <3>2, <3>3
  <2>5. ASSUME NEW t \in revoked'
        PROVE  Outdated(t)'
    <3>1. /\ t \in tokens /\ t.until > now + 1
          /\ t.number < version[t.subject].number /\ t.until <= version[t.subject].until
      BY <1>0, <2>1 DEF TokensInv, Outdated
    <3>2. version'[t.subject] = version[t.subject]
      BY <1>0, <2>1, <2>2, <2>3, <3>1
    <3> QED
      BY <3>1, <3>2 DEF Outdated
  <2> QED
    BY <2>4, <2>5 DEF TokensInv
<1>3. ASSUME NEW p \in Request, Answer(p), Grows, now' = now PROVE TokensInv'
  <2> DEFINE r == req[p]
  <2>1. r # Idle /\ r \in InProgress /\ r.subject \in Subject /\ r.server \in Server /\ r.number \in Nat
    <3>1. r # Idle
      BY <1>3 DEF Answer, At
    <3> QED
      BY <1>0, <3>1, RequestTypes DEF InProgress
  <2>2. PICK v \in 0..MaxVersion, noted \in 0..MaxVersion :
           /\ FindVersion(r.server, r.subject, v, noted)
           /\ tokens' = tokens \cup Pair(r, v)
    BY <1>3 DEF Answer
  <2>3. v \in Nat /\ noted \in Nat
    BY BoundAssumption
  <2>4. PICK s \in Subject, n \in Nat : s = r.subject /\ n = r.number
    BY <2>1
  <2>5. Seen(s, v)' /\ Seen(s, n)'
    <3>1. Seen(s, mem[r.server][s]) /\ Seen(s, n)
      BY <2>1, <2>4 DEF VersionInv
    <3> QED
      BY <1>0, <1>3, <2>1, <2>2, <2>3, <2>4, <3>1, FindSees, SeenStays
  <2>6. ASSUME NEW t \in Pair(r, v)
        PROVE  Fitting(t)'
    <3>1. /\ t.subject = s
          /\ \/ t.number = n /\ t.until = now + AccessTTL
             \/ t.number = v /\ t.until = now + RefreshTTL
      BY <1>0, <2>1, <2>3, <2>4, PairTypes
    <3>2. t.until <= now + VersionTTL /\ t.until \in Nat
      BY <1>0, <3>1, TTLAssumption
    <3>3. /\ t.number <= Current(s)'
          /\ t.number > 1 => version'[s].number # 0 /\ version'[s].until = now' + VersionTTL
      BY <2>5, <3>1 DEF Seen
    <3> QED
      BY <1>3, <3>1, <3>2, <3>3 DEF Current, Fitting
  <2>7. ASSUME NEW t \in tokens
        PROVE  Fitting(t)'
    BY <1>0, <1>3, TokenStays DEF TokensInv
  <2>8. ASSUME NEW t \in revoked
        PROVE  Outdated(t)'
    BY <1>0, <1>3, TokenStays DEF TokensInv
  <2>9. revoked' = revoked
    BY <1>3 DEF Answer
  <2> QED
    BY <2>2, <2>6, <2>7, <2>8, <2>9 DEF TokensInv
<1>4. ASSUME NEW p \in Request, RevokeVersion(p), Grows, now' = now PROVE TokensInv'
  <2> DEFINE s == req[p].subject
  <2>1. s \in Subject
    <3>1. req[p] # Idle
      BY <1>4 DEF RevokeVersion, At
    <3> QED
      BY <1>0, <3>1, RequestTypes DEF InProgress
  <2>2. version'[s].number > Current(s) /\ version'[s].until = now + VersionTTL
    BY <1>4, RevokeGrows
  <2>3. tokens' = tokens /\ revoked' = revoked \cup {t \in tokens : t.subject = s}
    BY <1>4 DEF RevokeVersion
  <2>4. ASSUME NEW t \in tokens
        PROVE  Fitting(t)'
    BY <1>0, <1>4, TokenStays DEF TokensInv
  <2>5. ASSUME NEW t \in revoked
        PROVE  Outdated(t)'
    BY <1>0, <1>4, TokenStays DEF TokensInv
  <2>6. ASSUME NEW t \in tokens, t.subject = s
        PROVE  Outdated(t)'
    <3>1. t.number <= Current(s) /\ t.until <= now + VersionTTL /\ t.number \in Nat
      BY <1>0, <2>6 DEF TokensInv, Fitting, TypeOK, Token
    <3>2. version'[s].number \in Nat /\ Current(s) \in Nat
      BY <1>0, <2>1 DEF TypeOK, TokensTypeOK, Current
    <3> QED
      BY <1>4, <2>2, <2>6, <3>1, <3>2 DEF Outdated
  <2> QED
    BY <2>3, <2>4, <2>5, <2>6 DEF TokensInv
<1>5. CASE UNCHANGED <<tokens, revoked>> /\ Grows /\ now' = now
  BY <1>0, <1>5, TokensKept
<1>6. \/ UNCHANGED <<tokens, revoked>>
      \/ Tick
      \/ \E p \in Request : Answer(p) \/ RevokeVersion(p)
  <2>1. ASSUME NEW p \in Request, Begins(p) PROVE UNCHANGED <<tokens, revoked>>
    BY <1>0, <2>1, BeginsFacts
  <2>2. ASSUME NEW p \in Request, Advance(p), ~Answer(p), ~RevokeVersion(p)
        PROVE  UNCHANGED <<tokens, revoked>>
    BY <2>2 DEF Advance, FindByID, Update, Revoke, TakeRefresh, Generate, GenerateRefresh,
                RequestFails, Given
  <2>3. ASSUME \/ \E s \in Subject : CreateUser(s)
               \/ \E w \in Server : Restart(w)
               \/ UNCHANGED vars
        PROVE  UNCHANGED <<tokens, revoked>>
    BY <2>3 DEF CreateUser, Restart, Given, vars
  <2> QED
    BY <2>1, <2>2, <2>3, StepCases
<1> QED
  BY <1>1, <1>2, <1>3, <1>4, <1>5, <1>6

-----------------------------------------------------------------------------
LEMMA OldTokensInvariant == ASSUME RevokesApart PROVE Spec => []OldTokensInv
<1>1. Init => OldTokensInv
  <2> SUFFICES ASSUME Init PROVE OldTokensInv
    OBVIOUS
  <2>1. SessionInv
    BY InitInv
  <2>2. InvolvedInv
    BY DEF Init, InvolvedInv
  <2>3. VersionInv
    BY DEF Init, TokensInit, VersionInv, Seen, Current
  <2>4. TokensInv
    BY DEF Init, TokensInv
  <2> QED
    BY <2>1, <2>2, <2>3, <2>4 DEF OldTokensInv
<1>2. OldTokensInv /\ [Next]_vars => OldTokensInv'
  BY InvStep, InvolvedStep, VersionStep, TokensStep DEF OldTokensInv
<1> QED
  BY <1>1, <1>2, PTL DEF Spec

\* What was given out before a Revoke of the account is refused for as long as it
\* lives, also when the version's key ends for want of requests, if no two Revokes
\* of one account overlap: the key is prolonged by whatever reads it and outlives
\* every token, for any lifetimes no longer than versionTTL.
THEOREM RevokedStaysOut ==
    ASSUME RevokesApart
    PROVE  Spec => []RevokedRefused
<1>1. OldTokensInv => RevokedRefused
  <2> SUFFICES ASSUME OldTokensInv, NEW t \in revoked PROVE ~Accepted(t)
    BY DEF RevokedRefused
  <2>1. t.number < version[t.subject].number /\ t.number \in Nat /\ version[t.subject].number \in Nat
    BY DEF OldTokensInv, TokensInv, Outdated, SessionInv, TypeOK, TokensTypeOK, Token
  <2> QED
    BY <2>1 DEF Accepted, Current
<1> QED
  BY <1>1, OldTokensInvariant, PTL

-----------------------------------------------------------------------------
(***************************************************************************)
(* After a change of password nobody is in by the one before, when besides *)
(* nothing else concerns the account while the change is under way: not a  *)
(* login, a refresh or an edit of the row either.                          *)
(***************************************************************************)
ChangesApart == \A a \in OpNames : {a, "ChangePassword"} \notin Together

\* What a request holds of the password.  Written back is the row's own or the
\* next one, and sessions are made of one that was not replaced.
PasswordFits(r) ==
    /\ r.at = "write" /\ row[r.subject] # NoRow =>
          r.mine.password = IF r.op = "Edit" THEN row[r.subject].password
                            ELSE row[r.subject].password + 1
    /\ r.at = "write" /\ r.op = "ChangePassword" =>
          \A x \in retired[r.subject] : x < r.mine.password
    /\ r.at \in {"revoke", "set", "incr"} /\ r.op = "ChangePassword" =>
          /\ row[r.subject] # NoRow => row[r.subject].password = r.password
          /\ \A x \in retired[r.subject] : x < r.password
    /\ r.at \in {"take", "access", "store", "refresh"} /\ ~r.blind =>
          r.password \notin retired[r.subject]

PasswordInv ==
    /\ \A s \in Subject : retired[s] # {} => s \in born
    /\ \A s \in Subject : row[s] # NoRow => \A x \in retired[s] : x < row[s].password
    /\ \A p \in Request : req[p] # Idle =>
          /\ req[p].at # "find" /\ req[p].op \in {"Edit", "ChangePassword"} => req[p].subject \in born
          /\ PasswordFits(req[p])
    /\ \A t \in tokens : ~t.blind /\ t.password \in retired[t.subject] => t \in revoked

\* What p does not change of the account s.
SamePassword(s) ==
    /\ retired'[s] = retired[s]
    /\ row'[s] = NoRow \/ (row[s] # NoRow /\ row'[s].password = row[s].password)

\* Another request's password fits as before, when its account's did not change.
LEMMA FitsStays ==
    ASSUME TypeOK, NEW o \in Request, req[o] # Idle, req'[o] = req[o],
           SamePassword(req[o].subject), PasswordFits(req[o])
    PROVE  PasswordFits(req[o])'
<1>1. req[o].subject \in Subject
  BY RequestTypes DEF InProgress
<1> QED
  BY <1>1 DEF SamePassword, PasswordFits

\* A step of p that leaves the passwords and tokens: what remains to be seen is
\* what p itself is now.
LEMMA PasswordKept ==
    ASSUME TypeOK, PasswordInv, NEW p \in Request,
           \A o \in Request \ {p} : req'[o] = req[o],
           \A s \in Subject : SamePassword(s),
           UNCHANGED <<born, tokens, revoked>>,
           (req[p] # Idle =>
              /\ req[p].at # "find" /\ req[p].op \in {"Edit", "ChangePassword"} => req[p].subject \in born
              /\ PasswordFits(req[p]))'
    PROVE  PasswordInv'
<1>1. \A s \in Subject : retired'[s] # {} => s \in born'
  BY DEF PasswordInv, SamePassword
<1>2. \A s \in Subject : row'[s] # NoRow => \A x \in retired'[s] : x < row'[s].password
  BY DEF PasswordInv, SamePassword
<1>3. ASSUME NEW o \in Request, req'[o] # Idle
      PROVE  (/\ req[o].at # "find" /\ req[o].op \in {"Edit", "ChangePassword"} => req[o].subject \in born
              /\ PasswordFits(req[o]))'
  <2>1. CASE o = p
    BY <1>3, <2>1
  <2>2. CASE o # p
    <3>1. req'[o] = req[o] /\ req[o] # Idle /\ SamePassword(req[o].subject)
      BY <1>3, <2>2, RequestTypes DEF InProgress
    <3>2. PasswordFits(req[o])'
      BY <3>1, FitsStays DEF PasswordInv
    <3> QED
      BY <3>1, <3>2 DEF PasswordInv
  <2> QED
    BY <2>1, <2>2
<1>4. \A t \in tokens' : ~t.blind /\ t.password \in retired'[t.subject] => t \in revoked'
  BY DEF PasswordInv, SamePassword, TypeOK, Token
<1> QED
  BY <1>1, <1>2, <1>3, <1>4 DEF PasswordInv

\* Nothing else concerns an account whose password is being changed.
LEMMA ChangeIsAlone ==
    ASSUME SessionInv, InvolvedInv, ChangesApart,
           NEW p \in Request, req[p] # Idle, req[p].op = "ChangePassword",
           NEW o \in Request \ {p}, req[o] # Idle
    PROVE  req[o].subject # req[p].subject
<1>1. req[o].op \in OpNames
  BY RequestTypes DEF SessionInv, InProgress
<1> QED
  BY <1>1 DEF InvolvedInv, ChangesApart

\* A request begins with the password of the row, or of a token that holds.
LEMMA PasswordBegins ==
    ASSUME OldTokensInv, PasswordInv, NEW p \in Request, Begins(p)
    PROVE  PasswordInv'
<1>0. TypeOK
  BY DEF OldTokensInv, SessionInv
<1> DEFINE x == req'[p]
<1>1. /\ req[p] = Idle /\ \A o \in Request \ {p} : req'[o] = req[o]
      /\ Starter(x) /\ UNCHANGED <<born, tokens, revoked, retired>>
  BY <1>0, BeginsFacts
<1> HIDE DEF x
<1>2. ASSUME NEW s \in Subject PROVE SamePassword(s)
  BY <1>0, <1>1 DEF Starter, TypeOK, SamePassword
<1>3. x.op \in {"Edit", "ChangePassword"} => x.at = "find"
  BY <1>1 DEF Starter
<1>4. x.at \in {"access", "take"} /\ ~x.blind => x.password \notin retired[x.subject]
  <2>1. x.subject \in Subject
    BY <1>1 DEF Starter
  <2>2. CASE x.at = "access"
    <3>1. row[x.subject] # NoRow /\ x.password = row[x.subject].password
      BY <1>1, <2>2 DEF Starter
    <3>2. row[x.subject].password \in Nat
      BY <1>0, <2>1, <3>1 DEF TypeOK, Row
    <3>3. \A y \in retired[x.subject] : y < row[x.subject].password
      BY <2>1, <3>1 DEF PasswordInv
    <3> QED
      BY <3>1, <3>2, <3>3
  <2>3. CASE x.at = "take" /\ ~x.blind
    <3>1. PICK t \in tokens : t.subject = x.subject /\ t.password = x.password /\ ~t.blind /\ Accepted(t)
      BY <1>1, <2>3 DEF Starter
    <3>2. t \notin revoked
      <4>1. t.number \in Nat /\ version[t.subject].number \in Nat
        BY <1>0, <2>1, <3>1 DEF TypeOK, Token, TokensTypeOK
      <4> QED
        BY <3>1, <4>1 DEF OldTokensInv, TokensInv, Outdated, Accepted, Current
    <3> QED
      BY <3>1, <3>2 DEF PasswordInv
  <2> QED
    BY <2>2, <2>3
<1>5. x.at \in {"revoke", "access", "find", "take"}
  BY <1>1 DEF Starter
<1>6. (PasswordFits(req[p]))'
  <2>1. retired' = retired
    BY <1>1
  <2> QED
    BY <1>3, <1>4, <1>5, <2>1 DEF PasswordFits, x
<1>7. (/\ req[p].at # "find" /\ req[p].op \in {"Edit", "ChangePassword"} => req[p].subject \in born
       /\ PasswordFits(req[p]))'
  BY <1>3, <1>6 DEF x
<1> QED
  BY <1>0, <1>1, <1>2, <1>7, PasswordKept

\* A step of p that leaves the rows and what is replaced, and p itself as it was but
\* for its stage, or done.
LEMMA PasswordQuiet ==
    ASSUME TypeOK, PasswordInv, InvolvedInv, NEW p \in Request, Advance(p),
           UNCHANGED <<row, born, tokens, revoked, retired>>,
           req[p].at \in {"revoke", "take", "access", "store"} \/ req'[p] = Idle
    PROVE  PasswordInv'
<1> DEFINE r == req[p]
           x == req'[p]
<1>1. /\ r # Idle /\ \A o \in Request \ {p} : req'[o] = req[o]
      /\ x = Idle \/ Successor(r, x)
  BY AdvanceFacts
<1>2. PasswordFits(r) /\ (r.at # "find" /\ r.op \in {"Edit", "ChangePassword"} => r.subject \in born)
  BY <1>1 DEF PasswordInv
<1>3. \A s \in Subject : SamePassword(s)
  BY DEF SamePassword
<1>4. ASSUME x # Idle
      PROVE  /\ x.op = r.op /\ x.subject = r.subject /\ x.blind = r.blind /\ x.password = r.password
             /\ \/ r.at = "revoke" /\ x.at \in {"set", "incr"}
                \/ r.at = "take" /\ x.at = "access"
                \/ r.at = "access" /\ x.at = "store"
                \/ r.at = "store" /\ x.at = "refresh"
  BY <1>1, <1>4 DEF Successor
<1> HIDE DEF r, x
<1>5. (req[p] # Idle =>
         /\ req[p].at # "find" /\ req[p].op \in {"Edit", "ChangePassword"} => req[p].subject \in born
         /\ PasswordFits(req[p]))'
  BY <1>2, <1>4 DEF PasswordFits, x
<1> QED
  BY <1>1, <1>3, <1>5, PasswordKept DEF r

\* The row is read: what is written back is its password, or the next one.
LEMMA PasswordFind ==
    ASSUME OldTokensInv, PasswordInv, NEW p \in Request, FindByID(p)
    PROVE  PasswordInv'
<1>0. TypeOK
  BY DEF OldTokensInv, SessionInv
<1> DEFINE r == req[p]
           s == r.subject
<1>1. /\ r # Idle /\ r.at = "find" /\ \A o \in Request \ {p} : req'[o] = req[o]
      /\ UNCHANGED <<row, born, tokens, revoked, retired>>
  BY <1>0, AdvanceFacts DEF Advance, FindByID, At, Accounts, Given
<1>2. r \in InProgress /\ s \in Subject
  BY <1>0, <1>1, RequestTypes DEF InProgress
<1>3. CASE row[s] = NoRow
  <2>1. req'[p] = Idle
    BY <1>0, <1>3, BecomeTypes DEF FindByID, Finish
  <2> QED
    BY <1>0, <1>1, <2>1, PasswordQuiet DEF Advance, OldTokensInv
<1>4. CASE row[s] # NoRow
  <2>1. row[s] \in Row /\ row[s].password \in Nat /\ s \in born
    BY <1>0, <1>2, <1>4 DEF TypeOK, Row, OldTokensInv, InvolvedInv
  <2>2. PICK mine \in Changed(row[s], r.op) :
           Become(p, [r EXCEPT !.at = "write", !.mine = mine, !.noted = 0])
    BY <1>4 DEF FindByID
  <2>3. r.op \in {"Edit", "ChangePassword"}
    BY <1>1 DEF OldTokensInv, InvolvedInv, StageFits
  <2>4. mine.password = IF r.op = "Edit" THEN row[s].password ELSE row[s].password + 1
    BY <2>1, <2>2, <2>3 DEF Changed, Row
  <2> DEFINE x == [r EXCEPT !.at = "write", !.mine = mine, !.noted = 0]
  <2>5. x.op = r.op /\ x.subject = s /\ x.mine = mine /\ x.at = "write"
    BY <1>2 DEF InProgress
  <2> HIDE DEF x
  <2>6. req'[p] = x
    BY <1>0, <2>2 DEF Become, TypeOK, x
  <2>7. \A y \in retired[s] : y < row[s].password
    BY <1>2, <1>4 DEF PasswordInv
  <2>8. \A y \in retired[s] : y < mine.password
    BY <1>0, <1>2, <2>1, <2>4, <2>7 DEF TypeOK
  <2>9. \A z \in Subject : SamePassword(z)
    BY <1>1 DEF SamePassword
  <2> HIDE DEF r
  <2>10. (req[p] # Idle =>
           /\ req[p].at # "find" /\ req[p].op \in {"Edit", "ChangePassword"} => req[p].subject \in born
           /\ PasswordFits(req[p]))'
    BY <1>1, <2>1, <2>4, <2>5, <2>6, <2>8 DEF PasswordFits
  <2> QED
    BY <1>0, <1>1, <2>9, <2>10, PasswordKept
<1> QED
  BY <1>3, <1>4

\* A step of a change of password: whatever else is under way concerns another account.
LEMMA PasswordAlone ==
    ASSUME SessionInv, InvolvedInv, PasswordInv, ChangesApart,
           NEW p \in Request, Advance(p), req[p].op = "ChangePassword",
           \A s \in Subject \ {req[p].subject} : SamePassword(s),
           born' = born, req[p].subject \in born, req[p].at # "find",
           row'[req[p].subject] # NoRow =>
              \A x \in retired'[req[p].subject] : x < row'[req[p].subject].password,
           req'[p] # Idle => PasswordFits(req[p])',
           \A t \in tokens' : ~t.blind /\ t.password \in retired'[t.subject] => t \in revoked'
    PROVE  PasswordInv'
<1>0. TypeOK
  BY DEF SessionInv
<1> DEFINE s == req[p].subject
<1>1. /\ req[p] # Idle /\ \A o \in Request \ {p} : req'[o] = req[o]
      /\ req'[p] = Idle \/ Successor(req[p], req'[p])
  BY <1>0, AdvanceFacts
<1>2. s \in Subject
  BY <1>0, <1>1, RequestTypes DEF InProgress
<1>3. \A z \in Subject : retired'[z] # {} => z \in born'
  BY DEF PasswordInv, SamePassword
<1>4. \A z \in Subject : row'[z] # NoRow => \A x \in retired'[z] : x < row'[z].password
  BY DEF PasswordInv, SamePassword
<1>5. req'[p] # Idle => req'[p].subject = s
  BY <1>1 DEF Successor
<1>6. ASSUME NEW o \in Request, req'[o] # Idle
      PROVE  (/\ req[o].at # "find" /\ req[o].op \in {"Edit", "ChangePassword"} => req[o].subject \in born
              /\ PasswordFits(req[o]))'
  <2>1. CASE o = p
    BY <1>5, <1>6, <2>1
  <2>2. CASE o # p
    <3>1. req'[o] = req[o] /\ req[o] # Idle /\ req[o].subject \in Subject
      BY <1>0, <1>1, <1>6, <2>2, RequestTypes DEF InProgress
    <3>2. SamePassword(req[o].subject)
      BY <1>1, <2>2, <3>1, ChangeIsAlone
    <3>3. PasswordFits(req[o])'
      BY <1>0, <3>1, <3>2, FitsStays DEF PasswordInv
    <3> QED
      BY <3>1, <3>3 DEF PasswordInv
  <2> QED
    BY <2>1, <2>2
<1> QED
  BY <1>3, <1>4, <1>6 DEF PasswordInv

\* The row is written back: with the password it has, or with the next one by the only
\* request that concerns it.
LEMMA PasswordUpdate ==
    ASSUME OldTokensInv, PasswordInv, ChangesApart, NEW p \in Request, Update(p)
    PROVE  PasswordInv'
<1>0. TypeOK
  BY DEF OldTokensInv, SessionInv
<1> DEFINE r == req[p]
           s == r.subject
<1>1. /\ r # Idle /\ r.at = "write" /\ \A o \in Request \ {p} : req'[o] = req[o]
      /\ UNCHANGED <<born, tokens, revoked, retired>>
      /\ Advance(p)
  BY <1>0, AdvanceFacts DEF Advance, Update, At, Given
<1>2. r \in InProgress /\ s \in Subject
  BY <1>0, <1>1, RequestTypes DEF InProgress
<1>3. /\ \A z \in Subject \ {s} : row'[z] = row[z]
      /\ row'[s] = IF row[s] = NoRow THEN NoRow ELSE r.mine
  BY <1>0, <1>2 DEF Update, Written, TypeOK
<1>4. \A z \in Subject \ {s} : SamePassword(z)
  BY <1>1, <1>3 DEF SamePassword
<1>5. PasswordFits(r) /\ r.op \in {"Edit", "ChangePassword"}
  BY <1>1 DEF PasswordInv, OldTokensInv, InvolvedInv, StageFits
<1>6. CASE r.op = "Edit"
  <2>1. req'[p] = Idle
    BY <1>0, <1>6, BecomeTypes DEF Update, Finish
  <2>2. SamePassword(s)
    BY <1>1, <1>3, <1>5, <1>6 DEF PasswordFits, SamePassword
  <2> QED
    BY <1>0, <1>1, <1>4, <2>1, <2>2, PasswordKept
<1>7. CASE r.op = "ChangePassword"
  <2>1. Become(p, [r EXCEPT !.at = "revoke", !.password = r.mine.password, !.mine = NoRow])
    BY <1>7 DEF Update
  <2> DEFINE x == [r EXCEPT !.at = "revoke", !.password = r.mine.password, !.mine = NoRow]
  <2>2. x.op = r.op /\ x.subject = s
    BY <1>2 DEF InProgress
  <2>3. x.at = "revoke" /\ x.password = r.mine.password
    BY <1>2 DEF InProgress
  <2> HIDE DEF x
  <2>4. req'[p] = x
    BY <1>0, <2>1 DEF Become, TypeOK, x
  <2>5. \A y \in retired[s] : y < r.mine.password
    BY <1>1, <1>5, <1>7 DEF PasswordFits
  <2>6. row'[s] # NoRow => row'[s].password = r.mine.password
    BY <1>3
  <2>7. r.op = "ChangePassword" /\ r.at # "find" /\ s \in born
    BY <1>1, <1>7 DEF PasswordInv
  <2>8. row'[s] # NoRow => \A y \in retired'[s] : y < row'[s].password
    BY <1>1, <2>5, <2>6
  <2> HIDE DEF r
  <2>9. PasswordFits(req[p])'
    BY <1>1, <1>7, <2>2, <2>3, <2>4, <2>5, <2>6 DEF PasswordFits
  <2>10. \A t \in tokens' : ~t.blind /\ t.password \in retired'[t.subject] => t \in revoked'
    BY <1>1 DEF PasswordInv
  <2> QED
    BY <1>0, <1>1, <1>4, <2>7, <2>8, <2>9, <2>10, PasswordAlone DEF r, OldTokensInv
<1> QED
  BY <1>5, <1>6, <1>7

\* The Revoke of a change retires the passwords before it, and takes every token of
\* the account, so also those that stem from them.
LEMMA PasswordRevoke ==
    ASSUME OldTokensInv, PasswordInv, ChangesApart, NEW p \in Request, RevokeVersion(p)
    PROVE  PasswordInv'
<1>0. TypeOK
  BY DEF OldTokensInv, SessionInv
<1> DEFINE r == req[p]
           s == r.subject
<1>1. /\ r # Idle /\ r.at \in {"set", "incr"} /\ \A o \in Request \ {p} : req'[o] = req[o]
      /\ UNCHANGED <<row, born, tokens>>
      /\ revoked' = revoked \cup {t \in tokens : t.subject = s}
      /\ Advance(p)
  BY <1>0, AdvanceFacts DEF Advance, RevokeVersion, At, Accounts
<1>2. r \in InProgress /\ s \in Subject
  BY <1>0, <1>1, RequestTypes DEF InProgress
<1>3. /\ \A z \in Subject \ {s} : retired'[z] = retired[z]
      /\ retired'[s] = IF r.op = "ChangePassword" THEN retired[s] \cup 1..(r.password - 1)
                       ELSE retired[s]
  BY <1>0, <1>2 DEF RevokeVersion, TypeOK
<1>4. \A z \in Subject \ {s} : SamePassword(z)
  BY <1>1, <1>3 DEF SamePassword
<1>5. CASE r.op # "ChangePassword"
  <2>1. req'[p] = Idle
    BY <1>0, <1>5, BecomeTypes DEF RevokeVersion, AfterRevoke, Finish
  <2>2. retired' = retired
    BY <1>0, <1>2, <1>5 DEF RevokeVersion, TypeOK
  <2>3. \A z \in Subject : SamePassword(z)
    BY <1>1, <2>2 DEF SamePassword
  <2>4. ASSUME NEW o \in Request, req'[o] # Idle
        PROVE  (/\ req[o].at # "find" /\ req[o].op \in {"Edit", "ChangePassword"} => req[o].subject \in born
                /\ PasswordFits(req[o]))'
    <3>1. req'[o] = req[o] /\ req[o] # Idle /\ SamePassword(req[o].subject)
      BY <1>0, <1>1, <2>1, <2>3, <2>4, RequestTypes DEF InProgress
    <3>2. PasswordFits(req[o])'
      BY <1>0, <3>1, FitsStays DEF PasswordInv
    <3> QED
      BY <1>1, <3>1, <3>2 DEF PasswordInv
  <2> QED
    BY <1>1, <2>2, <2>4 DEF PasswordInv
<1>6. CASE r.op = "ChangePassword"
  <2>1. Become(p, [r EXCEPT !.at = "access"])
    BY <1>6 DEF RevokeVersion, AfterRevoke
  <2> DEFINE x == [r EXCEPT !.at = "access"]
  <2>2. x.op = r.op /\ x.subject = s
    BY <1>2 DEF InProgress
  <2>3. x.at = "access" /\ x.password = r.password
    BY <1>2 DEF InProgress
  <2> HIDE DEF x
  <2>4. req'[p] = x
    BY <1>0, <2>1 DEF Become, TypeOK, x
  <2>5. /\ row[s] # NoRow => row[s].password = r.password
        /\ \A y \in retired[s] : y < r.password
    BY <1>1, <1>6 DEF PasswordInv, PasswordFits
  <2>6. r.password \in Nat
    BY <1>2 DEF InProgress
  <2> DEFINE before == r.password
  <2>7. \A y \in retired'[s] : y < before
    <3> HIDE DEF r
    <3> QED
      BY <1>3, <1>6, <2>5, <2>6
  <2>8. row'[s] # NoRow => \A y \in retired'[s] : y < row'[s].password
    BY <1>1, <2>5, <2>7
  <2>9. r.at # "find" /\ s \in born
    BY <1>1, <1>6 DEF PasswordInv
  <2> HIDE DEF r
  <2>10. PasswordFits(req[p])'
    <3>1. before \notin retired'[s]
      BY <2>6, <2>7
    <3> QED
      BY <1>1, <2>2, <2>3, <2>4, <3>1 DEF PasswordFits
  <2>11. \A t \in tokens' : ~t.blind /\ t.password \in retired'[t.subject] => t \in revoked'
    <3> SUFFICES ASSUME NEW t \in tokens, ~t.blind, t.password \in retired'[t.subject]
                 PROVE  t \in revoked'
      BY <1>1
    <3>1. t.subject \in Subject
      BY <1>0 DEF TypeOK, Token
    <3>2. CASE t.subject = s
      BY <1>1, <3>2
    <3>3. CASE t.subject # s
      BY <1>1, <1>3, <3>1, <3>3 DEF PasswordInv
    <3> QED
      BY <3>2, <3>3
  <2> QED
    BY <1>0, <1>1, <1>4, <1>6, <2>8, <2>9, <2>10, <2>11, PasswordAlone DEF r, OldTokensInv
<1> QED
  BY <1>5, <1>6

\* The new pair is of a password that was not replaced.
LEMMA PasswordAnswer ==
    ASSUME OldTokensInv, PasswordInv, NEW p \in Request, Answer(p)
    PROVE  PasswordInv'
<1>0. TypeOK
  BY DEF OldTokensInv, SessionInv
<1> DEFINE r == req[p]
<1>1. /\ r # Idle /\ r.at = "refresh" /\ \A o \in Request \ {p} : req'[o] = req[o]
      /\ UNCHANGED <<row, born, revoked, retired>>
  BY <1>0, AdvanceFacts DEF Advance, Answer, At, Accounts
<1>2. r \in InProgress
  BY <1>0, <1>1, RequestTypes
<1>3. PICK v \in 0..MaxVersion : tokens' = tokens \cup Pair(r, v)
  BY DEF Answer
<1>4. v \in Nat
  BY BoundAssumption
<1>5. req'[p] = Idle
  BY <1>0, BecomeTypes DEF Answer, Finish
<1>6. \A s \in Subject : SamePassword(s)
  BY <1>1 DEF SamePassword
<1>7. ASSUME NEW o \in Request, req'[o] # Idle
      PROVE  (/\ req[o].at # "find" /\ req[o].op \in {"Edit", "ChangePassword"} => req[o].subject \in born
              /\ PasswordFits(req[o]))'
  <2>1. req'[o] = req[o] /\ req[o] # Idle /\ SamePassword(req[o].subject)
    BY <1>0, <1>1, <1>5, <1>6, <1>7, RequestTypes DEF InProgress
  <2>2. PasswordFits(req[o])'
    BY <1>0, <2>1, FitsStays DEF PasswordInv
  <2> QED
    BY <1>1, <2>1, <2>2 DEF PasswordInv
<1>8. ASSUME NEW t \in tokens', ~t.blind, t.password \in retired[t.subject]
      PROVE  t \in revoked
  <2>1. CASE t \in Pair(r, v)
    <3>1. t.subject = r.subject /\ t.password = r.password /\ t.blind = r.blind
      BY <1>0, <1>2, <1>4, <2>1, PairTypes
    <3>2. ~r.blind => r.password \notin retired[r.subject]
      BY <1>1 DEF PasswordInv, PasswordFits
    <3> QED
      BY <1>8, <3>1, <3>2
  <2>2. CASE t \in tokens
    BY <1>8, <2>2 DEF PasswordInv
  <2> QED
    BY <1>3, <2>1, <2>2
<1> QED
  BY <1>1, <1>7, <1>8 DEF PasswordInv

\* An account that is created has no password replaced, and nothing writes its row.
LEMMA PasswordWorld ==
    ASSUME OldTokensInv, PasswordInv,
           \/ \E s \in Subject : CreateUser(s)
           \/ \E w \in Server : Restart(w)
           \/ Tick
           \/ UNCHANGED vars
    PROVE  PasswordInv'
<1>0. TypeOK
  BY DEF OldTokensInv, SessionInv
<1>1. ASSUME NEW s \in Subject, CreateUser(s) PROVE PasswordInv'
  <2>1. /\ s \notin born /\ born' = born \cup {s}
        /\ \A z \in Subject \ {s} : row'[z] = row[z]
        /\ UNCHANGED <<req, tokens, revoked, retired>>
    BY <1>0, <1>1 DEF CreateUser, Given, TypeOK
  <2>2. retired[s] = {}
    BY <2>1 DEF PasswordInv
  <2>3. \A z \in Subject : row'[z] # NoRow => \A x \in retired'[z] : x < row'[z].password
    BY <2>1, <2>2 DEF PasswordInv
  <2>4. ASSUME NEW o \in Request, req[o] # Idle
        PROVE  PasswordFits(req[o])'
    <3>1. req[o].subject \in Subject
      BY <1>0, <2>4, RequestTypes DEF InProgress
    <3>2. PasswordFits(req[o]) /\ StageFits(req[o])
      BY <2>4 DEF PasswordInv, OldTokensInv, InvolvedInv
    <3>3. CASE req[o].subject # s
      <4>1. SamePassword(req[o].subject)
        BY <2>1, <3>1, <3>3 DEF SamePassword
      <4> QED
        BY <1>0, <2>1, <2>4, <3>2, <4>1, FitsStays
    <3>4. CASE req[o].subject = s
      <4>1. req[o].op \in {"Edit", "ChangePassword"} => req[o].at = "find"
        BY <2>1, <2>4, <3>4 DEF PasswordInv
      <4>2. req[o].at # "write"
        BY <3>2, <4>1 DEF StageFits
      <4> QED
        BY <2>1, <2>2, <3>2, <3>4, <4>1, <4>2 DEF PasswordFits
    <3> QED
      BY <3>3, <3>4
  <2> QED
    BY <2>1, <2>3, <2>4 DEF PasswordInv
<1>2. CASE UNCHANGED <<row, born, retired>> /\ (\A o \in Request : req'[o] # Idle => req'[o] = req[o])
           /\ \A t \in tokens' : t \in tokens /\ (t \in revoked => t \in revoked')
  <2>1. ASSUME NEW o \in Request, req'[o] # Idle
        PROVE  (/\ req[o].at # "find" /\ req[o].op \in {"Edit", "ChangePassword"} => req[o].subject \in born
                /\ PasswordFits(req[o]))'
    <3>1. req'[o] = req[o] /\ req[o] # Idle /\ SamePassword(req[o].subject)
      BY <1>2, <2>1 DEF SamePassword
    <3>2. PasswordFits(req[o])'
      BY <1>0, <3>1, FitsStays DEF PasswordInv
    <3> QED
      BY <1>2, <3>1, <3>2 DEF PasswordInv
  <2>2. \A t \in tokens' : ~t.blind /\ t.password \in retired'[t.subject] => t \in revoked'
    BY <1>2 DEF PasswordInv
  <2> QED
    BY <1>2, <2>1, <2>2 DEF PasswordInv
<1>3. ASSUME \/ \E w \in Server : Restart(w)
             \/ Tick
             \/ UNCHANGED vars
      PROVE  /\ UNCHANGED <<row, born, retired>>
             /\ \A o \in Request : req'[o] # Idle => req'[o] = req[o]
             /\ \A t \in tokens' : t \in tokens /\ (t \in revoked => t \in revoked')
  <2>1. ASSUME NEW w \in Server, Restart(w)
        PROVE  /\ UNCHANGED <<row, born, retired, tokens, revoked>>
               /\ \A o \in Request : req'[o] # Idle => req'[o] = req[o]
    BY <2>1 DEF Restart, Accounts, Given
  <2>2. CASE Tick
    BY <2>2 DEF Tick, Accounts
  <2>3. CASE UNCHANGED vars
    BY <2>3 DEF vars
  <2> QED
    BY <1>3, <2>1, <2>2, <2>3
<1> QED
  BY <1>1, <1>2, <1>3

LEMMA PasswordStep ==
    ASSUME OldTokensInv, PasswordInv, ChangesApart, [Next]_vars
    PROVE  PasswordInv'
<1>1. ASSUME NEW p \in Request, Advance(p) PROVE PasswordInv'
  <2>0. TypeOK /\ InvolvedInv
    BY DEF OldTokensInv, SessionInv
  <2>1. CASE Revoke(p) \/ TakeRefresh(p) \/ Generate(p) \/ GenerateRefresh(p) \/ RequestFails(p)
    <3>1. UNCHANGED <<row, born, tokens, revoked, retired>>
      BY <2>1 DEF Revoke, TakeRefresh, Generate, GenerateRefresh, RequestFails, Accounts, Given
    <3>2. req[p].at \in {"revoke", "take", "access", "store"} \/ req'[p] = Idle
      <4>1. CASE RequestFails(p)
        BY <2>0, <4>1, BecomeTypes DEF RequestFails, Finish
      <4> QED
        BY <2>1, <4>1 DEF Revoke, TakeRefresh, Generate, GenerateRefresh, At
    <3> QED
      BY <1>1, <2>0, <3>1, <3>2, PasswordQuiet
  <2> QED
    BY <1>1, <2>1, PasswordFind, PasswordUpdate, PasswordRevoke, PasswordAnswer DEF Advance
<1> QED
  BY <1>1, PasswordBegins, PasswordWorld, StepCases

\* After a change of password nobody is in by the one before: the row does not have it
\* again, and a token that holds does not stem from it, through any number of refreshes,
\* if nothing else concerns the account during the change and no two Revokes overlap.
THEOREM OldPasswordStaysOut ==
    ASSUME RevokesApart, ChangesApart
    PROVE  Spec => []OldPasswordOut
<1>1. Init => PasswordInv
  BY DEF Init, PasswordInv
<1>2. OldTokensInv /\ PasswordInv /\ [Next]_vars => PasswordInv'
  BY PasswordStep
<1>3. OldTokensInv /\ PasswordInv => OldPasswordOut
  <2> SUFFICES ASSUME OldTokensInv, PasswordInv PROVE OldPasswordOut
    OBVIOUS
  <2>0. TypeOK
    BY DEF OldTokensInv, SessionInv
  <2>1. ASSUME NEW s \in Subject, row[s] # NoRow PROVE row[s].password \notin retired[s]
    <3>1. row[s].password \in Nat
      BY <2>0, <2>1 DEF TypeOK, Row
    <3>2. \A x \in retired[s] : x < row[s].password
      BY <2>1 DEF PasswordInv
    <3> QED
      BY <3>1, <3>2
  <2>2. ASSUME NEW t \in tokens, Accepted(t), ~t.blind PROVE t.password \notin retired[t.subject]
    <3>1. t.number \in Nat /\ version[t.subject].number \in Nat
      BY <2>0 DEF TypeOK, Token, TokensTypeOK
    <3>2. t \notin revoked
      BY <2>2, <3>1 DEF OldTokensInv, TokensInv, Outdated, Accepted, Current
    <3> QED
      BY <2>2, <3>2 DEF PasswordInv
  <2> QED
    BY <2>1, <2>2 DEF OldPasswordOut
<1> QED
  BY <1>1, <1>2, <1>3, OldTokensInvariant, PTL DEF Spec
=============================================================================
