----------------------------- MODULE RateLimiter -----------------------------
(***************************************************************************)
(* RateLimiter: the requests of one client (an address or a user) against  *)
(* one limit.  Redis keeps the times of the requests that were counted in  *)
(* a sliding window and one script decides; a server to which Redis does   *)
(* not answer decides by a window in its own memory.                       *)
(*                                                                         *)
(* The clock is read before the script, and again before the memory is     *)
(* locked, so that decisions do not come in the order of their times; both *)
(* come within Delay.  The clocks of the servers agree.  A server that is  *)
(* started again is another one.                                           *)
(***************************************************************************)
EXTENDS Naturals, FiniteSets

CONSTANTS
    Server,
    Limit,
    Window,   \* the window
    Expiry,   \* the time Redis keeps the window of a client
    Delay,    \* the longest time from the reading of a clock to the decision
    Request,  \* the requests in progress at one time
    Idle,     \* a request slot that serves nobody
    MaxTime,  \* bound: how far time goes
    MaxNonce  \* bound: MaxNonce[w] requests of each server w

\* EXPIRE counts whole seconds: a window of a second or more is a whole number of them.
ASSUME WindowAssumption ==
    /\ Limit \in Nat /\ Window \in Nat /\ Expiry \in Nat /\ Delay \in Nat
    /\ Delay < Window /\ Window <= Expiry
ASSUME BoundAssumption == MaxTime \in Nat /\ MaxNonce \in [Server -> Nat]

\* What is kept of a request, under the name Redis has for it: two servers may
\* give the same one, for each has a nonce of its own.
Member == [ts: Nat, nonce: Nat]

InProgress == [at: {"script", "memory"}, server: Server, ts: Nat, nonce: Nat]

\* What became of a request that was counted: let through by Redis or by the
\* memory of its server, or counted by Redis whose answer was lost.
Counted == [by: {"redis", "memory", "lost"}, server: Server, ts: Nat, nonce: Nat]

ASSUME IdleAssumption == Idle \notin InProgress

VARIABLES
    now,
    entries, \* the sorted set of Redis
    expires, \* when Redis forgets it
    mem,     \* mem[w]: the window in the memory of w
    nonce,   \* nonce[w]: rlNonce
    req,     \* req[p]: the request in progress, or Idle
    log      \* the requests that were counted in the last windows

vars == <<now, entries, expires, mem, nonce, req, log>>

\* Every variable stays in its type.
TypeOK ==
    /\ now \in Nat
    /\ entries \subseteq Member /\ IsFiniteSet(entries) /\ Cardinality(entries) <= Limit
    /\ expires \in Nat
    /\ mem \in [Server -> SUBSET Member]
    /\ nonce \in [Server -> Nat]
    /\ req \in [Request -> InProgress \cup {Idle}]
    /\ log \subseteq Counted

Init ==
    /\ now = 0
    /\ entries = {}
    /\ expires = 0
    /\ mem = [w \in Server |-> {}]
    /\ nonce = [w \in Server |-> 0]
    /\ req = [p \in Request |-> Idle]
    /\ log = {}

-----------------------------------------------------------------------------
Become(p, r) == req' = [req EXCEPT ![p] = r]
Finish(p) == Become(p, Idle)
At(p, stage) == req[p] # Idle /\ req[p].at = stage

\* The member of a request.
Of(r) == [ts |-> r.ts, nonce |-> r.nonce]

Note(r, by) ==
    log' = log \cup {[by |-> by, server |-> r.server, ts |-> r.ts, nonce |-> r.nonce]}

\* Allow: the clock is read.
Allow(p, w) ==
    /\ req[p] = Idle
    /\ nonce[w] < MaxNonce[w]
    /\ nonce' = [nonce EXCEPT ![w] = @ + 1]
    /\ Become(p, [at |-> "script", server |-> w, ts |-> now, nonce |-> nonce[w] + 1])
    /\ UNCHANGED <<now, entries, expires, mem, log>>

\* The script removes what is as old as the window or older ...
Recent(members, ts) == {m \in members : m.ts + Window > ts}

\* ... and adds a request if the others are not too many.
\* A bug: one more than the limit.
AddOneMore(r) ==
    /\ Cardinality(Recent(entries, r.ts)) <= Limit
    /\ entries' = Recent(entries, r.ts) \cup {Of(r)}
    /\ expires' = now + Expiry

Add(r) ==
    /\ Cardinality(Recent(entries, r.ts)) < Limit
    /\ entries' = Recent(entries, r.ts) \cup {Of(r)}
    /\ expires' = now + Expiry

\* A bug: requests that are refused count.
RefuseCounted(r) ==
    /\ Cardinality(Recent(entries, r.ts)) >= Limit
    /\ entries' = Recent(entries, r.ts) \cup {Of(r)}
    /\ UNCHANGED expires

Refuse(r) ==
    /\ Cardinality(Recent(entries, r.ts)) >= Limit
    /\ entries' = Recent(entries, r.ts)
    /\ UNCHANGED expires

\* The answer of Redis is final.
Script(p) ==
    /\ At(p, "script")
    /\ \/ Add(req[p]) /\ Note(req[p], "redis")
       \/ Refuse(req[p]) /\ UNCHANGED log
    /\ Finish(p)
    /\ UNCHANGED <<now, mem, nonce>>

\* Redis does not answer, and has run the script or not: the clock is read again.
ScriptFails(p) ==
    /\ At(p, "script")
    /\ \/ Add(req[p]) /\ Note(req[p], "lost")
       \/ Refuse(req[p]) /\ UNCHANGED log
       \/ UNCHANGED <<entries, expires, log>>
    /\ Become(p, [req[p] EXCEPT !.at = "memory", !.ts = now])
    /\ UNCHANGED <<now, mem, nonce>>

\* memSlidingWindow.allow: what is older than the window is removed ...
\* A bug: only what is of the same time is kept.
PruneAll(points, ts) == {m \in points : m.ts >= ts}

Prune(points, ts) == {m \in points : m.ts + Window >= ts}

\* ... and the request counts if the others are not too many.
AllowByMemory(p) ==
    /\ At(p, "memory")
    /\ LET r == req[p]
           points == Prune(mem[r.server], r.ts)
       IN IF Cardinality(points) >= Limit
          THEN mem' = [mem EXCEPT ![r.server] = points] /\ UNCHANGED log
          ELSE mem' = [mem EXCEPT ![r.server] = points \cup {Of(r)}] /\ Note(r, "memory")
    /\ Finish(p)
    /\ UNCHANGED <<now, entries, expires, nonce>>

\* gc, for the request of another client when there are many.
Gc(w) ==
    /\ mem' = [mem EXCEPT ![w] = Prune(mem[w], now)]
    /\ UNCHANGED <<now, entries, expires, nonce, req, log>>

\* Time goes by, no request takes longer than Delay, and Redis forgets.
Tick ==
    /\ now < MaxTime
    /\ \A p \in Request : req[p] # Idle => now < req[p].ts + Delay
    /\ now' = now + 1
    /\ entries' = IF expires <= now + 1 THEN {} ELSE entries
    /\ log' = {c \in log : c.ts + Window + Delay > now}
    /\ UNCHANGED <<expires, mem, nonce, req>>

Next ==
    \/ \E p \in Request :
          \/ \E w \in Server : Allow(p, w)
          \/ Script(p) \/ ScriptFails(p) \/ AllowByMemory(p)
    \/ \E w \in Server : Gc(w)
    \/ Tick

Spec == Init /\ [][Next]_vars

-----------------------------------------------------------------------------
\* The members of the requests that were let through from a time on, for a time.
Members(by, from, length) ==
    {Of(c) : c \in {d \in log : d.by \in by /\ from <= d.ts /\ d.ts < from + length}}

\* Redis lets no more than Limit requests through in a window, on all servers and
\* in whatever order they come to it, but for those that go by the name of another:
\* the window is the shorter by the time a request may be on its way.
LimitKept ==
    \A from \in 0..now : Cardinality(Members({"redis"}, from, Window - Delay)) <= Limit

\* So does each server when Redis does not answer.
MemoryLimitKept ==
    \A w \in Server, from \in 0..now :
        Cardinality({c \in log : c.by = "memory" /\ c.server = w /\ from <= c.ts
                                 /\ c.ts <= from + Window - Delay}) <= Limit

\* Redis refuses a request only if as many as Limit were counted in the window
\* before it: those that were refused do not count.
RefusedAtLimit ==
    [][\A p \in Request :
          At(p, "script") /\ req'[p] = Idle /\ log' = log =>
             Cardinality({c \in log : /\ c.by \in {"redis", "lost"}
                                      /\ c.ts + Window > req[p].ts}) >= Limit]_vars
=============================================================================
