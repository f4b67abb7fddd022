-------------------------- MODULE RateLimiterProofs --------------------------
(***************************************************************************)
(* Proofs about RateLimiter, for every limit, window and delay, and any    *)
(* number of servers and requests.                                         *)
(*                                                                         *)
(* Decisions do not come in the order of their times.  What carries the    *)
(* limit is that a request that counts less than a window ago is still in  *)
(* the set that the next decision looks at: a request is at most Delay     *)
(* late, so every other one of a window of Window - Delay around it is     *)
(* there.                                                                  *)
(***************************************************************************)
EXTENDS RateLimiter, FiniteSetTheorems, TLAPS

Finite == IsFiniteSet(log) /\ \A w \in Server : IsFiniteSet(mem[w])

\* A request is not older than Delay, and nothing is of the future.
Timely ==
    /\ \A p \in Request : req[p] # Idle => req[p].ts <= now /\ now <= req[p].ts + Delay
    /\ \A c \in log : c.ts <= now

\* A nonce names one request of a server, that counts once for Redis and once for the
\* memory.
Numbered ==
    /\ \A p \in Request : req[p] # Idle => req[p].nonce <= nonce[req[p].server]
    /\ \A c \in log : c.nonce <= nonce[c.server]
    /\ \A p, o \in Request :
          p # o /\ req[p] # Idle /\ req[o] # Idle /\ req[p].server = req[o].server =>
             req[p].nonce # req[o].nonce
    /\ \A p \in Request, c \in log :
          req[p] # Idle /\ req[p].server = c.server /\ (c.by # "lost" \/ req[p].at = "script") =>
             req[p].nonce # c.nonce
    /\ \A c, d \in log :
          c.by = "memory" /\ d.by = "memory" /\ c.server = d.server /\ c.nonce = d.nonce => c = d

\* Redis has what counted within the window, and has nothing but what counted.
RedisKeeps ==
    /\ expires <= now + Expiry
    /\ \A c \in log : c.by # "memory" =>
          c.ts + Window <= expires /\ (c.ts + Window > now => Of(c) \in entries)
    /\ \A m \in entries : m.ts + Window + Delay > now =>
          \E c \in log : c.by # "memory" /\ Of(c) = m

\* So has the memory of each server.
MemoryKeeps ==
    \A c \in log : c.by = "memory" /\ c.ts + Window >= now => Of(c) \in mem[c.server]

Known == TypeOK /\ Finite /\ Timely /\ Numbered /\ RedisKeeps /\ MemoryKeeps

RateInv == Known /\ LimitKept /\ MemoryLimitKept

-----------------------------------------------------------------------------
LEMMA RequestTypes ==
    ASSUME TypeOK, NEW p \in Request, req[p] # Idle
    PROVE  /\ req[p] \in InProgress
           /\ req[p].at \in {"script", "memory"} /\ req[p].server \in Server
           /\ req[p].ts \in Nat /\ req[p].nonce \in Nat
  BY DEF TypeOK, InProgress

LEMMA LogTypes ==
    ASSUME TypeOK, NEW c \in log
    PROVE  /\ c.by \in {"redis", "memory", "lost"} /\ c.server \in Server
           /\ c.ts \in Nat /\ c.nonce \in Nat
  BY DEF TypeOK, Counted

\* A request becomes another record, or ends; the others stay.
LEMMA BecomeTypes ==
    ASSUME TypeOK, NEW p \in Request, NEW x \in InProgress \cup {Idle}, Become(p, x)
    PROVE  /\ req' \in [Request -> InProgress \cup {Idle}]
           /\ req'[p] = x
           /\ \A o \in Request \ {p} : req'[o] = req[o]
  BY DEF TypeOK, Become

\* A smaller set of the members within the limit, and one more.
LEMMA OneMore ==
    ASSUME NEW S, IsFiniteSet(S), Cardinality(S) < Limit, NEW x, NEW T \in SUBSET (S \cup {x})
    PROVE  IsFiniteSet(T) /\ Cardinality(T) <= Limit
<1>0. Cardinality(S) \in Nat
  BY FS_CardinalityType
<1>1. IsFiniteSet(S \cup {x}) /\ Cardinality(S \cup {x}) <= Cardinality(S) + 1
  <2>1. /\ IsFiniteSet(S \cup {x})
        /\ Cardinality(S \cup {x}) = IF x \in S THEN Cardinality(S) ELSE Cardinality(S) + 1
    BY FS_AddElement
  <2> QED
    BY <1>0, <2>1
<1>2. IsFiniteSet(T) /\ Cardinality(T) <= Cardinality(S \cup {x})
  BY <1>1, FS_Subset
<1>3. Cardinality(S) \in Nat /\ Cardinality(S \cup {x}) \in Nat /\ Cardinality(T) \in Nat
  BY <1>1, <1>2, FS_CardinalityType
<1> QED
  BY <1>1, <1>2, <1>3, WindowAssumption

\* The members of some requests are finitely many; they are as many as the requests
\* when their nonces tell them apart.
LEMMA OfImage ==
    ASSUME NEW C, IsFiniteSet(C)
    PROVE  LET M == {Of(c) : c \in C}
           IN  /\ IsFiniteSet(M) /\ Cardinality(M) <= Cardinality(C)
               /\ (\A c, d \in C : c.nonce = d.nonce => c = d) => Cardinality(M) = Cardinality(C)
<1> DEFINE M == {Of(c) : c \in C}
           f == [c \in C |-> Of(c)]
<1>1. f \in Surjection(C, M)
  BY DEF Surjection
<1>2. IsFiniteSet(M) /\ Cardinality(M) <= Cardinality(C)
      /\ (Cardinality(M) = Cardinality(C) <=> f \in Injection(C, M))
  BY <1>1, FS_Surjection
<1>3. ASSUME \A c, d \in C : c.nonce = d.nonce => c = d
      PROVE  f \in Injection(C, M)
  <2>1. ASSUME NEW c \in C, NEW d \in C, f[c] = f[d]
        PROVE  c = d
    <3>1. Of(c) = Of(d)
      BY <2>1
    <3>2. c.nonce = d.nonce
      BY <3>1 DEF Of
    <3> QED
      BY <1>3, <3>2
  <2> QED
    BY <2>1 DEF Injection, IsInjective
<1> QED
  BY <1>2, <1>3

\* What counts is counted of the request as it is.
LEMMA NoteTypes ==
    ASSUME TypeOK, NEW r \in InProgress, NEW by \in {"redis", "memory", "lost"}, Note(r, by)
    PROVE  \E c \in Counted :
              /\ c.by = by /\ c.server = r.server /\ c.ts = r.ts /\ c.nonce = r.nonce
              /\ Of(c) = Of(r)
              /\ log' = log \cup {c} /\ log' \subseteq Counted
<1> DEFINE c == [by |-> by, server |-> r.server, ts |-> r.ts, nonce |-> r.nonce]
<1>1. c \in Counted
  BY DEF Counted, InProgress
<1>2. c.by = by /\ c.server = r.server /\ c.ts = r.ts /\ c.nonce = r.nonce
  OBVIOUS
<1>3. log' = log \cup {c}
  BY DEF Note
<1> HIDE DEF c
<1> QED
  BY <1>1, <1>2, <1>3 DEF TypeOK, Of

LEMMA FewerKept ==
    ASSUME NEW T, IsFiniteSet(T), Cardinality(T) <= Limit, NEW S \in SUBSET T
    PROVE  Cardinality(S) <= Limit
<1>1. IsFiniteSet(S) /\ Cardinality(S) <= Cardinality(T)
  BY FS_Subset
<1>2. Cardinality(S) \in Nat /\ Cardinality(T) \in Nat
  BY <1>1, FS_CardinalityType
<1> QED
  BY <1>1, <1>2, WindowAssumption

-----------------------------------------------------------------------------
\* What a request at the script becomes: it ends, or goes on to the memory.
Goes(r, x) ==
    \/ x = Idle
    \/ x \in InProgress /\ x.at = "memory" /\ x.server = r.server /\ x.nonce = r.nonce /\ x.ts = now

\* When nothing counts the limits are kept.
LEMMA NothingCounts ==
    ASSUME RateInv, UNCHANGED <<now, log>>
    PROVE  (LimitKept /\ MemoryLimitKept)'
  BY DEF RateInv, LimitKept, MemoryLimitKept, Members

\* When a request of p goes on and nothing counts the numbers stay.
LEMMA NumbersStay ==
    ASSUME Known, NEW p \in Request, req[p] # Idle, Goes(req[p], req'[p]),
           \A o \in Request \ {p} : req'[o] = req[o],
           UNCHANGED <<now, nonce, log>>
    PROVE  (Timely /\ Numbered)'
<1>1. now \in Nat
  BY DEF Known, TypeOK
<1>2. Timely'
  BY <1>1, WindowAssumption DEF Known, Timely, Goes
<1>3. \A o \in Request : req'[o] # Idle =>
         /\ req[o] # Idle /\ req'[o].server = req[o].server /\ req'[o].nonce = req[o].nonce
         /\ req'[o].at = "script" => req[o].at = "script"
  BY DEF Goes
<1>4. Numbered'
  BY <1>3 DEF Known, Numbered
<1> QED
  BY <1>2, <1>4

\* The script refuses, or does not run.
LEMMA RefuseStep ==
    ASSUME RateInv, NEW p \in Request, req[p] # Idle, Goes(req[p], req'[p]),
           req' = [req EXCEPT ![p] = req'[p]],
           Refuse(req[p]) \/ UNCHANGED <<entries, expires>>,
           UNCHANGED <<now, mem, nonce, log>>
    PROVE  RateInv'
<1> USE DEF RateInv
<1>0. TypeOK /\ now \in Nat /\ req[p].ts \in Nat /\ req[p].ts <= now
  BY RequestTypes DEF Known, TypeOK, Timely
<1>1. /\ req' \in [Request -> InProgress \cup {Idle}]
      /\ \A o \in Request \ {p} : req'[o] = req[o]
  BY <1>0 DEF Goes, TypeOK
<1>2. entries' \subseteq entries /\ expires' = expires
  BY DEF Refuse, Recent
<1>3. IsFiniteSet(entries') /\ Cardinality(entries') <= Limit
  <2>1. IsFiniteSet(entries) /\ Cardinality(entries) <= Limit
    BY <1>0 DEF TypeOK
  <2> QED
    BY <1>2, <2>1, FewerKept, FS_Subset
<1>4. TypeOK'
  BY <1>0, <1>1, <1>2, <1>3 DEF TypeOK
<1>5. (Timely /\ Numbered)'
  BY <1>1, NumbersStay
<1>6. \A m \in entries : m.ts + Window > now => m \in entries'
  <2> SUFFICES ASSUME NEW m \in entries, m.ts + Window > now PROVE m \in entries'
    OBVIOUS
  <2>1. m.ts \in Nat
    BY <1>0 DEF TypeOK, Member
  <2> QED
    BY <1>0, <2>1, WindowAssumption DEF Refuse, Recent
<1>7. RedisKeeps'
  <2>1. \A c \in log : Of(c).ts = c.ts
    BY DEF Of
  <2> QED
    BY <1>2, <1>6, <2>1 DEF Known, RedisKeeps
<1>8. Finite' /\ MemoryKeeps'
  BY DEF Known, Finite, MemoryKeeps
<1> QED
  BY <1>4, <1>5, <1>7, <1>8, NothingCounts DEF Known

\* The script counts a request, and the answer comes or is lost: every other one of a
\* window that this one is in is still there.
LEMMA AddStep ==
    ASSUME RateInv, NEW p \in Request, At(p, "script"), Goes(req[p], req'[p]),
           req' = [req EXCEPT ![p] = req'[p]],
           NEW by \in {"redis", "lost"}, by = "redis" => req'[p] = Idle,
           Add(req[p]), Note(req[p], by),
           UNCHANGED <<now, mem, nonce>>
    PROVE  RateInv'
<1> DEFINE r == req[p]
<1> USE DEF RateInv
<1>0. /\ TypeOK /\ now \in Nat /\ expires \in Nat
      /\ r # Idle /\ r.at = "script" /\ r \in InProgress
      /\ r.server \in Server /\ r.ts \in Nat /\ r.nonce \in Nat
      /\ r.ts <= now /\ now <= r.ts + Delay
  BY RequestTypes DEF Known, TypeOK, Timely, At
<1>1. /\ req' \in [Request -> InProgress \cup {Idle}]
      /\ \A o \in Request \ {p} : req'[o] = req[o]
  BY <1>0 DEF Goes, TypeOK
<1>2. PICK c \in Counted :
         /\ c.by = by /\ c.server = r.server /\ c.ts = r.ts /\ c.nonce = r.nonce
         /\ Of(c) = Of(r)
         /\ log' = log \cup {c} /\ log' \subseteq Counted
  BY <1>0, NoteTypes
<1> DEFINE recent == Recent(entries, r.ts)
<1>3. /\ Cardinality(recent) < Limit /\ entries' = recent \cup {Of(r)}
      /\ expires' = now + Expiry
  BY DEF Add
<1>4. /\ IsFiniteSet(recent) /\ recent \subseteq entries /\ Of(r) \in Member
      /\ Of(r).ts = r.ts
  <2>1. recent \subseteq entries
    BY DEF Recent
  <2>2. IsFiniteSet(entries)
    BY <1>0 DEF TypeOK
  <2> QED
    BY <1>0, <2>1, <2>2, FS_Subset DEF Of, Member
<1>5. \A m \in entries : m \in Member /\ m.ts \in Nat /\ (m.ts + Window > r.ts => m \in recent)
  BY <1>0 DEF TypeOK, Member, Recent
<1> HIDE DEF r, recent
<1>6. IsFiniteSet(entries') /\ Cardinality(entries') <= Limit
  BY <1>3, <1>4, OneMore
<1>7. TypeOK'
  <2>1. entries' \subseteq Member
    BY <1>3, <1>4, <1>5
  <2>2. expires' \in Nat
    BY <1>0, <1>3, WindowAssumption
  <2> QED
    BY <1>0, <1>1, <1>2, <1>6, <2>1, <2>2 DEF TypeOK
<1>8. Finite'
  <2>1. IsFiniteSet(log \cup {c})
    BY FS_AddElement DEF Known, Finite
  <2> QED
    BY <1>2, <2>1 DEF Known, Finite
<1>9. Timely'
  <2>1. \A o \in Request : req'[o] # Idle => req'[o].ts <= now /\ now <= req'[o].ts + Delay
    BY <1>0, <1>1, WindowAssumption DEF Known, Timely, Goes
  <2> QED
    BY <1>0, <1>2, <2>1 DEF Known, Timely
<1>10. Numbered'
  <2>1. \A o \in Request : req'[o] # Idle =>
           /\ req[o] # Idle /\ req'[o].server = req[o].server /\ req'[o].nonce = req[o].nonce
           /\ req'[o].at = "script" => req[o].at = "script"
           /\ o = p => req'[o].at # "script" /\ by = "lost"
    <3> SUFFICES ASSUME NEW o \in Request, req'[o] # Idle
                 PROVE  /\ req[o] # Idle /\ req'[o].server = req[o].server
                        /\ req'[o].nonce = req[o].nonce
                        /\ req'[o].at = "script" => req[o].at = "script"
                        /\ o = p => req'[o].at # "script" /\ by = "lost"
      OBVIOUS
    <3>1. CASE o # p
      BY <1>1, <3>1
    <3>2. CASE o = p
      <4>1. by = "lost"
        BY <3>2
      <4>2. req'[p].at = "memory" /\ req'[p].server = r.server /\ req'[p].nonce = r.nonce
        BY <3>2 DEF Goes, r
      <4> QED
        BY <1>0, <3>2, <4>1, <4>2 DEF r
    <3> QED
      BY <3>1, <3>2
  <2>2. /\ \A o \in Request : req'[o] # Idle => req'[o].nonce <= nonce'[req'[o].server]
        /\ \A q, o \in Request :
              q # o /\ req'[q] # Idle /\ req'[o] # Idle /\ req'[q].server = req'[o].server =>
                 req'[q].nonce # req'[o].nonce
    BY <2>1 DEF Known, Numbered
  <2>5. \A d \in log' : d.nonce <= nonce'[d.server]
    <3>1. c.nonce <= nonce[c.server]
      BY <1>0, <1>2 DEF Known, Numbered, r
    <3> QED
      BY <1>2, <3>1 DEF Known, Numbered
  <2>3. ASSUME NEW q \in Request, NEW d \in log',
               req'[q] # Idle, req'[q].server = d.server, d.by # "lost" \/ req'[q].at = "script"
        PROVE  req'[q].nonce # d.nonce
    <3>1. CASE d = c
      <4>1. q # p
        BY <1>2, <2>1, <2>3, <3>1
      <4> QED
        BY <1>0, <1>2, <2>1, <2>3, <3>1, <4>1 DEF Known, Numbered, r
    <3>2. CASE d \in log
      BY <2>1, <2>3, <3>2 DEF Known, Numbered
    <3> QED
      BY <1>2, <2>3, <3>1, <3>2
  <2>4. \A a, d \in log' :
           a.by = "memory" /\ d.by = "memory" /\ a.server = d.server /\ a.nonce = d.nonce => a = d
    BY <1>2 DEF Known, Numbered
  <2> QED
    BY <2>2, <2>3, <2>4, <2>5 DEF Numbered
<1>11. \A d \in log : d.by # "memory" /\ d.ts + Window > now => Of(d) \in recent
  <2> SUFFICES ASSUME NEW d \in log, d.by # "memory", d.ts + Window > now PROVE Of(d) \in recent
    OBVIOUS
  <2>1. Of(d) \in entries /\ Of(d).ts = d.ts /\ d.ts \in Nat
    BY <1>0, LogTypes DEF Known, RedisKeeps, Of
  <2> QED
    BY <1>0, <1>5, <2>1, WindowAssumption
<1>12. RedisKeeps'
  <2>1. expires' <= now + Expiry
    BY <1>0, <1>3, WindowAssumption
  <2>2. ASSUME NEW d \in log', d.by # "memory"
        PROVE  d.ts + Window <= expires' /\ (d.ts + Window > now => Of(d) \in entries')
    <3>1. CASE d = c
      BY <1>0, <1>2, <1>3, <3>1, WindowAssumption
    <3>2. CASE d \in log
      <4>1. d.ts \in Nat /\ d.ts <= now
        BY <1>0, <3>2, LogTypes DEF Known, Timely
      <4> QED
        BY <1>0, <1>3, <1>11, <2>2, <3>2, <4>1, WindowAssumption
    <3> QED
      BY <1>2, <2>2, <3>1, <3>2
  <2>3. ASSUME NEW m \in entries', m.ts + Window + Delay > now
        PROVE  \E d \in log' : d.by # "memory" /\ Of(d) = m
    BY <1>2, <1>3, <1>4, <2>3 DEF Known, RedisKeeps
  <2> QED
    BY <2>1, <2>2, <2>3 DEF RedisKeeps
<1>13. MemoryKeeps'
  BY <1>2 DEF Known, MemoryKeeps
<1>14. LimitKept'
  <2> SUFFICES ASSUME NEW from \in 0..now
               PROVE  Cardinality(Members({"redis"}, from, Window - Delay)') <= Limit
    BY DEF LimitKept
  <2> DEFINE In(d) == d.by \in {"redis"} /\ from <= d.ts /\ d.ts < from + (Window - Delay)
  <2>1. Members({"redis"}, from, Window - Delay)' = {Of(d) : d \in {e \in log' : In(e)}}
    BY DEF Members
  <2>2. CASE In(c)
    <3>1. ASSUME NEW d \in log', In(d)
          PROVE  Of(d) \in entries'
      <4>1. CASE d = c
        BY <1>2, <1>3, <4>1
      <4>2. CASE d \in log
        <5>1. d.ts \in Nat /\ from \in Nat
          BY <1>0, <4>2, LogTypes
        <5>2. d.ts + Window > now
          BY <1>0, <1>2, <2>2, <3>1, <5>1, WindowAssumption
        <5> QED
          BY <1>3, <1>11, <3>1, <4>2, <5>2
      <4> QED
        BY <1>2, <3>1, <4>1, <4>2
    <3>2. {Of(d) : d \in {e \in log' : In(e)}} \subseteq entries'
      BY <3>1
    <3> HIDE DEF In
    <3> QED
      BY <1>6, <2>1, <3>2, FewerKept
  <2>3. CASE ~In(c)
    <3>1. {e \in log' : In(e)} = {e \in log : In(e)}
      BY <1>2, <2>3
    <3>2. Members({"redis"}, from, Window - Delay) = {Of(d) : d \in {e \in log : In(e)}}
      BY DEF Members
    <3>3. Cardinality(Members({"redis"}, from, Window - Delay)) <= Limit
      BY DEF LimitKept
    <3> HIDE DEF In
    <3> QED
      BY <2>1, <3>1, <3>2, <3>3
  <2> QED
    BY <2>2, <2>3
<1>15. MemoryLimitKept'
  <2> SUFFICES ASSUME NEW w \in Server, NEW from \in 0..now
               PROVE  Cardinality({d \in log : d.by = "memory" /\ d.server = w /\ from <= d.ts
                                               /\ d.ts <= from + Window - Delay}') <= Limit
    BY DEF MemoryLimitKept
  <2>1. {d \in log' : d.by = "memory" /\ d.server = w /\ from <= d.ts
                      /\ d.ts <= from + Window - Delay}
        = {d \in log : d.by = "memory" /\ d.server = w /\ from <= d.ts
                       /\ d.ts <= from + Window - Delay}
    BY <1>2
  <2> QED
    BY <2>1 DEF MemoryLimitKept
<1> QED
  BY <1>7, <1>8, <1>9, <1>10, <1>12, <1>13, <1>14, <1>15 DEF Known

\* A server counts by its memory.
LEMMA MemoryStep ==
    ASSUME RateInv, NEW p \in Request, AllowByMemory(p)
    PROVE  RateInv'
<1> DEFINE r == req[p]
           w == r.server
           points == Prune(mem[w], r.ts)
<1> USE DEF RateInv
<1>0. /\ TypeOK /\ now \in Nat
      /\ r # Idle /\ r.at = "memory" /\ r \in InProgress
      /\ w \in Server /\ r.ts \in Nat /\ r.nonce \in Nat
      /\ r.ts <= now /\ now <= r.ts + Delay
  BY RequestTypes DEF Known, TypeOK, Timely, At, AllowByMemory
<1>1. /\ req' \in [Request -> InProgress \cup {Idle}]
      /\ req'[p] = Idle /\ \A o \in Request \ {p} : req'[o] = req[o]
      /\ UNCHANGED <<now, entries, expires, nonce>>
  BY <1>0, BecomeTypes DEF AllowByMemory, Finish
<1>2. /\ points \subseteq mem[w] /\ IsFiniteSet(points) /\ mem[w] \subseteq Member
      /\ \A m \in mem[w] : m.ts \in Nat /\ (m.ts + Window >= r.ts => m \in points)
  <2>1. points \subseteq mem[w] /\ mem[w] \subseteq Member
    BY <1>0 DEF TypeOK, Prune
  <2>2. IsFiniteSet(points)
    BY <1>0, <2>1, FS_Subset DEF Known, Finite
  <2>3. \A m \in mem[w] : m.ts \in Nat
    BY <2>1 DEF Member
  <2> QED
    BY <2>1, <2>2, <2>3 DEF Prune
<1>3. Of(r) \in Member
  BY <1>0 DEF Of, Member
<1>4. \A d \in log : d.by = "memory" /\ d.server = w /\ d.ts + Window >= now => Of(d) \in points
  <2> SUFFICES ASSUME NEW d \in log, d.by = "memory", d.server = w, d.ts + Window >= now
               PROVE  Of(d) \in points
    OBVIOUS
  <2>1. Of(d) \in mem[w] /\ Of(d).ts = d.ts /\ d.ts \in Nat
    BY <1>0, LogTypes DEF Known, MemoryKeeps, Of
  <2> QED
    BY <1>0, <1>2, <2>1, WindowAssumption
<1>5. \/ Cardinality(points) >= Limit /\ mem' = [mem EXCEPT ![w] = points] /\ log' = log
      \/ /\ ~(Cardinality(points) >= Limit)
         /\ mem' = [mem EXCEPT ![w] = points \cup {Of(r)}] /\ Note(r, "memory")
  BY DEF AllowByMemory
<1> HIDE DEF points
<1>6. CASE mem' = [mem EXCEPT ![w] = points] /\ log' = log
  <2>1. /\ mem' \in [Server -> SUBSET Member] /\ mem'[w] = points
        /\ \A v \in Server \ {w} : mem'[v] = mem[v]
    BY <1>0, <1>2, <1>6 DEF TypeOK
  <2>2. TypeOK'
    BY <1>0, <1>1, <1>6, <2>1 DEF TypeOK
  <2>3. Finite'
    BY <1>2, <1>6, <2>1 DEF Known, Finite
  <2>4. (Timely /\ Numbered)'
    BY <1>0, <1>1, <1>6, NumbersStay DEF Goes
  <2>5. MemoryKeeps'
    BY <1>1, <1>4, <1>6, <2>1, <1>0, LogTypes DEF Known, MemoryKeeps
  <2>6. RedisKeeps'
    BY <1>1, <1>6 DEF Known, RedisKeeps
  <2> QED
    BY <1>1, <1>6, <2>2, <2>3, <2>4, <2>5, <2>6, NothingCounts DEF Known
<1>7. CASE /\ ~(Cardinality(points) >= Limit)
           /\ mem' = [mem EXCEPT ![w] = points \cup {Of(r)}] /\ Note(r, "memory")
  <2>1. /\ mem' \in [Server -> SUBSET Member] /\ mem'[w] = points \cup {Of(r)}
        /\ \A v \in Server \ {w} : mem'[v] = mem[v]
    BY <1>0, <1>2, <1>3, <1>7 DEF TypeOK
  <2>2. PICK c \in Counted :
           /\ c.by = "memory" /\ c.server = w /\ c.ts = r.ts /\ c.nonce = r.nonce
           /\ Of(c) = Of(r)
           /\ log' = log \cup {c} /\ log' \subseteq Counted
    BY <1>0, <1>7, NoteTypes
  <2> HIDE DEF r, w
  <2>3. TypeOK'
    BY <1>0, <1>1, <2>1, <2>2 DEF TypeOK
  <2>4. Finite'
    <3>1. IsFiniteSet(log \cup {c}) /\ IsFiniteSet(points \cup {Of(r)})
      BY <1>2, FS_AddElement DEF Known, Finite
    <3> QED
      BY <2>1, <2>2, <3>1 DEF Known, Finite
  <2>5. Timely'
    BY <1>0, <1>1, <2>2 DEF Known, Timely
  <2>6. Numbered'
    <3>1. \A o \in Request : req'[o] # Idle => req[o] # Idle /\ req'[o] = req[o] /\ o # p
      BY <1>1
    <3>2. /\ \A o \in Request : req'[o] # Idle => req'[o].nonce <= nonce'[req'[o].server]
          /\ \A q, o \in Request :
                q # o /\ req'[q] # Idle /\ req'[o] # Idle /\ req'[q].server = req'[o].server =>
                   req'[q].nonce # req'[o].nonce
      BY <1>1, <3>1 DEF Known, Numbered
    <3>3. \A d \in log' : d.nonce <= nonce'[d.server]
      <4>1. c.nonce <= nonce[c.server]
        BY <1>0, <2>2 DEF Known, Numbered, r, w
      <4> QED
        BY <1>1, <2>2, <4>1 DEF Known, Numbered
    <3>4. ASSUME NEW q \in Request, NEW d \in log',
                 req'[q] # Idle, req'[q].server = d.server, d.by # "lost" \/ req'[q].at = "script"
          PROVE  req'[q].nonce # d.nonce
      <4>1. CASE d = c
        BY <1>0, <2>2, <3>1, <3>4, <4>1 DEF Known, Numbered, r, w
      <4>2. CASE d \in log
        BY <3>1, <3>4, <4>2 DEF Known, Numbered
      <4> QED
        BY <2>2, <3>4, <4>1, <4>2
    <3>5. \A d \in log : d.by = "memory" /\ d.server = w => d.nonce # c.nonce
      BY <1>0, <2>2 DEF Known, Numbered, r, w
    <3>6. \A a, d \in log' :
             a.by = "memory" /\ d.by = "memory" /\ a.server = d.server /\ a.nonce = d.nonce => a = d
      BY <2>2, <3>5 DEF Known, Numbered
    <3> QED
      BY <3>2, <3>3, <3>4, <3>6 DEF Numbered
  <2>7. MemoryKeeps'
    BY <1>0, <1>1, <1>4, <2>1, <2>2, LogTypes DEF Known, MemoryKeeps
  <2>8. RedisKeeps'
    BY <1>1, <2>2 DEF Known, RedisKeeps
  <2>9. LimitKept'
    <3> SUFFICES ASSUME NEW from \in 0..now
                 PROVE  Cardinality(Members({"redis"}, from, Window - Delay)') <= Limit
      BY <1>1 DEF LimitKept
    <3>1. Members({"redis"}, from, Window - Delay)' = Members({"redis"}, from, Window - Delay)
      BY <2>2 DEF Members
    <3> QED
      BY <3>1 DEF LimitKept
  <2>10. MemoryLimitKept'
    <3> SUFFICES ASSUME NEW v \in Server, NEW from \in 0..now
                 PROVE  Cardinality({d \in log' : d.by = "memory" /\ d.server = v /\ from <= d.ts
                                                  /\ d.ts <= from + Window - Delay}) <= Limit
      BY <1>1 DEF MemoryLimitKept
    <3> DEFINE In(d) == d.by = "memory" /\ d.server = v /\ from <= d.ts
                        /\ d.ts <= from + Window - Delay
               C == {d \in log' : In(d)}
    <3>1. CASE In(c)
      <4>1. ASSUME NEW d \in C
            PROVE  Of(d) \in points \cup {Of(r)}
        <5>1. CASE d = c
          BY <2>2, <5>1
        <5>2. CASE d \in log
          <6>1. d.ts \in Nat /\ from \in Nat
            BY <1>0, <5>2, LogTypes
          <6>2. d.ts + Window >= now
            BY <1>0, <2>2, <3>1, <4>1, <6>1, WindowAssumption
          <6> QED
            BY <1>4, <2>2, <3>1, <4>1, <5>2, <6>2
        <5> QED
          BY <2>2, <4>1, <5>1, <5>2
      <4>2. {Of(d) : d \in C} \subseteq points \cup {Of(r)}
        BY <4>1
      <4>3. \A a, d \in C : a.nonce = d.nonce => a = d
        BY <2>6 DEF Numbered
      <4>4. IsFiniteSet(C)
        <5>1. IsFiniteSet(log')
          BY <2>4 DEF Finite
        <5> HIDE DEF In
        <5> QED
          BY <5>1, FS_Subset
      <4> HIDE DEF C
      <4>5. Cardinality(C) = Cardinality({Of(d) : d \in C})
        BY <4>3, <4>4, OfImage
      <4>6. Cardinality(points) < Limit
        BY <1>2, <1>7, FS_CardinalityType, WindowAssumption
      <4>7. Cardinality({Of(d) : d \in C}) <= Limit
        BY <1>2, <4>2, <4>6, OneMore
      <4> QED
        BY <4>5, <4>7 DEF C
    <3>2. CASE ~In(c)
      <4>1. C = {d \in log : In(d)}
        BY <2>2, <3>2
      <4> QED
        BY <4>1 DEF MemoryLimitKept
    <3> QED
      BY <3>1, <3>2
  <2> QED
    BY <2>3, <2>4, <2>5, <2>6, <2>7, <2>8, <2>9, <2>10 DEF Known
<1> QED
  BY <1>5, <1>6, <1>7

\* The clock is read: the number is a new one of the server's.
LEMMA AllowStep ==
    ASSUME RateInv, NEW p \in Request, NEW w \in Server, Allow(p, w)
    PROVE  RateInv'
<1> DEFINE x == [at |-> "script", server |-> w, ts |-> now, nonce |-> nonce[w] + 1]
<1> USE DEF RateInv
<1>0. TypeOK /\ now \in Nat /\ nonce[w] \in Nat
  BY DEF Known, TypeOK
<1>1. /\ req[p] = Idle /\ Become(p, x)
      /\ nonce' = [nonce EXCEPT ![w] = nonce[w] + 1]
      /\ UNCHANGED <<now, entries, expires, mem, log>>
  BY DEF Allow
<1>2. x \in InProgress
  BY <1>0 DEF InProgress
<1>3. x.at = "script" /\ x.server = w /\ x.ts = now /\ x.nonce = nonce[w] + 1
  OBVIOUS
<1> HIDE DEF x
<1>4. /\ req' \in [Request -> InProgress \cup {Idle}]
      /\ req'[p] = x /\ \A o \in Request \ {p} : req'[o] = req[o]
  BY <1>0, <1>1, <1>2, BecomeTypes
<1>5. /\ nonce' \in [Server -> Nat] /\ nonce'[w] = nonce[w] + 1
      /\ \A v \in Server : nonce'[v] \in Nat /\ nonce[v] \in Nat /\ nonce[v] <= nonce'[v]
  BY <1>0, <1>1 DEF TypeOK
<1>6. TypeOK'
  BY <1>0, <1>1, <1>4, <1>5 DEF TypeOK
<1>7. Timely'
  BY <1>0, <1>1, <1>3, <1>4, WindowAssumption DEF Known, Timely
<1>8. Numbered'
  <2>1. ASSUME NEW o \in Request \ {p}, req'[o] # Idle
        PROVE  /\ req'[o] = req[o] /\ req[o].server \in Server /\ req[o].nonce \in Nat
               /\ req[o].nonce <= nonce[req[o].server]
    BY <1>0, <1>4, <2>1, RequestTypes DEF Known, Numbered
  <2>2. ASSUME NEW d \in log
        PROVE  d.server \in Server /\ d.nonce \in Nat /\ d.nonce <= nonce[d.server]
    BY <1>0, LogTypes DEF Known, Numbered
  <2>3. \A o \in Request : req'[o] # Idle => req'[o].nonce <= nonce'[req'[o].server]
    BY <1>3, <1>4, <1>5, <2>1
  <2>4. \A d \in log' : d.nonce <= nonce'[d.server]
    BY <1>1, <1>5, <2>2
  <2>5. \A o \in Request \ {p} : req'[o] # Idle /\ req'[o].server = w => req'[o].nonce # x.nonce
    BY <1>0, <1>3, <2>1
  <2>6. \A d \in log : d.server = w => d.nonce # x.nonce
    BY <1>0, <1>3, <2>2
  <2>7. \A q, o \in Request :
           q # o /\ req'[q] # Idle /\ req'[o] # Idle /\ req'[q].server = req'[o].server =>
              req'[q].nonce # req'[o].nonce
    BY <1>3, <1>4, <2>1, <2>5 DEF Known, Numbered
  <2>8. \A q \in Request, d \in log' :
           req'[q] # Idle /\ req'[q].server = d.server /\ (d.by # "lost" \/ req'[q].at = "script") =>
              req'[q].nonce # d.nonce
    BY <1>1, <1>3, <1>4, <2>1, <2>6 DEF Known, Numbered
  <2> QED
    BY <1>1, <2>3, <2>4, <2>7, <2>8 DEF Known, Numbered
<1>9. Finite' /\ RedisKeeps' /\ MemoryKeeps'
  BY <1>1 DEF Known, Finite, RedisKeeps, MemoryKeeps
<1> QED
  BY <1>1, <1>6, <1>7, <1>8, <1>9, NothingCounts DEF Known

\* The memory of a server is cleared of what is no longer looked at.
LEMMA GcStep ==
    ASSUME RateInv, NEW w \in Server, Gc(w)
    PROVE  RateInv'
<1> USE DEF RateInv
<1>0. TypeOK /\ now \in Nat /\ mem[w] \subseteq Member /\ IsFiniteSet(mem[w])
  BY DEF Known, TypeOK, Finite
<1>1. /\ mem' = [mem EXCEPT ![w] = Prune(mem[w], now)]
      /\ UNCHANGED <<now, entries, expires, nonce, req, log>>
  BY DEF Gc
<1>2. Prune(mem[w], now) \subseteq mem[w] /\ IsFiniteSet(Prune(mem[w], now))
  <2>1. Prune(mem[w], now) \subseteq mem[w]
    BY DEF Prune
  <2> QED
    BY <1>0, <2>1, FS_Subset
<1>3. /\ mem' \in [Server -> SUBSET Member] /\ mem'[w] = Prune(mem[w], now)
      /\ \A v \in Server \ {w} : mem'[v] = mem[v]
  BY <1>0, <1>1, <1>2 DEF TypeOK
<1>4. MemoryKeeps'
  <2> SUFFICES ASSUME NEW d \in log, d.by = "memory", d.ts + Window >= now
               PROVE  Of(d) \in mem'[d.server]
    BY <1>1 DEF MemoryKeeps
  <2>1. Of(d) \in mem[d.server] /\ Of(d).ts = d.ts /\ d.server \in Server
    BY <1>0, LogTypes DEF Known, MemoryKeeps, Of
  <2> QED
    BY <1>3, <2>1 DEF Prune
<1>5. TypeOK' /\ Finite'
  BY <1>0, <1>1, <1>2, <1>3 DEF Known, TypeOK, Finite
<1>6. (Timely /\ Numbered /\ RedisKeeps)'
  BY <1>1 DEF Known, Timely, Numbered, RedisKeeps
<1> QED
  BY <1>1, <1>4, <1>5, <1>6, NothingCounts DEF Known

\* Time goes by: what is forgotten is older than any window that is still looked at.
LEMMA TickStep ==
    ASSUME RateInv, Tick
    PROVE  RateInv'
<1> USE DEF RateInv
<1>0. /\ TypeOK /\ now \in Nat /\ expires \in Nat /\ now' = now + 1
      /\ UNCHANGED <<expires, mem, nonce, req>>
  BY DEF Known, TypeOK, Tick
<1>1. /\ log' \subseteq log
      /\ \A c \in log : c.ts + Window + Delay > now => c \in log'
      /\ entries' = IF expires <= now + 1 THEN {} ELSE entries
  BY DEF Tick
<1>2. IsFiniteSet(log)
  BY DEF Known, Finite
<1>3. TypeOK'
  <2>1. IsFiniteSet({}) /\ Cardinality({}) <= Limit
    BY FS_EmptySet, WindowAssumption
  <2> QED
    BY <1>0, <1>1, <2>1 DEF TypeOK
<1>4. Finite'
  BY <1>0, <1>1, <1>2, FS_Subset DEF Known, Finite
<1>5. Timely'
  <2>1. \A p \in Request : req[p] # Idle => req[p].ts \in Nat /\ req[p].ts <= now /\ now < req[p].ts + Delay
    BY <1>0, RequestTypes DEF Tick, Known, Timely
  <2>2. \A c \in log : c.ts \in Nat /\ c.ts <= now
    BY <1>0, LogTypes DEF Known, Timely
  <2> QED
    BY <1>0, <1>1, <2>1, <2>2, WindowAssumption DEF Timely
<1>6. Numbered'
  BY <1>0, <1>1 DEF Known, Numbered
<1>7. RedisKeeps'
  <2>1. \A c \in log : c.ts \in Nat /\ c.by # "memory" =>
           c.ts + Window <= expires /\ (c.ts + Window > now => Of(c) \in entries)
    BY DEF Known, RedisKeeps
  <2>2. \A c \in log : c.ts \in Nat
    BY <1>0, LogTypes
  <2>3. ASSUME NEW c \in log', c.by # "memory"
        PROVE  c.ts + Window <= expires' /\ (c.ts + Window > now' => Of(c) \in entries')
    BY <1>0, <1>1, <2>1, <2>2, <2>3, WindowAssumption
  <2>4. ASSUME NEW m \in entries', m.ts + Window + Delay > now'
        PROVE  \E c \in log' : c.by # "memory" /\ Of(c) = m
    <3>1. m \in entries /\ m.ts \in Nat
      BY <1>0, <1>1 DEF TypeOK, Member
    <3>2. m.ts + Window + Delay > now
      BY <1>0, <2>4, <3>1, WindowAssumption
    <3>3. PICK c \in log : c.by # "memory" /\ Of(c) = m
      BY <3>1, <3>2 DEF Known, RedisKeeps
    <3>4. c.ts = m.ts
      BY <3>3 DEF Of
    <3> QED
      BY <1>1, <3>2, <3>3, <3>4
  <2>5. expires' <= now' + Expiry
    BY <1>0, WindowAssumption DEF Known, RedisKeeps
  <2> QED
    BY <2>3, <2>4, <2>5 DEF RedisKeeps
<1>8. MemoryKeeps'
  <2>1. \A c \in log : c.ts \in Nat
    BY <1>0, LogTypes
  <2> QED
    BY <1>0, <1>1, <2>1, WindowAssumption DEF Known, MemoryKeeps
<1>9. LimitKept'
  <2> SUFFICES ASSUME NEW from \in 0..now'
               PROVE  Cardinality(Members({"redis"}, from, Window - Delay)') <= Limit
    BY DEF LimitKept
  <2> DEFINE In(d) == d.by \in {"redis"} /\ from <= d.ts /\ d.ts < from + (Window - Delay)
             M == {Of(d) : d \in {e \in log : In(e)}}
  <2>1. Members({"redis"}, from, Window - Delay)' \subseteq M
    BY <1>1 DEF Members
  <2>2. CASE from \in 0..now
    <3>1. Cardinality(M) <= Limit
      BY <2>2 DEF LimitKept, Members
    <3>2. IsFiniteSet({e \in log : In(e)})
      <4> HIDE DEF In
      <4> QED
        BY <1>2, FS_Subset
    <3>3. IsFiniteSet(M)
      <4> HIDE DEF In
      <4> QED
        BY <3>2, OfImage
    <3> HIDE DEF M
    <3> QED
      BY <2>1, <3>1, <3>3, FewerKept
  <2>3. CASE from = now + 1
    <3>1. \A d \in log : ~In(d)
      BY <1>0, <2>3, LogTypes DEF Known, Timely
    <3>2. M = {}
      BY <3>1
    <3>3. IsFiniteSet({}) /\ Cardinality({}) <= Limit
      BY FS_EmptySet, WindowAssumption
    <3> HIDE DEF M
    <3> QED
      BY <2>1, <3>2, <3>3, FewerKept
  <2> QED
    BY <1>0, <2>2, <2>3
<1>10. MemoryLimitKept'
  <2> SUFFICES ASSUME NEW w \in Server, NEW from \in 0..now'
               PROVE  Cardinality({d \in log' : d.by = "memory" /\ d.server = w /\ from <= d.ts
                                                /\ d.ts <= from + Window - Delay}) <= Limit
    BY DEF MemoryLimitKept
  <2> DEFINE In(d) == d.by = "memory" /\ d.server = w /\ from <= d.ts
                      /\ d.ts <= from + Window - Delay
             C == {d \in log : In(d)}
  <2>1. {d \in log' : In(d)} \subseteq C
    BY <1>1
  <2>2. IsFiniteSet(C)
    <3> HIDE DEF In
    <3> QED
      BY <1>2, FS_Subset
  <2>3. Cardinality(C) <= Limit
    <3>1. CASE from \in 0..now
      BY <3>1 DEF MemoryLimitKept
    <3>2. CASE from = now + 1
      <4>1. \A d \in log : ~In(d)
        BY <1>0, <3>2, LogTypes DEF Known, Timely
      <4>2. C = {}
        BY <4>1
      <4> QED
        BY <4>2, FS_EmptySet, WindowAssumption
    <3> QED
      BY <1>0, <3>1, <3>2
  <2>4. Cardinality({d \in log' : In(d)}) <= Limit
    <3> HIDE DEF C
    <3> QED
      BY <2>1, <2>2, <2>3, FewerKept
  <2> QED
    BY <2>4
<1> QED
  BY <1>3, <1>4, <1>5, <1>6, <1>7, <1>8, <1>9, <1>10 DEF Known

-----------------------------------------------------------------------------
LEMMA InitInv == Init => RateInv
<1> SUFFICES ASSUME Init PROVE RateInv
  OBVIOUS
<1>1. IsFiniteSet({}) /\ Cardinality({}) = 0
  BY FS_EmptySet
<1>2. TypeOK /\ Finite
  BY <1>1, WindowAssumption DEF Init, TypeOK, Finite
<1>3. Timely /\ Numbered /\ RedisKeeps /\ MemoryKeeps
  BY WindowAssumption DEF Init, Timely, Numbered, RedisKeeps, MemoryKeeps
<1>4. LimitKept
  <2> SUFFICES ASSUME NEW from \in 0..now
               PROVE  Cardinality(Members({"redis"}, from, Window - Delay)) <= Limit
    BY DEF LimitKept
  <2>1. Members({"redis"}, from, Window - Delay) = {}
    BY DEF Init, Members
  <2> QED
    BY <1>1, <2>1, WindowAssumption
<1>5. MemoryLimitKept
  <2> SUFFICES ASSUME NEW w \in Server, NEW from \in 0..now
               PROVE  Cardinality({c \in log : c.by = "memory" /\ c.server = w /\ from <= c.ts
                                               /\ c.ts <= from + Window - Delay}) <= Limit
    BY DEF MemoryLimitKept
  <2> DEFINE C == {c \in log : c.by = "memory" /\ c.server = w /\ from <= c.ts
                               /\ c.ts <= from + Window - Delay}
  <2>1. C = {}
    BY DEF Init
  <2>2. Cardinality(C) <= Limit
    <3> HIDE DEF C
    <3> QED
      BY <1>1, <2>1, WindowAssumption
  <2> QED
    BY <2>2
<1> QED
  BY <1>2, <1>3, <1>4, <1>5 DEF RateInv, Known

LEMMA ScriptStep ==
    ASSUME RateInv, NEW p \in Request, Script(p) \/ ScriptFails(p)
    PROVE  RateInv'
<1> DEFINE r == req[p]
           y == [r EXCEPT !.at = "memory", !.ts = now]
<1>0. /\ TypeOK /\ now \in Nat /\ At(p, "script")
      /\ r # Idle /\ r \in InProgress
  BY RequestTypes DEF RateInv, Known, TypeOK, At, Script, ScriptFails
<1>1. y \in InProgress
  BY <1>0 DEF InProgress
<1>2. y.at = "memory" /\ y.server = r.server /\ y.nonce = r.nonce /\ y.ts = now
  BY <1>0 DEF InProgress
<1> HIDE DEF y
<1>3. Goes(r, Idle) /\ Goes(r, y)
  BY <1>1, <1>2 DEF Goes
<1>4. ASSUME NEW x \in {Idle, y}, Become(p, x)
      PROVE  req'[p] = x /\ req' = [req EXCEPT ![p] = req'[p]]
  BY <1>0, <1>4 DEF Become, TypeOK
<1>5. CASE Script(p)
  <2>1. Become(p, Idle) /\ UNCHANGED <<now, mem, nonce>>
    BY <1>5 DEF Script, Finish
  <2>2. CASE Add(r) /\ Note(r, "redis")
    BY <1>0, <1>3, <1>4, <2>1, <2>2, AddStep
  <2>3. CASE Refuse(r) /\ UNCHANGED log
    BY <1>0, <1>3, <1>4, <2>1, <2>3, RefuseStep
  <2> QED
    BY <1>5, <2>2, <2>3 DEF Script
<1>6. CASE ScriptFails(p)
  <2>1. Become(p, y) /\ UNCHANGED <<now, mem, nonce>>
    BY <1>6 DEF ScriptFails, y
  <2>2. CASE Add(r) /\ Note(r, "lost")
    BY <1>0, <1>3, <1>4, <2>1, <2>2, AddStep
  <2>3. CASE (Refuse(r) \/ UNCHANGED <<entries, expires>>) /\ UNCHANGED log
    BY <1>0, <1>3, <1>4, <2>1, <2>3, RefuseStep
  <2> QED
    BY <1>6, <2>2, <2>3 DEF ScriptFails
<1> QED
  BY <1>5, <1>6

LEMMA InvStep == RateInv /\ [Next]_vars => RateInv'
<1> SUFFICES ASSUME RateInv, [Next]_vars PROVE RateInv'
  OBVIOUS
<1>1. CASE UNCHANGED vars
  <2>1. UNCHANGED <<now, entries, expires, mem, nonce, req, log>>
    BY <1>1 DEF vars
  <2>2. Known'
    BY <2>1 DEF RateInv, Known, TypeOK, Finite, Timely, Numbered, RedisKeeps, MemoryKeeps
  <2> QED
    BY <2>1, <2>2, NothingCounts DEF RateInv
<1> QED
  BY <1>1, AllowStep, ScriptStep, MemoryStep, GcStep, TickStep DEF Next

LEMMA Invariant == Spec => []RateInv
  BY InitInv, InvStep, PTL DEF Spec

\* Every variable stays in its type; Redis never has more than Limit of a client.
THEOREM TypeCorrect == Spec => []TypeOK
<1>1. RateInv => TypeOK
  BY DEF RateInv, Known
<1> QED
  BY <1>1, Invariant, PTL

\* Redis lets no more than Limit requests of a client through in a window, less the
\* time a request may be on its way, on all servers, in whatever order they come to it,
\* with answers lost and servers deciding by themselves in between.
THEOREM RedisLimit == Spec => []LimitKept
<1>1. RateInv => LimitKept
  BY DEF RateInv
<1> QED
  BY <1>1, Invariant, PTL

\* Neither does a server by itself when Redis does not answer, though its memory is
\* cleared at any time.
THEOREM MemoryLimit == Spec => []MemoryLimitKept
<1>1. RateInv => MemoryLimitKept
  BY DEF RateInv
<1> QED
  BY <1>1, Invariant, PTL

\* Redis refuses a request only when Limit others counted in the window before it: the
\* refused do not count, so a client that keeps trying is let in again.
THEOREM RefusedOnlyAtLimit == Spec => RefusedAtLimit
<1> DEFINE Before(p) == {c \in log : c.by \in {"redis", "lost"} /\ c.ts + Window > req[p].ts}
<1>1. ASSUME RateInv, [Next]_vars, NEW p \in Request,
             At(p, "script"), req'[p] = Idle, log' = log
      PROVE  Cardinality(Before(p)) >= Limit
  <2> DEFINE r == req[p]
             recent == Recent(entries, r.ts)
  <2>0. /\ TypeOK /\ now \in Nat /\ r # Idle /\ r.at = "script"
        /\ r \in InProgress /\ r.ts \in Nat /\ now <= r.ts + Delay
    BY <1>1, RequestTypes DEF RateInv, Known, TypeOK, Timely, At
  <2>1. Script(p)
    <3>1. ASSUME NEW o \in Request, o # p, NEW x, Become(o, x)
          PROVE  FALSE
      BY <1>1, <2>0, <3>1 DEF Become, TypeOK
    <3>2. ~AllowByMemory(p) /\ \A w \in Server : ~Allow(p, w)
      BY <2>0 DEF AllowByMemory, At, Allow
    <3>3. ~ScriptFails(p)
      <4>1. ASSUME ScriptFails(p) PROVE FALSE
        <5> DEFINE y == [r EXCEPT !.at = "memory", !.ts = now]
        <5>1. y \in InProgress
          BY <2>0 DEF InProgress
        <5> HIDE DEF y
        <5>2. req'[p] = y
          BY <2>0, <4>1 DEF ScriptFails, Become, TypeOK, y
        <5> QED
          BY <1>1, <5>1, <5>2, IdleAssumption
      <4> QED
        BY <4>1
    <3>4. \A o \in Request \ {p} : /\ ~AllowByMemory(o) /\ ~Script(o) /\ ~ScriptFails(o)
                                   /\ \A w \in Server : ~Allow(o, w)
      BY <3>1 DEF AllowByMemory, Script, ScriptFails, Allow, Finish
    <3>5. (\A w \in Server : ~Gc(w)) /\ ~Tick /\ ~UNCHANGED vars
      BY <1>1, <2>0 DEF Gc, Tick, vars
    <3> QED
      BY <1>1, <3>2, <3>3, <3>4, <3>5 DEF Next
  <2>2. ~(Add(r) /\ Note(r, "redis"))
    <3> SUFFICES ASSUME Note(r, "redis") PROVE FALSE
      OBVIOUS
    <3>1. PICK c \in Counted : /\ c.by = "redis" /\ c.server = r.server /\ c.nonce = r.nonce
                               /\ log' = log \cup {c}
      BY <2>0, NoteTypes
    <3>2. c \in log
      BY <1>1, <3>1
    <3> QED
      BY <1>1, <2>0, <3>1, <3>2 DEF RateInv, Known, Numbered
  <2>3. Cardinality(recent) >= Limit
    BY <2>1, <2>2 DEF Script, Refuse
  <2>4. ASSUME NEW m \in recent
        PROVE  \E c \in Before(p) : Of(c) = m
    <3>1. m \in entries /\ m.ts + Window > r.ts /\ m.ts \in Nat
      BY <2>0 DEF Recent, TypeOK, Member
    <3>2. m.ts + Window + Delay > now
      BY <2>0, <3>1, WindowAssumption
    <3>3. PICK c \in log : c.by # "memory" /\ Of(c) = m
      BY <1>1, <3>1, <3>2 DEF RateInv, Known, RedisKeeps
    <3>4. c.by \in {"redis", "lost"} /\ c.ts = m.ts
      BY <2>0, <3>3, LogTypes DEF Of
    <3> QED
      BY <3>1, <3>3, <3>4
  <2>5. IsFiniteSet(Before(p))
    BY <1>1, FS_Subset DEF RateInv, Known, Finite
  <2> DEFINE M == {Of(c) : c \in Before(p)}
  <2>6. recent \subseteq M
    BY <2>4
  <2> HIDE DEF Before, recent
  <2>7. IsFiniteSet(M) /\ Cardinality(M) <= Cardinality(Before(p))
    BY <2>5, OfImage
  <2> HIDE DEF M
  <2>8. IsFiniteSet(recent) /\ Cardinality(recent) <= Cardinality(M)
    BY <2>6, <2>7, FS_Subset
  <2> QED
    BY <2>3, <2>5, <2>7, <2>8, FS_CardinalityType, WindowAssumption
<1>2. RateInv /\ [Next]_vars =>
         (\A p \in Request :
             At(p, "script") /\ req'[p] = Idle /\ log' = log =>
                Cardinality({c \in log : /\ c.by \in {"redis", "lost"}
                                         /\ c.ts + Window > req[p].ts}) >= Limit)
  BY <1>1
<1> QED
  BY <1>2, Invariant, PTL DEF Spec, RefusedAtLimit
=============================================================================
