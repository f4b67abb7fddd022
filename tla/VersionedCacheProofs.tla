------------------------ MODULE VersionedCacheProofs ------------------------
(***************************************************************************)
(* The protocol of VersionedCache serves fresh views, for every table of   *)
(* views and handlers in which each write is covered by a version read     *)
(* early enough, and for any number of readers and writers.                *)
(***************************************************************************)
EXTENDS VersionedCache, TLAPS

USE DEF Count, Versions

-----------------------------------------------------------------------------
\* A reading request's record has the right type, and so does what replaces it.
LEMMA ReaderType ==
    ASSUME TypeOK, NEW p \in Reader, NEW r \in Reading, Turn(p, r)
    PROVE  /\ reader' \in [Reader -> Reading \cup {Nobody}]
           /\ UNCHANGED <<fact, done, ver, writer>>
  BY DEF TypeOK, Turn

\* The same for a writing request.
LEMMA WriterType ==
    ASSUME TypeOK, NEW p \in Writer, NEW w \in Writing, Step(p, w)
    PROVE  /\ writer' \in [Writer -> Writing \cup {Nobody}]
           /\ UNCHANGED <<entries, reader>>
  BY DEF TypeOK, Step

\* Every step of a reader keeps the types.
LEMMA ReaderTypeStep ==
    ASSUME TypeOK, NEW p \in Reader, ReaderStep(p)
    PROVE  TypeOK'
<1>1. None \in Count /\ NoVersion \in Versions
  BY DEF None, NoVersion
<1>2. CASE Ask(p)
  <2>1. PICK v \in View :
           Turn(p, [at |-> "read", view |-> v, floor |-> done, got |-> {},
                    vers |-> NoVersion, have |-> {}, seen |-> None])
    BY <1>2 DEF Ask
  <2>2. [at |-> "read", view |-> v, floor |-> done, got |-> {},
         vers |-> NoVersion, have |-> {}, seen |-> None] \in Reading
    BY <1>1 DEF Reading, TypeOK
  <2> QED
    BY <1>2, <2>1, <2>2, ReaderType DEF Ask, TypeOK
<1>3. CASE ReadVersion(p)
  <2>1. reader[p] \in Reading
    BY <1>3 DEF ReadVersion, Reads, TypeOK
  <2>2. PICK k \in KeysOf[reader[p].view] :
           Turn(p, [reader[p] EXCEPT !.got = reader[p].got \cup {k},
                                     !.vers = [reader[p].vers EXCEPT ![k] = ver[k]]])
    BY <1>3 DEF ReadVersion
  <2>3. k \in Key
    BY <2>1, <2>2, TableAssumption DEF Reading
  <2>4. [reader[p] EXCEPT !.got = reader[p].got \cup {k},
                          !.vers = [reader[p].vers EXCEPT ![k] = ver[k]]] \in Reading
    BY <2>1, <2>3 DEF Reading, TypeOK
  <2> QED
    BY <1>3, <2>2, <2>4, ReaderType DEF ReadVersion, TypeOK
<1>4. CASE ReadFact(p)
  <2>1. reader[p] \in Reading
    BY <1>4 DEF ReadFact, Reads, TypeOK
  <2>2. PICK f \in FactsOf[reader[p].view] :
           Turn(p, [reader[p] EXCEPT !.have = reader[p].have \cup {f},
                                     !.seen = [reader[p].seen EXCEPT ![f] = fact[f]]])
    BY <1>4 DEF ReadFact
  <2>3. f \in Fact
    BY <2>1, <2>2, TableAssumption DEF Reading
  <2>4. [reader[p] EXCEPT !.have = reader[p].have \cup {f},
                          !.seen = [reader[p].seen EXCEPT ![f] = fact[f]]] \in Reading
    BY <2>1, <2>3 DEF Reading, TypeOK
  <2> QED
    BY <1>4, <2>2, <2>4, ReaderType DEF ReadFact, TypeOK
<1>5. CASE LoadHit(p)
  <2>1. reader[p] \in Reading
    BY <1>5 DEF LoadHit, Ready, Reads, TypeOK
  <2>2. PICK e \in entries : Turn(p, [reader[p] EXCEPT !.at = "served", !.seen = e.seen])
    BY <1>5 DEF LoadHit
  <2>3. e.seen \in Count
    BY <2>2 DEF TypeOK
  <2>4. [reader[p] EXCEPT !.at = "served", !.seen = e.seen] \in Reading
    BY <2>1, <2>3 DEF Reading
  <2> QED
    BY <1>5, <2>2, <2>4, ReaderType DEF LoadHit, TypeOK
<1>6. CASE LoadMiss(p)
  <2>1. reader[p] \in Reading
    BY <1>6 DEF LoadMiss, Ready, Reads, TypeOK
  <2>2. [reader[p] EXCEPT !.at = "fill"] \in Reading
    BY <2>1 DEF Reading
  <2> QED
    BY <1>6, <2>2, ReaderType DEF LoadMiss, TypeOK
<1>7. CASE Store(p)
  <2>1. reader[p] \in Reading
    BY <1>7 DEF Store, Reads, TypeOK
  <2>2. [reader[p] EXCEPT !.at = "served"] \in Reading
    BY <2>1 DEF Reading
  <2>3. [view |-> reader[p].view, vers |-> reader[p].vers, seen |-> reader[p].seen]
          \in [view: View, vers: Versions, seen: Count]
    BY <2>1 DEF Reading
  <2>4. entries' \subseteq [view: View, vers: Versions, seen: Count]
    BY <1>7, <2>3 DEF Store, TypeOK
  <2> QED
    BY <1>7, <2>2, <2>4, ReaderType DEF Store, TypeOK
<1>8. CASE Leave(p)
  BY <1>8 DEF Leave, Turn, TypeOK
<1> QED
  BY <1>2, <1>3, <1>4, <1>5, <1>6, <1>7, <1>8 DEF ReaderStep

\* Every step of a writer keeps the types.
LEMMA WriterTypeStep ==
    ASSUME TypeOK, NEW p \in Writer, WriterStep(p)
    PROVE  TypeOK'
<1>1. CASE Begin(p)
  <2>1. PICK o \in Op : Step(p, [op |-> o, early |-> Early[o], todo |-> Writes[o],
                                 mine |-> None, late |-> Late[o]])
    BY <1>1 DEF Begin
  <2>2. [op |-> o, early |-> Early[o], todo |-> Writes[o], mine |-> None, late |-> Late[o]]
          \in Writing
    BY TableAssumption DEF Writing, None
  <2> QED
    BY <1>1, <2>1, <2>2, WriterType DEF Begin, TypeOK
<1>2. CASE BumpEarly(p)
  <2>1. writer[p] \in Writing
    BY <1>2 DEF BumpEarly, TypeOK
  <2>2. PICK k \in writer[p].early :
           /\ ver' = [ver EXCEPT ![k] = ver[k] + 1]
           /\ Step(p, [writer[p] EXCEPT !.early = writer[p].early \ {k}])
    BY <1>2 DEF BumpEarly
  <2>3. [writer[p] EXCEPT !.early = writer[p].early \ {k}] \in Writing
    BY <2>1 DEF Writing
  <2>4. ver' \in Versions
    BY <2>1, <2>2 DEF Writing, TypeOK
  <2> QED
    BY <1>2, <2>2, <2>3, <2>4, WriterType DEF BumpEarly, TypeOK
<1>3. CASE Commit(p)
  <2>1. writer[p] \in Writing
    BY <1>3 DEF Commit, TypeOK
  <2>2. PICK f \in writer[p].todo :
           /\ fact' = [fact EXCEPT ![f] = fact[f] + 1]
           /\ Step(p, [writer[p] EXCEPT !.todo = writer[p].todo \ {f},
                                        !.mine = [writer[p].mine EXCEPT ![f] = fact[f] + 1]])
    BY <1>3 DEF Commit
  <2>3. f \in Fact /\ fact[f] + 1 \in Nat
    BY <2>1, <2>2 DEF Writing, TypeOK
  <2>4. [writer[p] EXCEPT !.todo = writer[p].todo \ {f},
                          !.mine = [writer[p].mine EXCEPT ![f] = fact[f] + 1]] \in Writing
    BY <2>1, <2>3 DEF Writing
  <2>5. fact' \in Count
    BY <2>2, <2>3 DEF TypeOK
  <2> QED
    BY <1>3, <2>2, <2>4, <2>5, WriterType DEF Commit, TypeOK
<1>4. CASE BumpLate(p)
  <2>1. writer[p] \in Writing
    BY <1>4 DEF BumpLate, TypeOK
  <2>2. PICK k \in writer[p].late :
           /\ ver' = [ver EXCEPT ![k] = ver[k] + 1]
           /\ Step(p, [writer[p] EXCEPT !.late = writer[p].late \ {k}])
    BY <1>4 DEF BumpLate
  <2>3. [writer[p] EXCEPT !.late = writer[p].late \ {k}] \in Writing
    BY <2>1 DEF Writing
  <2>4. ver' \in Versions
    BY <2>1, <2>2 DEF Writing, TypeOK
  <2> QED
    BY <1>4, <2>2, <2>3, <2>4, WriterType DEF BumpLate, TypeOK
<1>5. CASE Complete(p)
  <2>1. writer[p] \in Writing
    BY <1>5 DEF Complete, TypeOK
  <2>2. done' \in Count
    BY <1>5, <2>1 DEF Complete, Writing, TypeOK
  <2> QED
    BY <1>5, <2>2 DEF Complete, Step, TypeOK
<1>6. CASE Abort(p)
  BY <1>6 DEF Abort, Step, TypeOK
<1> QED
  BY <1>1, <1>2, <1>3, <1>4, <1>5, <1>6 DEF WriterStep

\* Every step keeps the types.
LEMMA TypeStep == TypeOK /\ [Next]_vars => TypeOK'
<1> SUFFICES ASSUME TypeOK, [Next]_vars PROVE TypeOK'
  OBVIOUS
<1>1. CASE EntryExpires
  BY <1>1 DEF EntryExpires, TypeOK
<1>2. CASE UNCHANGED vars
  BY <1>2 DEF vars, TypeOK
<1> QED
  BY <1>1, <1>2, ReaderTypeStep, WriterTypeStep DEF Next

\* Every variable has its type in every reachable state, for every table.
THEOREM TypeCorrect == Spec => []TypeOK
<1>1. Init => TypeOK
  BY DEF Init, TypeOK, None, NoVersion
<1> QED
  BY <1>1, TypeStep, PTL DEF Spec

-----------------------------------------------------------------------------
(***************************************************************************)
(* What holds of the records: a view has read only what its versions were  *)
(* read for, and nobody has seen a version or a write that does not exist. *)
(***************************************************************************)
InFlight(r) ==
    /\ r.have \subseteq FactsOf[r.view] /\ r.got \subseteq KeysOf[r.view]
    /\ r.at # "read" => r.got = KeysOf[r.view]
    /\ \A f \in r.have : r.at # "served" => Before[r.view][f] \subseteq r.got
    /\ \A k \in Key : r.vers[k] <= ver[k]
    /\ \A f \in Fact : r.seen[f] <= fact[f] /\ r.floor[f] <= done[f]
    /\ \A f \in r.have : r.at # "served" => r.floor[f] <= r.seen[f]

Underway(w) ==
    /\ w.todo = {} \/ w.late = Late[w.op]
    /\ w.todo \subseteq Writes[w.op] /\ w.late \subseteq Late[w.op]
    /\ \A f \in Fact : w.mine[f] <= fact[f] /\ (w.mine[f] # 0 => f \in Writes[w.op])

Shape ==
    /\ \A p \in Reader : reader[p] # Nobody => InFlight(reader[p])
    /\ \A p \in Writer : writer[p] # Nobody => Underway(writer[p])
    /\ \A e \in entries : /\ \A k \in Key : e.vers[k] <= ver[k]
                          /\ \A f \in Fact : e.seen[f] <= fact[f]
    /\ \A f \in Fact : done[f] <= fact[f]

Base == TypeOK /\ Shape

\* No counter ever goes back.
LEMMA Monotone ==
    ASSUME TypeOK, TypeOK', [Next]_vars
    PROVE  /\ \A k \in Key : ver[k] <= ver'[k]
           /\ \A f \in Fact : fact[f] <= fact'[f] /\ done[f] <= done'[f]
<1>1. ASSUME NEW p \in Reader, ReaderStep(p) PROVE UNCHANGED <<ver, fact, done>>
  BY <1>1 DEF ReaderStep, Ask, ReadVersion, ReadFact, LoadHit, LoadMiss, Store, Leave, Turn
<1>2. ASSUME NEW p \in Writer, WriterStep(p)
      PROVE  /\ \A k \in Key : ver[k] <= ver'[k]
             /\ \A f \in Fact : fact[f] <= fact'[f] /\ done[f] <= done'[f]
  <2>1. CASE BumpEarly(p)
    BY <2>1 DEF BumpEarly, TypeOK
  <2>2. CASE Commit(p)
    BY <2>2 DEF Commit, TypeOK
  <2>3. CASE BumpLate(p)
    BY <2>3 DEF BumpLate, TypeOK
  <2>4. CASE Complete(p)
    <3>1. writer[p] \in Writing /\ writer[p].mine \in Count
      BY <2>4 DEF Complete, TypeOK, Writing
    <3>2. \A f \in Fact : done[f] <= done'[f]
      BY <2>4, <3>1 DEF Complete, TypeOK
    <3> QED
      BY <2>4, <3>2 DEF Complete, TypeOK
  <2>5. CASE Begin(p) \/ Abort(p)
    BY <2>5 DEF Begin, Abort, TypeOK
  <2> QED
    BY <1>2, <2>1, <2>2, <2>3, <2>4, <2>5 DEF WriterStep
<1>3. CASE EntryExpires \/ UNCHANGED vars
  BY <1>3 DEF EntryExpires, vars, TypeOK
<1> QED
  BY <1>1, <1>2, <1>3 DEF Next, TypeOK

\* A request that stays as it is keeps its shape as the counters grow.
LEMMA KeepsShape ==
    ASSUME TypeOK, TypeOK',
           \A k \in Key : ver[k] <= ver'[k],
           \A f \in Fact : fact[f] <= fact'[f] /\ done[f] <= done'[f]
    PROVE  /\ \A r \in Reading : InFlight(r) => InFlight(r)'
           /\ \A w \in Writing : Underway(w) => Underway(w)'
           /\ \A e \in [view: View, vers: Versions, seen: Count] :
                 (/\ \A k \in Key : e.vers[k] <= ver[k]
                  /\ \A f \in Fact : e.seen[f] <= fact[f])
                 => /\ \A k \in Key : e.vers[k] <= ver'[k]
                    /\ \A f \in Fact : e.seen[f] <= fact'[f]
<1>1. ASSUME NEW r \in Reading, InFlight(r) PROVE InFlight(r)'
  <2>1. /\ r.vers \in Versions /\ r.seen \in Count /\ r.floor \in Count
        /\ r.have \subseteq Fact
    BY DEF Reading
  <2>2. \A k \in Key : r.vers[k] <= ver'[k]
    BY <1>1, <2>1 DEF InFlight, TypeOK
  <2>3. \A f \in Fact : r.seen[f] <= fact'[f] /\ r.floor[f] <= done'[f]
    BY <1>1, <2>1 DEF InFlight, TypeOK
  <2> QED
    BY <1>1, <2>2, <2>3 DEF InFlight
<1>2. ASSUME NEW w \in Writing, Underway(w) PROVE Underway(w)'
  <2>1. w.mine \in Count
    BY DEF Writing
  <2> QED
    BY <1>2, <2>1 DEF Underway, TypeOK
<1>3. ASSUME NEW e \in [view: View, vers: Versions, seen: Count],
             \A k \in Key : e.vers[k] <= ver[k], \A f \in Fact : e.seen[f] <= fact[f]
      PROVE  /\ \A k \in Key : e.vers[k] <= ver'[k]
             /\ \A f \in Fact : e.seen[f] <= fact'[f]
  <2>1. e.vers \in Versions /\ e.seen \in Count
    OBVIOUS
  <2> QED
    BY <1>3, <2>1 DEF TypeOK
<1> QED
  BY <1>1, <1>2, <1>3

\* The record a reader's step leaves behind has the shape.
LEMMA ReaderShape ==
    ASSUME Base, TypeOK', NEW p \in Reader, ReaderStep(p), reader'[p] # Nobody
    PROVE  InFlight(reader[p])'
<1>1. UNCHANGED <<fact, done, ver, writer>>
  BY DEF ReaderStep, Ask, ReadVersion, ReadFact, LoadHit, LoadMiss, Store, Leave, Turn
<1>2. SUFFICES InFlight(reader'[p])
  BY <1>1 DEF InFlight
<1>3. CASE Ask(p)
  <2>1. PICK v \in View :
           reader'[p] = [at |-> "read", view |-> v, floor |-> done, got |-> {},
                         vers |-> NoVersion, have |-> {}, seen |-> None]
    BY <1>3 DEF Ask, Turn, Base, TypeOK
  <2> QED
    BY <2>1 DEF InFlight, NoVersion, None, Base, TypeOK
<1>4. CASE ReadVersion(p)
  <2>1. reader[p] \in Reading /\ InFlight(reader[p]) /\ reader[p].at = "read"
    BY <1>4 DEF ReadVersion, Reads, Base, TypeOK, Shape
  <2>2. PICK k \in KeysOf[reader[p].view] :
           reader'[p] = [reader[p] EXCEPT !.got = reader[p].got \cup {k},
                                          !.vers = [reader[p].vers EXCEPT ![k] = ver[k]]]
    BY <1>4 DEF ReadVersion, Turn, Base, TypeOK
  <2>3. k \in Key /\ reader[p].vers \in Versions
    BY <2>1, <2>2, TableAssumption DEF Reading
  <2>4. /\ reader'[p].view = reader[p].view /\ reader'[p].at = "read"
        /\ reader'[p].have = reader[p].have /\ reader'[p].seen = reader[p].seen
        /\ reader'[p].floor = reader[p].floor
        /\ reader'[p].got = reader[p].got \cup {k}
        /\ reader'[p].vers = [reader[p].vers EXCEPT ![k] = ver[k]]
    BY <2>1, <2>2 DEF Reading
  <2>5. \A j \in Key : reader'[p].vers[j] <= ver[j]
    BY <2>1, <2>3, <2>4 DEF InFlight, Base, TypeOK
  <2> QED
    BY <2>1, <2>2, <2>4, <2>5 DEF InFlight
<1>5. CASE ReadFact(p)
  <2>1. reader[p] \in Reading /\ InFlight(reader[p])
    BY <1>5 DEF ReadFact, Reads, Base, TypeOK, Shape
  <2>2. PICK f \in FactsOf[reader[p].view] :
           /\ IF f \in EarlyFacts(reader[p].view)
              THEN reader[p].at = "read" /\ Before[reader[p].view][f] \subseteq reader[p].got
              ELSE reader[p].at = "fill"
           /\ reader'[p] = [reader[p] EXCEPT !.have = reader[p].have \cup {f},
                                             !.seen = [reader[p].seen EXCEPT ![f] = fact[f]]]
    BY <1>5 DEF ReadFact, Turn, Base, TypeOK
  <2>3. /\ f \in Fact /\ reader[p].seen \in Count /\ reader[p].floor \in Count
        /\ reader[p].view \in View /\ reader[p].have \subseteq Fact
    BY <2>1, <2>2, TableAssumption DEF Reading
  <2>4. /\ reader'[p].view = reader[p].view /\ reader'[p].at = reader[p].at
        /\ reader'[p].got = reader[p].got /\ reader'[p].vers = reader[p].vers
        /\ reader'[p].floor = reader[p].floor
        /\ reader'[p].have = reader[p].have \cup {f}
        /\ reader'[p].seen = [reader[p].seen EXCEPT ![f] = fact[f]]
    BY <2>1, <2>2 DEF Reading
  <2>5. Before[reader[p].view][f] \subseteq reader[p].got
    BY <2>1, <2>2, <2>3 DEF InFlight, EarlyFacts
  <2>6. \A g \in Fact : reader'[p].seen[g] = IF g = f THEN fact[f] ELSE reader[p].seen[g]
    BY <2>3, <2>4
  <2>7. reader[p].floor[f] <= fact[f]
    BY <2>1, <2>3 DEF InFlight, Base, Shape, TypeOK
  <2>8. \A g \in Fact : reader'[p].seen[g] <= fact[g] /\ reader'[p].floor[g] <= done[g]
    BY <2>1, <2>3, <2>4, <2>6 DEF InFlight, Base, TypeOK
  <2>9. \A g \in reader'[p].have : reader'[p].at # "served" => reader'[p].floor[g] <= reader'[p].seen[g]
    BY <2>1, <2>3, <2>4, <2>6, <2>7 DEF InFlight
  <2> QED
    BY <2>1, <2>2, <2>4, <2>5, <2>8, <2>9 DEF InFlight
<1>6. CASE LoadHit(p)
  <2>1. /\ reader[p] \in Reading /\ InFlight(reader[p])
        /\ reader[p].got = KeysOf[reader[p].view]
    BY <1>6 DEF LoadHit, Ready, Reads, Base, TypeOK, Shape
  <2>2. PICK e \in entries : reader'[p] = [reader[p] EXCEPT !.at = "served", !.seen = e.seen]
    BY <1>6 DEF LoadHit, Turn, Base, TypeOK
  <2>3. \A f \in Fact : e.seen[f] <= fact[f]
    BY <2>2 DEF Base, Shape
  <2>4. /\ reader'[p].view = reader[p].view /\ reader'[p].at = "served"
        /\ reader'[p].got = reader[p].got /\ reader'[p].vers = reader[p].vers
        /\ reader'[p].floor = reader[p].floor /\ reader'[p].have = reader[p].have
        /\ reader'[p].seen = e.seen
    BY <2>1, <2>2 DEF Reading
  <2> QED
    BY <2>1, <2>3, <2>4 DEF InFlight
<1>7. CASE LoadMiss(p) \/ Store(p)
  <2>1. PICK s \in {"fill", "served"} :
          /\ reader[p] \in Reading /\ InFlight(reader[p])
          /\ reader[p].at = "read" => reader[p].got = KeysOf[reader[p].view]
          /\ reader[p].at # "served"
          /\ reader'[p] = [reader[p] EXCEPT !.at = s]
    BY <1>7 DEF LoadMiss, Store, Ready, Reads, Base, TypeOK, Shape, Turn
  <2>2. /\ reader'[p].view = reader[p].view /\ reader'[p].at = s
        /\ reader'[p].got = reader[p].got /\ reader'[p].vers = reader[p].vers
        /\ reader'[p].floor = reader[p].floor /\ reader'[p].have = reader[p].have
        /\ reader'[p].seen = reader[p].seen
    BY <2>1 DEF Reading
  <2> QED
    BY <2>1, <2>2 DEF InFlight
<1>8. CASE Leave(p)
  BY <1>8 DEF Leave, Turn, Base, TypeOK
<1> QED
  BY <1>3, <1>4, <1>5, <1>6, <1>7, <1>8 DEF ReaderStep

\* The record a writer's step leaves behind has the shape.
LEMMA WriterShape ==
    ASSUME Base, TypeOK', NEW p \in Writer, WriterStep(p), writer'[p] # Nobody
    PROVE  Underway(writer[p])'
<1>1. CASE Begin(p)
  <2>1. PICK o \in Op :
           writer'[p] = [op |-> o, early |-> Early[o], todo |-> Writes[o],
                         mine |-> None, late |-> Late[o]]
    BY <1>1 DEF Begin, Step, Base, TypeOK
  <2> QED
    BY <2>1 DEF Underway, None, TypeOK
<1>2. CASE BumpEarly(p) \/ BumpLate(p)
  <2>1. /\ writer[p] \in Writing /\ Underway(writer[p]) /\ UNCHANGED <<fact, done>>
        /\ writer'[p] \in Writing
        /\ writer'[p].op = writer[p].op /\ writer'[p].todo = writer[p].todo
        /\ writer'[p].mine = writer[p].mine
        /\ \/ writer'[p].late = writer[p].late
           \/ writer'[p].late \subseteq writer[p].late /\ writer[p].todo = {}
    BY <1>2 DEF BumpEarly, BumpLate, Step, Base, TypeOK, Shape, Writing
  <2> QED
    BY <2>1 DEF Underway
<1>3. CASE Commit(p)
  <2>1. writer[p] \in Writing /\ Underway(writer[p])
    BY <1>3 DEF Commit, Base, TypeOK, Shape
  <2>2. PICK f \in writer[p].todo :
           /\ fact' = [fact EXCEPT ![f] = fact[f] + 1]
           /\ writer'[p] = [writer[p] EXCEPT !.todo = writer[p].todo \ {f},
                                             !.mine = [writer[p].mine EXCEPT ![f] = fact[f] + 1]]
    BY <1>3 DEF Commit, Step, Base, TypeOK
  <2>3. f \in Fact /\ f \in Writes[writer[p].op] /\ writer[p].mine \in Count
    BY <2>1, <2>2 DEF Underway, Writing
  <2>4. /\ writer'[p].op = writer[p].op /\ writer'[p].late = writer[p].late
        /\ writer'[p].todo = writer[p].todo \ {f}
        /\ writer'[p].mine = [writer[p].mine EXCEPT ![f] = fact[f] + 1]
    BY <2>1, <2>2 DEF Writing
  <2>5. \A g \in Fact : /\ writer'[p].mine[g] <= fact'[g]
                        /\ writer'[p].mine[g] # 0 => g \in Writes[writer'[p].op]
    BY <2>1, <2>2, <2>3, <2>4 DEF Underway, Base, TypeOK
  <2> QED
    BY <2>1, <2>2, <2>4, <2>5 DEF Underway
<1>4. CASE Complete(p) \/ Abort(p)
  BY <1>4 DEF Complete, Abort, Step, Base, TypeOK
<1> QED
  BY <1>1, <1>2, <1>3, <1>4 DEF WriterStep

\* Every step keeps the types and the shape.
LEMMA BaseStep == Base /\ [Next]_vars => Base'
<1> SUFFICES ASSUME Base, [Next]_vars PROVE Base'
  OBVIOUS
<1>1. TypeOK /\ TypeOK'
  BY TypeStep DEF Base
<1>2. /\ \A k \in Key : ver[k] <= ver'[k]
      /\ \A f \in Fact : fact[f] <= fact'[f] /\ done[f] <= done'[f]
  BY <1>1, Monotone
<1>3. ASSUME NEW p \in Reader, reader'[p] # Nobody PROVE InFlight(reader[p])'
  <2>1. CASE reader'[p] = reader[p]
    BY <1>1, <1>2, <1>3, <2>1, KeepsShape DEF Base, Shape, TypeOK
  <2>2. CASE reader'[p] # reader[p]
    <3>1. PICK q \in Reader : ReaderStep(q)
      BY <2>2 DEF Next, EntryExpires, vars, WriterStep, Begin, BumpEarly, Commit, BumpLate,
                  Complete, Abort, Step
    <3>2. q = p
      BY <1>1, <2>2, <3>1 DEF ReaderStep, Ask, ReadVersion, ReadFact, LoadHit, LoadMiss, Store,
                              Leave, Turn, TypeOK
    <3> QED
      BY <1>1, <1>3, <3>1, <3>2, ReaderShape
  <2> QED
    BY <2>1, <2>2
<1>4. ASSUME NEW p \in Writer, writer'[p] # Nobody PROVE Underway(writer[p])'
  <2>1. CASE writer'[p] = writer[p]
    BY <1>1, <1>2, <1>4, <2>1, KeepsShape DEF Base, Shape, TypeOK
  <2>2. CASE writer'[p] # writer[p]
    <3>1. PICK q \in Writer : WriterStep(q)
      BY <2>2 DEF Next, EntryExpires, vars, ReaderStep, Ask, ReadVersion, ReadFact, LoadHit,
                  LoadMiss, Store, Leave, Turn
    <3>2. q = p
      BY <1>1, <2>2, <3>1 DEF WriterStep, Begin, BumpEarly, Commit, BumpLate, Complete, Abort,
                              Step, TypeOK
    <3> QED
      BY <1>1, <1>4, <3>1, <3>2, WriterShape
  <2> QED
    BY <2>1, <2>2
<1>5. ASSUME NEW e \in entries'
      PROVE  /\ \A k \in Key : e.vers[k] <= ver'[k]
             /\ \A f \in Fact : e.seen[f] <= fact'[f]
  <2>1. CASE e \in entries
    BY <1>1, <1>2, <2>1, KeepsShape DEF Base, Shape, TypeOK
  <2>2. CASE e \notin entries
    <3>1. PICK p \in Reader : Store(p)
      BY <1>5, <2>2 DEF Next, EntryExpires, vars, ReaderStep, Ask, ReadVersion, ReadFact, LoadHit,
                  LoadMiss, Leave, WriterStep, Begin, BumpEarly, Commit, BumpLate,
                  Complete, Abort, Step
    <3>2. /\ e.vers = reader[p].vers /\ e.seen = reader[p].seen
          /\ InFlight(reader[p]) /\ UNCHANGED <<ver, fact>>
      BY <1>5, <2>2, <3>1 DEF Store, Reads, Turn, Base, Shape
    <3> QED
      BY <3>2 DEF InFlight
  <2> QED
    BY <2>1, <2>2
<1>6. \A f \in Fact : done'[f] <= fact'[f]
  <2>1. CASE \E p \in Writer : Complete(p)
    <3>1. PICK p \in Writer : Complete(p)
      BY <2>1
    <3>2. Underway(writer[p]) /\ writer[p] \in Writing /\ writer[p].mine \in Count
      BY <3>1 DEF Complete, Base, Shape, TypeOK, Writing
    <3> QED
      BY <1>1, <3>1, <3>2 DEF Complete, Underway, Base, Shape, TypeOK
  <2>2. CASE ~\E p \in Writer : Complete(p)
    <3>1. done' = done
      BY <2>2 DEF Next, EntryExpires, vars, ReaderStep, Ask, ReadVersion, ReadFact, LoadHit,
                  LoadMiss, Store, Leave, Turn, WriterStep, Begin, BumpEarly, Commit, BumpLate, Abort
    <3> QED
      BY <1>1, <1>2, <3>1 DEF Base, Shape, TypeOK
  <2> QED
    BY <2>1, <2>2
<1> QED
  BY <1>1, <1>3, <1>4, <1>5, <1>6 DEF Base, Shape

-----------------------------------------------------------------------------
(***************************************************************************)
(* Why the views are fresh.  A barrier for the first n writes to f is a    *)
(* value x of a version k such that whoever read k at x or later, and then *)
(* f, saw those writes.  Bumping k after the writes raises one; nothing    *)
(* takes it down; and a view whose cache key contains k can only be found  *)
(* under it by those who still have an older version.                      *)
(***************************************************************************)
Barrier(v, k, f, n, x) ==
    /\ n <= fact[f]
    /\ \A e \in entries : e.view = v /\ x <= e.vers[k] => n <= e.seen[f]
    /\ \A p \in Reader :
          (/\ reader[p] # Nobody /\ reader[p].view = v /\ reader[p].at # "served"
           /\ f \in reader[p].have /\ x <= reader[p].vers[k])
          => n <= reader[p].seen[f]

Guards(v, k, f, n) == \E x \in Nat : x <= ver[k] /\ Barrier(v, k, f, n, x)

\* A handler's own writes are behind a barrier once it has bumped the version.
WriterInv ==
    \A p \in Writer : writer[p] # Nobody =>
        \A v \in View : \A f \in Writes[writer[p].op] \cap FactsOf[v] :
            \A k \in (Late[writer[p].op] \ writer[p].late) \cap Before[v][f] :
                Guards(v, k, f, writer[p].mine[f])

\* So are all completed writes.
DoneInv ==
    \A v \in View : \A f \in FactsOf[v] :
        done[f] = 0 \/ \E k \in Before[v][f] : Guards(v, k, f, done[f])

\* And a reader that has not looked into the cache yet will look past the barrier
\* that stood when it began.
ReaderInv ==
    \A p \in Reader : Reads(p, "read") =>
        LET r == reader[p] IN
        \A f \in FactsOf[r.view] :
            r.floor[f] = 0 \/ \E k \in Before[r.view][f], x \in Nat :
                /\ x <= ver[k] /\ Barrier(r.view, k, f, r.floor[f], x)
                /\ k \in r.got => x <= r.vers[k]

CacheInv == Base /\ WriterInv /\ DoneInv /\ ReaderInv /\ Fresh

\* No step takes a barrier down.
LEMMA BarrierStands ==
    ASSUME Base, [Next]_vars, NEW v \in View, NEW f \in FactsOf[v], NEW k \in Before[v][f],
           NEW n \in Nat, NEW x \in Nat, x <= ver[k], Barrier(v, k, f, n, x)
    PROVE  Barrier(v, k, f, n, x)'
<1>1. TypeOK /\ TypeOK' /\ f \in Fact /\ k \in Key
  BY TypeStep, TableAssumption DEF Base
<1>2. n <= fact'[f]
  BY <1>1, Monotone DEF Barrier, TypeOK
<1>3. ASSUME NEW e \in entries', e.view = v, x <= e.vers[k] PROVE n <= e.seen[f]
  <2>1. CASE e \in entries
    BY <1>3, <2>1 DEF Barrier
  <2>2. CASE e \notin entries
    <3>1. PICK p \in Reader : Store(p)
      BY <1>3, <2>2 DEF Next, EntryExpires, vars, ReaderStep, Ask, ReadVersion, ReadFact, LoadHit,
                  LoadMiss, Leave, WriterStep, Begin, BumpEarly, Commit, BumpLate,
                  Complete, Abort, Step
    <3>2. /\ e.view = reader[p].view /\ e.vers = reader[p].vers /\ e.seen = reader[p].seen
          /\ reader[p] # Nobody /\ reader[p].at # "served"
          /\ reader[p].have = FactsOf[reader[p].view]
      BY <1>3, <2>2, <3>1 DEF Store, Reads, Turn
    <3> QED
      BY <1>3, <3>2 DEF Barrier
  <2> QED
    BY <2>1, <2>2
<1>4. ASSUME NEW p \in Reader, reader'[p] # Nobody, reader'[p].view = v,
             reader'[p].at # "served", f \in reader'[p].have, x <= reader'[p].vers[k]
      PROVE  n <= reader'[p].seen[f]
  <2>1. CASE reader'[p] = reader[p]
    BY <1>4, <2>1 DEF Barrier
  <2>2. CASE reader'[p] # reader[p]
    <3>1. PICK q \in Reader : ReaderStep(q)
      BY <2>2 DEF Next, EntryExpires, vars, WriterStep, Begin, BumpEarly, Commit, BumpLate,
                  Complete, Abort, Step
    <3>2. q = p
      BY <1>1, <2>2, <3>1 DEF ReaderStep, Ask, ReadVersion, ReadFact, LoadHit, LoadMiss, Store,
                              Leave, Turn, TypeOK
    <3>3. CASE Ask(p)
      BY <1>1, <1>4, <3>3 DEF Ask, Turn, TypeOK
    <3>4. CASE ReadVersion(p)
      <4>1. reader[p] \in Reading /\ reader[p] # Nobody /\ reader[p].at = "read"
            /\ InFlight(reader[p])
        BY <1>1, <3>4 DEF ReadVersion, Reads, TypeOK, Base, Shape
      <4>2. PICK j \in KeysOf[reader[p].view] \ reader[p].got :
               reader'[p] = [reader[p] EXCEPT !.got = reader[p].got \cup {j},
                                              !.vers = [reader[p].vers EXCEPT ![j] = ver[j]]]
        BY <1>1, <3>4 DEF ReadVersion, Turn, TypeOK
      <4>3. /\ reader'[p].view = reader[p].view /\ reader'[p].have = reader[p].have
            /\ reader'[p].seen = reader[p].seen
            /\ reader'[p].vers = [reader[p].vers EXCEPT ![j] = ver[j]]
        BY <4>1, <4>2 DEF Reading
      <4>4. k \in reader[p].got
        BY <1>4, <4>1, <4>3 DEF InFlight
      <4>5. reader'[p].vers[k] = reader[p].vers[k]
        BY <4>1, <4>2, <4>3, <4>4 DEF Reading
      <4> QED
        BY <1>4, <4>1, <4>3, <4>5 DEF Barrier
    <3>5. CASE ReadFact(p)
      <4>1. reader[p] \in Reading /\ reader[p] # Nobody /\ reader[p].at # "served"
        BY <1>1, <3>5 DEF ReadFact, Reads, TypeOK
      <4>2. PICK g \in FactsOf[reader[p].view] :
               reader'[p] = [reader[p] EXCEPT !.have = reader[p].have \cup {g},
                                              !.seen = [reader[p].seen EXCEPT ![g] = fact[g]]]
        BY <1>1, <3>5 DEF ReadFact, Turn, TypeOK
      <4>3. /\ reader'[p].view = reader[p].view /\ reader'[p].vers = reader[p].vers
            /\ reader'[p].have = reader[p].have \cup {g}
            /\ reader'[p].seen = [reader[p].seen EXCEPT ![g] = fact[g]]
            /\ reader[p].seen \in Count
        BY <4>1, <4>2 DEF Reading
      <4>4. CASE f = g
        BY <1>1, <4>3, <4>4 DEF Barrier
      <4>5. CASE f # g
        BY <1>1, <1>4, <4>1, <4>3, <4>5 DEF Barrier
      <4> QED
        BY <4>4, <4>5
    <3>6. CASE LoadMiss(p)
      <4>1. /\ reader[p] \in Reading /\ reader[p] # Nobody /\ reader[p].at = "read"
            /\ reader'[p] = [reader[p] EXCEPT !.at = "fill"]
        BY <1>1, <3>6 DEF LoadMiss, Ready, Reads, Turn, TypeOK
      <4>2. /\ reader'[p].view = reader[p].view /\ reader'[p].vers = reader[p].vers
            /\ reader'[p].have = reader[p].have /\ reader'[p].seen = reader[p].seen
        BY <4>1 DEF Reading
      <4> QED
        BY <1>4, <4>1, <4>2 DEF Barrier
    <3>7. CASE LoadHit(p) \/ Store(p)
      <4>1. reader'[p].at = "served"
        BY <1>1, <3>7 DEF LoadHit, Store, Ready, Reads, Turn, TypeOK, Reading
      <4> QED
        BY <1>4, <4>1
    <3>8. CASE Leave(p)
      BY <1>1, <1>4, <3>8 DEF Leave, Turn, TypeOK
    <3> QED
      BY <3>1, <3>2, <3>3, <3>4, <3>5, <3>6, <3>7, <3>8 DEF ReaderStep
  <2> QED
    BY <2>1, <2>2
<1> QED
  BY <1>2, <1>3, <1>4 DEF Barrier

\* Nor does the version behind it move back.
LEMMA GuardStands ==
    ASSUME Base, [Next]_vars, NEW v \in View, NEW f \in FactsOf[v], NEW k \in Before[v][f],
           NEW n \in Nat, Guards(v, k, f, n)
    PROVE  Guards(v, k, f, n)'
<1>1. PICK x \in Nat : x <= ver[k] /\ Barrier(v, k, f, n, x)
  BY DEF Guards
<1>2. TypeOK /\ TypeOK' /\ k \in Key /\ f \in Fact
  BY TypeStep, TableAssumption DEF Base
<1>3. ver[k] <= ver'[k]
  BY <1>2, Monotone
<1>4. x <= ver'[k]
  BY <1>1, <1>2, <1>3 DEF TypeOK
<1>5. Barrier(v, k, f, n, x)'
  BY <1>1, BarrierStands
<1> QED
  BY <1>4, <1>5 DEF Guards

\* Bumping a version raises a barrier for everything written so far.
LEMMA BumpRaises ==
    ASSUME Base, NEW p \in Writer, BumpLate(p), NEW k \in writer[p].late, k \notin writer'[p].late,
           NEW v \in View, NEW f \in FactsOf[v], k \in Before[v][f], NEW n \in Nat, n <= fact[f]
    PROVE  Guards(v, k, f, n)'
<1>1. writer[p] \in Writing /\ f \in Fact /\ k \in Key
  BY TableAssumption DEF BumpLate, Base, TypeOK
<1>2. PICK j \in writer[p].late :
         /\ ver' = [ver EXCEPT ![j] = ver[j] + 1]
         /\ Step(p, [writer[p] EXCEPT !.late = writer[p].late \ {j}])
  BY DEF BumpLate
<1>3. j = k
  BY <1>1, <1>2 DEF Step, Base, TypeOK, Writing
<1>4. PICK y \in Nat : y = ver'[k] /\ y = ver[k] + 1 /\ ver[k] \in Nat
  BY <1>1, <1>2, <1>3 DEF Base, TypeOK
<1>5. UNCHANGED <<entries, reader, fact>>
  BY <1>2 DEF Step, BumpLate
<1>6. \A e \in entries : ~(y <= e.vers[k])
  BY <1>1, <1>4 DEF Base, Shape, TypeOK
<1>7. ASSUME NEW q \in Reader, reader[q] # Nobody PROVE ~(y <= reader[q].vers[k])
  <2>1. InFlight(reader[q]) /\ reader[q].vers \in Versions
    BY <1>7 DEF Base, Shape, TypeOK, Reading
  <2> QED
    BY <1>1, <1>4, <2>1 DEF InFlight
<1>8. Barrier(v, k, f, n, y)'
  BY <1>5, <1>6, <1>7 DEF Barrier
<1>9. y <= ver'[k]
  BY <1>4
<1> QED
  BY <1>8, <1>9 DEF Guards

-----------------------------------------------------------------------------
\* Only a request's own steps change its record.
LEMMA OneAtATime ==
    ASSUME TypeOK, [Next]_vars
    PROVE  /\ \A p \in Reader : reader'[p] # reader[p] => ReaderStep(p)
           /\ \A p \in Writer : writer'[p] # writer[p] => WriterStep(p)
<1>1. ASSUME NEW p \in Reader, reader'[p] # reader[p] PROVE ReaderStep(p)
  <2>1. PICK q \in Reader : ReaderStep(q)
    BY <1>1 DEF Next, EntryExpires, vars, WriterStep, Begin, BumpEarly, Commit, BumpLate,
                Complete, Abort, Step
  <2>2. q = p
    BY <1>1, <2>1 DEF ReaderStep, Ask, ReadVersion, ReadFact, LoadHit, LoadMiss, Store,
                      Leave, Turn, TypeOK
  <2> QED
    BY <2>1, <2>2
<1>2. ASSUME NEW p \in Writer, writer'[p] # writer[p] PROVE WriterStep(p)
  <2>1. PICK q \in Writer : WriterStep(q)
    BY <1>2 DEF Next, EntryExpires, vars, ReaderStep, Ask, ReadVersion, ReadFact, LoadHit,
                LoadMiss, Store, Leave, Turn
  <2>2. q = p
    BY <1>2, <2>1 DEF WriterStep, Begin, BumpEarly, Commit, BumpLate, Complete, Abort,
                      Step, TypeOK
  <2> QED
    BY <2>1, <2>2
<1> QED
  BY <1>1, <1>2

\* The invariant, a conjunct at a time.  A handler that has committed stays where
\* it is until it bumps, and each bump puts what it wrote behind a barrier.
LEMMA WriterInvStep == Base /\ WriterInv /\ [Next]_vars => WriterInv'
<1> SUFFICES ASSUME Base, WriterInv, [Next]_vars,
                    NEW p \in Writer, writer'[p] # Nobody, NEW v \in View,
                    NEW f \in Writes[writer'[p].op] \cap FactsOf[v],
                    NEW k \in (Late[writer'[p].op] \ writer'[p].late) \cap Before[v][f]
             PROVE  Guards(v, k, f, writer[p].mine[f])'
  BY DEF WriterInv
<1>1. Base' /\ TypeOK /\ TypeOK'
  BY BaseStep DEF Base
<1>2. writer'[p] \in Writing /\ Underway(writer[p])'
  BY <1>1 DEF Base, Shape, TypeOK
<1>3. f \in Fact /\ k \in Key
  BY TableAssumption
<1>4. PICK n \in Nat : n = writer'[p].mine[f]
  BY <1>2, <1>3 DEF Writing
<1> SUFFICES Guards(v, k, f, n)'
  BY <1>4
<1>5. ASSUME writer[p] # Nobody, writer[p].op = writer'[p].op, k \notin writer[p].late,
             writer[p].mine[f] = n
      PROVE  Guards(v, k, f, n)'
  <2>1. Guards(v, k, f, n)
    BY <1>5 DEF WriterInv
  <2> QED
    BY <2>1, GuardStands
<1>6. CASE writer'[p] = writer[p]
  BY <1>4, <1>5, <1>6
<1>7. CASE Begin(p)
  <2>1. writer'[p].late = Late[writer'[p].op]
    BY <1>1, <1>7 DEF Begin, Step, TypeOK
  <2> QED
    BY <2>1
<1>8. CASE BumpEarly(p)
  <2>1. /\ writer[p] \in Writing /\ writer[p] # Nobody
        /\ writer'[p].op = writer[p].op /\ writer'[p].late = writer[p].late
        /\ writer'[p].mine = writer[p].mine
    BY <1>1, <1>8 DEF BumpEarly, Step, TypeOK, Writing
  <2> QED
    BY <1>4, <1>5, <2>1
<1>9. CASE Commit(p)
  <2>1. PICK g \in writer[p].todo :
           writer'[p] = [writer[p] EXCEPT !.todo = writer[p].todo \ {g},
                                          !.mine = [writer[p].mine EXCEPT ![g] = fact[g] + 1]]
    BY <1>1, <1>9 DEF Commit, Step, TypeOK
  <2>2. writer[p] \in Writing /\ Underway(writer[p])
    BY <1>9 DEF Commit, Base, Shape, TypeOK
  <2>3. writer[p].late = Late[writer[p].op]
    BY <2>1, <2>2 DEF Underway
  <2>4. writer'[p].late = writer[p].late /\ writer'[p].op = writer[p].op
    BY <2>1, <2>2 DEF Writing
  <2> QED
    BY <2>3, <2>4
<1>10. CASE BumpLate(p)
  <2>1. /\ writer[p] \in Writing /\ writer[p] # Nobody
        /\ writer'[p].op = writer[p].op /\ writer'[p].mine = writer[p].mine
        /\ writer[p].mine \in Count /\ fact' = fact
    BY <1>1, <1>10 DEF BumpLate, Step, TypeOK, Writing
  <2>2. CASE k \in writer[p].late
    <3>1. n <= fact[f]
      BY <1>2, <1>3, <1>4, <2>1 DEF Underway
    <3>2. k \notin writer'[p].late
      OBVIOUS
    <3> QED
      BY <1>10, <2>2, <3>1, <3>2, BumpRaises
  <2>3. CASE k \notin writer[p].late
    BY <1>4, <1>5, <2>1, <2>3
  <2> QED
    BY <2>2, <2>3
<1>11. CASE Complete(p) \/ Abort(p)
  BY <1>1, <1>11 DEF Complete, Abort, Step, TypeOK
<1> QED
  BY <1>1, <1>6, <1>7, <1>8, <1>9, <1>10, <1>11, OneAtATime DEF WriterStep

\* A handler that returns has bumped everything it owed.
LEMMA DoneInvStep ==
    ASSUME Covered, Base, WriterInv, DoneInv, [Next]_vars
    PROVE  DoneInv'
<1> SUFFICES ASSUME NEW v \in View, NEW f \in FactsOf[v]
             PROVE  done'[f] = 0 \/ \E k \in Before[v][f] : Guards(v, k, f, done[f])'
  BY DEF DoneInv
<1>1. TypeOK /\ TypeOK' /\ f \in Fact
  BY TypeStep, TableAssumption DEF Base
<1>2. PICK n \in Nat : n = done'[f]
  BY <1>1 DEF TypeOK
<1>3. CASE done'[f] = done[f]
  <2>1. CASE done[f] = 0
    BY <1>3, <2>1
  <2>2. CASE done[f] # 0
    <3>1. PICK k \in Before[v][f] : Guards(v, k, f, n)
      BY <1>2, <1>3, <2>2 DEF DoneInv
    <3>2. Guards(v, k, f, n)'
      BY <3>1, GuardStands
    <3> QED
      BY <1>2, <3>2
  <2> QED
    BY <2>1, <2>2
<1>4. CASE done'[f] # done[f]
  <2>1. PICK p \in Writer : Complete(p)
    BY <1>4 DEF Next, EntryExpires, vars, ReaderStep, Ask, ReadVersion, ReadFact, LoadHit,
                LoadMiss, Store, Leave, Turn, WriterStep, Begin, BumpEarly, Commit, BumpLate, Abort
  <2>2. /\ writer[p] \in Writing /\ writer[p] # Nobody /\ writer[p].late = {}
        /\ Underway(writer[p])
    BY <2>1 DEF Complete, Base, Shape, TypeOK
  <2>3. n = writer[p].mine[f] /\ n > done[f]
    BY <1>1, <1>2, <1>4, <2>1 DEF Complete
  <2>4. n # 0
    BY <1>1, <2>3 DEF TypeOK
  <2>5. f \in Writes[writer[p].op] /\ writer[p].op \in Op
    BY <1>1, <2>2, <2>3, <2>4 DEF Underway, Writing
  <2>6. PICK k \in Late[writer[p].op] \cap Before[v][f] : TRUE
    BY <1>1, <2>5 DEF Covered, Covers
  <2>7. Guards(v, k, f, n)
    BY <2>2, <2>3, <2>5, <2>6 DEF WriterInv
  <2>8. Guards(v, k, f, n)'
    BY <2>7, GuardStands
  <2> QED
    BY <1>2, <2>6, <2>8
<1> QED
  BY <1>3, <1>4

\* A reader that begins finds the completed writes behind a barrier, and whatever
\* version it reads later is past it.
LEMMA ReaderInvStep ==
    ASSUME Base, DoneInv, ReaderInv, [Next]_vars
    PROVE  ReaderInv'
<1> SUFFICES ASSUME NEW p \in Reader, reader'[p] # Nobody, reader'[p].at = "read",
                    NEW f \in FactsOf[reader'[p].view], reader'[p].floor[f] # 0
             PROVE  \E k \in Before[reader'[p].view][f] : \E x \in Nat :
                       /\ x <= ver'[k]
                       /\ Barrier(reader[p].view, k, f, reader[p].floor[f], x)'
                       /\ k \in reader'[p].got => x <= reader'[p].vers[k]
  BY DEF ReaderInv, Reads
<1>1. Base' /\ TypeOK /\ TypeOK'
  BY BaseStep DEF Base
<1>2. reader'[p] \in Reading
  BY <1>1 DEF TypeOK
<1>3. PICK v \in View : v = reader'[p].view
  BY <1>2 DEF Reading
<1>4. f \in Fact /\ f \in FactsOf[v]
  BY <1>3, TableAssumption
<1>5. PICK n \in Nat : n = reader'[p].floor[f]
  BY <1>2, <1>4 DEF Reading
<1>6. Before[v][f] \subseteq Key
  BY <1>4, TableAssumption
<1> SUFFICES \E k \in Before[v][f] : \E x \in Nat :
                /\ x <= ver'[k] /\ Barrier(v, k, f, n, x)'
                /\ k \in reader'[p].got => x <= reader'[p].vers[k]
  BY <1>3, <1>5
<1>7. ASSUME reader[p] # Nobody, reader[p].at = "read", reader[p].view = v,
             reader[p].floor[f] = n,
             \A k \in Key : /\ k \in reader[p].got => reader'[p].vers[k] = reader[p].vers[k]
                            /\ k \in reader'[p].got /\ k \notin reader[p].got
                               => reader'[p].vers[k] = ver[k]
      PROVE  \E k \in Before[v][f] : \E x \in Nat :
                /\ x <= ver'[k] /\ Barrier(v, k, f, n, x)'
                /\ k \in reader'[p].got => x <= reader'[p].vers[k]
  <2>1. n # 0
    BY <1>5
  <2>2. PICK k \in Before[v][f], x \in Nat :
           /\ x <= ver[k] /\ Barrier(v, k, f, n, x)
           /\ k \in reader[p].got => x <= reader[p].vers[k]
    BY <1>7, <1>4, <2>1 DEF ReaderInv, Reads
  <2>3. Barrier(v, k, f, n, x)'
    BY <1>4, <2>2, BarrierStands
  <2>4. k \in Key /\ ver[k] <= ver'[k]
    BY <1>1, <1>6, Monotone
  <2>5. x <= ver'[k]
    BY <1>1, <2>2, <2>4 DEF TypeOK
  <2>6. k \in reader'[p].got => x <= reader'[p].vers[k]
    BY <1>7, <2>2, <2>4
  <2> QED
    BY <2>3, <2>5, <2>6
<1>8. CASE reader'[p] = reader[p]
  BY <1>3, <1>5, <1>7, <1>8
<1>9. CASE Ask(p)
  <2>1. /\ reader'[p].floor = done /\ reader'[p].got = {}
    BY <1>1, <1>9 DEF Ask, Turn, TypeOK
  <2>2. n = done[f] /\ n # 0
    BY <1>5, <2>1
  <2>3. PICK k \in Before[v][f] : Guards(v, k, f, n)
    BY <1>4, <2>2 DEF DoneInv
  <2>4. Guards(v, k, f, n)'
    BY <1>4, <2>3, GuardStands
  <2> QED
    BY <2>1, <2>4 DEF Guards
<1>10. CASE ReadVersion(p)
  <2>1. reader[p] \in Reading /\ reader[p] # Nobody /\ reader[p].at = "read"
    BY <1>1, <1>10 DEF ReadVersion, Reads, TypeOK
  <2>2. PICK j \in KeysOf[reader[p].view] \ reader[p].got :
           reader'[p] = [reader[p] EXCEPT !.got = reader[p].got \cup {j},
                                          !.vers = [reader[p].vers EXCEPT ![j] = ver[j]]]
    BY <1>1, <1>10 DEF ReadVersion, Turn, TypeOK
  <2>3. /\ reader'[p].view = reader[p].view /\ reader'[p].floor = reader[p].floor
        /\ reader'[p].got = reader[p].got \cup {j}
        /\ reader'[p].vers = [reader[p].vers EXCEPT ![j] = ver[j]]
        /\ reader[p].vers \in Versions
    BY <2>1, <2>2 DEF Reading
  <2>4. \A k \in Key : /\ k \in reader[p].got => reader'[p].vers[k] = reader[p].vers[k]
                       /\ k \in reader'[p].got /\ k \notin reader[p].got
                          => reader'[p].vers[k] = ver[k]
    BY <2>2, <2>3
  <2> QED
    BY <1>3, <1>5, <1>7, <2>1, <2>3, <2>4
<1>11. CASE ReadFact(p)
  <2>1. reader[p] \in Reading /\ reader[p] # Nobody
    BY <1>1, <1>11 DEF ReadFact, Reads, TypeOK
  <2>2. PICK g \in FactsOf[reader[p].view] :
           reader'[p] = [reader[p] EXCEPT !.have = reader[p].have \cup {g},
                                          !.seen = [reader[p].seen EXCEPT ![g] = fact[g]]]
    BY <1>1, <1>11 DEF ReadFact, Turn, TypeOK
  <2>3. /\ reader'[p].view = reader[p].view /\ reader'[p].floor = reader[p].floor
        /\ reader'[p].at = reader[p].at
        /\ reader'[p].got = reader[p].got /\ reader'[p].vers = reader[p].vers
    BY <2>1, <2>2 DEF Reading
  <2> QED
    BY <1>3, <1>5, <1>7, <2>1, <2>3
<1>12. CASE LoadHit(p) \/ LoadMiss(p) \/ Store(p) \/ Leave(p)
  <2>1. reader'[p] = Nobody \/ reader'[p].at # "read"
    BY <1>1, <1>12 DEF LoadHit, LoadMiss, Store, Leave, Ready, Reads, Turn, TypeOK, Reading
  <2> QED
    BY <2>1
<1> QED
  BY <1>1, <1>8, <1>9, <1>10, <1>11, <1>12, OneAtATime DEF ReaderStep

\* Answers from the cache are past the barrier; the others were read after it.
LEMMA FreshStep ==
    ASSUME Base, ReaderInv, Fresh, [Next]_vars
    PROVE  Fresh'
<1> SUFFICES ASSUME NEW p \in Reader, reader'[p] # Nobody, reader'[p].at = "served",
                    NEW f \in FactsOf[reader'[p].view]
             PROVE  reader'[p].floor[f] <= reader'[p].seen[f]
  BY DEF Fresh, Reads
<1>1. TypeOK /\ TypeOK'
  BY TypeStep DEF Base
<1>2. f \in Fact /\ reader'[p] \in Reading
  BY <1>1, TableAssumption DEF TypeOK, Reading
<1>3. CASE reader'[p] = reader[p]
  BY <1>3 DEF Fresh, Reads
<1>4. CASE Store(p)
  <2>1. reader[p] \in Reading /\ InFlight(reader[p]) /\ reader[p].at = "fill"
        /\ reader[p].have = FactsOf[reader[p].view]
    BY <1>4 DEF Store, Reads, Base, Shape, TypeOK
  <2>2. reader'[p] = [reader[p] EXCEPT !.at = "served"]
    BY <1>1, <1>4 DEF Store, Turn, TypeOK
  <2>3. reader'[p].view = reader[p].view /\ reader'[p].floor = reader[p].floor
        /\ reader'[p].seen = reader[p].seen
    BY <2>1, <2>2 DEF Reading
  <2> QED
    BY <2>1, <2>3 DEF InFlight
<1>5. CASE LoadHit(p)
  <2>1. PICK e \in entries :
           /\ e.view = reader[p].view /\ e.vers = reader[p].vers
           /\ reader'[p] = [reader[p] EXCEPT !.at = "served", !.seen = e.seen]
    BY <1>1, <1>5 DEF LoadHit, Turn, TypeOK
  <2>2. /\ reader[p] \in Reading /\ Reads(p, "read") /\ reader[p].view \in View
        /\ reader[p].got = KeysOf[reader[p].view] /\ reader[p].floor \in Count
    BY <1>1, <1>5 DEF LoadHit, Ready, Reads, TypeOK, Reading
  <2>3. reader'[p].view = reader[p].view /\ reader'[p].floor = reader[p].floor
        /\ reader'[p].seen = e.seen
    BY <2>1, <2>2 DEF Reading
  <2>4. CASE reader[p].floor[f] = 0
    <3>1. e.seen[f] \in Nat
      BY <1>1, <1>2, <2>1 DEF TypeOK
    <3> QED
      BY <2>3, <2>4, <3>1
  <2>5. CASE reader[p].floor[f] # 0
    <3>1. PICK k \in Before[reader[p].view][f], x \in Nat :
             /\ Barrier(reader[p].view, k, f, reader[p].floor[f], x)
             /\ k \in reader[p].got => x <= reader[p].vers[k]
      BY <2>2, <2>3, <2>5 DEF ReaderInv
    <3>2. k \in reader[p].got
      BY <1>2, <2>2, TableAssumption
    <3>3. x <= e.vers[k]
      BY <2>1, <3>1, <3>2
    <3> QED
      BY <2>1, <2>3, <3>1, <3>3 DEF Barrier
  <2> QED
    BY <2>4, <2>5
<1>6. CASE Ask(p) \/ Leave(p)
  BY <1>1, <1>6 DEF Ask, Leave, Turn, TypeOK
<1>7. CASE ReadVersion(p) \/ ReadFact(p)
  <2>1. reader[p] \in Reading /\ reader[p].at # "served"
    BY <1>1, <1>7 DEF ReadVersion, ReadFact, Reads, TypeOK
  <2>2. CASE ReadVersion(p)
    <3>1. PICK k \in KeysOf[reader[p].view] :
             reader'[p] = [reader[p] EXCEPT !.got = reader[p].got \cup {k},
                                            !.vers = [reader[p].vers EXCEPT ![k] = ver[k]]]
      BY <1>1, <2>2 DEF ReadVersion, Turn, TypeOK
    <3> QED
      BY <2>1, <3>1 DEF Reading
  <2>3. CASE ReadFact(p)
    <3>1. PICK g \in FactsOf[reader[p].view] :
             reader'[p] = [reader[p] EXCEPT !.have = reader[p].have \cup {g},
                                            !.seen = [reader[p].seen EXCEPT ![g] = fact[g]]]
      BY <1>1, <2>3 DEF ReadFact, Turn, TypeOK
    <3> QED
      BY <2>1, <3>1 DEF Reading
  <2> QED
    BY <1>7, <2>2, <2>3
<1>8. CASE LoadMiss(p)
  <2>1. reader[p] \in Reading
    BY <1>1, <1>8 DEF LoadMiss, Ready, Reads, TypeOK
  <2>2. reader'[p].at = "fill"
    BY <1>1, <1>8, <2>1 DEF LoadMiss, Turn, TypeOK, Reading
  <2> QED
    BY <2>2
<1> QED
  BY <1>1, <1>3, <1>4, <1>5, <1>6, <1>7, <1>8, OneAtATime DEF ReaderStep

\* The invariant holds throughout.
LEMMA CacheInvariant == ASSUME Covered PROVE Spec => []CacheInv
<1>1. Init => CacheInv
  <2> SUFFICES ASSUME Init PROVE CacheInv
    OBVIOUS
  <2>1. TypeOK
    BY DEF Init, TypeOK, None, NoVersion
  <2>2. \A f \in Fact : fact[f] = 0 /\ done[f] = 0
    BY DEF Init, None
  <2>3. Shape
    BY <2>1, <2>2 DEF Init, Shape
  <2>4. WriterInv /\ ReaderInv /\ Fresh
    BY DEF Init, WriterInv, ReaderInv, Fresh, Reads
  <2>5. DoneInv
    BY <2>2, TableAssumption DEF DoneInv
  <2> QED
    BY <2>1, <2>3, <2>4, <2>5 DEF CacheInv, Base
<1>2. CacheInv /\ [Next]_vars => CacheInv'
  BY BaseStep, WriterInvStep, DoneInvStep, ReaderInvStep, FreshStep DEF CacheInv
<1> QED
  BY <1>1, <1>2, PTL DEF Spec

\* No answer misses a write whose handler had returned when it was asked for.
THEOREM AnswersAreFresh == ASSUME Covered PROVE Spec => []Fresh
<1>1. CacheInv => Fresh
  BY DEF CacheInv
<1> QED
  BY <1>1, CacheInvariant, PTL

\* A handler that returns leaves no entry within reach that its writes made stale.
THEOREM NoStaleEntryLeft == ASSUME Covered PROVE Spec => []NoStaleEntry
<1>1. CacheInv => NoStaleEntry
  <2> SUFFICES ASSUME CacheInv, NEW e \in entries, \A k \in KeysOf[e.view] : e.vers[k] = ver[k],
                      NEW f \in FactsOf[e.view]
               PROVE  done[f] <= e.seen[f]
    BY DEF NoStaleEntry
  <2>1. TypeOK /\ DoneInv
    BY DEF CacheInv, Base
  <2>2. e.view \in View /\ f \in Fact /\ e.seen[f] \in Nat
    BY <2>1, TableAssumption DEF TypeOK
  <2>3. CASE done[f] = 0
    BY <2>2, <2>3
  <2>4. CASE done[f] # 0
    <3>1. PICK k \in Before[e.view][f] : Guards(e.view, k, f, done[f])
      BY <2>1, <2>2, <2>4 DEF DoneInv
    <3>2. e.vers[k] = ver[k]
      BY <2>2, TableAssumption
    <3> QED
      BY <3>1, <3>2 DEF Guards, Barrier
  <2> QED
    BY <2>3, <2>4
<1> QED
  BY <1>1, CacheInvariant, PTL

-----------------------------------------------------------------------------
(***************************************************************************)
(* The protocol implements FreshViews: a step of the abstract behaviour is *)
(* taken when a request is made, answered or left, when a write commits    *)
(* and when a handler returns, and none otherwise.                         *)
(***************************************************************************)
Query == [p \in Reader |->
             IF reader[p] = Nobody THEN Nobody
             ELSE [view |-> reader[p].view, floor |-> reader[p].floor,
                   answer |-> IF reader[p].at = "served" THEN reader[p].seen ELSE Nobody]]

\* A reader's step that changes neither its question nor its answer changes no
\* query.
LEMMA SameQuery ==
    ASSUME TypeOK, NEW p \in Reader, NEW r, Turn(p, r), reader[p] # Nobody, r # Nobody,
           r.view = reader[p].view, r.floor = reader[p].floor,
           reader[p].at # "served", r.at # "served"
    PROVE  UNCHANGED <<fact, done, Query>>
<1>1. reader' = [reader EXCEPT ![p] = r] /\ UNCHANGED <<fact, done>>
  BY DEF Turn
<1>2. \A q \in Reader : reader'[q] = IF q = p THEN r ELSE reader[q]
  BY <1>1 DEF TypeOK
<1>3. Query' = Query
  BY <1>2 DEF Query
<1> QED
  BY <1>1, <1>3

\* A step that answers a query is an Answer of FreshViews.
LEMMA Answers ==
    ASSUME CacheInv, CacheInv', NEW p \in Reader, NEW r, Turn(p, r),
           reader[p] \in Reading, r \in Reading, r.view = reader[p].view,
           r.floor = reader[p].floor, reader[p].at # "served", r.at = "served"
    PROVE  Promise!Next
<1>1. reader' = [reader EXCEPT ![p] = r] /\ UNCHANGED <<fact, done>> /\ TypeOK
  BY DEF Turn, CacheInv, Base
<1>2. \A q \in Reader : reader'[q] = IF q = p THEN r ELSE reader[q]
  BY <1>1 DEF TypeOK
<1>3. reader[p] # Nobody /\ r # Nobody /\ r.seen \in Count /\ r.seen # Nobody
  BY NobodyAssumption DEF Reading
<1>4. Query[p] = [view |-> reader[p].view, floor |-> reader[p].floor, answer |-> Nobody]
  BY <1>3 DEF Query
<1>5. Query'[p] = [view |-> reader[p].view, floor |-> reader[p].floor, answer |-> r.seen]
  BY <1>2, <1>3 DEF Query
<1>6. Query[p] # Nobody /\ Query'[p] # Nobody
  BY <1>3, <1>4, <1>5, NobodyAssumption DEF Reading
<1>7. Query' = [Query EXCEPT ![p] = [Query[p] EXCEPT !.answer = r.seen]]
  <2>1. \A q \in Reader \ {p} : Query'[q] = Query[q]
    BY <1>2 DEF Query
  <2>2. [Query[p] EXCEPT !.answer = r.seen] = Query'[p]
    BY <1>4, <1>5
  <2>3. Query = [q \in Reader |-> Query[q]] /\ Query' = [q \in Reader |-> Query'[q]]
    BY DEF Query
  <2> QED
    BY <2>1, <2>2, <2>3
<1>8. \A f \in FactsOf[reader[p].view] : reader[p].floor[f] <= r.seen[f] /\ r.seen[f] <= fact[f]
  <2>1. reader'[p] = r /\ UNCHANGED fact
    BY <1>1, <1>2
  <2>2. InFlight(r)' /\ Fresh' /\ TypeOK'
    BY <1>3, <2>1 DEF CacheInv, Base, Shape
  <2>3. \A f \in FactsOf[r.view] : r.floor[f] <= r.seen[f]
    BY <1>3, <2>1, <2>2 DEF Fresh, Reads
  <2>4. FactsOf[r.view] \subseteq Fact
    BY TableAssumption DEF Reading
  <2> QED
    BY <2>1, <2>2, <2>3, <2>4 DEF InFlight
<1>9. Promise!Answer(p)
  BY <1>1, <1>3, <1>4, <1>5, <1>6, <1>7, <1>8 DEF Promise!Answer, Query
<1> QED
  BY <1>9 DEF Promise!Next

\* Every step of a reader maps to a step of FreshViews or changes nothing of it.
LEMMA ReaderImplements ==
    ASSUME CacheInv, CacheInv', NEW p \in Reader, ReaderStep(p)
    PROVE  Promise!Next \/ UNCHANGED <<fact, done, Query>>
<1>1. TypeOK
  BY DEF CacheInv, Base
<1>2. CASE Ask(p)
  <2>1. PICK v \in View :
           /\ reader[p] = Nobody
           /\ Turn(p, [at |-> "read", view |-> v, floor |-> done, got |-> {},
                       vers |-> NoVersion, have |-> {}, seen |-> None])
    BY <1>2 DEF Ask
  <2>2. PICK r \in Reading : r = [at |-> "read", view |-> v, floor |-> done, got |-> {},
                                  vers |-> NoVersion, have |-> {}, seen |-> None]
    BY <1>1 DEF TypeOK, Reading, NoVersion, None
  <2>3. \A q \in Reader : reader'[q] = IF q = p THEN r ELSE reader[q]
    BY <1>1, <2>1, <2>2 DEF Turn, TypeOK
  <2>4. Query'[p] = [view |-> v, floor |-> done, answer |-> Nobody]
    BY <2>2, <2>3, NobodyAssumption DEF Query
  <2>5. Query = [q \in Reader |-> Query[q]] /\ Query' = [q \in Reader |-> Query'[q]]
    BY DEF Query
  <2>6. \A q \in Reader \ {p} : Query'[q] = Query[q]
    BY <2>3 DEF Query
  <2>7. Query[p] = Nobody
    BY <2>1 DEF Query
  <2>8. Query' = [Query EXCEPT ![p] = [view |-> v, floor |-> done, answer |-> Nobody]]
    BY <2>4, <2>5, <2>6
  <2>9. UNCHANGED <<fact, done>>
    BY <2>1 DEF Turn
  <2>10. Promise!Ask(p, v)
    BY <2>7, <2>8, <2>9 DEF Promise!Ask, Query
  <2> QED
    BY <2>10 DEF Promise!Next
<1>3. CASE ReadVersion(p)
  <2>1. reader[p] \in Reading /\ reader[p] # Nobody /\ reader[p].at = "read"
    BY <1>1, <1>3 DEF ReadVersion, Reads, TypeOK
  <2>2. PICK k \in KeysOf[reader[p].view] :
           Turn(p, [reader[p] EXCEPT !.got = reader[p].got \cup {k},
                                     !.vers = [reader[p].vers EXCEPT ![k] = ver[k]]])
    BY <1>3 DEF ReadVersion
  <2>3. k \in Key
    BY <2>1, <2>2, TableAssumption DEF Reading
  <2>4. PICK r \in Reading :
           r = [reader[p] EXCEPT !.got = reader[p].got \cup {k},
                                 !.vers = [reader[p].vers EXCEPT ![k] = ver[k]]]
    BY <1>1, <2>1, <2>3 DEF Reading, TypeOK
  <2>5. r # Nobody /\ r.at = "read" /\ r.view = reader[p].view /\ r.floor = reader[p].floor
    BY <2>1, <2>4, NobodyAssumption DEF Reading
  <2> QED
    BY <1>1, <2>1, <2>2, <2>4, <2>5, SameQuery
<1>4. CASE ReadFact(p)
  <2>1. reader[p] \in Reading /\ reader[p] # Nobody /\ reader[p].at # "served"
    BY <1>1, <1>4 DEF ReadFact, Reads, TypeOK
  <2>2. PICK f \in FactsOf[reader[p].view] :
           Turn(p, [reader[p] EXCEPT !.have = reader[p].have \cup {f},
                                     !.seen = [reader[p].seen EXCEPT ![f] = fact[f]]])
    BY <1>4 DEF ReadFact
  <2>3. f \in Fact
    BY <2>1, <2>2, TableAssumption DEF Reading
  <2>4. PICK r \in Reading :
           r = [reader[p] EXCEPT !.have = reader[p].have \cup {f},
                                 !.seen = [reader[p].seen EXCEPT ![f] = fact[f]]]
    BY <1>1, <2>1, <2>3 DEF Reading, TypeOK
  <2>5. r # Nobody /\ r.at # "served" /\ r.view = reader[p].view /\ r.floor = reader[p].floor
    BY <2>1, <2>4, NobodyAssumption DEF Reading
  <2> QED
    BY <1>1, <2>1, <2>2, <2>4, <2>5, SameQuery
<1>5. CASE LoadMiss(p)
  <2>1. reader[p] \in Reading /\ reader[p] # Nobody /\ reader[p].at = "read"
    BY <1>1, <1>5 DEF LoadMiss, Ready, Reads, TypeOK
  <2>2. PICK r \in Reading : r = [reader[p] EXCEPT !.at = "fill"]
    BY <2>1 DEF Reading
  <2>3. r # Nobody /\ r.at = "fill" /\ r.view = reader[p].view /\ r.floor = reader[p].floor
    BY <2>1, <2>2, NobodyAssumption DEF Reading
  <2>4. Turn(p, r)
    BY <1>5, <2>2 DEF LoadMiss
  <2> QED
    BY <1>1, <2>1, <2>3, <2>4, SameQuery
<1>6. CASE LoadHit(p)
  <2>1. reader[p] \in Reading /\ reader[p].at = "read"
    BY <1>1, <1>6 DEF LoadHit, Ready, Reads, TypeOK
  <2>2. PICK e \in entries : Turn(p, [reader[p] EXCEPT !.at = "served", !.seen = e.seen])
    BY <1>6 DEF LoadHit
  <2>3. PICK r \in Reading : r = [reader[p] EXCEPT !.at = "served", !.seen = e.seen]
    BY <1>1, <2>1, <2>2 DEF Reading, TypeOK
  <2>4. r.at = "served" /\ r.view = reader[p].view /\ r.floor = reader[p].floor
    BY <2>1, <2>3 DEF Reading
  <2> QED
    BY <2>1, <2>2, <2>3, <2>4, Answers
<1>7. CASE Store(p)
  <2>1. reader[p] \in Reading /\ reader[p].at = "fill"
    BY <1>1, <1>7 DEF Store, Reads, TypeOK
  <2>2. PICK r \in Reading : r = [reader[p] EXCEPT !.at = "served"]
    BY <2>1 DEF Reading
  <2>3. r.at = "served" /\ r.view = reader[p].view /\ r.floor = reader[p].floor
    BY <2>1, <2>2 DEF Reading
  <2>4. Turn(p, r)
    BY <1>7, <2>2 DEF Store
  <2> QED
    BY <2>1, <2>3, <2>4, Answers
<1>8. CASE Leave(p)
  <2>1. reader' = [reader EXCEPT ![p] = Nobody] /\ UNCHANGED <<fact, done>>
    BY <1>8 DEF Leave, Turn
  <2>2. \A q \in Reader : reader'[q] = IF q = p THEN Nobody ELSE reader[q]
    BY <1>1, <2>1 DEF TypeOK
  <2>3. Query' = [Query EXCEPT ![p] = Nobody]
    BY <2>2 DEF Query
  <2>4. Promise!Leave(p)
    BY <2>1, <2>3 DEF Promise!Leave, Query
  <2> QED
    BY <2>4 DEF Promise!Next
<1> QED
  BY <1>2, <1>3, <1>4, <1>5, <1>6, <1>7, <1>8 DEF ReaderStep

\* So does every step of a writer.
LEMMA WriterImplements ==
    ASSUME CacheInv, CacheInv', NEW p \in Writer, WriterStep(p)
    PROVE  Promise!Next \/ UNCHANGED <<fact, done, Query>>
<1>1. TypeOK /\ TypeOK' /\ Base
  BY DEF CacheInv, Base
<1>2. Query' = Query
  <2>1. reader' = reader
    BY DEF WriterStep, Begin, BumpEarly, Commit, BumpLate, Complete, Abort, Step
  <2> QED
    BY <2>1 DEF Query
<1>3. CASE Commit(p)
  <2>1. PICK f \in writer[p].todo : fact' = [fact EXCEPT ![f] = fact[f] + 1]
    BY <1>3 DEF Commit
  <2>2. f \in Fact /\ done' = done
    BY <1>1, <1>3, <2>1 DEF Commit, TypeOK, Writing
  <2>3. Promise!Write(f)
    BY <1>2, <2>1, <2>2 DEF Promise!Write, Query
  <2> QED
    BY <2>2, <2>3 DEF Promise!Next
<1>4. CASE Complete(p)
  <2>1. writer[p] \in Writing /\ Underway(writer[p]) /\ writer[p].mine \in Count
    BY <1>1, <1>4 DEF Complete, Base, Shape, TypeOK, Writing
  <2>2. \A f \in Fact : done[f] <= done'[f] /\ done'[f] <= fact[f]
    BY <1>1, <1>4, <2>1 DEF Complete, Underway, Base, Shape, TypeOK
  <2>3. done' \in [Fact -> Nat] /\ fact' = fact
    BY <1>1, <1>4 DEF Complete, TypeOK
  <2>4. Promise!Acknowledge
    BY <1>2, <2>2, <2>3 DEF Promise!Acknowledge, Query
  <2> QED
    BY <2>4 DEF Promise!Next
<1>5. CASE Begin(p) \/ BumpEarly(p) \/ BumpLate(p) \/ Abort(p)
  BY <1>2, <1>5 DEF Begin, BumpEarly, BumpLate, Abort
<1> QED
  BY <1>3, <1>4, <1>5 DEF WriterStep

\* The cache keeps the promise of FreshViews, for every covered table, any number
\* of readers and writers and any bounds.
THEOREM CacheKeepsPromise == ASSUME Covered PROVE Spec => KeepsPromise
<1>1. Init => Promise!Init
  BY DEF Init, None, Promise!Init
<1>2. CacheInv /\ CacheInv' /\ [Next]_vars => [Promise!Next]_(Promise!vars)
  <2> SUFFICES ASSUME CacheInv, CacheInv', [Next]_vars
               PROVE  Promise!Next \/ UNCHANGED <<fact, done, Query>>
    BY DEF Promise!vars, Query
  <2>1. CASE EntryExpires \/ UNCHANGED vars
    BY <2>1 DEF EntryExpires, vars, Query
  <2> QED
    BY <2>1, ReaderImplements, WriterImplements DEF Next
<1> QED
  BY <1>1, <1>2, CacheInvariant, PTL DEF Spec, KeepsPromise, Promise!Spec
=============================================================================
