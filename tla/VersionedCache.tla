--------------------------- MODULE VersionedCache ---------------------------
(***************************************************************************)
(* The cache of the use cases.  Redis holds version counters and, under a  *)
(* key made of a view's name and the versions it depends on, the view as   *)
(* some reader built it.  A reader reads the versions, looks up the key    *)
(* and, when nothing is there, reads the database and stores the result.   *)
(* A writer changes the database and then increments versions ("bumps"),   *)
(* which leaves the old entries behind under keys nobody asks for again.   *)
(*                                                                         *)
(* The module is about the protocol; which view reads what, in which       *)
(* order, and which handler writes what under which version is a table of  *)
(* constants, given by CachedViews.  What a view shows of a fact is the    *)
(* number of writes to it that the reader's SELECT saw.                    *)
(*                                                                         *)
(* Versions never go back: their keys live for 7 days, entries for one     *)
(* minute, so no entry outlives the counter it is named after.             *)
(***************************************************************************)
EXTENDS Naturals, FiniteSets

CONSTANTS
    View, Fact, Key, Op,
    KeysOf,     \* KeysOf[v]: the versions in the cache key of v
    FactsOf,    \* FactsOf[v]: the facts v shows
    Before,     \* Before[v][f]: the versions read before f is
    Writes,     \* Writes[o]: the facts the handler o writes
    Early,      \* Early[o]: the versions it bumps before writing
    Late,       \* Late[o]: the versions it bumps after writing
    Reader, Writer, Nobody,
    MaxWrites, MaxVersion, MaxEntries \* bounds: writes, bumps, entries kept

Count == [Fact -> Nat]
Versions == [Key -> Nat]

Reading == [at: {"read", "fill", "served"}, view: View, floor: Count,
            got: SUBSET Key, vers: Versions, have: SUBSET Fact, seen: Count]
Writing == [op: Op, early: SUBSET Key, todo: SUBSET Fact, mine: Count,
            late: SUBSET Key]

ASSUME TableAssumption ==
    /\ \A v \in View :
          /\ KeysOf[v] \subseteq Key /\ FactsOf[v] \subseteq Fact
          /\ \A f \in Fact : Before[v][f] \subseteq KeysOf[v]
    /\ \A o \in Op :
          Writes[o] \subseteq Fact /\ Early[o] \subseteq Key /\ Late[o] \subseteq Key
ASSUME NobodyAssumption ==
    /\ Nobody \notin Reading /\ Nobody \notin Writing /\ Nobody \notin Count
    /\ Nobody \notin [view: View, floor: Count, answer: Count \cup {Nobody}]

\* The condition on the table that makes the protocol work: whatever a handler
\* writes, it afterwards bumps a version that every view showing it has read
\* before reading it.
Covers(o, f, v) == f \in Writes[o] /\ f \in FactsOf[v] => Late[o] \cap Before[v][f] # {}
Covered == \A o \in Op, f \in Fact, v \in View : Covers(o, f, v)

VARIABLES
    fact,    \* fact[f]: the writes committed to f
    done,    \* done[f]: those whose handler has returned success, or older
    ver,     \* ver[k]: the version counter k
    entries, \* the views in the cache
    reader,  \* reader[p]: the request for a view in progress, or Nobody
    writer   \* writer[p]: the writing request in progress, or Nobody

vars == <<fact, done, ver, entries, reader, writer>>

None == [f \in Fact |-> 0]
NoVersion == [k \in Key |-> 0]

\* Every variable stays in its type.
TypeOK ==
    /\ fact \in Count /\ done \in Count
    /\ ver \in Versions
    /\ entries \subseteq [view: View, vers: Versions, seen: Count]
    /\ reader \in [Reader -> Reading \cup {Nobody}]
    /\ writer \in [Writer -> Writing \cup {Nobody}]

Init ==
    /\ fact = None /\ done = None
    /\ ver = NoVersion
    /\ entries = {}
    /\ reader = [p \in Reader |-> Nobody]
    /\ writer = [p \in Writer |-> Nobody]

-----------------------------------------------------------------------------
\* Readers.

Turn(p, r) == reader' = [reader EXCEPT ![p] = r] /\ UNCHANGED <<fact, done, ver, writer>>

\* What v reads before it looks into the cache.
EarlyFacts(v) == {f \in FactsOf[v] : Before[v][f] # KeysOf[v]}

Ask(p) ==
    /\ reader[p] = Nobody
    /\ \E v \in View :
          Turn(p, [at |-> "read", view |-> v, floor |-> done, got |-> {},
                   vers |-> NoVersion, have |-> {}, seen |-> None])
    /\ UNCHANGED entries

Reads(p, stage) == reader[p] # Nobody /\ reader[p].at = stage

\* A bug: a counter that is not there yet is not read as 0.  (The bugs defined in
\* this module are what the runs put in the place of the definition after them.)
ReadVersionMissing(p) ==
    /\ Reads(p, "read")
    /\ LET r == reader[p] IN
       \E k \in KeysOf[r.view] \ r.got :
          /\ \A f \in FactsOf[r.view] \ r.have : k \in Before[r.view][f]
          /\ Turn(p, [r EXCEPT !.got = r.got \cup {k}, !.vers = [r.vers EXCEPT ![k] = ver[k] - 1]])
    /\ UNCHANGED entries

ReadVersion(p) ==
    /\ Reads(p, "read")
    /\ LET r == reader[p] IN
       \E k \in KeysOf[r.view] \ r.got :
          /\ \A f \in FactsOf[r.view] \ r.have : k \in Before[r.view][f]
          /\ Turn(p, [r EXCEPT !.got = r.got \cup {k}, !.vers = [r.vers EXCEPT ![k] = ver[k]]])
    /\ UNCHANGED entries

ReadFact(p) ==
    /\ Reads(p, "read") \/ Reads(p, "fill")
    /\ LET r == reader[p] IN
       \E f \in FactsOf[r.view] \ r.have :
          /\ IF f \in EarlyFacts(r.view)
             THEN r.at = "read" /\ Before[r.view][f] \subseteq r.got
             ELSE r.at = "fill"
          /\ Turn(p, [r EXCEPT !.have = r.have \cup {f}, !.seen = [r.seen EXCEPT ![f] = fact[f]]])
    /\ UNCHANGED entries

Ready(p) ==
    /\ Reads(p, "read")
    /\ reader[p].got = KeysOf[reader[p].view]
    /\ EarlyFacts(reader[p].view) \subseteq reader[p].have

\* A bug: the cache key has no versions in it.
LoadUnversioned(p) ==
    /\ Ready(p)
    /\ \E e \in entries :
          /\ e.view = reader[p].view
          /\ Turn(p, [reader[p] EXCEPT !.at = "served", !.seen = e.seen])
    /\ UNCHANGED entries

LoadHit(p) ==
    /\ Ready(p)
    /\ \E e \in entries :
          /\ e.view = reader[p].view /\ e.vers = reader[p].vers
          /\ Turn(p, [reader[p] EXCEPT !.at = "served", !.seen = e.seen])
    /\ UNCHANGED entries

\* Nothing there, or Redis does not answer.
LoadMiss(p) ==
    /\ Ready(p)
    /\ Turn(p, [reader[p] EXCEPT !.at = "fill"])
    /\ UNCHANGED entries

\* The view is complete: it is the answer, and SET replaces the entry of the
\* same name.  An error of SET is ignored.
Store(p) ==
    /\ Reads(p, "fill")
    /\ LET r == reader[p]
           rest == {e \in entries : e.view # r.view \/ e.vers # r.vers}
       IN /\ r.have = FactsOf[r.view]
          /\ Turn(p, [r EXCEPT !.at = "served"])
          /\ \/ UNCHANGED entries
             \/ /\ Cardinality(rest) < MaxEntries
                /\ entries' = rest \cup {[view |-> r.view, vers |-> r.vers, seen |-> r.seen]}

\* The answer is sent, or the request fails at any point.
Leave(p) ==
    /\ reader[p] # Nobody
    /\ Turn(p, Nobody)
    /\ UNCHANGED entries

EntryExpires ==
    /\ \E e \in entries : entries' = entries \ {e}
    /\ UNCHANGED <<fact, done, ver, reader, writer>>

-----------------------------------------------------------------------------
\* Writers.

Step(p, w) == writer' = [writer EXCEPT ![p] = w] /\ UNCHANGED <<entries, reader>>

Begin(p) ==
    /\ writer[p] = Nobody
    /\ \E o \in Op : Step(p, [op |-> o, early |-> Early[o], todo |-> Writes[o],
                              mine |-> None, late |-> Late[o]])
    /\ UNCHANGED <<fact, done, ver>>

BumpEarly(p) ==
    /\ writer[p] # Nobody
    /\ \E k \in writer[p].early :
          /\ ver[k] < MaxVersion
          /\ ver' = [ver EXCEPT ![k] = ver[k] + 1]
          /\ Step(p, [writer[p] EXCEPT !.early = writer[p].early \ {k}])
    /\ UNCHANGED <<fact, done>>

Commit(p) ==
    /\ writer[p] # Nobody /\ writer[p].early = {}
    /\ LET w == writer[p] IN
       \E f \in w.todo :
          /\ fact[f] < MaxWrites
          /\ fact' = [fact EXCEPT ![f] = fact[f] + 1]
          /\ Step(p, [w EXCEPT !.todo = w.todo \ {f}, !.mine = [w.mine EXCEPT ![f] = fact[f] + 1]])
    /\ UNCHANGED <<done, ver>>

\* A bug: versions are bumped before the writes are committed.
BumpTooSoon(p) ==
    /\ writer[p] # Nobody /\ writer[p].early = {}
    /\ \E k \in writer[p].late :
          /\ ver[k] < MaxVersion
          /\ ver' = [ver EXCEPT ![k] = ver[k] + 1]
          /\ Step(p, [writer[p] EXCEPT !.late = writer[p].late \ {k}])
    /\ UNCHANGED <<fact, done>>

BumpLate(p) ==
    /\ writer[p] # Nobody /\ writer[p].early = {} /\ writer[p].todo = {}
    /\ \E k \in writer[p].late :
          /\ ver[k] < MaxVersion
          /\ ver' = [ver EXCEPT ![k] = ver[k] + 1]
          /\ Step(p, [writer[p] EXCEPT !.late = writer[p].late \ {k}])
    /\ UNCHANGED <<fact, done>>

\* The handler returns success: its writes, and the older ones they replace,
\* are what later readers may expect to see.
Complete(p) ==
    /\ writer[p] # Nobody
    /\ writer[p].early = {} /\ writer[p].todo = {} /\ writer[p].late = {}
    /\ done' = [f \in Fact |-> IF writer[p].mine[f] > done[f] THEN writer[p].mine[f] ELSE done[f]]
    /\ Step(p, Nobody)
    /\ UNCHANGED <<fact, ver>>

\* The handler returns an error, or the server stops, between any two steps.
Abort(p) ==
    /\ writer[p] # Nobody
    /\ Step(p, Nobody)
    /\ UNCHANGED <<fact, done, ver>>

ReaderStep(p) ==
    Ask(p) \/ ReadVersion(p) \/ ReadFact(p) \/ LoadHit(p) \/ LoadMiss(p) \/ Store(p) \/ Leave(p)
WriterStep(p) ==
    Begin(p) \/ BumpEarly(p) \/ Commit(p) \/ BumpLate(p) \/ Complete(p) \/ Abort(p)

Next ==
    \/ \E p \in Reader : ReaderStep(p)
    \/ \E p \in Writer : WriterStep(p)
    \/ EntryExpires

Spec == Init /\ [][Next]_vars

-----------------------------------------------------------------------------
\* An answer shows every write whose handler had returned when the view was
\* asked for, wherever the answer comes from.
Fresh ==
    \A p \in Reader : Reads(p, "served") =>
        \A f \in FactsOf[reader[p].view] : reader[p].floor[f] <= reader[p].seen[f]

\* The entry a reader would find now is no older than the writes completed now:
\* every handler that returns has put the entries it made stale out of reach.
NoStaleEntry ==
    \A e \in entries :
        (\A k \in KeysOf[e.view] : e.vers[k] = ver[k])
        => \A f \in FactsOf[e.view] : done[f] <= e.seen[f]

\* The protocol keeps the promise of FreshViews.
Promise == INSTANCE FreshViews WITH
    written <- fact,
    acked <- done,
    query <- [p \in Reader |->
                IF reader[p] = Nobody THEN Nobody
                ELSE [view |-> reader[p].view, floor |-> reader[p].floor,
                      answer |-> IF reader[p].at = "served" THEN reader[p].seen ELSE Nobody]]

KeepsPromise == Promise!Spec
=============================================================================
