----------------------------- MODULE CompareCache ---------------------------
(***************************************************************************)
(* The cache of table pages behind the row comparison views                *)
(* (renderer/components/diff/table-compare-data-cache.ts): one read per    *)
(* page at a time, shared by those who ask for it; results kept in the     *)
(* order of their last use up to a limit; and the cancellation of all that *)
(* a view, its scope, has asked for.  Every result counts as one byte.     *)
(***************************************************************************)
EXTENDS Naturals, FiniteSets

CONSTANTS Scopes,    \* the open views
          Pages,     \* what one may ask for: a table, page, page size and reload token
          MaxCached, \* 96 results or 32 MiB in the code
          MaxReads,  \* bound on reads
          MaxWrites  \* bound on changes to the tables

VARIABLES
  cached,        \* comparedTableDataCache: key -> its rows and its place, the oldest first
  cachedBytes,   \* what the results held take by its own account
  pending,       \* pendingComparedTableRequests: key -> the read asked for it
  operations,    \* operations: read -> its scope, what it carries
  scopeVersions, \* scopeVersions
  written,       \* how often the tables have changed
  cancelledAt    \* history: what was written when a scope was last cancelled

cacheVars == <<cached, cachedBytes, pending, operations, scopeVersions, written, cancelledAt>>

QueryKey(scope, page) == <<scope, page>>
Key == Scopes \X Pages
ScopeOf(key) == key[1]

CacheInit ==
  /\ cached = [k \in {} |-> 0] /\ cachedBytes = 0 /\ pending = [k \in {} |-> 0] /\ operations = [id \in {} |-> 0]
  /\ scopeVersions = [s \in Scopes |-> 0] /\ written = 0
  /\ cancelledAt = [s \in Scopes |-> 0]

Without(f, k) == [x \in DOMAIN f \ {k} |-> f[x]]
With(f, k, v) == [x \in DOMAIN f \cup {k} |-> IF x = k THEN v ELSE f[x]]
\* The places are those of the order of last use, from 1.
Placed(f) ==
  [k \in DOMAIN f |->
     [f[k] EXCEPT !.place = Cardinality({o \in DOMAIN f : f[o].place <= f[k].place})]]
Newest == Cardinality(DOMAIN cached) + 1
Oldest(f) == CHOOSE k \in DOMAIN f : \A o \in DOMAIN f : f[k].place <= f[o].place

\* A result that is there moves to the end; a read on its way is joined; else the
\* scope's version is noted and a read begins.
Fetch(key) ==
  /\ UNCHANGED <<cachedBytes, scopeVersions, written, cancelledAt>>
  /\ \/ /\ key \in DOMAIN cached
        /\ cached' = Placed([cached EXCEPT ![key].place = Newest])
        /\ UNCHANGED <<pending, operations>>
     \/ /\ key \in DOMAIN pending \ DOMAIN cached
        /\ UNCHANGED <<cached, pending, operations>>
     \/ /\ key \notin DOMAIN pending \cup DOMAIN cached /\ Cardinality(DOMAIN operations) < MaxReads
        /\ \E id \in 1..MaxReads :
             /\ id \notin DOMAIN operations
             /\ operations' = With(operations, id,
                                [key |-> key, version |-> scopeVersions[ScopeOf(key)],
                                 cancelled |-> FALSE, rows |-> {}])
             /\ pending' = With(pending, key, id)
        /\ UNCHANGED cached

\* The backend reads the table as it is at that moment.
ReadRows(id) ==
  /\ operations[id].rows = {}
  /\ operations' = [operations EXCEPT ![id].rows = {written}]
  /\ UNCHANGED <<cached, cachedBytes, pending, scopeVersions, written, cancelledAt>>

\* A result is added, or put in the place of one that is there, and the bytes are counted;
\* trimComparedTableDataCache then drops the oldest if that is too much.
Added(key, rows) ==
  With(cached, key,
       [rows |-> rows, place |-> IF key \in DOMAIN cached THEN cached[key].place ELSE Newest])
Keep(key, rows) ==
  IF cachedBytes + 1 > MaxCached
  THEN /\ cached' = Placed(Without(Added(key, rows), Oldest(Added(key, rows))))
       /\ UNCHANGED cachedBytes
  ELSE cached' = Added(key, rows) /\ cachedBytes' = cachedBytes + 1

\* The answer arrives, or an error: a cancelled read throws either way.
Accepted(op) == ~op.cancelled /\ op.version = scopeVersions[ScopeOf(op.key)]
Arrive(id, ok) ==
  LET op == operations[id]
  IN  /\ op.rows # {} \/ ~ok
      /\ operations' = Without(operations, id)
      /\ IF ok /\ Accepted(op) THEN Keep(op.key, op.rows) ELSE UNCHANGED <<cached, cachedBytes>>
      /\ pending' = IF op.key \in DOMAIN pending /\ pending[op.key] = id
                    THEN Without(pending, op.key) ELSE pending
      /\ UNCHANGED <<scopeVersions, written, cancelledAt>>

\* cancelComparedTableCacheScope: before each new load of a view, and when it closes.
DropPending(scope) == [k \in {x \in DOMAIN pending : ScopeOf(x) # scope} |-> pending[k]]
CancelScope(scope) ==
  /\ scopeVersions[scope] < MaxWrites
  /\ operations' = [id \in DOMAIN operations |->
       IF ScopeOf(operations[id].key) = scope THEN [operations[id] EXCEPT !.cancelled = TRUE]
       ELSE operations[id]]
  /\ pending' = DropPending(scope)
  /\ scopeVersions' = [scopeVersions EXCEPT ![scope] = @ + 1]
  /\ cached' = Placed([k \in {x \in DOMAIN cached : ScopeOf(x) # scope} |-> cached[k]])
  /\ cachedBytes' = cachedBytes - Cardinality({k \in DOMAIN cached : ScopeOf(k) = scope})
  /\ cancelledAt' = [cancelledAt EXCEPT ![scope] = written]
  /\ UNCHANGED written

TablesChange ==
  /\ written < MaxWrites /\ written' = written + 1
  /\ UNCHANGED <<cached, cachedBytes, pending, operations, scopeVersions, cancelledAt>>

CacheNext ==
  \/ \E key \in Key : Fetch(key)
  \/ \E id \in DOMAIN operations : ReadRows(id) \/ Arrive(id, TRUE) \/ Arrive(id, FALSE)
  \/ \E s \in Scopes : CancelScope(s)
  \/ TablesChange
CacheSpec == CacheInit /\ [][CacheNext]_cacheVars

-----------------------------------------------------------------------------
\* What a view finds in the cache was read since it last cancelled its reads, and the reads
\* it can still join are not cancelled; the cache keeps to its limit, and counts what it
\* holds and nothing twice, although the count is kept apart and a page that is read again
\* after a cancellation may be answered twice (table-compare-data-cache.ts:20, 36, 96, 108).
CacheFollowsCancels ==
  /\ \A k \in DOMAIN cached : \A n \in cached[k].rows : n >= cancelledAt[ScopeOf(k)]
  /\ \A k \in DOMAIN pending : pending[k] \in DOMAIN operations /\ ~operations[pending[k]].cancelled
  /\ cachedBytes = Cardinality(DOMAIN cached) /\ cachedBytes <= MaxCached
=============================================================================
