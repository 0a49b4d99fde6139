------------------------------ MODULE QueryCache ------------------------------
(***************************************************************************)
(* The caches of cache.go and their use by InsertRowStruct,                *)
(* UpsertRowStruct, UpdateRowStruct, DeleteRowStruct and QueryRowStruct.   *)
(* Goroutines look up, build, store and execute in separate steps, each    *)
(* cache has its own lock.  One struct type with one reflector is used; a  *)
(* conn stands for its query builder and formatter, which are the rest of  *)
(* the cache key.  The reflector is only changed while no call runs, and   *)
(* its caches are cleared before the next one.                             *)
(***************************************************************************)
EXTENDS Integers, FiniteSets, Selections

CONSTANTS
  Goroutines,
  Layouts,    \* configuration of the reflector -> the mapped fields of the struct:
              \* a sequence of [name, pk, readOnly, wrapped]
  Uses        \* the sets of <<kind, conn>> an application uses

Kinds == {"insert", "upsert", "update", "delete", "queryRow"}

ASSUME CacheAssumption ==
  /\ \A uses \in Uses : \A use \in uses : use[1] \in Kinds /\ use = <<use[1], use[2]>>
  /\ \A c \in DOMAIN Layouts :
       /\ Len(Layouts[c]) \in Nat /\ DOMAIN Layouts[c] = 1..Len(Layouts[c])
       /\ \A i \in DOMAIN Layouts[c] :
            Layouts[c][i].pk \in BOOLEAN /\ Layouts[c][i].readOnly \in BOOLEAN
              /\ Layouts[c][i].wrapped \in BOOLEAN

VARIABLES
  uses,       \* what this application uses
  config,     \* the configuration of the reflector
  reflected,  \* reflectedStructCache: its fields, or none
  queries,    \* <<kind, conn>> -> the entry of the kind's cache
  clearing,   \* the caches ClearQueryCaches has not cleared yet
  quiet,      \* no call starts until it has
  call        \* goroutine -> its call

cacheVars == <<uses, config, reflected, queries, clearing, quiet, call>>

NoLayout == <<>>
NoEntry == [query |-> <<>>, indices |-> <<>>]
NoCall == [pc |-> "idle", kind |-> "insert", conn |-> 0, ignored |-> {}, given |-> 0,
           layout |-> NoLayout, entry |-> NoEntry, vals |-> <<>>]

(* ClearQueryCaches clears the caches in this order. *)
Caches == <<"reflected", "insert", "upsert", "delete", "update", "queryRow">>

-------------------------------------------------------------------------------
(* Columns of a call: indices of the fields its options and its kind leave. *)
Mapped(layout, kind, ignored) ==
  LET included == IF kind \in {"delete", "queryRow"} THEN {i \in DOMAIN layout : layout[i].pk}
                  ELSE {i \in DOMAIN layout : ~layout[i].readOnly /\ layout[i].name \notin ignored}
  IN Selected([i \in 1..Len(layout) |-> i], included)

PrimaryKeys(layout) == {i \in DOMAIN layout : layout[i].pk}

(* Mutant of Reordered: the order of the struct's fields. *)
ReorderedNot(layout, kind, indices) == indices

(* reorderForUpdate: non-PK first, then PK. *)
Reordered(layout, kind, indices) ==
  IF kind = "update"
  THEN Selected(indices, DOMAIN layout \ PrimaryKeys(layout)) \o Selected(indices, PrimaryKeys(layout))
  ELSE indices

FieldNames(layout, indices) == [i \in 1..Len(indices) |-> layout[indices[i]].name]

(* The query of the builder: the column of each placeholder.  UpdateColumns *)
(* numbers the SET columns first, then those of WHERE.                      *)
BuiltQuery(layout, kind, conn, indices) ==
  LET set == Selected(indices, DOMAIN layout \ PrimaryKeys(layout))
      where == Selected(indices, PrimaryKeys(layout))
  IN <<kind, conn, IF kind = "update" THEN FieldNames(layout, set) \o FieldNames(layout, where)
                   ELSE FieldNames(layout, indices)>>

(* No duplicate column, a primary key and another column where the builder  *)
(* needs them, and as many key values as key columns.                       *)
Buildable(layout, kind, ignored, given) ==
  LET indices == Mapped(layout, kind, ignored)
      keys == {i \in 1..Len(indices) : layout[indices[i]].pk}
  IN /\ \A i, j \in 1..Len(layout) : layout[i].name = layout[j].name => i = j
     /\ kind # "insert" => keys # {}
     /\ kind \in {"update", "upsert"} => Cardinality(keys) < Len(indices)
     /\ kind = "queryRow" => given = Len(indices)

(* Values by reflection, wrapped by the type wrappers of the reflector.     *)
WrappedVals(layout, indices) == [i \in 1..Len(indices) |-> <<indices[i], layout[indices[i]].wrapped>>]

(* Values by the field indices of a cache entry. *)
PlainVals(indices) == [i \in 1..Len(indices) |-> <<indices[i], FALSE>>]

CacheInit ==
  /\ uses \in Uses
  /\ config \in DOMAIN Layouts
  /\ reflected = NoLayout
  /\ queries = [use \in uses |-> NoEntry]
  /\ clearing = <<>> /\ quiet = FALSE
  /\ call = [g \in Goroutines |-> NoCall]

Use(c) == <<c.kind, c.conn>>
NoOptions(c) == c.ignored = {}

-------------------------------------------------------------------------------
CallRowStruct(g, use, ignored, given) ==
  /\ call[g].pc = "idle" /\ ~quiet
  /\ ignored # {} => use[1] \notin {"delete", "queryRow"}
  /\ given > 0 <=> use[1] = "queryRow"
  /\ call' = [call EXCEPT ![g] = [NoCall EXCEPT !.pc = "lookup", !.kind = use[1], !.conn = use[2],
                                                !.ignored = ignored, !.given = given]]
  /\ UNCHANGED <<uses, config, reflected, queries, clearing, quiet>>

(* Mutant of UsesCache: options are ignored by the lookup and the store. *)
UsesCacheAlways(c) == TRUE

(* useCache: options are not part of the key, so they disable the cache. *)
UsesCache(c) == NoOptions(c)

(* Mutant of Hit: the number of key values is not looked at. *)
HitUnchecked(c, entry) == [c EXCEPT !.pc = "exec", !.entry = entry, !.vals = PlainVals(entry.indices)]

(* A query built before: a wrong number of key values is refused, values    *)
(* come from the fields of the entry, key values from the caller.           *)
Hit(c, entry) ==
  IF c.kind = "queryRow" /\ Len(entry.indices) # c.given
  THEN [c EXCEPT !.pc = "failed"]
  ELSE [c EXCEPT !.pc = "exec", !.entry = entry, !.vals = PlainVals(entry.indices)]

Lookup(g) ==
  /\ call[g].pc = "lookup"
  /\ LET entry == queries[Use(call[g])]
     IN call' = [call EXCEPT ![g] = IF UsesCache(@) /\ entry # NoEntry THEN Hit(@, entry)
                                    ELSE [@ EXCEPT !.pc = "reflect"]]
  /\ UNCHANGED <<uses, config, reflected, queries, clearing, quiet>>

(* reflectStruct under the read lock. *)
LookupReflected(g) ==
  /\ call[g].pc = "reflect"
  /\ call' = [call EXCEPT ![g].pc = IF reflected # NoLayout THEN "build" ELSE "flatten",
                          ![g].layout = reflected]
  /\ UNCHANGED <<uses, config, reflected, queries, clearing, quiet>>

(* flattenStructFields; a duplicate column is an error and is not stored.   *)
StoreReflected(g) ==
  /\ call[g].pc = "flatten"
  /\ LET layout == Layouts[config]
         duplicate == \E i, j \in 1..Len(layout) : i < j /\ layout[i].name = layout[j].name
     IN IF duplicate THEN call' = [call EXCEPT ![g].pc = "failed"] /\ UNCHANGED reflected
        ELSE /\ call' = [call EXCEPT ![g].pc = "build", ![g].layout = layout]
             /\ reflected' = layout
  /\ UNCHANGED <<uses, config, queries, clearing, quiet>>

(* Columns, indices and values, and the query for them. *)
Build(g) ==
  /\ call[g].pc = "build"
  /\ LET c == call[g]
         layout == c.layout
         indices == Mapped(layout, c.kind, c.ignored)
         order == Reordered(layout, c.kind, indices)
         built == [query |-> BuiltQuery(layout, c.kind, c.conn, indices), indices |-> order]
     IN call' = [call EXCEPT ![g] =
                   IF ~Buildable(layout, c.kind, c.ignored, c.given) THEN [c EXCEPT !.pc = "failed", !.layout = NoLayout]
                   ELSE [c EXCEPT !.layout = NoLayout, !.pc = IF UsesCache(c) THEN "store" ELSE "exec", !.entry = built,
                                  !.vals = IF c.kind = "queryRow" THEN PlainVals(order)
                                           ELSE WrappedVals(layout, order)]]
  /\ UNCHANGED <<uses, config, reflected, queries, clearing, quiet>>

(* The maps on the way to the entry are made and the entry is set. *)
StoreEntry(g) ==
  /\ call[g].pc = "store"
  /\ queries' = [queries EXCEPT ![Use(call[g])] = call[g].entry]
  /\ call' = [call EXCEPT ![g].pc = "exec"]
  /\ UNCHANGED <<uses, config, reflected, clearing, quiet>>

(* The statement is executed and the call returns, or it had failed. *)
ExecuteStatement(g) ==
  /\ call[g].pc \in {"exec", "failed"}
  /\ call' = [call EXCEPT ![g] = NoCall]
  /\ UNCHANGED <<uses, config, reflected, queries, clearing, quiet>>

(* The application changes the fields of its reflector. *)
Reconfigure(c) ==
  /\ \A g \in Goroutines : call[g].pc = "idle"
  /\ clearing = <<>>
  /\ config' = c
  /\ quiet' = TRUE /\ clearing' = Caches
  /\ UNCHANGED <<uses, reflected, queries, call>>

ClearQueryCaches ==
  /\ clearing = <<>>
  /\ clearing' = Caches
  /\ UNCHANGED <<uses, config, reflected, queries, quiet, call>>

(* Mutant of Cleared: the last cache is forgotten. *)
ClearedButOne(cache) ==
  [use \in uses |-> IF use[1] = cache /\ cache # "queryRow" THEN NoEntry ELSE queries[use]]

Cleared(cache) == [use \in uses |-> IF use[1] = cache THEN NoEntry ELSE queries[use]]

(* One cache under its lock. *)
ClearNext ==
  /\ clearing # <<>>
  /\ reflected' = IF Head(clearing) = "reflected" THEN NoLayout ELSE reflected
  /\ queries' = Cleared(Head(clearing))
  /\ clearing' = Tail(clearing)
  /\ quiet' = (quiet /\ Tail(clearing) # <<>>)
  /\ UNCHANGED <<uses, config, call>>

CacheNext ==
  \/ \E g \in Goroutines :
       \/ \E use \in uses, ignored \in {{}} \cup {{Layouts[config][1].name}}, given \in 0..2 :
            CallRowStruct(g, use, ignored, given)
       \/ Lookup(g) \/ LookupReflected(g) \/ StoreReflected(g) \/ Build(g) \/ StoreEntry(g)
       \/ ExecuteStatement(g)
  \/ \E c \in DOMAIN Layouts : Reconfigure(c)
  \/ ClearQueryCaches \/ ClearNext

CacheSpec == CacheInit /\ [][CacheNext]_cacheVars

-------------------------------------------------------------------------------
(* The statement of a call without caches. *)
Fresh(c) == BuiltQuery(Layouts[config], c.kind, c.conn, Mapped(Layouts[config], c.kind, c.ignored))

AsValuers(c) == \A i \in 1..Len(c.vals) : c.vals[i][2] = Layouts[config][c.vals[i][1]].wrapped
AsPlain(c) == \A i \in 1..Len(c.vals) : c.vals[i][2] = FALSE

(* cache.go, insert.go:106: whatever other goroutines look up, store and    *)
(* clear in between, a call executes the statement that it would execute    *)
(* without caches, for its own options, builder and key values, and each    *)
(* placeholder gets the field of its column.  It sends the fields that a    *)
(* type wrapper handles (structreflector.go:32) all as their valuers; or,   *)
(* which only calls without options do, that find their query or get key    *)
(* values from the caller, all as plain values.                             *)
ExecutesAsBuilt ==
  \A g \in Goroutines :
    LET c == call[g] IN
      c.pc = "exec" =>
        /\ Buildable(Layouts[config], c.kind, c.ignored, c.given)
        /\ c.entry.query = Fresh(c)
        /\ Len(c.vals) = Len(c.entry.query[3])
        /\ \A i \in 1..Len(c.vals) : Layouts[config][c.vals[i][1]].name = c.entry.query[3][i]
        /\ AsValuers(c) \/ (NoOptions(c) /\ AsPlain(c))

===============================================================================
