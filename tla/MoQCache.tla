------------------------------ MODULE MoQCache ------------------------------
(***************************************************************************)
(* The object cache of a node with moq_enabled (moq/cache.py).  Every      *)
(* method holds the cache's lock, so a method is one step.                 *)
(*                                                                         *)
(* _entries, an OrderedDict, is the set of its items, each with a field    *)
(* pos: an item moved to the end gets the largest.  A header is a record   *)
(* of the fields its cache_key prints.  The clock moves with every call,   *)
(* so that calls are totally ordered by it.  Hit, miss and eviction        *)
(* counters are left out.                                                  *)
(***************************************************************************)
EXTENDS Integers, Sequences, FiniteSets, FiniteSetsExt

CONSTANTS
    Header,         \* headers in use: [node, kind, round, part]
    OwnHeader,      \* those of the node's own chunks, which it puts itself
    Payload,        \* payloads in use
    Size,           \* the length of each payload in bytes
    MaxEntries,     \* max_entries
    MaxBytes,       \* max_bytes
    Ttl,            \* default_ttl; MaxCalls or more stands for None
    MaxCalls        \* bound: calls

ASSUME CacheAssumption ==
    /\ OwnHeader \subseteq Header
    /\ Size \in [Payload -> Nat]
    /\ MaxEntries \in Nat /\ MaxBytes \in Nat
    /\ Ttl \in Nat /\ MaxCalls \in Nat

Rounds == {h.round : h \in Header}
Parts == {h.part : h \in Header}
Nodes == {h.node : h \in Header}
None == "None"

VARIABLES
    entries,        \* _entries: records of key, payload, cachedAt, lastAccess
                    \* and pos, the place in the OrderedDict
    totalBytes,     \* _total_bytes
    now,            \* calls made so far
    reply           \* history: the entry the last call returned, if any, with
                    \* the payload it was looked up or checked for

vars == <<entries, totalBytes, now, reply>>

NoReply == <<>>

Init ==
    /\ entries = {}
    /\ totalBytes = 0
    /\ now = 0
    /\ reply = NoReply

-----------------------------------------------------------------------------
(* Helpers. *)

Bytes(S) == MapThenSumSet(LAMBDA e : Size[e.payload], S)

\* _is_expired
Expired(e) == now + 1 - e.cachedAt > Ttl

NewEntry(h, d) == [key |-> h, payload |-> d, cachedAt |-> now + 1,
                   lastAccess |-> now + 1, pos |-> now + 1]

\* Mutant: an access does not move the item.
TouchedInPlace(e) == [e EXCEPT !.lastAccess = now + 1]

\* An access: last_accessed and move_to_end.
Touched(e) == [e EXCEPT !.lastAccess = now + 1, !.pos = now + 1]

Before(S, e) == {f \in S : f.pos < e.pos}

\* Mutant: the first loop is missing.
EvictedByBytes(S, total) == {e \in S : total - Bytes(Before(S, e)) > MaxBytes}

\* _enforce_limits pops the first item for as long as there are too many, then
\* for as long as they are too large.
Evicted(S, total) ==
    {e \in S : \/ Cardinality(S \ Before(S, e)) > MaxEntries
               \/ total - Bytes(Before(S, e)) > MaxBytes}

\* A new item, after those of Gone were deleted, and _enforce_limits.
Insert(h, d, Gone) ==
    LET all == (entries \ Gone) \cup {NewEntry(h, d)}
        total == totalBytes - Bytes(Gone) + Size[d]
        out == Evicted(all, total)
    IN  /\ entries' = all \ out
        /\ totalBytes' = total - Bytes(out)

\* _delete_entry for every item of Gone.
Delete(Gone) ==
    /\ entries' = entries \ Gone
    /\ totalBytes' = totalBytes - Bytes(Gone)

Return(r) ==
    /\ now < MaxCalls
    /\ now' = now + 1
    /\ reply' = r

-----------------------------------------------------------------------------
(* The methods. *)

\* contains: deletes an expired item, touches nothing.
ContainsKey(h) ==
    /\ Delete({e \in entries : e.key = h /\ Expired(e)})
    /\ Return(NoReply)

GetMiss(h) ==
    /\ \A e \in entries : e.key = h => Expired(e)
    /\ Delete({e \in entries : e.key = h})
    /\ Return(NoReply)

\* Mutant: an expired item is returned.
GetHitExpired(h) ==
    /\ \E e \in entries :
         /\ e.key = h
         /\ entries' = (entries \ {e}) \cup {Touched(e)}
         /\ Return(<<e.payload, e>>)
    /\ UNCHANGED totalBytes

GetHit(h) ==
    /\ \E e \in entries :
         /\ e.key = h /\ ~Expired(e)
         /\ entries' = (entries \ {e}) \cup {Touched(e)}
         /\ Return(<<e.payload, e>>)
    /\ UNCHANGED totalBytes

\* What find_object looks for: the weights of a round and part, of any node or
\* of one.
Wanted(e, round, part, origin) ==
    /\ e.key.round = round /\ e.key.part = part
    /\ e.key.kind = "model_part"
    /\ origin # None => e.key.node = origin

\* The items before the first match are visited, and the expired ones deleted.
FindObject(round, part, origin) ==
    LET live == {e \in entries : ~Expired(e)}
        found == {e \in live : Wanted(e, round, part, origin)}
        first == {e \in found : Before(found, e) = {}}
    IN  \/ /\ found = {}
           /\ Delete(entries \ live)
           /\ Return(NoReply)
        \/ \E e \in first :
             LET gone == Before(entries, e) \ live
             IN  /\ entries' = (entries \ (gone \cup {e})) \cup {Touched(e)}
                 /\ totalBytes' = totalBytes - Bytes(gone)
                 /\ Return(<<e.payload, e>>)

PutNew(h, d) ==
    /\ \A e \in entries : e.key # h
    /\ Insert(h, d, {})
    /\ Return(NoReply)

\* Mutant: the bytes replaced stay counted.
PutUpdateAddsOnly(h, d) ==
    /\ \E e \in entries :
         /\ e.key = h
         /\ entries' = (entries \ {e}) \cup {[Touched(e) EXCEPT !.payload = d]}
         /\ totalBytes' = totalBytes + Size[d]
    /\ Return(NoReply)

\* An item with this key is there, expired or not: it keeps cached_at, and no
\* limit is enforced.
PutUpdate(h, d) ==
    /\ \E e \in entries :
         /\ e.key = h
         /\ entries' = (entries \ {e}) \cup {[Touched(e) EXCEPT !.payload = d]}
         /\ totalBytes' = totalBytes - Size[e.payload] + Size[d]
    /\ Return(NoReply)

\* check_and_put finds a live item: a duplicate.
CheckDuplicate(h, d) ==
    /\ \E e \in entries :
         /\ e.key = h /\ ~Expired(e)
         /\ entries' = (entries \ {e}) \cup {Touched(e)}
         /\ Return(<<d, e>>)
    /\ UNCHANGED totalBytes

CheckNew(h, d) ==
    /\ \A e \in entries : e.key = h => Expired(e)
    /\ Insert(h, d, {e \in entries : e.key = h})
    /\ Return(NoReply)

PurgeRound(olderThan) ==
    /\ Delete({e \in entries : e.key.round < olderThan})
    /\ Return(NoReply)

\* purge_prefix with ("dfl", node) or ("dfl", node, kind); ("dfl",) and () have
\* the effect of clear.
PurgePrefix(node, kinds) ==
    /\ Delete({e \in entries : e.key.node = node /\ e.key.kind \in kinds})
    /\ Return(NoReply)

Clear ==
    /\ entries' = {}
    /\ totalBytes' = 0
    /\ Return(NoReply)

-----------------------------------------------------------------------------
Kinds == {h.kind : h \in Header}

\* Every call but check_and_put.
Calls ==
    \/ \E h \in Header : ContainsKey(h) \/ GetMiss(h) \/ GetHit(h)
    \/ \E r \in Rounds, p \in Parts, o \in Nodes \cup {None} : FindObject(r, p, o)
    \/ \E h \in OwnHeader, d \in Payload : PutNew(h, d) \/ PutUpdate(h, d)
    \/ \E r \in Rounds : PurgeRound(r + 1)
    \/ \E n \in Nodes, K \in {Kinds} \cup {{k} : k \in Kinds} : PurgePrefix(n, K)
    \/ Clear

CheckAndPut(h, d) == CheckDuplicate(h, d) \/ CheckNew(h, d)

Next == Calls \/ \E h \in Header, d \in Payload : CheckAndPut(h, d)

Spec == Init /\ [][Next]_vars

-----------------------------------------------------------------------------
(* Correctness. *)

Item(e) == [key |-> e.key, payload |-> e.payload, born |-> e.cachedAt]

Lru == INSTANCE LruCache WITH
    Key <- Header,
    order <- [i \in 1..Cardinality(entries) |->
                Item(CHOOSE e \in entries : Cardinality(Before(entries, e)) = i - 1)],
    time <- now,
    served <- IF reply = NoReply THEN <<>> ELSE Item(reply[2])

\* The cache implements LruCache: whatever is read, replaced, expired, purged or
\* checked in between, a new item leaves neither max_entries nor max_bytes
\* exceeded, evicts only items used before those it keeps and no more of them
\* than it must, and nothing is returned past its default_ttl.
IsLruCache == Lru!Spec

\* moq/header.py: cache_key is unique to an object, so that a duplicate is the
\* object that is stored.
DuplicateIsSame == reply # NoReply => reply[1] = reply[2].payload
=============================================================================
