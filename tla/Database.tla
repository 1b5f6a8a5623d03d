------------------------------ MODULE Database ------------------------------
(***************************************************************************)
(* The repositories of packages/db on one LevelDB: abstractRepository.ts,   *)
(* controller/level.ts and the key encoding of schema.ts.  All repositories *)
(* share one ordered store; a key is a bucket and an id, written big endian *)
(* so that the order of the bytes is the order of the ids.                  *)
(*                                                                         *)
(* LevelDB is external: a batch is atomic, and an iterator reads the store  *)
(* as it was when the iterator was made.                                    *)
(***************************************************************************)
EXTENDS Integers, FiniteSets, SequencesExt

CONSTANTS
  Repos,    \* the buckets, successive numbers
  Ids,
  Values,
  IdOf,     \* value -> its id, the hash tree root
  Nothing

VARIABLES
  store,    \* encoded key -> value
  call,     \* the call that returns next, or Nothing
  answer,   \* its answer
  stream    \* the entries an open stream has still to yield, or Nothing

vars == <<store, call, answer, stream>>

Empty == -1   \* the empty id, Buffer.alloc(0)

\* encodeKey of schema.ts: the bucket's byte, then the id.
EncodeKey(bucket, id) == <<bucket, id>>

\* decodeKey
DecodeKey(key) == key[2]

\* The order of the encoded keys.
Before(k, l) == k[1] < l[1] \/ (k[1] = l[1] /\ k[2] < l[2])
InOrder(keys) ==
  CHOOSE s \in [1 .. Cardinality(keys) -> keys] : \A i, j \in DOMAIN s : i < j => Before(s[i], s[j])

-----------------------------------------------------------------------------
(* LevelDbController                                                        *)

\* batchPut; put is the batch of one
BatchPutItems(items) ==
  store' = [k \in DOMAIN store \union DOMAIN items |->
              IF k \in DOMAIN items THEN items[k] ELSE store[k]]

\* batchDelete; delete is the batch of one
BatchDeleteKeys(keys) == store' = [k \in DOMAIN store \ keys |-> store[k]]

\* iterator: the entries within the bounds, ascending or descending.
Iterator(bounds) ==
  LET keys == {k \in DOMAIN store :
                 /\ bounds.gte # Nothing => ~Before(k, bounds.gte)
                 /\ bounds.gt # Nothing => Before(bounds.gt, k)
                 /\ bounds.lt # Nothing => Before(k, bounds.lt)
                 /\ bounds.lte # Nothing => ~Before(bounds.lte, k)}
      ordered == IF bounds.reverse THEN Reverse(InOrder(keys)) ELSE InOrder(keys)
      n == IF bounds.limit # Nothing /\ bounds.limit < Len(ordered)
           THEN bounds.limit ELSE Len(ordered)
  IN  [i \in 1 .. n |-> [key |-> DecodeKey(ordered[i]), value |-> store[ordered[i]]]]

-----------------------------------------------------------------------------
(* Repository                                                               *)

\* Mutant: an upper bound that is inclusive replaces no bound.
DbFilterOptionsOpenAbove(r, opts) ==
  [gte |-> IF opts.gt # Nothing THEN Nothing
           ELSE IF opts.gte # Nothing THEN EncodeKey(r, opts.gte) ELSE EncodeKey(r, Empty),
   gt |-> IF opts.gt # Nothing THEN EncodeKey(r, opts.gt) ELSE Nothing,
   lt |-> IF opts.lt # Nothing THEN EncodeKey(r, opts.lt) ELSE Nothing,
   lte |-> IF opts.lt = Nothing /\ opts.lte # Nothing THEN EncodeKey(r, opts.lte) ELSE Nothing,
   reverse |-> opts.reverse, limit |-> opts.limit]

\* dbFilterOptions: the bounds of the bucket, narrowed by those of the caller.
DbFilterOptions(r, opts) ==
  [gte |-> IF opts.gt # Nothing THEN Nothing
           ELSE IF opts.gte # Nothing THEN EncodeKey(r, opts.gte) ELSE EncodeKey(r, Empty),
   gt |-> IF opts.gt # Nothing THEN EncodeKey(r, opts.gt) ELSE Nothing,
   lt |-> IF opts.lt # Nothing THEN EncodeKey(r, opts.lt)
          ELSE IF opts.lte # Nothing THEN Nothing ELSE EncodeKey(r + 1, Empty),
   lte |-> IF opts.lt = Nothing /\ opts.lte # Nothing THEN EncodeKey(r, opts.lte) ELSE Nothing,
   reverse |-> opts.reverse, limit |-> opts.limit]

NoOptions == [gt |-> Nothing, gte |-> Nothing, lt |-> Nothing, lte |-> Nothing,
              reverse |-> FALSE, limit |-> Nothing]

\* What a call does to a repository, for its caller.
Writes(r, puts, deleted) ==
  /\ call = Nothing
  /\ call' = [op |-> "write", repo |-> r, puts |-> puts, deleted |-> deleted]
  /\ UNCHANGED <<answer, stream>>

Reads(r, op, opts) ==
  /\ call = Nothing
  /\ call' = [op |-> op, repo |-> r, opts |-> opts]
  /\ UNCHANGED store

EmptyMap == [i \in {} |-> Nothing]

\* batchPut and batchPutBinary; put and putBinary put one item
BatchPut(r, items) ==
  /\ Writes(r, items, {})
  /\ BatchPutItems([k \in {EncodeKey(r, id) : id \in DOMAIN items} |-> items[DecodeKey(k)]])

Put(r, id, value) == BatchPut(r, [i \in {id} |-> value])

\* batchDelete; delete deletes one
BatchDelete(r, ids) ==
  /\ Writes(r, EmptyMap, ids)
  /\ BatchDeleteKeys({EncodeKey(r, id) : id \in ids})

Delete(r, id) == BatchDelete(r, {id})

\* add and remove take the id from the value, a batch of them from each.
Add(r, value) == Put(r, IdOf[value], value)
RemoveValue(r, value) == Delete(r, IdOf[value])
BatchAdd(r, values) ==
  BatchPut(r, [id \in {IdOf[v] : v \in values} |-> CHOOSE v \in values : IdOf[v] = id])
BatchRemove(r, values) == BatchDelete(r, {IdOf[v] : v \in values})

\* get, getBinary and has
Get(r, id) ==
  /\ Reads(r, "read", [NoOptions EXCEPT !.gte = id, !.lte = id])
  /\ answer' = IF EncodeKey(r, id) \in DOMAIN store
               THEN <<[key |-> id, value |-> store[EncodeKey(r, id)]]>> ELSE <<>>
  /\ UNCHANGED stream

\* keys, values and entries
Entries(r, opts) ==
  /\ Reads(r, "read", opts)
  /\ answer' = Iterator(DbFilterOptions(r, opts))
  /\ UNCHANGED stream

\* firstKey, firstValue and firstEntry
FirstEntry(r) == Entries(r, [NoOptions EXCEPT !.limit = 1])

\* lastKey, lastValue and lastEntry
LastEntry(r) == Entries(r, [NoOptions EXCEPT !.limit = 1, !.reverse = TRUE])

\* keysStream, valuesStream and entriesStream: the iterator is made at the
\* first next() of the generator.
EntriesStream(r, opts) ==
  /\ stream = Nothing
  /\ Reads(r, "stream", opts)
  /\ stream' = Iterator(DbFilterOptions(r, opts))
  /\ UNCHANGED answer

\* One entry is yielded, or the iterator is at its end.
StreamNext ==
  /\ stream # Nothing
  /\ stream' = IF stream = <<>> THEN Nothing ELSE Tail(stream)
  /\ UNCHANGED <<store, call, answer>>

\* The caller has its answer.
ReturnAnswer ==
  /\ call # Nothing /\ call' = Nothing
  /\ answer' = <<>>
  /\ UNCHANGED <<store, stream>>

-----------------------------------------------------------------------------
Bounds == Ids \union {Nothing}
\* At most one lower and one upper bound, as callers pass them.
Options == {o \in [gt : Bounds, gte : Bounds, lt : Bounds, lte : Bounds,
                   reverse : BOOLEAN, limit : {1, Nothing}] :
              /\ Nothing \in {o.gt, o.gte}
              /\ Nothing \in {o.lt, o.lte}}
Maps == UNION {[S -> Values] : S \in SUBSET Ids}
Adds == {S \in SUBSET Values : \A v, w \in S : IdOf[v] = IdOf[w] => v = w}

Init ==
  /\ store = [k \in {} |-> Nothing]
  /\ call = Nothing
  /\ answer = <<>>
  /\ stream = Nothing

Operation(r) ==
  \/ \E id \in Ids, value \in Values : Put(r, id, value)
  \/ \E id \in Ids : Delete(r, id) \/ Get(r, id)
  \/ \E value \in Values : Add(r, value) \/ RemoveValue(r, value)
  \/ \E items \in Maps : BatchPut(r, items)
  \/ \E ids \in SUBSET Ids : BatchDelete(r, ids)
  \/ \E values \in Adds : BatchAdd(r, values) \/ BatchRemove(r, values)
  \/ \E opts \in Options : Entries(r, opts) \/ EntriesStream(r, opts)
  \/ FirstEntry(r) \/ LastEntry(r)

Next == (\E r \in Repos : Operation(r)) \/ StreamNext \/ ReturnAnswer

Spec == Init /\ [][Next]_vars

-----------------------------------------------------------------------------
(* Refinement: the entries of a repository are those of its bucket.         *)

EntriesOf(r) ==
  [i \in {id \in Ids : EncodeKey(r, id) \in DOMAIN store} |-> store[EncodeKey(r, i)]]

Abstract == INSTANCE Repositories WITH entries <- [r \in Repos |-> EntriesOf(r)]

\* The shared store gives every repository what Repositories promises: reads
\* and streams see all entries of their own bucket and none of a neighbour's,
\* whatever bounds the caller gives, and no write touches another bucket.
RefinesRepositories == Abstract!ASpec
=============================================================================
