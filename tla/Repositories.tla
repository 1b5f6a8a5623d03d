---------------------------- MODULE Repositories ----------------------------
(***************************************************************************)
(* What the users of the database rely on: every repository is a map of its *)
(* own from ids to values, written atomically, read in the order of the     *)
(* ids, and streamed as it was when the stream began.                       *)
(***************************************************************************)
EXTENDS Integers, FiniteSets, SequencesExt

CONSTANTS Repos, Nothing

VARIABLES
  entries,  \* repository -> its map
  call,     \* the call that was made and has not returned, or Nothing
  answer,   \* its answer
  stream    \* what an open stream has left, or Nothing

avars == <<entries, call, answer, stream>>

EmptyMap == [i \in {} |-> Nothing]

\* The ids of a map that the filter options let through.
Selected(map, opts) ==
  {i \in DOMAIN map :
     /\ CASE opts.lt # Nothing -> i < opts.lt
          [] opts.lt = Nothing /\ opts.lte # Nothing -> i <= opts.lte
          [] OTHER -> TRUE
     /\ CASE opts.gt # Nothing -> i > opts.gt
          [] opts.gt = Nothing /\ opts.gte # Nothing -> i >= opts.gte
          [] OTHER -> TRUE}

Ascending(ids) ==
  CHOOSE s \in [1 .. Cardinality(ids) -> ids] : \A i, j \in DOMAIN s : i < j => s[i] < s[j]

\* The entries a read with these options returns, in order.
Listing(map, opts) ==
  LET up == Ascending(Selected(map, opts))
      ids == IF opts.reverse THEN Reverse(up) ELSE up
      n == IF opts.limit # Nothing /\ opts.limit < Len(ids) THEN opts.limit ELSE Len(ids)
  IN  [k \in 1 .. n |-> [key |-> ids[k], value |-> map[ids[k]]]]

AInit ==
  /\ entries = [r \in Repos |-> EmptyMap]
  /\ call = Nothing
  /\ answer = <<>>
  /\ stream = Nothing

\* Some ids of one repository get values, others lose theirs.
Write(c) ==
  /\ c.op = "write"
  /\ entries' = [entries EXCEPT ![c.repo] =
       [i \in (DOMAIN @ \ c.deleted) \union DOMAIN c.puts |->
          IF i \in DOMAIN c.puts THEN c.puts[i] ELSE @[i]]]
  /\ UNCHANGED <<answer, stream>>

Read(c) ==
  /\ c.op = "read"
  /\ answer' = Listing(entries[c.repo], c.opts)
  /\ UNCHANGED <<entries, stream>>

Open(c) ==
  /\ c.op = "stream"
  /\ stream' = Listing(entries[c.repo], c.opts)
  /\ UNCHANGED <<entries, answer>>

Call ==
  /\ call = Nothing /\ call' # Nothing
  /\ Write(call') \/ Read(call') \/ Open(call')

Return ==
  /\ call # Nothing /\ call' = Nothing
  /\ answer' = <<>>
  /\ UNCHANGED <<entries, stream>>

Advance ==
  /\ stream # Nothing
  /\ stream' = IF stream = <<>> THEN Nothing ELSE Tail(stream)
  /\ UNCHANGED <<entries, call, answer>>

ANext == Call \/ Return \/ Advance

ASpec == AInit /\ [][ANext]_avars
=============================================================================
