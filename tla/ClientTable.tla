----------------------------- MODULE ClientTable -----------------------------
(***************************************************************************)
(* The table of clients of a1/server.c, a hash table of a1/uthash: the     *)
(* operations the server uses, as functions of the table.  A client is the *)
(* number of its creation; 0 is NULL.                                      *)
(*                                                                         *)
(* Two lists run through the clients of a table: next and prev in the      *)
(* order they were added, which the sender walks, and hhNext and hhPrev    *)
(* within a bucket.  Pointers into a client (its UT_hash_handle) and to it *)
(* are one thing here.  Allocation does not fail.                          *)
(***************************************************************************)
EXTENDS Naturals, Sequences, SequencesExt

CONSTANTS
  MaxClients,      \* bound: clients created
  InitialBuckets,  \* HASH_INITIAL_NUM_BUCKETS, a power of two
  Threshold        \* HASH_BKT_CAPACITY_THRESH

ASSUME TableAssumption ==
  /\ MaxClients \in Nat
  /\ \E k \in 0..31 : InitialBuckets = 2^k
  /\ Threshold \in Nat \ {0}

Clients == 1..MaxClients
Pointer == 0..MaxClients

EmptyBuckets(n) == [b \in 0..(n - 1) |-> [head |-> 0, count |-> 0, mult |-> 0]]

\* clients = NULL
NoTable == [head |-> 0]

\* HASH_MAKE_TABLE: num_buckets is the size of the domain of buckets.
MakeTable(c) ==
  [head |-> c, tail |-> c, items |-> 0,
   next |-> [d \in Clients |-> 0], prev |-> [d \in Clients |-> 0],
   hhNext |-> [d \in Clients |-> 0], hhPrev |-> [d \in Clients |-> 0],
   id |-> [d \in Clients |-> 0], hashv |-> [d \in Clients |-> 0],
   buckets |-> EmptyBuckets(InitialBuckets), num |-> InitialBuckets,
   ineff |-> 0, noexpand |-> FALSE]

\* HASH_APPEND_LIST
AppendList(t, c) ==
  [t EXCEPT !.next = [@ EXCEPT ![t.tail] = c, ![c] = 0],
            !.prev[c] = t.tail,
            !.tail = c]

\* HASH_TO_BKT: the low bits of the hash value.
BucketOf(t, n, c) == t.hashv[c] % n

\* The head insertion of HASH_ADD_TO_BKT and of the loop of HASH_EXPAND_BUCKETS.
Push(t, b, c) ==
  LET h == t.buckets[b].head
  IN [t EXCEPT !.hhNext[c] = h,
               !.hhPrev = [d \in Clients |-> IF d = c THEN 0 ELSE IF d = h THEN c ELSE @[d]],
               !.buckets[b].head = c,
               !.buckets[b].count = @ + 1]

\* The clients of a bucket, in the order of its list.
Chain(t, b) ==
  LET from[c \in Pointer] == IF c = 0 THEN <<>> ELSE <<c>> \o from[t.hhNext[c]]
  IN from[t.buckets[b].head]

\* ideal_chain_maxlen: the ceiling of items over buckets.
Ideal(items, n) == (items \div n) + (IF items % n = 0 THEN 0 ELSE 1)

\* Mutant: only the first client of every bucket is moved to the new ones.
ExpandFirsts(t) ==
  LET n == 2 * t.num
      firsts == SelectSeq([b \in 1..t.num |-> t.buckets[b - 1].head], LAMBDA c : c # 0)
      move(u, c) == Push(u, BucketOf(t, n, c), c)
  IN FoldLeft(move, [t EXCEPT !.buckets = EmptyBuckets(n), !.num = n], firsts)

\* HASH_EXPAND_BUCKETS: the clients go over one by one, and a bucket that gets
\* more than the ideal is allowed to grow longer.  When most clients are in
\* excess twice in a row, the table stops growing.
Expand(t) ==
  LET n == 2 * t.num
      ideal == Ideal(t.items, n)
      move(acc, c) ==
        LET b == BucketOf(t, n, c)
            u == Push(acc.t, b, c)
            count == u.buckets[b].count
        IN [t |-> IF count > ideal /\ count > u.buckets[b].mult * ideal
                  THEN [u EXCEPT !.buckets[b].mult = @ + 1] ELSE u,
            nonideal |-> acc.nonideal + IF count > ideal THEN 1 ELSE 0]
      moved == FoldLeft(move,
                 [t |-> [t EXCEPT !.buckets = EmptyBuckets(n), !.num = n], nonideal |-> 0],
                 FlattenSeq([b \in 1..t.num |-> Chain(t, b - 1)]))
      ineff == IF moved.nonideal > t.items \div 2 THEN t.ineff + 1 ELSE 0
  IN [moved.t EXCEPT !.ineff = ineff, !.noexpand = @ \/ ineff > 1]

\* HASH_ADD_TO_TABLE
AddToTable(t, c) ==
  LET b == BucketOf(t, t.num, c)
      u == Push([t EXCEPT !.items = @ + 1], b, c)
  IN IF u.buckets[b].count >= (u.buckets[b].mult + 1) * Threshold /\ ~u.noexpand
     THEN Expand(u) ELSE u

\* HASH_ADD_INT
Add(t, c, id, hash) ==
  LET u == IF t.head = 0 THEN MakeTable(c) ELSE AppendList(t, c)
  IN AddToTable([u EXCEPT !.id[c] = id, !.hashv[c] = hash], c)

\* HASH_FIND_IN_BKT: the first client of the bucket with the id, or NULL.
FindInBucket(t, b, id, hash) ==
  LET from[c \in Pointer] ==
        IF c = 0 \/ (t.hashv[c] = hash /\ t.id[c] = id) THEN c ELSE from[t.hhNext[c]]
  IN from[t.buckets[b].head]

\* HASH_FIND_INT
Find(t, id, hash) ==
  IF t.head = 0 THEN 0 ELSE FindInBucket(t, hash % t.num, id, hash)

\* Mutant: the table is not searched first.
AddClientAlways(t, c, id, hash) == Add(t, c, id, hash)

\* client_hash_add_client(): a second client with the id is left out.
AddClient(t, c, id, hash) ==
  IF Find(t, id, hash) = 0 THEN Add(t, c, id, hash) ELSE t

\* c = clients; c = c->hh.next
Walk(t) ==
  LET from[c \in Pointer] == IF c = 0 THEN <<>> ELSE <<c>> \o from[t.next[c]]
  IN IF t.head = 0 THEN <<>> ELSE from[t.head]

=============================================================================
