----------------------------- MODULE LinkedList -----------------------------
(***************************************************************************)
(* The doubly linked list of a1/linked_list.c, which holds the sockets of  *)
(* a client, the message log and the listener threads of the server.  The  *)
(* caller holds a lock over each operation; the walks (remove by value,    *)
(* for_each and the two frees) are still taken node by node, since it is   *)
(* between two nodes that a pointer is read, used or freed.                *)
(***************************************************************************)
EXTENDS Naturals, Sequences, FiniteSets, SequencesExt

CONSTANTS
  Nodes,         \* addresses calloc() returns
  Values,        \* data
  Null, NoValue  \* the null pointer, as a node and as data

ASSUME ListAssumption == Null \notin Nodes /\ NoValue \notin Values

VARIABLES
  head, tail,        \* of the list
  next, prev, data,  \* of the nodes; what they held stays there after free()
  live,              \* nodes between calloc() and free()
  pc,                \* the operation under way: "gone" is no list at all
  cursor,            \* of the walk under way
  wanted,            \* the value llist_remove_value() looks for
  got,               \* what the last operation returned
  calls, seen,       \* the values the walk's function has got; of the last walk
  chain              \* history: the nodes in the order of the list

ends == <<head, tail>>
heap == <<ends, next, prev, data, live>>
walk == <<pc, cursor, wanted, calls, seen>>
vars == <<heap, walk, got, chain>>

Pointer == Nodes \cup {Null}
Idle == pc = "idle"

Init ==
  /\ head = Null /\ tail = Null
  /\ next = [n \in Nodes |-> Null] /\ prev = [n \in Nodes |-> Null]
  /\ data = [n \in Nodes |-> NoValue]
  /\ live = {}
  /\ pc = "gone" /\ cursor = Null /\ wanted = NoValue
  /\ got = NoValue /\ calls = <<>> /\ seen = <<>>
  /\ chain = <<>>

-----------------------------------------------------------------------------
(* Insertion. *)

Create ==
  /\ pc = "gone" /\ pc' = "idle"
  /\ head' = Null /\ tail' = Null
  /\ UNCHANGED <<next, prev, data, live, cursor, wanted, calls, seen, got, chain>>

\* Mutant: the data is not stored.
NewNodeEmpty(n, v) ==
  /\ n \notin live
  /\ live' = live \cup {n}
  /\ data' = [data EXCEPT ![n] = NoValue]

\* create_llist_node(): an address is free again when the node there is.
NewNode(n, v) ==
  /\ n \notin live
  /\ live' = live \cup {n}
  /\ data' = [data EXCEPT ![n] = v]

InsertHead(n, v) ==
  /\ Idle /\ NewNode(n, v)
  /\ head' = n
  /\ tail' = IF head = Null THEN n ELSE tail
  /\ next' = [next EXCEPT ![n] = head]
  /\ prev' = [m \in Nodes |-> IF m = n THEN Null ELSE IF m = head THEN n ELSE prev[m]]
  /\ chain' = <<n>> \o chain
  /\ UNCHANGED <<walk, got>>

\* Mutant: the new tail does not point back to the old one.
InsertTailOneWay(n, v) ==
  /\ Idle /\ NewNode(n, v)
  /\ tail' = n
  /\ head' = IF tail = Null THEN n ELSE head
  /\ prev' = [prev EXCEPT ![n] = Null]
  /\ next' = [m \in Nodes |-> IF m = n THEN Null ELSE IF m = tail THEN n ELSE next[m]]
  /\ chain' = Append(chain, n)
  /\ UNCHANGED <<walk, got>>

InsertTail(n, v) ==
  /\ Idle /\ NewNode(n, v)
  /\ tail' = n
  /\ head' = IF tail = Null THEN n ELSE head
  /\ prev' = [prev EXCEPT ![n] = tail]
  /\ next' = [m \in Nodes |-> IF m = n THEN Null ELSE IF m = tail THEN n ELSE next[m]]
  /\ chain' = Append(chain, n)
  /\ UNCHANGED <<walk, got>>

-----------------------------------------------------------------------------
(* Removal.  No caller removes from an empty list, where l->head is NULL. *)

UnlinkOnly == head' = Null /\ tail' = Null /\ UNCHANGED <<next, prev>>

UnlinkHead ==
  IF head = tail THEN UnlinkOnly
  ELSE /\ head' = next[head]
       /\ prev' = [prev EXCEPT ![next[head]] = Null]
       /\ UNCHANGED <<tail, next>>

UnlinkTail ==
  IF head = tail THEN UnlinkOnly
  ELSE /\ tail' = prev[tail]
       /\ next' = [next EXCEPT ![prev[tail]] = Null]
       /\ UNCHANGED <<head, prev>>

\* Mutant: the last node is unlinked like one in the middle, and tail stays.
UnlinkKeepingTail(n) ==
  IF n = head THEN UnlinkHead
  ELSE /\ next' = [next EXCEPT ![prev[n]] = next[n]]
       /\ prev' = [m \in Nodes |-> IF m = next[n] THEN prev[n] ELSE prev[m]]
       /\ UNCHANGED ends

\* llist_remove_node(): the ends first, then a node with two neighbours.
Unlink(n) ==
  IF n = head THEN UnlinkHead
  ELSE IF n = tail THEN UnlinkTail
  ELSE /\ next' = [next EXCEPT ![prev[n]] = next[n]]
       /\ prev' = [prev EXCEPT ![next[n]] = prev[n]]
       /\ UNCHANGED ends

\* n is freed and its data is returned.
Delete(n) ==
  /\ live' = live \ {n}
  /\ got' = data[n]
  /\ chain' = RemoveFirst(chain, n)
  /\ UNCHANGED data

RemoveHead ==
  /\ Idle /\ head # Null
  /\ UnlinkHead /\ Delete(head)
  /\ UNCHANGED walk

RemoveTail ==
  /\ Idle /\ tail # Null
  /\ UnlinkTail /\ Delete(tail)
  /\ UNCHANGED walk

\* A caller holds a node of the list.
RemoveNode(n) ==
  /\ Idle /\ n \in Range(chain)
  /\ Unlink(n) /\ Delete(n)
  /\ UNCHANGED walk

-----------------------------------------------------------------------------
(* The walks, which begin at the head. *)

Begin(op, v) ==
  /\ Idle
  /\ pc' = op /\ cursor' = head /\ wanted' = v /\ calls' = <<>>
  /\ UNCHANGED <<heap, got, seen, chain>>

RemoveValue(v) == Begin("find", v)
ForEach == Begin("each", NoValue)
FreeList == Begin("free", NoValue)
FreeNodes == Begin("freefn", NoValue)

End(list) == pc' = list /\ cursor' = Null /\ wanted' = NoValue /\ calls' = <<>>

FindStep ==
  /\ pc = "find" /\ cursor # Null
  /\ IF data[cursor] = wanted
     THEN Unlink(cursor) /\ Delete(cursor) /\ End("idle")
     ELSE cursor' = next[cursor] /\ UNCHANGED <<heap, pc, wanted, calls, got, chain>>
  /\ UNCHANGED seen

FindNothing ==
  /\ pc = "find" /\ cursor = Null
  /\ got' = NoValue
  /\ End("idle")
  /\ UNCHANGED <<heap, seen, chain>>

EachStep ==
  /\ pc = "each" /\ cursor # Null
  /\ calls' = Append(calls, data[cursor])
  /\ cursor' = next[cursor]
  /\ UNCHANGED <<heap, pc, wanted, got, seen, chain>>

EachEnd ==
  /\ pc = "each" /\ cursor = Null
  /\ seen' = calls
  /\ End("idle")
  /\ UNCHANGED <<heap, got, chain>>

Freeing == pc \in {"free", "freefn"}

\* Mutant: the function gets the data of the node behind the freed one.
FreeStepBehind ==
  /\ Freeing /\ cursor # Null
  /\ calls' = IF pc = "freefn" /\ next[cursor] # Null
              THEN Append(calls, data[next[cursor]]) ELSE calls
  /\ cursor' = next[cursor]
  /\ live' = live \ {cursor}
  /\ chain' = Tail(chain)
  /\ UNCHANGED <<ends, next, prev, data, pc, wanted, got, seen>>

\* Mutant: the walk ends at the tail, which is not freed.
FreeStepButTail ==
  /\ Freeing /\ cursor # Null
  /\ calls' = IF pc = "freefn" THEN Append(calls, data[cursor]) ELSE calls
  /\ cursor' = IF next[cursor] = tail THEN Null ELSE next[cursor]
  /\ live' = live \ {cursor}
  /\ chain' = Tail(chain)
  /\ UNCHANGED <<ends, next, prev, data, pc, wanted, got, seen>>

\* The next pointer is read before the node is freed.
FreeStep ==
  /\ Freeing /\ cursor # Null
  /\ calls' = IF pc = "freefn" THEN Append(calls, data[cursor]) ELSE calls
  /\ cursor' = next[cursor]
  /\ live' = live \ {cursor}
  /\ chain' = Tail(chain)
  /\ UNCHANGED <<ends, next, prev, data, pc, wanted, got, seen>>

\* free(l)
FreeEnd ==
  /\ Freeing /\ cursor = Null
  /\ seen' = IF pc = "freefn" THEN calls ELSE seen
  /\ End("gone")
  /\ UNCHANGED <<heap, got, chain>>

Walk == FindStep \/ FindNothing \/ EachStep \/ EachEnd \/ FreeStep \/ FreeEnd

-----------------------------------------------------------------------------
Next ==
  \/ Create
  \/ \E n \in Nodes, v \in Values : InsertHead(n, v) \/ InsertTail(n, v)
  \/ RemoveHead \/ RemoveTail \/ \E n \in Nodes : RemoveNode(n)
  \/ \E v \in Values : RemoveValue(v)
  \/ ForEach \/ FreeList \/ FreeNodes
  \/ Walk

Spec == Init /\ [][Next]_vars

-----------------------------------------------------------------------------
(* Properties. *)

\* llist_is_empty() looks at both ends.
IsEmpty == head = Null /\ tail = Null

\* The variables hold what the declarations above say.
TypeOK ==
  /\ head \in Pointer /\ tail \in Pointer
  /\ next \in [Nodes -> Pointer] /\ prev \in [Nodes -> Pointer]
  /\ data \in [Nodes -> Values \cup {NoValue}]
  /\ live \subseteq Nodes
  /\ pc \in {"gone", "idle", "find", "each", "free", "freefn"}
  /\ cursor \in Pointer
  /\ wanted \in Values \cup {NoValue} /\ got \in Values \cup {NoValue}
  /\ calls \in Seq(Values) /\ seen \in Seq(Values)
  /\ chain \in Seq(Nodes)

\* After every operation both directions lead through the same nodes, from end
\* to end, whichever end or middle the node was taken from and although
\* addresses are used again; the list is empty at both ends or at neither.
ListIsChain ==
  ~Freeing /\ pc # "gone" =>
    /\ IsEmpty <=> chain = <<>>
    /\ chain # <<>> => head = chain[1] /\ tail = Last(chain)
    /\ \A k \in 1..Len(chain) :
         /\ next[chain[k]] = IF k = Len(chain) THEN Null ELSE chain[k + 1]
         /\ prev[chain[k]] = IF k = 1 THEN Null ELSE chain[k - 1]

\* No walk ever follows or frees a pointer to freed memory, and none leaks:
\* what is allocated is what is still linked, down to the last free().
NothingDangles ==
  /\ live = Range(chain) /\ IsInjective(chain)
  /\ cursor # Null => cursor \in live
  /\ pc = "gone" => live = {}

\* The nodes implement the list of values.
Items == [k \in 1..Len(chain) |-> data[chain[k]]]

Abstract == INSTANCE ValueList WITH
  items <- IF Freeing \/ pc = "gone" THEN <<>> ELSE Items,
  seen <- IF pc = "freefn" THEN calls \o Items ELSE seen

\* Callers see a list of values: a walk by value takes out the first one, a
\* walk with a function calls it on every item in order, a free on all of them.
ImplementsList == Abstract!Spec

=============================================================================
