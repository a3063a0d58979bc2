------------------------------ MODULE ValueList ------------------------------
(***************************************************************************)
(* What a1/linked_list.h offers its callers: a list of values, which they  *)
(* change at both ends and by value, and walk from head to tail.  Callers  *)
(* hold a lock, so nothing else happens while a value is looked for.       *)
(***************************************************************************)
EXTENDS Naturals, Sequences, SequencesExt

CONSTANTS Values, NoValue

VARIABLES
  items,   \* the list
  wanted,  \* the value a caller wants removed, while it is looked for
  got,     \* what the last operation returned
  seen     \* what the function of the last walk was called with, in order

vars == <<items, wanted, got, seen>>

Init == items = <<>> /\ wanted = NoValue /\ got = NoValue /\ seen = <<>>

InsertHead(v) == items' = <<v>> \o items /\ UNCHANGED <<got, seen>>
InsertTail(v) == items' = Append(items, v) /\ UNCHANGED <<got, seen>>

\* An item is taken out, at an end or anywhere.
Take(k) ==
  /\ got' = items[k]
  /\ items' = RemoveAt(items, k)
  /\ UNCHANGED seen

ForEach == seen' = items /\ UNCHANGED <<items, got>>

\* The list is freed, with or without a function called on every item.
Free ==
  /\ items' = <<>>
  /\ seen' \in {seen, items}
  /\ UNCHANGED got

Operation ==
  /\ wanted = NoValue /\ UNCHANGED wanted
  /\ \/ \E v \in Values : InsertHead(v) \/ InsertTail(v)
     \/ \E k \in 1..Len(items) : Take(k)
     \/ ForEach \/ Free

\* A value is asked for, and then its first item goes, if there is one.
Want(v) == wanted = NoValue /\ wanted' = v /\ UNCHANGED <<items, got, seen>>

RemoveWanted ==
  /\ wanted # NoValue /\ wanted' = NoValue
  /\ got' = IF Contains(items, wanted) THEN wanted ELSE NoValue
  /\ items' = RemoveFirst(items, wanted)
  /\ UNCHANGED seen

Next == Operation \/ RemoveWanted \/ \E v \in Values : Want(v)

Spec == Init /\ [][Next]_vars

=============================================================================
