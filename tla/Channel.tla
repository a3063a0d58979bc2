------------------------------- MODULE Channel -------------------------------
(***************************************************************************)
(* What a line of chat is promised: the texts that are typed at one end    *)
(* are shown at the other, in that order, none lost, torn or made up.      *)
(***************************************************************************)
EXTENDS Naturals, Sequences

CONSTANT Texts

VARIABLES typed, shown

Init == typed = <<>> /\ shown = <<>>

Type == \E t \in Texts : typed' = Append(typed, t) /\ UNCHANGED shown

Show ==
  /\ Len(shown) < Len(typed)
  /\ shown' = Append(shown, typed[Len(shown) + 1])
  /\ UNCHANGED typed

Next == Type \/ Show

vars == <<typed, shown>>

Spec == Init /\ [][Next]_vars

=============================================================================
