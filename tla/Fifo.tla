-------------------------------- MODULE Fifo --------------------------------
(***************************************************************************)
(* What a1/jobqueue.h promises its callers: jobs are handed out in the     *)
(* order in which they were put in, each to one caller.                    *)
(***************************************************************************)
EXTENDS Sequences

CONSTANTS
  Jobs,     \* what can be put in
  Readers,  \* who takes jobs out
  NoJob     \* what a reader holds before its first job

VARIABLES
  queue,    \* the jobs that wait, the oldest first
  got       \* reader -> the job it was handed last

vars == <<queue, got>>

Init ==
  /\ queue = <<>>
  /\ got = [r \in Readers |-> NoJob]

Put(j) ==
  /\ queue' = Append(queue, j)
  /\ UNCHANGED got

Get(r) ==
  /\ queue # <<>>
  /\ got' = [got EXCEPT ![r] = Head(queue)]
  /\ queue' = Tail(queue)

Next ==
  \/ \E j \in Jobs : Put(j)
  \/ \E r \in Readers : Get(r)

Spec == Init /\ [][Next]_vars

=============================================================================
