------------------------------ MODULE MCStartup ------------------------------
(***************************************************************************)
(* Instances of Startup for TLC.                                           *)
(***************************************************************************)
EXTENDS Startup

\* No id, one, an illegal one, a repeated one, and enough of them to double
\* the buckets several times and to leave the buffer.
Lists == {<<>>, <<1>>, <<2, 0>>, <<2, 1, 2>>, <<5, 3, 1, 5, 2, 4>>}

\* One that only -p takes, a legal one and one that is too high.
SomePorts == {-1, 80, 65536}

=============================================================================
