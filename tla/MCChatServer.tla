---------------------------- MODULE MCChatServer ----------------------------
(***************************************************************************)
(* Instances of ChatServer for TLC.                                        *)
(***************************************************************************)
EXTENDS ChatServer

TwoIds == <<1, 2>>

\* The kernel hands out the lowest free descriptor; the specification lets any
\* free one be handed out, and does nothing but compare them.
FdSymmetry == Permutations(Fds)

=============================================================================
