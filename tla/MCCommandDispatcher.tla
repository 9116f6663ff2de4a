------------------------ MODULE MCCommandDispatcher ------------------------
(***************************************************************************)
(* CommandDispatcher for TLC, which also compares the removal of a message *)
(* with the one of the community modules.                                  *)
(***************************************************************************)
EXTENDS CommandDispatcher

ASSUME WithoutIsRemove ==
    \A queue \in SeqOf(Messages, 4), m \in Messages : Without(queue, m) = Remove(queue, m)
=============================================================================
