-------------------------- MODULE MCAesdSocketOld --------------------------
(***************************************************************************)
(* A small instance of the old server.                                     *)
(***************************************************************************)
EXTENDS AesdSocketOld

(* A message, from a client that may read the answer or not. *)
Line == [tokens |-> <<DATA, NEWLINE>>, closes |-> FALSE, reads |-> FALSE]

(* Clients that stop before the newline, and shut their side or do not.    *)
Unfinished == [tokens |-> <<DATA>>, closes |-> TRUE, reads |-> TRUE]
Stalled == [tokens |-> <<DATA>>, closes |-> FALSE, reads |-> TRUE]

MCScripts == {Line, Unfinished, Stalled}
=============================================================================
