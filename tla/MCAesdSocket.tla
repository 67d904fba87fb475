---------------------------- MODULE MCAesdSocket ----------------------------
(***************************************************************************)
(* Small instances of the server.                                          *)
(***************************************************************************)
EXTENDS AesdSocket

(* A message longer than the first buffer. *)
Line == [tokens |-> <<DATA, DATA, DATA, DATA, NEWLINE>>, closes |-> FALSE, reads |-> TRUE]

(* A short message, after which the client shuts its side. *)
Short == [tokens |-> <<DATA, NEWLINE>>, closes |-> TRUE, reads |-> TRUE]

(* A client that shuts its side before the newline. *)
Unfinished == [tokens |-> <<DATA>>, closes |-> TRUE, reads |-> TRUE]

(* A client that shuts its side at once. *)
Silent == [tokens |-> <<>>, closes |-> TRUE, reads |-> TRUE]

(* A client that stops before the newline and keeps its connection. *)
Stalled == [tokens |-> <<DATA>>, closes |-> FALSE, reads |-> TRUE]

(* A seek to the second byte of the oldest command, "0,1", by a client     *)
(* that does not read the answer.                                          *)
SeekFirst == [tokens |-> <<SEEKTO, 0, 1>>, closes |-> FALSE, reads |-> FALSE]

(* A seek to the second byte of the second command, "1,01": TCP may cut it *)
(* behind the prefix, before the digits of Y and between them.             *)
SeekSecond == [tokens |-> <<SEEKTO, 1, 0, 1>>, closes |-> FALSE, reads |-> TRUE]

MessagesAndSeeks == {Line, SeekSecond, Unfinished}
WholeMessages == {Short, SeekFirst, Silent, Stalled}
WithSilent == {Line, Silent}

ClientSymmetry == Permutations(Client)
=============================================================================
