----------------------------- MODULE MCAesdChar -----------------------------
(***************************************************************************)
(* Small instances of the character device.                                *)
(***************************************************************************)
EXTENDS AesdChar

CONSTANT x  \* a byte other than newline

(* Part of a command, and a whole one; together a command of three bytes. *)
MCChunks == {<<x>>, <<x, NEWLINE>>}

(* Whole commands of two lengths, for the runs about positions. *)
WholeCommands == {<<NEWLINE>>, <<x, NEWLINE>>}

OneCommand == {<<NEWLINE>>}

MCSeeks == {<<0, 1>>, <<1, 0>>}

MCLSeeks == {<<-1, SEEK_END>>, <<1, SEEK_CUR>>}

OneLSeek == {<<1, SEEK_SET>>}

None == {}

PtrSymmetry == Permutations(Ptr)
PtrProcSymmetry == Permutations(Ptr) \cup Permutations(Proc)
=============================================================================
