----------------------------- MODULE CommandLog -----------------------------
(***************************************************************************)
(* What the circular buffer of the AESD char driver promises, free of      *)
(* slots and offsets: a log of the most recent commands, oldest first.     *)
(* A command pushed onto a log that already holds Capacity commands drops  *)
(* the oldest one, and the push hands that one's memory back to its owner. *)
(***************************************************************************)
EXTENDS Naturals, Sequences

CONSTANTS Capacity,  \* the number of commands kept
          Command,   \* the commands, records with a field buffptr
          NULL       \* no memory to hand back

VARIABLES log,       \* the commands kept, oldest first
          evicted    \* the memory the last push handed back, or NULL

vars == <<log, evicted>>

(* The last Capacity commands once e follows those of s. *)
Pushed(s, e) == IF Len(s) < Capacity THEN Append(s, e) ELSE Append(Tail(s), e)

Init == /\ log = <<>>
        /\ evicted = NULL

Push(e) == /\ log' = Pushed(log, e)
           /\ evicted' = IF Len(log) < Capacity THEN NULL ELSE Head(log).buffptr

Next == \E e \in Command : Push(e)

Spec == Init /\ [][Next]_vars
=============================================================================
