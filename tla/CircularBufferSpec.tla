------------------------- MODULE CircularBufferSpec -------------------------
(***************************************************************************)
(* The circular buffer as a state machine: a caller adds one entry after   *)
(* another, for ever, and owns the memory behind them.  The properties say *)
(* that slots, offsets and the full flag implement the log of CommandLog,  *)
(* and that the search and the two size functions agree with that log.     *)
(***************************************************************************)
EXTENDS CircularBuffer, Sequences, SequencesExt

CONSTANTS Ptr,    \* the addresses of entries, NULL not among them
          Sizes   \* the sizes entries may have

ASSUME PtrAssumption == NULL \notin Ptr
ASSUME SizesAssumption == Sizes \subseteq Nat

VARIABLES buffer,       \* struct aesd_circular_buffer
          overwritten   \* what the last add_entry returned

vars == <<buffer, overwritten>>

Entry == [buffptr : Ptr, size : Sizes]

Init == /\ buffer = aesd_circular_buffer_init
        /\ overwritten = NULL

AddEntry(e) ==
  /\ buffer' = aesd_circular_buffer_add_entry(buffer, e)
  /\ overwritten' = overwritten_entry(buffer)

Next == \E e \in Entry : AddEntry(e)

Spec == Init /\ [][Next]_vars
-----------------------------------------------------------------------------
(* Every field of the buffer has its C type, the offsets name slots and a  *)
(* slot holds a caller's entry or the zeroes of memset.                    *)
TypeOK == /\ buffer \in Buffer(Entry)
          /\ overwritten \in Ptr \cup {NULL}

(* Offsets, full flag and used slots agree after any number of add_entry   *)
(* calls, the wrap of in_offs and the first overwrite included.            *)
RingInv == RingOK(buffer)

(* Adding entries implements the log of the last MAX commands, and each    *)
(* add_entry returns the memory of exactly the command the log drops.      *)
Log == INSTANCE CommandLog WITH Capacity <- MAX, Command <- Entry,
                                log <- Entries(buffer), evicted <- overwritten
ImplementsCommandLog == Log!Spec

(* The bytes of a sequence of entries laid end to end, each byte given as  *)
(* its entry's pointer and its offset in the entry.                        *)
Bytes(s) == FlattenSeq([k \in 1 .. Len(s) |->
                          [j \in 1 .. s[k].size |-> <<s[k].buffptr, j - 1>>]])

(* The search finds, for every position, the byte that stands there when   *)
(* the entries are concatenated, and nothing past the last byte.           *)
FindIsConcatenation ==
  LET all == Bytes(Entries(buffer))
  IN  \A pos \in 0 .. Len(all) + 1 :
        LET r == aesd_circular_buffer_find_entry_offset_for_fpos(buffer, pos)
        IN  IF pos < Len(all)
            THEN r.slot # NULL /\ <<buffer.entry[r.slot].buffptr, r.entry_offset>> = all[pos + 1]
            ELSE r.slot = NULL

(* The counts that bound seeks agree with what the search can reach: the   *)
(* number of commands and of bytes in the log.                             *)
SizesAgree ==
  /\ aesd_circular_buffer_size(buffer) = Len(Entries(buffer))
  /\ aesd_circular_buffer_total_size(buffer) = Len(Bytes(Entries(buffer)))
=============================================================================
