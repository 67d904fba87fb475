--------------------------- MODULE CircularBuffer ---------------------------
(***************************************************************************)
(* aesd-char-driver/aesd-circular-buffer.c: the operations of the circular *)
(* buffer as operators on a value of struct aesd_circular_buffer.          *)
(*                                                                         *)
(* A buffer is a record of its entry array (slots 0 .. MAX-1), in_offs,    *)
(* out_offs and full.  An entry is a record of buffptr and size; a pointer *)
(* is opaque here, what it points to belongs to the caller.                *)
(***************************************************************************)
EXTENDS Integers, FiniteSets, FiniteSetsExt

CONSTANTS AESDCHAR_MAX_WRITE_OPERATIONS_SUPPORTED,  \* 10 in the source
          NULL                                      \* the null pointer

ASSUME MaxAssumption == AESDCHAR_MAX_WRITE_OPERATIONS_SUPPORTED \in Nat \ {0}

MAX == AESDCHAR_MAX_WRITE_OPERATIONS_SUPPORTED

Slots == 0 .. MAX - 1

(* The null pointer is the address of no slot. *)
ASSUME NullAssumption == NULL \notin Slots

(* MUTANT: the step past the last slot does not wrap. *)
NextOffsNoWrap(offs) == offs + 1

(* One position further round the ring. *)
NextOffs(offs) == (offs + 1) % MAX

(* The entry that memset leaves in every slot. *)
NoEntry == [buffptr |-> NULL, size |-> 0]

(* memset(buffer, 0, sizeof(struct aesd_circular_buffer)) *)
aesd_circular_buffer_init ==
  [entry |-> [i \in Slots |-> NoEntry], in_offs |-> 0, out_offs |-> 0, full |-> FALSE]
-----------------------------------------------------------------------------
(* MUTANT: full is set one entry early. *)
AddEntryEarlyFull(b, add_entry) ==
  LET in_offs  == NextOffs(b.in_offs)
      out_offs == IF b.full THEN NextOffs(b.out_offs) ELSE b.out_offs
  IN  [b EXCEPT !.entry[b.in_offs] = add_entry,
                !.in_offs = in_offs,
                !.out_offs = out_offs,
                !.full = b.full \/ NextOffs(in_offs) = out_offs]

(* MUTANT: the oldest pointer is cleared after the new entry is stored. *)
AddEntryClearLast(b, add_entry) ==
  LET in_offs  == NextOffs(b.in_offs)
      out_offs == IF b.full THEN NextOffs(b.out_offs) ELSE b.out_offs
      stored   == [b.entry EXCEPT ![b.in_offs] = add_entry]
  IN  [b EXCEPT !.entry = IF b.full THEN [stored EXCEPT ![b.out_offs].buffptr = NULL]
                                    ELSE stored,
                !.in_offs = in_offs,
                !.out_offs = out_offs,
                !.full = b.full \/ in_offs = out_offs]

(* MUTANT: the pointer handed back is that of the entry after the oldest. *)
OverwrittenNewest(b) ==
  IF b.full THEN b.entry[NextOffs(b.out_offs)].buffptr ELSE NULL
-----------------------------------------------------------------------------
(* The slot of the k-th oldest entry, k counted from 0: where CB_iter      *)
(* stands in iteration k.                                                  *)
Slot(b, k) == (b.out_offs + k) % MAX

(* total_entries of the search: all slots once full, else in_offs of them. *)
total_entries(b) == IF b.full THEN MAX ELSE b.in_offs

(* What add_entry returns: the pointer it overwrites, for the caller to    *)
(* free, or NULL.                                                          *)
overwritten_entry(b) == IF b.full THEN b.entry[b.out_offs].buffptr ELSE NULL

(* The buffer after add_entry.  When full, the oldest pointer is cleared   *)
(* and then the entry stored, in the code's order; full is never reset.    *)
aesd_circular_buffer_add_entry(b, add_entry) ==
  LET in_offs  == NextOffs(b.in_offs)
      out_offs == IF b.full THEN NextOffs(b.out_offs) ELSE b.out_offs
      cleared  == IF b.full THEN [b.entry EXCEPT ![b.out_offs].buffptr = NULL]
                            ELSE b.entry
  IN  [b EXCEPT !.entry = [cleared EXCEPT ![b.in_offs] = add_entry],
                !.in_offs = in_offs,
                !.out_offs = out_offs,
                !.full = b.full \/ in_offs = out_offs]
-----------------------------------------------------------------------------
(* MUTANT: the running count is compared with <=, so that one byte past    *)
(* an entry is still taken for the entry.                                  *)
SearchPastEnd(b, char_count, char_offset) ==
  {k \in 0 .. total_entries(b) - 1 :
     char_offset <= char_count[k] + b.entry[Slot(b, k)].size}
-----------------------------------------------------------------------------
(* The running total of a loop over sizes: its value before iteration k,   *)
(* and at the end for k = MAX.                                             *)
RunningTotal(sizes) ==
  LET total[k \in 0 .. MAX] == IF k = 0 THEN 0 ELSE total[k-1] + sizes[k-1]
  IN  total

(* char_count at the start of iteration k: the bytes of the k oldest       *)
(* entries.  The same sum is the loop of AESDCHAR_IOCSEEKTO.               *)
CharCount(b) == RunningTotal([k \in Slots |-> b.entry[Slot(b, k)].size])

(* The iterations of the search that would return. *)
Search(b, char_count, char_offset) ==
  {k \in 0 .. total_entries(b) - 1 :
     char_offset < char_count[k] + b.entry[Slot(b, k)].size}

(* The slot and the byte in its entry that hold byte char_offset of the    *)
(* entries laid end to end, or slot NULL when there is no such byte.       *)
aesd_circular_buffer_find_entry_offset_for_fpos(b, char_offset) ==
  LET char_count == CharCount(b)
      hits == Search(b, char_count, char_offset)
      i    == Min(hits)
  IN  IF hits = {} THEN [slot |-> NULL, entry_offset |-> 0]
      ELSE [slot |-> Slot(b, i), entry_offset |-> char_offset - char_count[i]]

(* The slots aesd_circular_buffer_size and _total_size count. *)
UsedSlots(b) == {i \in Slots : b.entry[i].buffptr # NULL}

aesd_circular_buffer_size(b) == Cardinality(UsedSlots(b))

aesd_circular_buffer_total_size(b) ==
  RunningTotal([i \in Slots |-> IF i \in UsedSlots(b) THEN b.entry[i].size ELSE 0])[MAX]
-----------------------------------------------------------------------------
(* Vocabulary of the properties. *)

(* The buffers whose used slots hold entries of E and whose other slots    *)
(* still hold the zeroes of memset.                                        *)
Buffer(E) == [entry : [Slots -> E \cup {NoEntry}],
              in_offs : Slots, out_offs : Slots, full : BOOLEAN]

(* The relation of offsets, flag and slots that add_entry lives on: until  *)
(* the ring is full reading starts at slot 0 and exactly the slots below   *)
(* in_offs are used; from then on the next slot to write is the oldest and *)
(* every slot is used.                                                     *)
RingOK(b) ==
  /\ ~b.full => b.out_offs = 0
  /\ b.full => b.out_offs = b.in_offs
  /\ \A i \in Slots : (b.full \/ i < b.in_offs) <=> b.entry[i] # NoEntry

(* The entries held, oldest first. *)
Entries(b) == [k \in 1 .. total_entries(b) |-> b.entry[Slot(b, k - 1)]]
=============================================================================
