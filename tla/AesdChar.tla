------------------------------ MODULE AesdChar ------------------------------
(***************************************************************************)
(* aesd-char-driver/main.c: the character device.  Processes call read,    *)
(* write, llseek and ioctl on open files; each call is a sequence of steps *)
(* that interleave with the steps of the other calls, and the device mutex *)
(* is what keeps them apart.  Memory is explicit: kmalloc, krealloc and    *)
(* kfree act on heap, and every allocation and every copy from or to user  *)
(* space may fail.                                                         *)
(***************************************************************************)
EXTENDS CircularBuffer, Sequences, SequencesExt

CONSTANTS Proc,        \* processes (threads) that make system calls
          File,        \* struct file objects, shared by processes after fork
          Ptr,         \* addresses kmalloc may return
          Free,        \* the content of an address that is not allocated
          Byte,        \* the bytes of user data
          NEWLINE,     \* '\n'
          Slack,       \* what a temp_buf allocation adds to its need: 50 in the source
          Chunks,      \* the buffers user space passes to write
          ReadCounts,  \* the counts user space passes to read
          Seeks,       \* (write_cmd, write_cmd_offset) passed to AESDCHAR_IOCSEEKTO
          LSeeks,      \* (offset, whence) passed to llseek
          MaxPending,  \* bound: bytes of an incomplete command
          MaxPos       \* bound: file positions

ASSUME PtrAssumption == NULL \notin Ptr /\ NULL \notin Proc
ASSUME FreeAssumption == Free \notin [len : Nat, data : Seq(Byte)]
ASSUME SlackAssumption == Slack \in Nat
ASSUME ByteAssumption == NEWLINE \in Byte /\ Chunks \subseteq Seq(Byte)
ASSUME CountAssumption == ReadCounts \subseteq Nat
ASSUME SeekAssumption == /\ Seeks \subseteq Nat \X Nat
                         /\ LSeeks \subseteq Int \X (0 .. 2)

VARIABLES loaded,    \* the module is in the kernel
          buffer,    \* aesd_device.aesd_write_buffer
          temp_buf,  \* aesd_device.temp_buf
          mutex,     \* aesd_device.aesd_CB_mutex: its owner, or NULL
          heap,      \* the kernel's memory, as far as the driver allocates it
          opened,    \* the files whose private_data is set
          f_pos,     \* file->f_pos
          pc,        \* where each process is
          call       \* the parameters and locals of each process's call

dev  == <<buffer, temp_buf, heap>>
vars == <<loaded, buffer, temp_buf, mutex, heap, opened, f_pos, pc, call>>

ENOMEM == -12
EFAULT == -14

SEEK_SET == 0
SEEK_CUR == 1
SEEK_END == 2
-----------------------------------------------------------------------------
(* Memory.  A block has a length and the bytes stored in it so far. *)
Block == [len : Nat, data : Seq(Byte)]

Unused == {p \in Ptr : heap[p] = Free}

(* temp_buf before the first write. *)
NoTemp == [data |-> NULL, size |-> 0, capacity |-> 0]

(* The bytes of the command being put together: temp_buf.data[0 .. size). *)
Pending == IF temp_buf.data = NULL THEN <<>>
           ELSE SubSeq(heap[temp_buf.data].data, 1, temp_buf.size)

(* The bytes of an entry. *)
Contents(e) == SubSeq(heap[e.buffptr].data, 1, e.size)

(* MUTANT: every write makes a command. *)
AnyBytes(bytes) == bytes # <<>>

(* memchr(temp_buf.data, '\n', temp_buf.size) *)
HasNewline(bytes) == \E i \in 1 .. Len(bytes) : bytes[i] = NEWLINE
-----------------------------------------------------------------------------
(* System calls.  call[p] holds, for the call p is in, the file, the user  *)
(* buffer, the count, the position (the kernel's copy of f_pos for read    *)
(* and write, the new one for ioctl, total_size for llseek), the argument  *)
(* of a seek, the entry found by read and the return value.                *)
Nowhere == [slot |-> NULL, entry_offset |-> 0]

NoCall == [filp |-> NULL, buf |-> <<>>, count |-> 0, pos |-> 0,
           arg |-> <<0, 0>>, at |-> Nowhere, ret |-> 0]

Init == /\ loaded = FALSE
        /\ buffer = aesd_circular_buffer_init
        /\ temp_buf = NoTemp
        /\ mutex = NULL
        /\ heap = [p \in Ptr |-> Free]
        /\ opened = {}
        /\ f_pos = [f \in File |-> 0]
        /\ pc = [p \in Proc |-> "user"]
        /\ call = [p \in Proc |-> NoCall]

(* The files on which no call is in progress. *)
Quiet(f) == \A p \in Proc : call[p].filp # f

(* p enters the kernel with a call whose parameters are c. *)
Enter(p, where, c) ==
  /\ pc[p] = "user"
  /\ c.filp \in opened
  /\ pc' = [pc EXCEPT ![p] = where]
  /\ call' = [call EXCEPT ![p] = c]
  /\ UNCHANGED <<loaded, dev, mutex, opened, f_pos>>

(* p's call of read or write ends with return value ret. *)
Finish(p, ret) ==
  /\ pc' = [pc EXCEPT ![p] = "return"]
  /\ call' = [call EXCEPT ![p].ret = ret]

(* p is back in user space. *)
Leave(p) ==
  /\ pc' = [pc EXCEPT ![p] = "user"]
  /\ call' = [call EXCEPT ![p] = NoCall]
-----------------------------------------------------------------------------
(* aesd_init_module, once alloc_chrdev_region and cdev_add have succeeded; *)
(* when they fail nothing of it remains.                                   *)
aesd_init_module ==
  /\ ~loaded
  /\ loaded' = TRUE
  /\ mutex' = NULL
  /\ buffer' = aesd_circular_buffer_init
  /\ temp_buf' = NoTemp
  /\ UNCHANGED <<heap, opened, f_pos, pc, call>>

(* The slots cleanup walks with AESD_CIRCULAR_BUFFER_FOREACH and frees. *)
FreedSlots == {i \in Slots : buffer.entry[i].buffptr # NULL}

(* rmmod: refused by the kernel while a file is open (fops.owner). *)
aesd_cleanup_module ==
  LET freed == {temp_buf.data} \cup {buffer.entry[i].buffptr : i \in FreedSlots}
  IN  /\ loaded
      /\ opened = {}
      /\ loaded' = FALSE
      /\ heap' = [p \in Ptr |-> IF p \in freed THEN Free ELSE heap[p]]
      /\ temp_buf' = IF temp_buf.data # NULL THEN NoTemp ELSE temp_buf
      /\ buffer' = [buffer EXCEPT !.entry =
                      [i \in Slots |-> IF i \in FreedSlots THEN NoEntry ELSE buffer.entry[i]]]
      /\ UNCHANGED <<mutex, opened, f_pos, pc, call>>

(* open: the kernel makes a struct file at position 0, the driver sets     *)
(* private_data.                                                           *)
aesd_open(f) ==
  /\ loaded
  /\ f \notin opened
  /\ opened' = opened \cup {f}
  /\ f_pos' = [f_pos EXCEPT ![f] = 0]
  /\ UNCHANGED <<loaded, dev, mutex, pc, call>>

(* The last close of f; the kernel holds it back while a call runs on f.   *)
aesd_release(f) ==
  /\ f \in opened
  /\ Quiet(f)
  /\ opened' = opened \ {f}
  /\ f_pos' = [f_pos EXCEPT ![f] = 0]
  /\ UNCHANGED <<loaded, dev, mutex, pc, call>>
-----------------------------------------------------------------------------
(* aesd_read.  The kernel passes the driver a copy of f_pos; nothing keeps *)
(* two calls on one file apart, a char device has no f_pos lock.           *)
ReadEnter(p, f, count) ==
  Enter(p, "aesd_read", [NoCall EXCEPT !.filp = f, !.count = count, !.pos = f_pos[f]])

(* MUTANT: the mutex is released between the search and the copy. *)
ReadFindUnlocked(p) ==
  LET at == aesd_circular_buffer_find_entry_offset_for_fpos(buffer, call[p].pos)
  IN  /\ pc[p] = "aesd_read"
      /\ mutex = NULL
      /\ IF at.slot = NULL THEN Finish(p, 0)
         ELSE /\ pc' = [pc EXCEPT ![p] = "copy_to_user"]
              /\ call' = [call EXCEPT ![p].at = at]
      /\ UNCHANGED <<loaded, dev, mutex, opened, f_pos>>

(* mutex_lock and the search: at end of file the mutex is released again.  *)
ReadFind(p) ==
  LET at == aesd_circular_buffer_find_entry_offset_for_fpos(buffer, call[p].pos)
  IN  /\ pc[p] = "aesd_read"
      /\ mutex = NULL
      /\ \/ /\ at.slot = NULL
            /\ Finish(p, 0)
            /\ UNCHANGED mutex
         \/ /\ at.slot # NULL
            /\ mutex' = p
            /\ pc' = [pc EXCEPT ![p] = "copy_to_user"]
            /\ call' = [call EXCEPT ![p].at = at]
      /\ UNCHANGED <<loaded, dev, opened, f_pos>>

(* MUTANT: a failed copy returns without mutex_unlock. *)
ReadFaultKeepsMutex(p) ==
  /\ pc[p] = "copy_to_user"
  /\ Finish(p, EFAULT)
  /\ UNCHANGED <<loaded, dev, mutex, opened, f_pos>>

(* MUTANT: the copy starts at the entry's first byte. *)
CopyFromStart(bytes, offset, n) == SubSeq(bytes, 1, n)

(* The n bytes that follow the first offset bytes of an entry. *)
Copied(bytes, offset, n) == SubSeq(bytes, offset + 1, offset + n)

(* copy_to_user of what the entry holds from the offset on, at most count  *)
(* bytes, never of a second entry; then the position advances.             *)
ReadCopy(p) ==
  LET c == call[p]
      e == buffer.entry[c.at.slot]
      available == e.size - c.at.entry_offset
      n == IF c.count < available THEN c.count ELSE available
  IN  /\ pc[p] = "copy_to_user"
      /\ mutex' = NULL
      /\ pc' = [pc EXCEPT ![p] = "return"]
      /\ call' = [call EXCEPT ![p].buf = Copied(Contents(e), c.at.entry_offset, n),
                              ![p].pos = c.pos + n,
                              ![p].ret = n]
      /\ UNCHANGED <<loaded, dev, opened, f_pos>>

ReadFault(p) ==
  /\ pc[p] = "copy_to_user"
  /\ mutex' = NULL
  /\ Finish(p, EFAULT)
  /\ UNCHANGED <<loaded, dev, opened, f_pos>>

(* The kernel stores the position back unless the call failed. *)
Return(p) ==
  /\ pc[p] = "return"
  /\ f_pos' = IF call[p].ret >= 0 THEN [f_pos EXCEPT ![call[p].filp] = call[p].pos] ELSE f_pos
  /\ Leave(p)
  /\ UNCHANGED <<loaded, dev, mutex, opened>>
-----------------------------------------------------------------------------
(* aesd_write.  The bytes under way to temp_buf, for the bound. *)
Coming == MapThenSumSet(LAMBDA p : IF pc[p] \in {"aesd_write", "copy_from_user"}
                                   THEN Len(call[p].buf) ELSE 0, Proc)

WriteEnter(p, f, chunk) ==
  /\ temp_buf.size + Coming + Len(chunk) <= MaxPending
  /\ f_pos[f] + Len(chunk) <= MaxPos
  /\ Enter(p, "aesd_write", [NoCall EXCEPT !.filp = f, !.buf = chunk, !.pos = f_pos[f]])

(* MUTANT: what temp_buf already holds is forgotten. *)
TooSmallForCount(count) == temp_buf.capacity < count

(* temp_buf must grow before count more bytes can go into it. *)
TooSmall(count) == temp_buf.capacity < temp_buf.size + count

(* p holds the mutex and temp_buf has room. *)
WriteOn(p) ==
  /\ mutex' = p
  /\ pc' = [pc EXCEPT ![p] = "copy_from_user"]
  /\ UNCHANGED <<loaded, buffer, opened, f_pos, call>>

WriteFits(p) ==
  /\ pc[p] = "aesd_write" /\ mutex = NULL
  /\ temp_buf.data # NULL /\ ~TooSmall(Len(call[p].buf))
  /\ WriteOn(p)
  /\ UNCHANGED <<temp_buf, heap>>

(* kmalloc(count + 50) for the first write. *)
WriteAlloc(p) ==
  LET capacity == Len(call[p].buf) + Slack
  IN  /\ pc[p] = "aesd_write" /\ mutex = NULL
      /\ temp_buf.data = NULL
      /\ \E d \in Unused :
           /\ heap' = [heap EXCEPT ![d] = [len |-> capacity, data |-> <<>>]]
           /\ temp_buf' = [data |-> d, size |-> 0, capacity |-> capacity]
      /\ WriteOn(p)

(* krealloc: the block stays where it is or moves, and its bytes with it.  *)
WriteGrow(p) ==
  LET capacity == temp_buf.size + Len(call[p].buf) + Slack
      moved == [len |-> capacity, data |-> heap[temp_buf.data].data]
  IN  /\ pc[p] = "aesd_write" /\ mutex = NULL
      /\ temp_buf.data # NULL /\ TooSmall(Len(call[p].buf))
      /\ \E d \in Unused \cup {temp_buf.data} :
           /\ heap' = [heap EXCEPT ![temp_buf.data] = Free, ![d] = moved]
           /\ temp_buf' = [temp_buf EXCEPT !.data = d, !.capacity = capacity]
      /\ WriteOn(p)

(* kmalloc or krealloc fails: nothing has changed. *)
WriteNoMemory(p) ==
  /\ pc[p] = "aesd_write" /\ mutex = NULL
  /\ temp_buf.data = NULL \/ TooSmall(Len(call[p].buf))
  /\ Finish(p, ENOMEM)
  /\ UNCHANGED <<loaded, dev, mutex, opened, f_pos>>
-----------------------------------------------------------------------------
(* temp_buf's block once copy_from_user has put the bytes behind those it  *)
(* had; what lay further behind is lost.                                   *)
Stored(bytes) == [heap EXCEPT ![temp_buf.data].data = bytes]

(* MUTANT: the memory handed back is forgotten. *)
kfreeNot(h, p) == h

(* kfree, of a null pointer too. *)
kfree(h, p) == IF p = NULL THEN h ELSE [h EXCEPT ![p] = Free]

(* p's write ends well: count bytes were taken. *)
WriteDone(p) ==
  LET count == Len(call[p].buf)
  IN  /\ pc' = [pc EXCEPT ![p] = "return"]
      /\ call' = [call EXCEPT ![p].pos = @ + count, ![p].ret = count]

(* MUTANT: temp_buf.size is not reset. *)
NotEmptied(bytes) == [temp_buf EXCEPT !.size = Len(bytes)]

(* temp_buf.size = 0, when it holds bytes. *)
Emptied(bytes) == [temp_buf EXCEPT !.size = 0]

(* copy_from_user fails: temp_buf is emptied, of the bytes that earlier    *)
(* writes left in it as well.                                              *)
WriteFault(p) ==
  /\ pc[p] = "copy_from_user"
  /\ temp_buf' = Emptied(Pending)
  /\ mutex' = NULL
  /\ Finish(p, EFAULT)
  /\ UNCHANGED <<loaded, buffer, heap, opened, f_pos>>

(* No newline yet: the bytes wait in temp_buf. *)
WritePart(p) ==
  LET bytes == Pending \o call[p].buf
  IN  /\ pc[p] = "copy_from_user"
      /\ ~HasNewline(bytes)
      /\ heap' = Stored(bytes)
      /\ temp_buf' = [temp_buf EXCEPT !.size = Len(bytes)]
      /\ mutex' = NULL
      /\ WriteDone(p)
      /\ UNCHANGED <<loaded, buffer, opened, f_pos>>

(* A newline: temp_buf is copied into a block of its own, that becomes an  *)
(* entry, and the entry it overwrites is freed.                            *)
WriteCommit(p) ==
  LET bytes == Pending \o call[p].buf
      size  == Len(bytes)
  IN  /\ pc[p] = "copy_from_user"
      /\ HasNewline(bytes)
      /\ \E command_data \in Unused :
           /\ heap' = kfree([Stored(bytes) EXCEPT ![command_data] = [len |-> size, data |-> bytes]],
                            overwritten_entry(buffer))
           /\ buffer' = aesd_circular_buffer_add_entry(buffer, [buffptr |-> command_data, size |-> size])
      /\ temp_buf' = Emptied(bytes)
      /\ mutex' = NULL
      /\ WriteDone(p)
      /\ UNCHANGED <<loaded, opened, f_pos>>

(* kmalloc of command_data fails: the caller sees -ENOMEM, yet its bytes,  *)
(* newline and all, stay in temp_buf.                                      *)
CommitNoMemory(p) ==
  LET bytes == Pending \o call[p].buf
  IN  /\ pc[p] = "copy_from_user"
      /\ HasNewline(bytes)
      /\ heap' = Stored(bytes)
      /\ temp_buf' = [temp_buf EXCEPT !.size = Len(bytes)]
      /\ mutex' = NULL
      /\ Finish(p, ENOMEM)
      /\ UNCHANGED <<loaded, buffer, opened, f_pos>>
-----------------------------------------------------------------------------
(* aesd_llseek. *)
LlseekEnter(p, f, arg) == Enter(p, "aesd_llseek", [NoCall EXCEPT !.filp = f, !.arg = arg])

(* total_size is computed under the mutex, which is then released. *)
LlseekSize(p) ==
  /\ pc[p] = "aesd_llseek"
  /\ mutex = NULL
  /\ pc' = [pc EXCEPT ![p] = "fixed_size_llseek"]
  /\ call' = [call EXCEPT ![p].pos = aesd_circular_buffer_total_size(buffer)]
  /\ UNCHANGED <<loaded, dev, mutex, opened, f_pos>>

(* The kernel's fixed_size_llseek: a position outside 0 .. total_size is   *)
(* refused.                                                                *)
fixed_size_llseek(p) ==
  LET c == call[p]
      offset == c.arg[1]
      target == CASE c.arg[2] = SEEK_SET -> offset
                  [] c.arg[2] = SEEK_CUR -> f_pos[c.filp] + offset
                  [] c.arg[2] = SEEK_END -> c.pos + offset
  IN  /\ pc[p] = "fixed_size_llseek"
      /\ f_pos' = IF target \in 0 .. c.pos THEN [f_pos EXCEPT ![c.filp] = target] ELSE f_pos
      /\ Leave(p)
      /\ UNCHANGED <<loaded, dev, mutex, opened>>
-----------------------------------------------------------------------------
(* aesd_unlocked_ioctl, from AESDCHAR_IOCSEEKTO with a readable argument;  *)
(* the other calls return -ENOTTY or -EFAULT and touch nothing.            *)
IoctlEnter(p, f, arg) ==
  Enter(p, "aesd_unlocked_ioctl", [NoCall EXCEPT !.filp = f, !.arg = arg])

(* The command and the offset in it exist: lines 221 and 228. *)
SeekInRange(b, write_cmd, write_cmd_offset) ==
  /\ write_cmd < aesd_circular_buffer_size(b)
  /\ write_cmd_offset < b.entry[Slot(b, write_cmd)].size

(* MUTANT: the commands before write_cmd are summed from slot 0. *)
NewPosFromZero(b, write_cmd, write_cmd_offset) ==
  CharCount([b EXCEPT !.out_offs = 0])[write_cmd] + write_cmd_offset

(* new_f_pos: the sizes of the commands before write_cmd, and the offset.  *)
new_f_pos(b, write_cmd, write_cmd_offset) == CharCount(b)[write_cmd] + write_cmd_offset

IoctlSeek(p) ==
  LET arg == call[p].arg
  IN  /\ pc[p] = "aesd_unlocked_ioctl"
      /\ mutex = NULL
      /\ SeekInRange(buffer, arg[1], arg[2])
      /\ pc' = [pc EXCEPT ![p] = "set_f_pos"]
      /\ call' = [call EXCEPT ![p].pos = new_f_pos(buffer, arg[1], arg[2])]
      /\ UNCHANGED <<loaded, dev, mutex, opened, f_pos>>

(* Both -EINVAL returns leave the mutex locked. *)
IoctlRefuse(p) ==
  LET arg == call[p].arg
  IN  /\ pc[p] = "aesd_unlocked_ioctl"
      /\ mutex = NULL
      /\ ~SeekInRange(buffer, arg[1], arg[2])
      /\ mutex' = p
      /\ Leave(p)
      /\ UNCHANGED <<loaded, dev, opened, f_pos>>

(* filp->f_pos = new_f_pos, after the mutex is released. *)
IoctlSet(p) ==
  /\ pc[p] = "set_f_pos"
  /\ f_pos' = [f_pos EXCEPT ![call[p].filp] = call[p].pos]
  /\ Leave(p)
  /\ UNCHANGED <<loaded, dev, mutex, opened>>
-----------------------------------------------------------------------------
(* The steps that take the mutex, and the others of a call under way. *)
LockStep(p) == \/ ReadFind(p)
               \/ WriteFits(p) \/ WriteAlloc(p) \/ WriteGrow(p) \/ WriteNoMemory(p)
               \/ LlseekSize(p)
               \/ IoctlSeek(p) \/ IoctlRefuse(p)

RunStep(p) == \/ ReadCopy(p) \/ ReadFault(p)
              \/ WriteFault(p) \/ WritePart(p) \/ WriteCommit(p) \/ CommitNoMemory(p)
              \/ fixed_size_llseek(p) \/ IoctlSet(p) \/ Return(p)

EnterStep(p) == \E f \in File :
  \/ \E count \in ReadCounts : ReadEnter(p, f, count)
  \/ \E chunk \in Chunks : WriteEnter(p, f, chunk)
  \/ \E arg \in LSeeks : LlseekEnter(p, f, arg)
  \/ \E arg \in Seeks : IoctlEnter(p, f, arg)

Next == \/ \E p \in Proc : EnterStep(p) \/ LockStep(p) \/ RunStep(p)
        \/ \E f \in File : aesd_open(f) \/ aesd_release(f)
        \/ aesd_init_module
        \/ aesd_cleanup_module

Spec == Init /\ [][Next]_vars

(* A step of a call under way is taken in the end; a kernel mutex hands    *)
(* itself over to its waiters, so one that keeps coming free is obtained.  *)
Fairness == \A p \in Proc : SF_vars(LockStep(p)) /\ WF_vars(RunStep(p))

FairSpec == Spec /\ Fairness
-----------------------------------------------------------------------------
Entry == [buffptr : Ptr, size : Nat]

PC == {"user", "aesd_read", "copy_to_user", "aesd_write", "copy_from_user", "aesd_llseek",
       "fixed_size_llseek", "aesd_unlocked_ioctl", "set_f_pos", "return"}

Call == [filp : File \cup {NULL}, buf : Seq(Byte), count : Nat, pos : Nat,
         arg : Int \X Nat,
         at : [slot : Slots \cup {NULL}, entry_offset : Nat], ret : Int]

(* Every variable keeps its type; in particular no position is negative    *)
(* and the ring's offsets name slots.                                      *)
TypeOK ==
  /\ loaded \in BOOLEAN
  /\ buffer \in Buffer(Entry)
  /\ temp_buf \in [data : Ptr \cup {NULL}, size : Nat, capacity : Nat]
  /\ mutex \in Proc \cup {NULL}
  /\ heap \in [Ptr -> Block \cup {Free}]
  /\ opened \subseteq File
  /\ f_pos \in [File -> Nat]
  /\ pc \in [Proc -> PC]
  /\ call \in [Proc -> Call]

(* The blocks temp_buf and the entries point to. *)
Referenced == {temp_buf.data, NULL} \cup {buffer.entry[i].buffptr : i \in Slots}

(* Memory is neither leaked, nor freed while still referenced, nor owned   *)
(* twice: the allocated blocks are exactly those that temp_buf and the     *)
(* entries point to, each by one pointer.  Unloading frees all of them.    *)
HeapExact ==
  /\ {p \in Ptr : heap[p] # Free} = Referenced \ {NULL}
  /\ \A i \in UsedSlots(buffer) :
       /\ buffer.entry[i].buffptr # temp_buf.data
       /\ \A j \in UsedSlots(buffer) :
            buffer.entry[i].buffptr = buffer.entry[j].buffptr => i = j

(* The sizes the driver keeps are those of its blocks: temp_buf's capacity *)
(* is its block's length and its bytes lie inside, an entry fills its      *)
(* block, and every entry is a command, complete with a newline.           *)
BlocksFit ==
  /\ temp_buf.data # NULL =>
       LET block == heap[temp_buf.data]
       IN  /\ block.len = temp_buf.capacity
           /\ temp_buf.size <= Len(block.data) /\ Len(block.data) <= block.len
  /\ \A i \in UsedSlots(buffer) :
       LET e == buffer.entry[i]
           block == heap[e.buffptr]
       IN  /\ block.len = e.size /\ Len(block.data) = e.size
           /\ \E j \in 1 .. e.size : block.data[j] = NEWLINE

(* When copy_from_user runs, the bytes of this write fit behind those      *)
(* already in temp_buf, whoever wrote these and whatever failed before.    *)
CopyInBounds ==
  \A p \in Proc : pc[p] = "copy_from_user" =>
     /\ temp_buf.data # NULL
     /\ temp_buf.size + Len(call[p].buf) <= heap[temp_buf.data].len

(* While read copies to user space, the entry and the offset it found are  *)
(* still what its position stands for: no writer has reused the slot or    *)
(* freed the bytes in between.                                             *)
FoundEntryHolds ==
  \A p \in Proc : pc[p] = "copy_to_user" =>
     /\ call[p].at = aesd_circular_buffer_find_entry_offset_for_fpos(buffer, call[p].pos)
     /\ call[p].at.slot # NULL
     /\ heap[buffer.entry[call[p].at.slot].buffptr] # Free

(* The commands the device holds, oldest first. *)
Commands == IF loaded THEN LET es == Entries(buffer) IN [k \in 1 .. Len(es) |-> Contents(es[k])]
            ELSE <<>>

(* The ring, the blocks and the mutex together implement the device of     *)
(* CharDevice: commands are joined, kept and dropped as it says, whatever  *)
(* the interleaving of calls and whichever allocation or copy fails.       *)
Device == INSTANCE CharDevice WITH Capacity <- MAX, log <- Commands, pending <- Pending
ImplementsCharDevice == Device!Spec

(* A read returns the bytes that stand at its position in the device's     *)
(* content, at least one unless none was asked for, and its position       *)
(* advances past them; it reports end of file only at the end.             *)
ReadServesPosition ==
  [][\A p \in Proc :
       LET content == Device!Content(Commands)
           c == call[p]
           n == call'[p].ret
       IN  /\ ReadCopy(p) =>
                /\ n <= c.count /\ (c.count > 0 => n > 0)
                /\ call'[p].buf = SubSeq(content, c.pos + 1, c.pos + n)
                /\ call'[p].pos = c.pos + n
           /\ ReadFind(p) /\ pc'[p] = "return" => c.pos >= Len(content)]_vars

(* The position a seek has computed is that of byte write_cmd_offset of    *)
(* command write_cmd, counted from the oldest command.                     *)
SeekHolds(p) ==
  LET arg == call[p].arg
  IN  /\ arg[1] < Len(Commands) /\ arg[2] < Len(Commands[arg[1] + 1])
      /\ call[p].pos = Len(Device!Content(SubSeq(Commands, 1, arg[1]))) + arg[2]

(* An accepted AESDCHAR_IOCSEEKTO computes the position of its command,    *)
(* and although f_pos is set only after the mutex has been released, the   *)
(* position stays right until then: whatever others do, it gets stale only *)
(* by a step that finds the ring full, that is by dropping a command.      *)
SeekFindsCommand ==
  [][\A p \in Proc :
       pc'[p] = "set_f_pos" /\ (pc[p] = "set_f_pos" => SeekHolds(p) /\ ~buffer.full)
         => SeekHolds(p)']_vars

(* No call returns to user space with the device mutex locked: "Any        *)
(* necessary locking must be performed by caller" of the circular buffer.  *)
MutexReleased == \A p \in Proc : mutex = p => pc[p] \in {"copy_to_user", "copy_from_user"}

(* Every call returns: nobody waits for the mutex for ever. *)
CallsReturn == \A p \in Proc : pc[p] # "user" ~> pc[p] = "user"
=============================================================================
