--------------------------- MODULE AesdCharProofs ---------------------------
(***************************************************************************)
(* The driver keeps its types, its memory and its ring right for every     *)
(* number of processes, files, addresses and slots and for every chunk,    *)
(* count and seek user space may pass.                                     *)
(***************************************************************************)
EXTENDS AesdChar, CircularBufferLemmas

(* Calls run on open files. *)
InCall == \A p \in Proc : pc[p] # "user" => call[p].filp \in opened

(* A copy from or to user space is made under the mutex. *)
Exclusive == \A p \in Proc : pc[p] \in {"copy_to_user", "copy_from_user"} => mutex = p

(* The argument of an ioctl is unsigned. *)
SeekArgs == \A p \in Proc : pc[p] = "aesd_unlocked_ioctl" => call[p].arg \in Nat \X Nat

(* What read has found still is what its position stands for. *)
Found ==
  \A p \in Proc : pc[p] = "copy_to_user" =>
     /\ call[p].at = aesd_circular_buffer_find_entry_offset_for_fpos(buffer, call[p].pos)
     /\ call[p].at.slot # NULL

CallInv == InCall /\ Exclusive /\ SeekArgs /\ Found /\ CopyInBounds

(* An unloaded driver has no open file and points to no memory. *)
Unloaded == ~loaded => opened = {} /\ temp_buf.data = NULL /\ UsedSlots(buffer) = {}

(* The ring is well-formed as long as the driver is loaded. *)
RingUp == loaded => RingOK(buffer)

MemInv == Unloaded /\ RingUp /\ HeapExact /\ BlocksFit

IInv == TypeOK /\ MemInv /\ CallInv
-----------------------------------------------------------------------------
(* The zeroes of memset are not an entry of the driver. *)
LEMMA NoEntryNotEntry == NoEntry \notin Entry
BY PtrAssumption DEF NoEntry, Entry

(* A slot is used exactly when it holds a driver's entry. *)
LEMMA UsedIsEntry ==
  ASSUME NEW b \in Buffer(Entry), NEW i \in Slots
  PROVE  /\ i \in UsedSlots(b) <=> b.entry[i] # NoEntry
         /\ i \in UsedSlots(b) <=> b.entry[i] \in Entry
         /\ i \in UsedSlots(b) <=> b.entry[i].buffptr \in Ptr
         /\ i \notin UsedSlots(b) => b.entry[i].buffptr = NULL
         /\ b.entry[i].size \in Nat
BY PtrAssumption DEF Buffer, UsedSlots, Entry, NoEntry

(* What the driver's memory promises depends on these variables only. *)
LEMMA MemFrame ==
  ASSUME MemInv, UNCHANGED <<loaded, dev, opened>>
  PROVE  MemInv'
BY DEF MemInv, dev, Unloaded, RingUp, HeapExact, BlocksFit, Referenced, UsedSlots, RingOK

(* The cleared locals of a process outside a call are of their type. *)
LEMMA NoCallType == NoCall \in Call
BY DEF NoCall, Call, Nowhere

(* The invariant holds before the module is loaded for the first time. *)
LEMMA InitIInv == Init => IInv
<1> SUFFICES ASSUME Init PROVE IInv
  OBVIOUS
<1> USE DEF Init
<1>1. buffer \in Buffer(Entry)
  BY InitBuffer
<1>3. TypeOK
  BY <1>1, NoCallType DEF TypeOK, NoTemp, PC
<1>4. \A i \in Slots : buffer.entry[i].buffptr = NULL
  BY DEF aesd_circular_buffer_init, NoEntry
<1>5. UsedSlots(buffer) = {}
  BY <1>4 DEF UsedSlots
<1>6. HeapExact
  BY <1>4, <1>5 DEF HeapExact, Referenced, NoTemp
<1>7. MemInv
  BY <1>5, <1>6 DEF MemInv, Unloaded, RingUp, BlocksFit, NoTemp
<1>8. CallInv
  BY DEF CallInv, InCall, Exclusive, SeekArgs, Found, CopyInBounds
<1> QED
  BY <1>3, <1>7, <1>8 DEF IInv
-----------------------------------------------------------------------------
(* Entering a call leaves the device alone. *)
LEMMA EnterKeepsInv ==
  ASSUME IInv, NEW p \in Proc, NEW STATE c, c \in Call,
         NEW where \in {"aesd_read", "aesd_write", "aesd_llseek", "aesd_unlocked_ioctl"},
         where = "aesd_unlocked_ioctl" => c.arg \in Nat \X Nat,
         Enter(p, where, c)
  PROVE  IInv'
<1> USE DEF IInv
<1>1. MemInv'
  BY MemFrame DEF Enter
<1>2. TypeOK'
  BY DEF TypeOK, Enter, dev, PC
<1>3. CallInv'
  BY DEF CallInv, InCall, Exclusive, SeekArgs, Found, CopyInBounds, Enter, dev, TypeOK
<1> QED
  BY <1>1, <1>2, <1>3

(* Each of the four system calls starts with arguments of its type. *)
LEMMA EnterStepInv ==
  ASSUME IInv, NEW p \in Proc, EnterStep(p)
  PROVE  IInv'
<1>1. \A f \in File : f_pos[f] \in Nat
  BY DEF IInv, TypeOK
<1>2. ASSUME NEW f \in File, NEW count \in ReadCounts, ReadEnter(p, f, count)
      PROVE  IInv'
  <2> DEFINE c == [NoCall EXCEPT !.filp = f, !.count = count, !.pos = f_pos[f]]
  <2>1. c \in Call
    BY <1>1, CountAssumption, NoCallType DEF Call
  <2>2. Enter(p, "aesd_read", c)
    BY <1>2 DEF ReadEnter
  <2> HIDE DEF c
  <2> QED
    BY <2>1, <2>2, EnterKeepsInv
<1>3. ASSUME NEW f \in File, NEW chunk \in Chunks, WriteEnter(p, f, chunk)
      PROVE  IInv'
  <2> DEFINE c == [NoCall EXCEPT !.filp = f, !.buf = chunk, !.pos = f_pos[f]]
  <2>1. c \in Call
    BY <1>1, ByteAssumption, NoCallType DEF Call
  <2>2. Enter(p, "aesd_write", c)
    BY <1>3 DEF WriteEnter
  <2> HIDE DEF c
  <2> QED
    BY <2>1, <2>2, EnterKeepsInv
<1>4. ASSUME NEW f \in File, NEW arg \in LSeeks, LlseekEnter(p, f, arg)
      PROVE  IInv'
  <2> DEFINE c == [NoCall EXCEPT !.filp = f, !.arg = arg]
  <2>1. arg \in Int \X Nat
    <3>1. arg \in Int \X (0 .. 2)
      BY SeekAssumption
    <3> QED
      BY <3>1
  <2>2. c \in Call
    BY <2>1, NoCallType DEF Call
  <2>3. Enter(p, "aesd_llseek", c)
    BY <1>4 DEF LlseekEnter
  <2> HIDE DEF c
  <2> QED
    BY <2>2, <2>3, EnterKeepsInv
<1>5. ASSUME NEW f \in File, NEW arg \in Seeks, IoctlEnter(p, f, arg)
      PROVE  IInv'
  <2> DEFINE c == [NoCall EXCEPT !.filp = f, !.arg = arg]
  <2>1. arg \in Nat \X Nat /\ arg \in Int \X Nat
    <3>1. arg \in Nat \X Nat
      BY SeekAssumption
    <3> QED
      BY <3>1
  <2>2. c \in Call /\ c.arg = arg
    BY <2>1, NoCallType DEF Call
  <2>3. Enter(p, "aesd_unlocked_ioctl", c)
    BY <1>5 DEF IoctlEnter
  <2> HIDE DEF c
  <2> QED
    BY <2>1, <2>2, <2>3, EnterKeepsInv
<1> QED
  BY <1>2, <1>3, <1>4, <1>5 DEF EnterStep
-----------------------------------------------------------------------------
(* A step of p that leaves the device's memory and the other calls alone,  *)
(* and takes the mutex only when it is free or returns it only from a      *)
(* copy, keeps what is promised of the other calls.                        *)
LEMMA QuietStep ==
  ASSUME IInv, NEW p \in Proc, NEW STATE c, c \in Call, NEW STATE where, where \in PC,
         UNCHANGED <<loaded, dev, opened>>,
         f_pos' \in [File -> Nat],
         pc' = [pc EXCEPT ![p] = where],
         call' = [call EXCEPT ![p] = c],
         mutex' \in Proc \cup {NULL},
         mutex' # mutex => mutex = NULL \/ mutex = p,
         where # "user" => c.filp \in opened,
         where \notin {"aesd_unlocked_ioctl", "copy_from_user"},
         where = "copy_to_user" =>
           /\ mutex' = p
           /\ c.at = aesd_circular_buffer_find_entry_offset_for_fpos(buffer, c.pos)
           /\ c.at.slot # NULL
  PROVE  IInv'
<1>1. TypeOK'
  BY DEF IInv, TypeOK, dev, PC
<1>2. MemInv'
  BY MemFrame DEF IInv
<1>3. ASSUME NEW q \in Proc, q # p
      PROVE  pc'[q] = pc[q] /\ call'[q] = call[q]
  BY <1>3 DEF IInv, TypeOK
<1>4. pc'[p] = where /\ call'[p] = c
  BY DEF IInv, TypeOK
<1>5. InCall'
  BY <1>3, <1>4 DEF IInv, CallInv, InCall
<1>6. Exclusive'
  BY <1>3, <1>4, PtrAssumption DEF IInv, CallInv, Exclusive
<1>7. SeekArgs'
  BY <1>3, <1>4 DEF IInv, CallInv, SeekArgs
<1>8. Found'
  BY <1>3, <1>4 DEF IInv, CallInv, Found, dev
<1>9. CopyInBounds'
  BY <1>3, <1>4 DEF IInv, CallInv, CopyInBounds, dev
<1> QED
  BY <1>1, <1>2, <1>5, <1>6, <1>7, <1>8, <1>9 DEF IInv, CallInv

(* The search of read, and the end of file. *)
LEMMA ReadFindInv ==
  ASSUME IInv, NEW p \in Proc, ReadFind(p)
  PROVE  IInv'
<1> DEFINE at == aesd_circular_buffer_find_entry_offset_for_fpos(buffer, call[p].pos)
<1>1. call[p] \in Call /\ call[p].filp \in opened
  BY DEF IInv, TypeOK, CallInv, InCall, ReadFind
<1>2. call[p].pos \in Nat
  BY <1>1 DEF Call
<1>3. buffer \in Buffer([buffptr : Ptr, size : Nat]) /\ RingOK(buffer)
  BY <1>1 DEF IInv, TypeOK, Entry, MemInv, Unloaded, RingUp
<1>4. at \in [slot : Slots \cup {NULL}, entry_offset : Nat]
  <2>1. \/ at = [slot |-> NULL, entry_offset |-> 0]
        \/ at \in [slot : Slots, entry_offset : Nat]
    BY <1>2, <1>3, FindInEntry
  <2> HIDE DEF at
  <2> QED
    BY <2>1
<1> HIDE DEF at
<1>5. /\ UNCHANGED <<loaded, dev, opened>> /\ UNCHANGED f_pos
      /\ f_pos \in [File -> Nat] /\ mutex \in Proc \cup {NULL} /\ mutex = NULL
  BY DEF ReadFind, IInv, TypeOK
<1>6. CASE at.slot = NULL /\ Finish(p, 0) /\ UNCHANGED mutex
  <2> DEFINE c == [call[p] EXCEPT !.ret = 0]
  <2>1. c \in Call /\ c.filp \in opened
    BY <1>1, SMTT(30) DEF Call
  <2>2. call' = [call EXCEPT ![p] = c] /\ pc' = [pc EXCEPT ![p] = "return"]
    BY <1>6 DEF Finish
  <2> HIDE DEF c
  <2> QED
    BY <1>5, <1>6, <2>1, <2>2, QuietStep DEF PC
<1>7. CASE /\ at.slot # NULL /\ mutex' = p
           /\ pc' = [pc EXCEPT ![p] = "copy_to_user"]
           /\ call' = [call EXCEPT ![p].at = at]
  <2> DEFINE c == [call[p] EXCEPT !.at = at]
  <2>1. c \in Call /\ c.filp \in opened /\ c.at = at /\ c.pos = call[p].pos
    BY <1>1, <1>4 DEF Call
  <2>2. call' = [call EXCEPT ![p] = c]
    BY <1>7
  <2> HIDE DEF c
  <2> QED
    BY <1>5, <1>7, <2>1, <2>2, QuietStep DEF PC, at
<1> QED
  BY <1>6, <1>7 DEF ReadFind, at

(* What read copies lies inside the entry it found. *)
LEMMA ReadCopyInv ==
  ASSUME IInv, NEW p \in Proc, ReadCopy(p)
  PROVE  IInv'
<1> DEFINE at == call[p].at
           e == buffer.entry[at.slot]
           available == e.size - at.entry_offset
           n == IF call[p].count < available THEN call[p].count ELSE available
           bytes == Copied(Contents(e), at.entry_offset, n)
           c == [call[p] EXCEPT !.buf = bytes, !.pos = call[p].pos + n, !.ret = n]
<1>1. /\ call[p] \in Call /\ call[p].filp \in opened /\ mutex = p
      /\ call[p].at = aesd_circular_buffer_find_entry_offset_for_fpos(buffer, call[p].pos)
      /\ call[p].at.slot # NULL
  BY DEF IInv, TypeOK, CallInv, InCall, Found, Exclusive, ReadCopy
<1>2. call[p].pos \in Nat /\ call[p].count \in Nat
  BY <1>1 DEF Call
<1>3. buffer \in Buffer([buffptr : Ptr, size : Nat]) /\ RingOK(buffer)
  BY <1>1 DEF IInv, TypeOK, Entry, MemInv, Unloaded, RingUp
<1>4. at \in [slot : Slots, entry_offset : Nat] /\ e \in Entry /\ at.entry_offset < e.size
  <2>1. \/ at = [slot |-> NULL, entry_offset |-> 0]
        \/ /\ at \in [slot : Slots, entry_offset : Nat]
           /\ e \in [buffptr : Ptr, size : Nat]
           /\ at.entry_offset < e.size
    BY <1>1, <1>2, <1>3, FindInEntry
  <2> QED
    BY <1>1, <2>1 DEF Entry
<1>5. e.size \in Nat /\ n \in Nat /\ n + at.entry_offset <= e.size
  BY <1>2, <1>4 DEF Entry
<1>6. bytes \in Seq(Byte)
  <2>1. at.slot \in UsedSlots(buffer) /\ e.buffptr \in Ptr
    BY <1>3, <1>4, UsedIsEntry DEF Entry
  <2>2. heap[e.buffptr] # Free
    BY <2>1, <1>4 DEF IInv, MemInv, HeapExact, Referenced, UsedSlots
  <2>3. heap[e.buffptr] \in Block
    BY <2>1, <2>2 DEF IInv, TypeOK
  <2> DEFINE data == heap[e.buffptr].data
  <2>4. data \in Seq(Byte) /\ Len(data) = e.size
    BY <2>1, <2>3 DEF Block, IInv, MemInv, BlocksFit
  <2> HIDE DEF data
  <2>5. SubSeq(data, 1, e.size) \in Seq(Byte) /\ Len(SubSeq(data, 1, e.size)) = e.size
    <3> DEFINE m == e.size
    <3>1. m \in Nat /\ m = Len(data) /\ data \in Seq(Byte)
      BY <1>5, <2>4
    <3> HIDE DEF m
    <3>2. SubSeq(data, 1, m) \in Seq(Byte) /\ Len(SubSeq(data, 1, m)) = m
      BY <3>1
    <3> QED
      BY <3>2 DEF m
  <2>6. Contents(e) = SubSeq(data, 1, e.size)
    BY DEF Contents, data
  <2> HIDE DEF n, e, at
  <2> DEFINE all == Contents(e)
  <2>7. all \in Seq(Byte) /\ Len(all) = e.size /\ at.entry_offset \in Nat
    BY <1>4, <2>5, <2>6
  <2> HIDE DEF all
  <2>8. SubSeq(all, at.entry_offset + 1, at.entry_offset + n) \in Seq(Byte)
    BY <1>5, <2>7, SubSeqProperties
  <2> QED
    BY <2>8 DEF Copied, all
<1>7. call' = [call EXCEPT ![p] = c]
  BY <1>1 DEF ReadCopy, IInv, TypeOK, Call
<1> HIDE DEF bytes, n
<1>8. c \in Call /\ c.filp \in opened
  <2>1. n \in Int /\ call[p].pos + n \in Nat
    BY <1>2, <1>5
  <2> QED
    BY <1>1, <1>6, <2>1 DEF Call
<1>9. /\ UNCHANGED <<loaded, dev, opened>> /\ f_pos' \in [File -> Nat]
      /\ mutex' = NULL /\ pc' = [pc EXCEPT ![p] = "return"]
  BY DEF ReadCopy, IInv, TypeOK
<1> HIDE DEF c
<1> QED
  BY <1>1, <1>7, <1>8, <1>9, QuietStep DEF PC

(* A call that ends with an error or at end of file. *)
LEMMA FinishInv ==
  ASSUME IInv, NEW p \in Proc, NEW ret \in Int, pc[p] # "user", Finish(p, ret),
         mutex' = mutex \/ (mutex = p /\ mutex' = NULL),
         UNCHANGED <<loaded, dev, opened, f_pos>>
  PROVE  IInv'
<1> DEFINE c == [call[p] EXCEPT !.ret = ret]
<1>1. call[p] \in Call /\ call[p].filp \in opened
  BY DEF IInv, TypeOK, CallInv, InCall
<1>2. c \in Call /\ c.filp \in opened
  BY <1>1 DEF Call
<1>3. call' = [call EXCEPT ![p] = c] /\ pc' = [pc EXCEPT ![p] = "return"]
  BY DEF Finish
<1>4. f_pos' \in [File -> Nat] /\ mutex' \in Proc \cup {NULL}
  BY DEF IInv, TypeOK
<1> HIDE DEF c
<1> QED
  BY <1>2, <1>3, <1>4, QuietStep DEF PC

(* A call that returns to user space; IoctlRefuse does so with the mutex. *)
LEMMA LeaveInv ==
  ASSUME IInv, NEW p \in Proc, Leave(p), f_pos' \in [File -> Nat],
         mutex' = mutex \/ (mutex = NULL /\ mutex' = p),
         UNCHANGED <<loaded, dev, opened>>
  PROVE  IInv'
<1>1. mutex' \in Proc \cup {NULL}
  BY DEF IInv, TypeOK
<1> QED
  BY <1>1, NoCallType, QuietStep DEF Leave, PC

(* The return that stores f_pos back, whatever read or write returned. *)
LEMMA ReturnInv ==
  ASSUME IInv, NEW p \in Proc, Return(p)
  PROVE  IInv'
<1>1. call[p] \in Call /\ f_pos \in [File -> Nat]
  BY DEF IInv, TypeOK
<1>2. f_pos' \in [File -> Nat]
  BY <1>1 DEF Return, Call
<1> QED
  BY <1>2, LeaveInv DEF Return

(* llseek: the total size is a size, so the position that the kernel       *)
(* accepts lies between zero and it.                                       *)
LEMMA LlseekInv ==
  ASSUME IInv, NEW p \in Proc, LlseekSize(p) \/ fixed_size_llseek(p)
  PROVE  IInv'
<1>1. call[p] \in Call /\ f_pos \in [File -> Nat] /\ mutex \in Proc \cup {NULL}
  BY DEF IInv, TypeOK
<1>2. CASE LlseekSize(p)
  <2> DEFINE total_size == aesd_circular_buffer_total_size(buffer)
             c == [call[p] EXCEPT !.pos = total_size]
  <2>1. total_size \in Nat
    BY TotalSizeType DEF IInv, TypeOK, Entry
  <2> HIDE DEF total_size
  <2>2. call[p].filp \in opened
    BY <1>2 DEF IInv, CallInv, InCall, LlseekSize
  <2>3. c \in Call /\ c.filp \in opened
    BY <1>1, <2>1, <2>2 DEF Call
  <2>4. /\ call' = [call EXCEPT ![p] = c] /\ pc' = [pc EXCEPT ![p] = "fixed_size_llseek"]
        /\ UNCHANGED <<loaded, dev, opened>> /\ UNCHANGED <<mutex, f_pos>>
    BY <1>2 DEF LlseekSize, total_size
  <2> HIDE DEF c
  <2> QED
    BY <1>1, <2>3, <2>4, QuietStep DEF PC
<1>3. CASE fixed_size_llseek(p)
  <2> DEFINE offset == call[p].arg[1]
             whence == call[p].arg[2]
             target == CASE whence = SEEK_SET -> offset
                         [] whence = SEEK_CUR -> f_pos[call[p].filp] + offset
                         [] whence = SEEK_END -> call[p].pos + offset
  <2>1. f_pos' = IF target \in 0 .. call[p].pos THEN [f_pos EXCEPT ![call[p].filp] = target] ELSE f_pos
    BY <1>3 DEF fixed_size_llseek
  <2> HIDE DEF target
  <2>2. call[p].pos \in Nat
    BY <1>1 DEF Call
  <2>3. f_pos' \in [File -> Nat]
    <3>1. CASE target \in 0 .. call[p].pos
      <4>1. target \in Nat
        BY <2>2, <3>1
      <4>2. f_pos' = [f_pos EXCEPT ![call[p].filp] = target]
        BY <2>1, <3>1
      <4> QED
        BY <1>1, <4>1, <4>2
    <3>2. CASE target \notin 0 .. call[p].pos
      BY <1>1, <2>1, <3>2
    <3> QED
      BY <3>1, <3>2
  <2> QED
    BY <1>3, <2>3, LeaveInv DEF fixed_size_llseek
<1> QED
  BY <1>2, <1>3

(* ioctl: an accepted command is one of the ring, so the position is the   *)
(* sum of the sizes before it and an offset.                               *)
LEMMA IoctlInv ==
  ASSUME IInv, NEW p \in Proc, IoctlSeek(p) \/ IoctlRefuse(p) \/ IoctlSet(p)
  PROVE  IInv'
<1>1. call[p] \in Call /\ f_pos \in [File -> Nat] /\ mutex \in Proc \cup {NULL}
  BY DEF IInv, TypeOK
<1>2. CASE IoctlSeek(p)
  <2> DEFINE write_cmd == call[p].arg[1]
             write_cmd_offset == call[p].arg[2]
             pos == new_f_pos(buffer, write_cmd, write_cmd_offset)
             c == [call[p] EXCEPT !.pos = pos]
  <2>1. call[p].filp \in opened /\ call[p].arg \in Nat \X Nat
    BY <1>2 DEF IInv, CallInv, InCall, SeekArgs, IoctlSeek
  <2>2. write_cmd \in Nat /\ write_cmd_offset \in Nat
    BY <2>1
  <2>3. write_cmd < aesd_circular_buffer_size(buffer)
    BY <1>2 DEF IoctlSeek, SeekInRange
  <2> HIDE DEF write_cmd, write_cmd_offset
  <2>4. write_cmd \in 0 .. MAX
    BY <2>2, <2>3, SizeBound, MaxPositive
  <2>5. CharCount(buffer)[write_cmd] \in Nat
    <3>1. CharCount(buffer) \in [0 .. MAX -> Nat]
      BY CharCountStep DEF IInv, TypeOK, Entry
    <3> QED
      BY <2>4, <3>1
  <2>6. pos \in Nat
    BY <2>2, <2>5 DEF new_f_pos
  <2>7. /\ call' = [call EXCEPT ![p] = c] /\ pc' = [pc EXCEPT ![p] = "set_f_pos"]
        /\ UNCHANGED <<loaded, dev, opened>> /\ UNCHANGED <<mutex, f_pos>>
    BY <1>2 DEF IoctlSeek, write_cmd, write_cmd_offset
  <2> HIDE DEF pos
  <2>8. c \in Call /\ c.filp \in opened
    BY <1>1, <2>1, <2>6 DEF Call
  <2> HIDE DEF c
  <2> QED
    BY <1>1, <2>7, <2>8, QuietStep DEF PC
<1>3. CASE IoctlRefuse(p)
  BY <1>1, <1>3, LeaveInv DEF IoctlRefuse
<1>4. CASE IoctlSet(p)
  <2>1. f_pos' \in [File -> Nat]
    BY <1>1, <1>4 DEF IoctlSet, Call
  <2> QED
    BY <1>4, <2>1, LeaveInv DEF IoctlSet
<1> QED
  BY <1>2, <1>3, <1>4

(* The error returns of read and of write's allocation. *)
LEMMA ErrorInv ==
  ASSUME IInv, NEW p \in Proc, ReadFault(p) \/ WriteNoMemory(p)
  PROVE  IInv'
<1>1. CASE ReadFault(p)
  <2>1. mutex = p
    BY <1>1 DEF ReadFault, IInv, CallInv, Exclusive
  <2> QED
    BY <1>1, <2>1, FinishInv DEF ReadFault, EFAULT
<1>2. CASE WriteNoMemory(p)
  BY <1>2, FinishInv DEF WriteNoMemory, ENOMEM
<1> QED
  BY <1>1, <1>2
-----------------------------------------------------------------------------
(* open and release change only what InCall needs of opened. *)
LEMMA OpenReleaseInv ==
  ASSUME IInv, NEW f \in File, aesd_open(f) \/ aesd_release(f)
  PROVE  IInv'
<1>1. TypeOK'
  BY DEF IInv, TypeOK, aesd_open, aesd_release, dev
<1>2. MemInv'
  <2>1. HeapExact' /\ BlocksFit' /\ RingUp'
    BY DEF IInv, MemInv, HeapExact, BlocksFit, RingUp, RingOK, Referenced, UsedSlots,
           aesd_open, aesd_release, dev
  <2>2. Unloaded'
    BY DEF IInv, MemInv, Unloaded, UsedSlots, aesd_open, aesd_release, dev
  <2> QED
    BY <2>1, <2>2 DEF MemInv
<1>3. InCall'
  BY DEF IInv, CallInv, InCall, Quiet, aesd_open, aesd_release
<1>4. (Exclusive /\ SeekArgs /\ Found /\ CopyInBounds)'
  BY DEF IInv, CallInv, Exclusive, SeekArgs, Found, CopyInBounds, aesd_open, aesd_release, dev
<1> QED
  BY <1>1, <1>2, <1>3, <1>4 DEF IInv, CallInv

(* With no file open every process is in user space. *)
LEMMA AllOutside ==
  ASSUME IInv, opened = {}, NEW p \in Proc
  PROVE  pc[p] = "user"
BY DEF IInv, CallInv, InCall

(* Loading starts with an empty ring and no memory. *)
LEMMA LoadInv ==
  ASSUME IInv, aesd_init_module
  PROVE  IInv'
<1>1. opened = {} /\ temp_buf.data = NULL /\ UsedSlots(buffer) = {}
  BY DEF IInv, MemInv, Unloaded, aesd_init_module
<1>2. buffer' \in Buffer(Entry) /\ RingOK(buffer')
  BY InitBuffer DEF aesd_init_module
<1>3. TypeOK'
  BY <1>2 DEF IInv, TypeOK, aesd_init_module, NoTemp
<1>4. \A i \in Slots : buffer.entry[i].buffptr = NULL /\ buffer'.entry[i].buffptr = NULL
  BY <1>1 DEF UsedSlots, aesd_init_module, aesd_circular_buffer_init, NoEntry
<1>5. UsedSlots(buffer') = {} /\ temp_buf'.data = NULL
  BY <1>4 DEF UsedSlots, aesd_init_module, NoTemp
<1>6. HeapExact'
  <2>1. Referenced = Referenced'
    BY <1>1, <1>4, <1>5 DEF Referenced
  <2> QED
    BY <1>5, <2>1 DEF IInv, MemInv, HeapExact, aesd_init_module
<1>7. MemInv'
  BY <1>2, <1>5, <1>6 DEF MemInv, Unloaded, RingUp, BlocksFit, aesd_init_module
<1>8. CallInv'
  BY <1>1, AllOutside DEF CallInv, InCall, Exclusive, SeekArgs, Found, CopyInBounds, aesd_init_module
<1> QED
  BY <1>3, <1>7, <1>8 DEF IInv

(* Unloading frees every block: all that is allocated is referenced. *)
LEMMA UnloadInv ==
  ASSUME IInv, aesd_cleanup_module
  PROVE  IInv'
<1> DEFINE freed == {temp_buf.data} \cup {buffer.entry[i].buffptr : i \in FreedSlots}
<1>1. buffer \in Buffer(Entry) /\ heap \in [Ptr -> Block \cup {Free}] /\ opened = {}
  BY DEF IInv, TypeOK, aesd_cleanup_module
<1>2. \A i \in Slots : buffer'.entry[i] = NoEntry
  BY <1>1, UsedIsEntry DEF aesd_cleanup_module, FreedSlots, UsedSlots, Buffer
<1>3. buffer' \in Buffer(Entry)
  BY <1>1 DEF aesd_cleanup_module, Buffer
<1>4. UsedSlots(buffer') = {} /\ temp_buf'.data = NULL
  BY <1>2 DEF UsedSlots, NoEntry, NoTemp, aesd_cleanup_module
<1>5. \A p \in Ptr : heap'[p] = Free
  <2> TAKE p \in Ptr
  <2>1. heap[p] # Free => p \in Referenced \ {NULL}
    BY DEF IInv, MemInv, HeapExact
  <2>2. p \in Referenced \ {NULL} => p \in freed
    BY DEF Referenced, FreedSlots
  <2> QED
    BY <2>1, <2>2 DEF aesd_cleanup_module
<1>6. Referenced' = {NULL}
  <2>1. \A i \in Slots : buffer'.entry[i].buffptr = NULL
    BY <1>2 DEF NoEntry
  <2> QED
    BY <1>4, <2>1 DEF Referenced
<1>7. HeapExact'
  BY <1>4, <1>5, <1>6 DEF HeapExact
<1>8. MemInv'
  BY <1>1, <1>4, <1>7 DEF MemInv, Unloaded, RingUp, BlocksFit, aesd_cleanup_module
<1>9. TypeOK'
  BY <1>1, <1>3 DEF IInv, TypeOK, aesd_cleanup_module, NoTemp
<1>10. CallInv'
  BY <1>1, AllOutside DEF CallInv, InCall, Exclusive, SeekArgs, Found, CopyInBounds, aesd_cleanup_module
<1> QED
  BY <1>8, <1>9, <1>10 DEF IInv
-----------------------------------------------------------------------------
(* The memory of a loaded driver when a write of p is about to run or      *)
(* runs: p alone has the device.                                           *)
LEMMA WriterFacts ==
  ASSUME IInv, NEW p \in Proc, pc[p] \in {"aesd_write", "copy_from_user"}
  PROVE  /\ loaded /\ RingOK(buffer) /\ buffer \in Buffer(Entry)
         /\ call[p] \in Call /\ call[p].filp \in opened /\ call[p].buf \in Seq(Byte)
         /\ Len(call[p].buf) \in Nat
         /\ temp_buf \in [data : Ptr \cup {NULL}, size : Nat, capacity : Nat]
         /\ heap \in [Ptr -> Block \cup {Free}]
         /\ pc[p] = "copy_from_user" => mutex = p /\ temp_buf.data # NULL
<1>1. call[p] \in Call /\ call[p].filp \in opened
  BY DEF IInv, TypeOK, CallInv, InCall
<1>2. loaded /\ RingOK(buffer) /\ buffer \in Buffer(Entry)
  BY <1>1 DEF IInv, TypeOK, MemInv, Unloaded, RingUp
<1>3. call[p].buf \in Seq(Byte) /\ Len(call[p].buf) \in Nat
  BY <1>1 DEF Call
<1>4. pc[p] = "copy_from_user" => mutex = p /\ temp_buf.data # NULL
  BY DEF IInv, CallInv, Exclusive, CopyInBounds
<1> QED
  BY <1>1, <1>2, <1>3, <1>4 DEF IInv, TypeOK

(* temp_buf's block is allocated and holds what the driver thinks. *)
LEMMA TempBlock ==
  ASSUME IInv, temp_buf.data # NULL
  PROVE  /\ temp_buf.data \in Ptr
         /\ heap[temp_buf.data] \in Block
         /\ heap[temp_buf.data].data \in Seq(Byte)
         /\ heap[temp_buf.data].len = temp_buf.capacity
         /\ temp_buf.size \in Nat /\ temp_buf.capacity \in Nat
         /\ temp_buf.size <= Len(heap[temp_buf.data].data)
         /\ Len(heap[temp_buf.data].data) <= temp_buf.capacity
<1>1. temp_buf \in [data : Ptr \cup {NULL}, size : Nat, capacity : Nat]
  BY DEF IInv, TypeOK
<1>2. heap[temp_buf.data] # Free
  BY <1>1 DEF IInv, MemInv, HeapExact, Referenced
<1>3. heap[temp_buf.data] \in Block
  BY <1>1, <1>2 DEF IInv, TypeOK
<1>4. heap[temp_buf.data].data \in Seq(Byte)
  BY <1>3 DEF Block
<1> QED
  BY <1>1, <1>3, <1>4 DEF IInv, MemInv, BlocksFit

(* The bytes a write leaves in temp_buf, if it gets that far. *)
Joined(p) == Pending \o call[p].buf

(* They are bytes, and they fit. *)
LEMMA JoinedBytes ==
  ASSUME IInv, NEW p \in Proc, pc[p] = "copy_from_user"
  PROVE  /\ Pending \in Seq(Byte) /\ Len(Pending) = temp_buf.size
         /\ Pending \o call[p].buf \in Seq(Byte)
         /\ Len(Pending \o call[p].buf) = temp_buf.size + Len(call[p].buf)
         /\ temp_buf.size + Len(call[p].buf) <= temp_buf.capacity
<1> DEFINE data == heap[temp_buf.data].data
           buf == call[p].buf
<1>1. temp_buf.data # NULL /\ buf \in Seq(Byte)
  BY WriterFacts
<1>2. data \in Seq(Byte) /\ temp_buf.size \in Nat /\ temp_buf.size <= Len(data)
  BY <1>1, TempBlock
<1>3. Pending = SubSeq(data, 1, temp_buf.size)
  BY <1>1 DEF Pending
<1>4. temp_buf.size + Len(buf) <= temp_buf.capacity
  BY <1>1, TempBlock DEF IInv, CallInv, CopyInBounds
<1> HIDE DEF data, buf
<1>5. Pending \in Seq(Byte) /\ Len(Pending) = temp_buf.size
  BY <1>2, <1>3
<1>6. Pending \o buf \in Seq(Byte) /\ Len(Pending \o buf) = Len(Pending) + Len(buf)
  BY <1>1, <1>5
<1> QED
  BY <1>4, <1>5, <1>6 DEF buf
-----------------------------------------------------------------------------
(* A step of a write, taken with the device to itself, keeps the invariant *)
(* when it keeps the memory right and leaves room for the copy to come.    *)
LEMMA WriteStep ==
  ASSUME IInv, NEW p \in Proc, NEW STATE c, c \in Call,
         NEW where \in {"copy_from_user", "return"},
         pc[p] \in {"aesd_write", "copy_from_user"},
         mutex = NULL \/ mutex = p,
         UNCHANGED <<loaded, opened, f_pos>>,
         pc' = [pc EXCEPT ![p] = where],
         call' = [call EXCEPT ![p] = c],
         c.filp = call[p].filp,
         mutex' = IF where = "return" THEN NULL ELSE p,
         buffer' \in Buffer(Entry),
         temp_buf' \in [data : Ptr \cup {NULL}, size : Nat, capacity : Nat],
         heap' \in [Ptr -> Block \cup {Free}],
         MemInv',
         where = "copy_from_user" =>
           /\ temp_buf'.data # NULL
           /\ temp_buf'.size + Len(c.buf) <= heap'[temp_buf'.data].len
  PROVE  IInv'
<1>1. TypeOK'
  BY DEF IInv, TypeOK, PC
<1>2. ASSUME NEW q \in Proc, q # p
      PROVE  /\ pc'[q] = pc[q] /\ call'[q] = call[q]
             /\ pc[q] \notin {"copy_to_user", "copy_from_user"}
  BY <1>2, PtrAssumption DEF IInv, TypeOK, CallInv, Exclusive
<1>3. pc'[p] = where /\ call'[p] = c
  BY DEF IInv, TypeOK
<1>4. InCall'
  BY <1>2, <1>3, WriterFacts DEF IInv, CallInv, InCall
<1>5. Exclusive'
  BY <1>2, <1>3 DEF Exclusive
<1>6. SeekArgs'
  BY <1>2, <1>3 DEF IInv, CallInv, SeekArgs
<1>7. Found'
  BY <1>2, <1>3 DEF Found
<1>8. CopyInBounds'
  BY <1>2, <1>3 DEF CopyInBounds
<1> QED
  BY <1>1, <1>4, <1>5, <1>6, <1>7, <1>8 DEF IInv, CallInv

(* temp_buf gets a block b at address d, which is the one it had or one    *)
(* that was free, and the block it had before is gone.                     *)
LEMMA TempStep ==
  ASSUME IInv, loaded, UNCHANGED <<loaded, buffer, opened>>,
         NEW d \in Ptr, d = temp_buf.data \/ heap[d] = Free,
         NEW STATE b, b \in Block,
         heap' \in [Ptr -> Block \cup {Free}],
         \A x \in Ptr : heap'[x] = IF x = d THEN b
                                   ELSE IF x = temp_buf.data THEN Free ELSE heap[x],
         temp_buf'.data = d,
         temp_buf'.capacity = b.len,
         temp_buf'.size <= Len(b.data), Len(b.data) <= b.len
  PROVE  MemInv'
<1>1. UsedSlots(buffer') = UsedSlots(buffer)
  OBVIOUS
<1>2. buffer \in Buffer(Entry)
  BY DEF IInv, TypeOK
<1>3. b # Free /\ d # NULL
  BY FreeAssumption, PtrAssumption DEF Block
<1>4. ASSUME NEW i \in UsedSlots(buffer)
      PROVE  /\ buffer.entry[i].buffptr \in Ptr
             /\ buffer.entry[i].buffptr \notin {d, temp_buf.data}
             /\ heap'[buffer.entry[i].buffptr] = heap[buffer.entry[i].buffptr]
  <2>1. i \in Slots /\ buffer.entry[i].buffptr \in Ptr
    BY <1>2, UsedIsEntry DEF UsedSlots
  <2>2. buffer.entry[i].buffptr # temp_buf.data
    BY DEF IInv, MemInv, HeapExact
  <2>3. heap[buffer.entry[i].buffptr] # Free
    BY <2>1, PtrAssumption DEF IInv, MemInv, HeapExact, Referenced
  <2> QED
    BY <2>1, <2>2, <2>3
<1>5. HeapExact'
  <2>1. ASSUME NEW x \in Ptr
        PROVE  heap'[x] # Free <=> x \in Referenced'
    <3>1. x \in Referenced' <=> x = d \/ \E i \in UsedSlots(buffer) : x = buffer.entry[i].buffptr
      BY PtrAssumption DEF Referenced, UsedSlots
    <3>2. heap[x] # Free <=> x = temp_buf.data \/ \E i \in UsedSlots(buffer) : x = buffer.entry[i].buffptr
      BY PtrAssumption DEF IInv, MemInv, HeapExact, Referenced, UsedSlots
    <3> QED
      BY <1>3, <1>4, <3>1, <3>2
  <2>2. Referenced' \ {NULL} \subseteq Ptr
    <3>1. \A i \in Slots : buffer.entry[i].buffptr \in Ptr \cup {NULL}
      BY <1>2, UsedIsEntry
    <3> QED
      BY <3>1 DEF Referenced
  <2>3. {x \in Ptr : heap'[x] # Free} = Referenced' \ {NULL}
    BY <2>1, <2>2, PtrAssumption
  <2>4. \A i \in UsedSlots(buffer) : \A j \in UsedSlots(buffer) :
          buffer.entry[i].buffptr = buffer.entry[j].buffptr => i = j
    BY DEF IInv, MemInv, HeapExact
  <2> QED
    BY <1>1, <1>4, <2>3, <2>4 DEF HeapExact
<1>6. BlocksFit'
  <2>1. \A i \in UsedSlots(buffer) :
          /\ heap[buffer.entry[i].buffptr].len = buffer.entry[i].size
          /\ Len(heap[buffer.entry[i].buffptr].data) = buffer.entry[i].size
          /\ \E j \in 1 .. buffer.entry[i].size : heap[buffer.entry[i].buffptr].data[j] = NEWLINE
    BY DEF IInv, MemInv, BlocksFit
  <2> QED
    BY <1>1, <1>4, <2>1 DEF BlocksFit
<1>7. Unloaded' /\ RingUp'
  BY DEF IInv, MemInv, Unloaded, RingUp
<1> QED
  BY <1>5, <1>6, <1>7 DEF MemInv
-----------------------------------------------------------------------------
(* The steps up to copy_from_user: temp_buf has room, or gets it. *)
LEMMA WriteLockInv ==
  ASSUME IInv, NEW p \in Proc, WriteFits(p) \/ WriteAlloc(p) \/ WriteGrow(p)
  PROVE  IInv'
<1> DEFINE count == Len(call[p].buf)
<1>1. /\ pc[p] = "aesd_write" /\ mutex = NULL /\ mutex' = p
      /\ pc' = [pc EXCEPT ![p] = "copy_from_user"]
      /\ UNCHANGED <<loaded, opened, f_pos>> /\ UNCHANGED <<buffer, call>>
  BY DEF WriteFits, WriteAlloc, WriteGrow, WriteOn
<1>2. /\ loaded /\ buffer \in Buffer(Entry) /\ call[p] \in Call /\ count \in Nat
      /\ temp_buf \in [data : Ptr \cup {NULL}, size : Nat, capacity : Nat]
      /\ heap \in [Ptr -> Block \cup {Free}]
  BY <1>1, WriterFacts
<1>3. call' = [call EXCEPT ![p] = call[p]]
  BY <1>1 DEF IInv, TypeOK
<1> HIDE DEF count
<1>4. CASE WriteFits(p)
  <2>1. MemInv' /\ UNCHANGED <<temp_buf, heap>>
    BY <1>1, <1>4, MemFrame DEF WriteFits, IInv, dev
  <2>2. temp_buf.data # NULL /\ ~(temp_buf.capacity < temp_buf.size + count)
    BY <1>4 DEF WriteFits, TooSmall, count
  <2>3. temp_buf.size + count <= heap[temp_buf.data].len
    BY <1>2, <2>2, TempBlock
  <2> QED
    BY <1>1, <1>2, <1>3, <2>1, <2>2, <2>3, WriteStep DEF count
<1>5. CASE WriteAlloc(p)
  <2> DEFINE b == [len |-> count + Slack, data |-> <<>>]
  <2>1. PICK d \in Unused :
          /\ heap' = [heap EXCEPT ![d] = b]
          /\ temp_buf' = [data |-> d, size |-> 0, capacity |-> count + Slack]
    BY <1>5 DEF WriteAlloc, count
  <2>2. d \in Ptr /\ heap[d] = Free
    BY <2>1 DEF Unused
  <2>3. b \in Block /\ b.len = count + Slack /\ b.data = <<>> /\ Len(b.data) = 0
    BY <1>2, SlackAssumption DEF Block
  <2> HIDE DEF b
  <2>4. b.len \in Nat /\ 0 + count <= b.len
    BY <1>2, <2>3, SlackAssumption
  <2>5. heap' \in [Ptr -> Block \cup {Free}]
    BY <1>2, <2>1, <2>3
  <2>6. temp_buf.data = NULL /\ \A x \in Ptr : x # temp_buf.data
    BY <1>5, PtrAssumption DEF WriteAlloc
  <2>7. \A x \in Ptr : heap'[x] = IF x = d THEN b ELSE IF x = temp_buf.data THEN Free ELSE heap[x]
    BY <1>2, <2>1, <2>6
  <2>8. temp_buf'.data = d /\ temp_buf'.capacity = b.len /\ temp_buf'.size = 0
    BY <2>1, <2>3
  <2>9. MemInv'
    BY <1>1, <1>2, <2>2, <2>3, <2>4, <2>5, <2>7, <2>8, TempStep
  <2>10. temp_buf' \in [data : Ptr \cup {NULL}, size : Nat, capacity : Nat]
    BY <2>1, <2>2, <2>3, <2>4
  <2>11. temp_buf'.data # NULL /\ temp_buf'.size + count <= heap'[temp_buf'.data].len
    BY <2>2, <2>4, <2>7, <2>8, PtrAssumption
  <2> QED
    BY <1>1, <1>2, <1>3, <2>5, <2>9, <2>10, <2>11, WriteStep DEF count
<1>6. CASE WriteGrow(p)
  <2> DEFINE old == temp_buf.data
             capacity == temp_buf.size + count + Slack
             b == [len |-> capacity, data |-> heap[old].data]
  <2>1. old # NULL /\ temp_buf.capacity < temp_buf.size + count
    BY <1>6 DEF WriteGrow, TooSmall, count
  <2>2. PICK d \in Unused \cup {old} :
          /\ heap' = [heap EXCEPT ![old] = Free, ![d] = b]
          /\ temp_buf' = [temp_buf EXCEPT !.data = d, !.capacity = capacity]
    BY <1>6 DEF WriteGrow, count
  <2>3. /\ old \in Ptr /\ heap[old].data \in Seq(Byte)
        /\ temp_buf.size \in Nat /\ temp_buf.capacity \in Nat
        /\ temp_buf.size <= Len(heap[old].data)
        /\ Len(heap[old].data) <= temp_buf.capacity
    BY <2>1, TempBlock
  <2>4. capacity \in Nat /\ temp_buf.size + count <= capacity /\ temp_buf.capacity <= capacity
    BY <1>2, <2>1, <2>3, SlackAssumption
  <2>5. d \in Ptr /\ (d = old \/ heap[d] = Free)
    BY <2>2, <2>3 DEF Unused
  <2> HIDE DEF capacity
  <2>6. b \in Block /\ b.len = capacity /\ b.data = heap[old].data
    BY <2>3, <2>4 DEF Block
  <2>7. temp_buf.size <= Len(b.data) /\ Len(b.data) <= b.len
    <3>1. Len(heap[old].data) \in Nat
      BY <2>3
    <3> QED
      BY <2>3, <2>4, <2>6, <3>1
  <2> HIDE DEF b
  <2>8. heap' \in [Ptr -> Block \cup {Free}]
    BY <1>2, <2>2, <2>5, <2>6
  <2>9. \A x \in Ptr : heap'[x] = IF x = d THEN b ELSE IF x = temp_buf.data THEN Free ELSE heap[x]
    BY <1>2, <2>2, <2>3, <2>5
  <2>10. temp_buf'.data = d /\ temp_buf'.capacity = b.len /\ temp_buf'.size = temp_buf.size
    BY <1>2, <2>2, <2>6
  <2>11. MemInv'
    BY <1>1, <1>2, <2>5, <2>6, <2>7, <2>8, <2>9, <2>10, TempStep
  <2>12. temp_buf' \in [data : Ptr \cup {NULL}, size : Nat, capacity : Nat]
    BY <1>2, <2>2, <2>4, <2>5
  <2>13. temp_buf'.data # NULL /\ temp_buf'.size + count <= heap'[temp_buf'.data].len
    BY <2>4, <2>5, <2>6, <2>9, <2>10, PtrAssumption
  <2> QED
    BY <1>1, <1>2, <1>3, <2>8, <2>11, <2>12, <2>13, WriteStep DEF count
<1> QED
  BY <1>4, <1>5, <1>6

(* The call of a write that ends well. *)
LEMMA WriteDoneCall ==
  ASSUME IInv, NEW p \in Proc, pc[p] = "copy_from_user", WriteDone(p)
  PROVE  \E c \in Call : c.filp = call[p].filp /\ call' = [call EXCEPT ![p] = c]
<1> DEFINE count == Len(call[p].buf)
           pos == call[p].pos + count
           c == [call[p] EXCEPT !.pos = pos, !.ret = count]
<1>1. call[p] \in Call /\ count \in Nat
  BY WriterFacts
<1>2. call' = [call EXCEPT ![p] = c]
  BY DEF WriteDone
<1> HIDE DEF count
<1>3. pos \in Nat /\ count \in Int
  BY <1>1 DEF Call
<1> HIDE DEF pos
<1>4. c \in Call /\ c.filp = call[p].filp
  BY <1>1, <1>3 DEF Call
<1> QED
  BY <1>2, <1>4

(* The ways out of copy_from_user that make no command. *)
LEMMA WriteOutInv ==
  ASSUME IInv, NEW p \in Proc, WriteFault(p) \/ WritePart(p) \/ CommitNoMemory(p)
  PROVE  IInv'
<1> DEFINE bytes == Pending \o call[p].buf
           t == temp_buf.data
           kept == IF WriteFault(p) THEN heap[t].data ELSE bytes
           size == IF WriteFault(p) THEN 0 ELSE Len(bytes)
           b == [heap[t] EXCEPT !.data = kept]
<1>1. /\ pc[p] = "copy_from_user" /\ mutex' = NULL
      /\ pc' = [pc EXCEPT ![p] = "return"]
      /\ UNCHANGED <<loaded, opened, f_pos>> /\ UNCHANGED buffer
  BY DEF WriteFault, WritePart, CommitNoMemory, Finish, WriteDone
<1>2. /\ loaded /\ buffer \in Buffer(Entry) /\ call[p] \in Call /\ Len(call[p].buf) \in Nat
      /\ temp_buf \in [data : Ptr \cup {NULL}, size : Nat, capacity : Nat]
      /\ heap \in [Ptr -> Block \cup {Free}]
      /\ mutex = p /\ t # NULL
  BY <1>1, WriterFacts
<1>3. /\ t \in Ptr /\ heap[t] \in Block /\ heap[t].data \in Seq(Byte)
      /\ heap[t].len = temp_buf.capacity /\ Len(heap[t].data) <= temp_buf.capacity
      /\ temp_buf.capacity \in Nat
  BY <1>2, TempBlock
<1>4. bytes \in Seq(Byte) /\ Len(bytes) <= temp_buf.capacity
  BY <1>1, JoinedBytes
<1>5. /\ heap' = [heap EXCEPT ![t] = b]
      /\ temp_buf' = [temp_buf EXCEPT !.size = size]
  <2>1. CASE WriteFault(p)
    <3>1. b = heap[t]
      BY <1>3, <2>1 DEF Block
    <3> QED
      BY <1>2, <1>3, <2>1, <3>1 DEF WriteFault, Emptied
  <2>2. CASE ~WriteFault(p)
    <3>1. heap' = Stored(bytes) /\ temp_buf' = [temp_buf EXCEPT !.size = Len(bytes)]
      BY <2>2 DEF WritePart, CommitNoMemory
    <3> QED
      BY <2>2, <3>1 DEF Stored
  <2> QED
    BY <2>1, <2>2
<1>6. kept \in Seq(Byte) /\ Len(kept) <= temp_buf.capacity /\ size \in Nat /\ size <= Len(kept)
  <2>1. Len(bytes) \in Nat /\ Len(heap[t].data) \in Nat
    BY <1>3, <1>4
  <2> QED
    BY <1>3, <1>4, <2>1
<1> HIDE DEF kept, size
<1>7. b \in Block /\ b.len = temp_buf.capacity /\ b.data = kept
  BY <1>3, <1>6 DEF Block
<1> HIDE DEF b
<1>8. heap' \in [Ptr -> Block \cup {Free}]
  BY <1>2, <1>5, <1>7
<1>9. \A x \in Ptr : heap'[x] = IF x = t THEN b ELSE IF x = temp_buf.data THEN Free ELSE heap[x]
  BY <1>2, <1>5
<1>10. /\ temp_buf'.data = t /\ temp_buf'.capacity = b.len /\ temp_buf'.size = size
       /\ temp_buf' \in [data : Ptr \cup {NULL}, size : Nat, capacity : Nat]
  BY <1>2, <1>5, <1>6, <1>7
<1>11. MemInv'
  <2>1. UNCHANGED <<loaded, buffer, opened>>
    BY <1>1
  <2>2. PICK d \in Ptr : d = t
    BY <1>3
  <2> QED
    BY <1>2, <1>6, <1>7, <1>8, <1>9, <1>10, <2>1, <2>2, TempStep
<1>12. PICK c \in Call : c.filp = call[p].filp /\ call' = [call EXCEPT ![p] = c]
  <2>1. CASE WritePart(p)
    BY <1>1, <2>1, WriteDoneCall DEF WritePart
  <2>2. CASE WriteFault(p) \/ CommitNoMemory(p)
    <3>1. PICK ret \in Int : Finish(p, ret)
      BY <2>2 DEF WriteFault, CommitNoMemory, EFAULT, ENOMEM
    <3> DEFINE c == [call[p] EXCEPT !.ret = ret]
    <3>2. c \in Call /\ c.filp = call[p].filp
      BY <1>2 DEF Call
    <3>3. call' = [call EXCEPT ![p] = c]
      BY <3>1 DEF Finish
    <3> QED
      BY <3>2, <3>3
  <2> QED
    BY <2>1, <2>2
<1> QED
  BY <1>1, <1>2, <1>8, <1>10, <1>11, <1>12, WriteStep
-----------------------------------------------------------------------------
(* A commit stores the new entry in the slot at in_offs and hands back the *)
(* pointer that was there; no other slot changes.                          *)
LEMMA AddEntrySlots ==
  ASSUME NEW b \in Buffer(Entry), RingOK(b), NEW e \in Entry,
         NEW c, c = aesd_circular_buffer_add_entry(b, e)
  PROVE  /\ b.in_offs \in Slots
         /\ c.entry[b.in_offs] = e
         /\ \A i \in Slots \ {b.in_offs} : c.entry[i] = b.entry[i]
         /\ overwritten_entry(b) = b.entry[b.in_offs].buffptr
         /\ UsedSlots(c) = UsedSlots(b) \cup {b.in_offs}
<1>1. b.in_offs \in Slots /\ b.out_offs \in Slots /\ b.full \in BOOLEAN
  BY DEF Buffer
<1>2. c.entry[b.in_offs] = e
  BY AddEntryFields
<1>3. \A i \in Slots \ {b.in_offs} : c.entry[i] = b.entry[i]
  <2>1. CASE b.full
    <3>1. b.out_offs = b.in_offs
      BY <2>1 DEF RingOK
    <3> QED
      BY <3>1, AddEntryFields
  <2>2. CASE ~b.full
    BY <2>2, AddEntryFields
  <2> QED
    BY <1>1, <2>1, <2>2
<1>4. overwritten_entry(b) = b.entry[b.in_offs].buffptr
  <2>1. CASE b.full
    BY <2>1 DEF RingOK, overwritten_entry
  <2>2. CASE ~b.full
    <3>1. ~(b.in_offs < b.in_offs)
      BY <1>1 DEF Slots
    <3>2. b.entry[b.in_offs] = NoEntry
      BY <1>1, <2>2, <3>1 DEF RingOK
    <3> QED
      BY <2>2, <3>2 DEF overwritten_entry, NoEntry
  <2> QED
    BY <1>1, <2>1, <2>2
<1>5. e.buffptr # NULL
  BY PtrAssumption DEF Entry
<1>6. UsedSlots(c) = UsedSlots(b) \cup {b.in_offs}
  BY <1>1, <1>2, <1>3, <1>5 DEF UsedSlots
<1> QED
  BY <1>1, <1>2, <1>3, <1>4, <1>6

(* The heap a commit leaves, address by address: d holds the command, t    *)
(* still is temp_buf's block, and the overwritten entry's block is free.   *)
LEMMA CommitHeap ==
  ASSUME IInv, NEW p \in Proc, pc[p] = "copy_from_user", NEW d \in Unused,
         heap' = kfree([Stored(Joined(p)) EXCEPT ![d] = [len |-> Len(Joined(p)), data |-> Joined(p)]],
                       overwritten_entry(buffer))
  PROVE  /\ d \in Ptr /\ d # temp_buf.data /\ temp_buf.data \in Ptr
         /\ \A i \in UsedSlots(buffer) : buffer.entry[i].buffptr # d
         /\ heap' \in [Ptr -> Block \cup {Free}]
         /\ \A x \in Ptr :
              heap'[x] = IF x = overwritten_entry(buffer) THEN Free
                         ELSE IF x = d THEN [len |-> Len(Joined(p)), data |-> Joined(p)]
                         ELSE IF x = temp_buf.data THEN [heap[x] EXCEPT !.data = Joined(p)]
                         ELSE heap[x]
<1> DEFINE bytes == Joined(p)
           t == temp_buf.data
           o == overwritten_entry(buffer)
           new == [len |-> Len(bytes), data |-> bytes]
           old == [heap[t] EXCEPT !.data = bytes]
<1>1. /\ buffer \in Buffer(Entry) /\ heap \in [Ptr -> Block \cup {Free}] /\ t # NULL
  BY WriterFacts
<1>2. t \in Ptr /\ heap[t] \in Block
  BY <1>1, TempBlock
<1>3. bytes \in Seq(Byte) /\ Len(bytes) \in Nat
  BY JoinedBytes DEF Joined
<1>4. d \in Ptr /\ heap[d] = Free
  BY DEF Unused
<1>5. d # t
  BY <1>2, <1>4, FreeAssumption DEF Block
<1>6. ASSUME NEW i \in UsedSlots(buffer) PROVE buffer.entry[i].buffptr # d
  BY <1>4, PtrAssumption DEF IInv, MemInv, HeapExact, Referenced, UsedSlots
<1>7. new \in Block /\ old \in Block
  BY <1>2, <1>3 DEF Block
<1>8. heap' = kfree([[heap EXCEPT ![t] = old] EXCEPT ![d] = new], o)
  BY <1>1, <1>2 DEF Stored
<1>9. o = NULL \/ o \in Ptr
  <2>1. CASE buffer.full
    <3>1. buffer.out_offs \in Slots
      BY <1>1 DEF Buffer
    <3> QED
      BY <1>1, <2>1, <3>1, UsedIsEntry DEF overwritten_entry
  <2>2. CASE ~buffer.full
    BY <2>2 DEF overwritten_entry
  <2> QED
    BY <2>1, <2>2
<1> HIDE DEF o, new, old
<1>10. /\ heap' \in [Ptr -> Block \cup {Free}]
       /\ \A x \in Ptr : heap'[x] = IF x = o THEN Free ELSE IF x = d THEN new
                                    ELSE IF x = t THEN old ELSE heap[x]
  <2>1. CASE o = NULL
    BY <1>1, <1>2, <1>4, <1>5, <1>7, <1>8, <2>1, PtrAssumption DEF kfree
  <2>2. CASE o # NULL
    BY <1>1, <1>2, <1>4, <1>5, <1>7, <1>8, <1>9, <2>2 DEF kfree
  <2> QED
    BY <2>1, <2>2
<1> QED
  BY <1>2, <1>4, <1>5, <1>6, <1>10 DEF o, new, old

(* A commit: the new entry owns the new block, temp_buf keeps its block    *)
(* empty, and the only block freed is that of the overwritten entry.       *)
LEMMA WriteCommitInv ==
  ASSUME IInv, NEW p \in Proc, WriteCommit(p)
  PROVE  IInv'
<1> DEFINE bytes == Joined(p)
           size == Len(bytes)
           t == temp_buf.data
           o == overwritten_entry(buffer)
           in == buffer.in_offs
<1>1. /\ pc[p] = "copy_from_user" /\ mutex' = NULL /\ HasNewline(bytes)
      /\ pc' = [pc EXCEPT ![p] = "return"] /\ WriteDone(p)
      /\ temp_buf' = [temp_buf EXCEPT !.size = 0]
      /\ UNCHANGED <<loaded, opened, f_pos>>
  BY DEF WriteCommit, WriteDone, Emptied, Joined
<1>2. /\ loaded /\ RingOK(buffer) /\ buffer \in Buffer(Entry)
      /\ temp_buf \in [data : Ptr \cup {NULL}, size : Nat, capacity : Nat]
      /\ mutex = p /\ t # NULL
  BY <1>1, WriterFacts
<1>3. bytes \in Seq(Byte) /\ size \in Nat /\ size <= temp_buf.capacity
  BY <1>1, JoinedBytes DEF Joined
<1>4. PICK d \in Unused :
        /\ heap' = kfree([Stored(bytes) EXCEPT ![d] = [len |-> size, data |-> bytes]], o)
        /\ buffer' = aesd_circular_buffer_add_entry(buffer, [buffptr |-> d, size |-> size])
  BY DEF WriteCommit, Joined
<1> DEFINE e == [buffptr |-> d, size |-> size]
           new == [len |-> size, data |-> bytes]
<1>5. /\ d \in Ptr /\ d # t /\ t \in Ptr
      /\ \A i \in UsedSlots(buffer) : buffer.entry[i].buffptr # d
      /\ heap' \in [Ptr -> Block \cup {Free}]
      /\ \A x \in Ptr : heap'[x] = IF x = o THEN Free ELSE IF x = d THEN new
                                   ELSE IF x = t THEN [heap[x] EXCEPT !.data = bytes]
                                   ELSE heap[x]
  BY <1>1, <1>4, CommitHeap
<1>6. e \in Entry /\ e.buffptr = d /\ e.size = size
  BY <1>3, <1>5 DEF Entry
<1>7. new \in Block /\ new # Free /\ new.len = size /\ new.data = bytes
  <2> HIDE DEF bytes, size
  <2>1. new \in Block
    BY <1>3 DEF Block
  <2> QED
    BY <2>1, FreeAssumption DEF Block
<1>8. buffer' \in Buffer(Entry) /\ RingOK(buffer')
  BY <1>2, <1>4, <1>6, NoEntryNotEntry, AddEntryWellFormed
<1>9. /\ in \in Slots /\ buffer'.entry[in] = e /\ o = buffer.entry[in].buffptr
      /\ \A i \in Slots \ {in} : buffer'.entry[i] = buffer.entry[i]
      /\ UsedSlots(buffer') = UsedSlots(buffer) \cup {in}
  BY <1>2, <1>4, <1>6, AddEntrySlots
<1>10. /\ heap[t] \in Block /\ heap[t].len = temp_buf.capacity
  BY <1>2, TempBlock
<1> DEFINE tblock == [heap[t] EXCEPT !.data = bytes]
<1>11. tblock # Free /\ tblock.len = temp_buf.capacity /\ tblock.data = bytes
  <2>1. tblock \in Block
    BY <1>3, <1>10 DEF Block
  <2> QED
    BY <1>10, <2>1, FreeAssumption DEF Block
<1>12. \A x \in Ptr : heap'[x] = IF x = o THEN Free ELSE IF x = d THEN new
                                 ELSE IF x = t THEN tblock ELSE heap[x]
  BY <1>5
<1> HIDE DEF bytes, size, o, in, e, new, tblock
(* The entries that stay, and the pointer that goes. *)
<1> DEFINE stay == UsedSlots(buffer) \ {in}
<1>13. ASSUME NEW i \in stay
       PROVE  /\ i \in Slots /\ buffer'.entry[i] = buffer.entry[i]
              /\ buffer.entry[i].buffptr \in Ptr
              /\ buffer.entry[i].buffptr \notin {o, d, t}
              /\ heap'[buffer.entry[i].buffptr] = heap[buffer.entry[i].buffptr]
              /\ heap[buffer.entry[i].buffptr] # Free
  <2>1. i \in Slots /\ i # in /\ buffer.entry[i].buffptr \in Ptr
    BY <1>2, UsedIsEntry DEF UsedSlots
  <2>2. buffer.entry[i].buffptr # t
    BY <1>2 DEF IInv, MemInv, HeapExact
  <2>3. buffer.entry[i].buffptr # o
    <3>1. CASE in \in UsedSlots(buffer)
      BY <1>9, <2>1, <3>1 DEF IInv, MemInv, HeapExact
    <3>2. CASE in \notin UsedSlots(buffer)
      BY <1>2, <1>9, <2>1, <3>2, UsedIsEntry, PtrAssumption
    <3> QED
      BY <3>1, <3>2
  <2>4. heap[buffer.entry[i].buffptr] # Free
    BY <2>1, PtrAssumption DEF IInv, MemInv, HeapExact, Referenced
  <2> QED
    BY <1>5, <1>9, <1>12, <2>1, <2>2, <2>3, <2>4
<1>14. o # t /\ o # d
  <2>1. CASE in \in UsedSlots(buffer)
    BY <1>5, <1>9, <2>1 DEF IInv, MemInv, HeapExact
  <2>2. CASE in \notin UsedSlots(buffer)
    BY <1>2, <1>5, <1>9, <2>2, UsedIsEntry, PtrAssumption
  <2> QED
    BY <2>1, <2>2
<1>15. temp_buf' = [temp_buf EXCEPT !.size = 0] /\ temp_buf'.data = t
       /\ temp_buf'.size = 0 /\ temp_buf'.capacity = temp_buf.capacity
       /\ temp_buf' \in [data : Ptr \cup {NULL}, size : Nat, capacity : Nat]
  BY <1>1, <1>2
<1>16. heap'[t] = tblock /\ heap'[d] = new
  BY <1>5, <1>12, <1>14
<1>17. UsedSlots(buffer') = stay \cup {in}
  BY <1>9
<1>18. HeapExact'
  <2>1. ASSUME NEW x \in Ptr
        PROVE  heap'[x] # Free <=> x \in Referenced'
    <3>1. x \in Referenced' <=> \/ x = t
                                \/ \E i \in UsedSlots(buffer') : x = buffer'.entry[i].buffptr
      BY <1>15, PtrAssumption DEF Referenced, UsedSlots
    <3>2. x \in Referenced' <=> x = t \/ x = d \/ \E i \in stay : x = buffer.entry[i].buffptr
      BY <1>6, <1>9, <1>13, <1>17, <3>1
    <3>3. heap[x] # Free <=> x = t \/ \E i \in UsedSlots(buffer) : x = buffer.entry[i].buffptr
      BY PtrAssumption DEF IInv, MemInv, HeapExact, Referenced, UsedSlots
    <3>4. x # o => (heap[x] # Free <=> x = t \/ \E i \in stay : x = buffer.entry[i].buffptr)
      BY <1>9, <3>3
    <3>5. x = o => ~(x = t \/ x = d \/ \E i \in stay : x = buffer.entry[i].buffptr)
      BY <1>13, <1>14
    <3> QED
      BY <1>7, <1>11, <1>12, <3>2, <3>4, <3>5
  <2>2. Referenced' \ {NULL} \subseteq Ptr
    <3>1. \A i \in Slots : buffer'.entry[i].buffptr \in Ptr \cup {NULL}
      BY <1>8, UsedIsEntry
    <3> QED
      BY <1>5, <1>15, <3>1 DEF Referenced
  <2>3. {x \in Ptr : heap'[x] # Free} = Referenced' \ {NULL}
    BY <2>1, <2>2, PtrAssumption
  <2>4. ASSUME NEW i \in UsedSlots(buffer'), NEW j \in UsedSlots(buffer')
        PROVE  /\ buffer'.entry[i].buffptr # t
               /\ buffer'.entry[i].buffptr = buffer'.entry[j].buffptr => i = j
    <3>1. \A k \in stay, l \in stay : buffer.entry[k].buffptr = buffer.entry[l].buffptr => k = l
      BY DEF IInv, MemInv, HeapExact
    <3> QED
      BY <1>5, <1>6, <1>9, <1>13, <1>17, <3>1
  <2> QED
    BY <1>15, <2>3, <2>4 DEF HeapExact
<1>19. BlocksFit'
  <2>1. ASSUME NEW i \in UsedSlots(buffer')
        PROVE  LET f == buffer'.entry[i]
                   block == heap'[f.buffptr]
               IN  /\ block.len = f.size /\ Len(block.data) = f.size
                   /\ \E j \in 1 .. f.size : block.data[j] = NEWLINE
    <3>1. CASE i = in
      <4>1. \E j \in 1 .. size : bytes[j] = NEWLINE
        BY <1>1 DEF HasNewline, size
      <4> QED
        BY <1>6, <1>7, <1>9, <1>16, <3>1, <4>1 DEF size
    <3>2. CASE i \in stay
      BY <1>13, <3>2, SMTT(30) DEF IInv, MemInv, BlocksFit
    <3> QED
      BY <1>17, <3>1, <3>2
  <2>2. 0 <= Len(bytes) /\ Len(bytes) <= tblock.len
    BY <1>3, <1>11 DEF size
  <2> QED
    BY <1>11, <1>15, <1>16, <2>1, <2>2 DEF BlocksFit
<1>20. MemInv'
  BY <1>1, <1>2, <1>8, <1>18, <1>19 DEF MemInv, Unloaded, RingUp
<1>21. PICK c \in Call : c.filp = call[p].filp /\ call' = [call EXCEPT ![p] = c]
  BY <1>1, WriteDoneCall
<1> QED
  BY <1>1, <1>2, <1>5, <1>8, <1>15, <1>20, <1>21, WriteStep
-----------------------------------------------------------------------------
(* Every step keeps the invariant, one lemma per handler. *)
LEMMA NextIInv == IInv /\ [Next]_vars => IInv'
<1> SUFFICES ASSUME IInv, [Next]_vars PROVE IInv'
  OBVIOUS
<1>1. CASE UNCHANGED vars
  <2>1. TypeOK'
    BY <1>1 DEF IInv, TypeOK, vars
  <2>2. MemInv'
    BY <1>1, MemFrame DEF IInv, vars, dev
  <2>3. CallInv'
    BY <1>1 DEF IInv, CallInv, InCall, Exclusive, SeekArgs, Found, CopyInBounds, vars
  <2> QED
    BY <2>1, <2>2, <2>3 DEF IInv
<1>2. ASSUME NEW p \in Proc, EnterStep(p) PROVE IInv'
  BY <1>2, EnterStepInv
<1>3. ASSUME NEW p \in Proc, LockStep(p) PROVE IInv'
  BY <1>3, ReadFindInv, WriteLockInv, ErrorInv, LlseekInv, IoctlInv DEF LockStep
<1>4. ASSUME NEW p \in Proc, RunStep(p) PROVE IInv'
  BY <1>4, ReadCopyInv, ErrorInv, WriteOutInv, WriteCommitInv, LlseekInv, IoctlInv, ReturnInv
     DEF RunStep
<1> QED
  BY <1>1, <1>2, <1>3, <1>4, OpenReleaseInv, LoadInv, UnloadInv DEF Next

(* Every variable keeps its type whatever user space calls and however the *)
(* calls interleave: no file position is ever negative, the offset read    *)
(* found lies in its entry and the ring's offsets name slots.              *)
THEOREM DriverTypes == Spec => []TypeOK
<1>1. IInv => TypeOK
  BY DEF IInv
<1> QED
  BY <1>1, InitIInv, NextIInv, PTL DEF Spec

(* While read copies, the entry it found is allocated. *)
LEMMA FoundIsAllocated == IInv => FoundEntryHolds
<1> SUFFICES ASSUME IInv, NEW p \in Proc, pc[p] = "copy_to_user"
             PROVE  heap[buffer.entry[call[p].at.slot].buffptr] # Free
  BY DEF FoundEntryHolds, IInv, CallInv, Found
<1> DEFINE at == call[p].at
<1>1. /\ at = aesd_circular_buffer_find_entry_offset_for_fpos(buffer, call[p].pos)
      /\ at.slot # NULL /\ call[p] \in Call /\ call[p].filp \in opened
  BY DEF IInv, TypeOK, CallInv, Found, InCall
<1>2. call[p].pos \in Nat
  BY <1>1 DEF Call
<1>3. buffer \in Buffer([buffptr : Ptr, size : Nat]) /\ RingOK(buffer)
  BY <1>1 DEF IInv, TypeOK, Entry, MemInv, Unloaded, RingUp
<1>4. \/ at = [slot |-> NULL, entry_offset |-> 0]
      \/ /\ at \in [slot : Slots, entry_offset : Nat]
         /\ buffer.entry[at.slot] \in [buffptr : Ptr, size : Nat]
         /\ at.entry_offset < buffer.entry[at.slot].size
  BY <1>1, <1>2, <1>3, FindInEntry
<1>5. at.slot \in Slots /\ buffer.entry[at.slot].buffptr \in Ptr
  BY <1>1, <1>4
<1> QED
  BY <1>5, PtrAssumption DEF IInv, MemInv, HeapExact, Referenced

(* Nothing is leaked, freed twice or used after it was freed. *)
THEOREM MemorySafe == Spec => []HeapExact
<1>1. IInv => HeapExact
  BY DEF IInv, MemInv
<1> QED
  BY <1>1, InitIInv, NextIInv, PTL DEF Spec

(* Every block has the size the driver thinks it has, and every entry is a *)
(* complete command.                                                       *)
THEOREM BlockSizes == Spec => []BlocksFit
<1>1. IInv => BlocksFit
  BY DEF IInv, MemInv
<1> QED
  BY <1>1, InitIInv, NextIInv, PTL DEF Spec

(* copy_from_user never writes past temp_buf, whoever wrote before and     *)
(* whatever failed.                                                        *)
THEOREM CopySafe == Spec => []CopyInBounds
<1>1. IInv => CopyInBounds
  BY DEF IInv, CallInv
<1> QED
  BY <1>1, InitIInv, NextIInv, PTL DEF Spec

(* read never copies from an entry that a writer has replaced. *)
THEOREM FoundSafe == Spec => []FoundEntryHolds
BY FoundIsAllocated, InitIInv, NextIInv, PTL DEF Spec
-----------------------------------------------------------------------------
(* A write under way carries one of the chunks user space passes. *)
Carried == \A p \in Proc : pc[p] \in {"aesd_write", "copy_from_user"} => call[p].buf \in Chunks

(* Nobody is in aesd_write at the start. *)
LEMMA InitCarried == Init => Carried
BY DEF Init, Carried

(* A write carries the chunk it was entered with until it is done. *)
LEMMA NextCarried == IInv /\ Carried /\ [Next]_vars => Carried'
<1> SUFFICES ASSUME IInv, Carried, [Next]_vars PROVE Carried'
  OBVIOUS
<1> USE DEF Carried
<1>0. call \in [Proc -> Call] /\ pc \in [Proc -> PC]
  BY DEF IInv, TypeOK
<1>1. CASE UNCHANGED <<pc, call>>
  BY <1>1
<1>2. ASSUME NEW p \in Proc, EnterStep(p) PROVE Carried'
  <2>1. PICK f \in File :
           \/ \E count \in ReadCounts : ReadEnter(p, f, count)
           \/ \E chunk \in Chunks : WriteEnter(p, f, chunk)
           \/ \E arg \in LSeeks : LlseekEnter(p, f, arg)
           \/ \E arg \in Seeks : IoctlEnter(p, f, arg)
    BY <1>2 DEF EnterStep
  <2>2. ASSUME NEW chunk \in Chunks, WriteEnter(p, f, chunk) PROVE Carried'
    <3>1. [NoCall EXCEPT !.filp = f, !.buf = chunk, !.pos = f_pos[f]].buf = chunk
      BY DEF NoCall
    <3> QED
      BY <1>0, <2>2, <3>1 DEF WriteEnter, Enter
  <2> QED
    BY <1>0, <2>1, <2>2 DEF ReadEnter, LlseekEnter, IoctlEnter, Enter
<1>3. ASSUME NEW p \in Proc, LockStep(p) PROVE Carried'
  BY <1>0, <1>3 DEF LockStep, ReadFind, WriteFits, WriteAlloc, WriteGrow, WriteNoMemory, WriteOn,
                    LlseekSize, IoctlSeek, IoctlRefuse, Finish, Leave
<1>4. ASSUME NEW p \in Proc, RunStep(p) PROVE Carried'
  <2>1. /\ \A q \in Proc \ {p} : pc'[q] = pc[q] /\ call'[q] = call[q]
        /\ pc'[p] \notin {"aesd_write", "copy_from_user"}
    <3>1. CASE ReadCopy(p) \/ ReadFault(p)
      BY <1>0, <3>1 DEF ReadCopy, ReadFault, Finish, Leave
    <3>2. CASE WriteFault(p) \/ WritePart(p) \/ WriteCommit(p) \/ CommitNoMemory(p)
      BY <1>0, <3>2 DEF WriteFault, WritePart, WriteCommit, CommitNoMemory, WriteDone, Finish, Leave
    <3>3. CASE fixed_size_llseek(p) \/ IoctlSet(p) \/ Return(p)
      BY <1>0, <3>3 DEF fixed_size_llseek, IoctlSet, Return, Finish, Leave
    <3> QED
      BY <1>4, <3>1, <3>2, <3>3 DEF RunStep
  <2> QED
    BY <2>1 DEF Carried
<1> QED
  BY <1>1, <1>2, <1>3, <1>4
     DEF Next, vars, aesd_open, aesd_release, aesd_init_module, aesd_cleanup_module
-----------------------------------------------------------------------------
(* The k-th command stands in a used slot. *)
LEMMA EntryAt ==
  ASSUME IInv, loaded
  PROVE  /\ buffer \in Buffer(Entry) /\ RingOK(buffer)
         /\ Entries(buffer) \in Seq(Entry) /\ Len(Entries(buffer)) \in 0 .. MAX
         /\ \A k \in 1 .. Len(Entries(buffer)) :
              /\ k - 1 \in Slots
              /\ Slot(buffer, k - 1) \in UsedSlots(buffer)
              /\ Entries(buffer)[k] = buffer.entry[Slot(buffer, k - 1)]
<1>1. buffer \in Buffer(Entry) /\ RingOK(buffer)
  BY DEF IInv, TypeOK, MemInv, RingUp
<1>2. /\ Entries(buffer) \in Seq(Entry) /\ Len(Entries(buffer)) = total_entries(buffer)
      /\ total_entries(buffer) \in 0 .. MAX
      /\ \A k \in 1 .. total_entries(buffer) :
           Entries(buffer)[k] = buffer.entry[Slot(buffer, k - 1)]
  BY <1>1, EntriesType
<1>3. ASSUME NEW k \in 1 .. total_entries(buffer)
      PROVE  k - 1 \in Slots /\ Slot(buffer, k - 1) \in UsedSlots(buffer)
  <2>1. k - 1 \in 0 .. total_entries(buffer) - 1
    BY <1>2
  <2>2. k - 1 \in Slots /\ Slot(buffer, k - 1) \in Slots /\ buffer.entry[Slot(buffer, k - 1)] \in Entry
    BY <1>1, <2>1, SearchUsed
  <2> QED
    BY <1>1, <2>2, UsedIsEntry
<1> QED
  BY <1>1, <1>2, <1>3

(* The commands of a loaded driver, one by one. *)
LEMMA CommandAt ==
  ASSUME IInv, loaded
  PROVE  /\ Commands \in Seq(Seq(Byte)) /\ Len(Commands) = Len(Entries(buffer))
         /\ \A k \in 1 .. Len(Entries(buffer)) : Commands[k] = Contents(Entries(buffer)[k])
<1> DEFINE n == Len(Entries(buffer))
<1>1. n \in Nat
  BY EntryAt
<1>2. Commands = [k \in 1 .. n |-> Contents(Entries(buffer)[k])]
  BY DEF Commands
<1>3. ASSUME NEW k \in 1 .. n PROVE Contents(Entries(buffer)[k]) \in Seq(Byte)
  <2> DEFINE i == Slot(buffer, k - 1)
             e == buffer.entry[i]
             data == heap[e.buffptr].data
  <2>1. i \in UsedSlots(buffer) /\ Entries(buffer)[k] = e /\ buffer \in Buffer(Entry)
    BY EntryAt
  <2>2. e.buffptr \in Ptr /\ e.size \in Nat /\ i \in Slots
    BY <2>1, UsedIsEntry DEF UsedSlots
  <2>3. heap[e.buffptr] # Free
    BY <2>2, PtrAssumption DEF IInv, MemInv, HeapExact, Referenced
  <2>4. heap[e.buffptr] \in Block
    BY <2>2, <2>3 DEF IInv, TypeOK
  <2>5. data \in Seq(Byte) /\ Len(data) = e.size
    BY <2>1, <2>4 DEF Block, IInv, MemInv, BlocksFit
  <2> HIDE DEF data
  <2>6. SubSeq(data, 1, e.size) \in Seq(Byte)
    BY <2>2, <2>5
  <2> QED
    BY <2>1, <2>6 DEF Contents, data
<1> HIDE DEF n
<1>4. Commands \in [1 .. n -> Seq(Byte)]
  BY <1>2, <1>3
<1>5. Commands \in Seq(Seq(Byte)) /\ Len(Commands) = n
  BY <1>1, <1>4, LenProperties, SeqDef
<1> QED
  BY <1>2, <1>5 DEF n

(* Steps that change neither the ring nor the bytes of its entries leave   *)
(* the commands alone.                                                     *)
LEMMA CommandsFrame ==
  ASSUME IInv, loaded, UNCHANGED <<loaded, buffer>>,
         \A i \in UsedSlots(buffer) :
           heap'[buffer.entry[i].buffptr] = heap[buffer.entry[i].buffptr]
  PROVE  Commands' = Commands
<1>1. ASSUME NEW k \in 1 .. Len(Entries(buffer))
      PROVE  heap'[Entries(buffer)[k].buffptr] = heap[Entries(buffer)[k].buffptr]
  BY EntryAt
<1>2. Entries(buffer') = Entries(buffer)
  OBVIOUS
<1> QED
  BY <1>1, <1>2 DEF Commands, Contents

(* No entry's block is temp_buf's or a free one. *)
LEMMA EntryBlocks ==
  ASSUME IInv, NEW i \in UsedSlots(buffer)
  PROVE  /\ i \in Slots /\ buffer.entry[i].buffptr \in Ptr
         /\ buffer.entry[i].buffptr # temp_buf.data
         /\ heap[buffer.entry[i].buffptr] # Free
<1>1. i \in Slots /\ buffer.entry[i].buffptr \in Ptr
  BY UsedIsEntry DEF UsedSlots, IInv, TypeOK
<1>2. buffer.entry[i].buffptr # temp_buf.data
  BY DEF IInv, MemInv, HeapExact
<1>3. heap[buffer.entry[i].buffptr] # Free
  BY <1>1, PtrAssumption DEF IInv, MemInv, HeapExact, Referenced
<1> QED
  BY <1>1, <1>2, <1>3
-----------------------------------------------------------------------------
(* A longer temp_buf holds the same bytes. *)
LEMMA RoomIsStutter ==
  ASSUME IInv, NEW p \in Proc, WriteAlloc(p) \/ WriteGrow(p)
  PROVE  UNCHANGED <<Commands, Pending>>
<1>1. /\ pc[p] = "aesd_write" /\ UNCHANGED <<loaded, buffer>>
  BY DEF WriteAlloc, WriteGrow, WriteOn
<1>2. /\ loaded /\ heap \in [Ptr -> Block \cup {Free}]
      /\ temp_buf \in [data : Ptr \cup {NULL}, size : Nat, capacity : Nat]
  BY <1>1, WriterFacts
<1>3. CASE WriteAlloc(p)
  <2> DEFINE b == [len |-> Len(call[p].buf) + Slack, data |-> <<>>]
  <2>1. PICK d \in Unused :
          /\ heap' = [heap EXCEPT ![d] = b]
          /\ temp_buf' = [data |-> d, size |-> 0, capacity |-> Len(call[p].buf) + Slack]
    BY <1>3 DEF WriteAlloc
  <2>2. d \in Ptr /\ heap[d] = Free /\ d # NULL
    BY <2>1, PtrAssumption DEF Unused
  <2>3. heap'[d].data = <<>> /\ temp_buf'.data = d /\ temp_buf'.size = 0
    BY <1>2, <2>1, <2>2
  <2>4. Pending' = SubSeq(<<>>, 1, 0)
    BY <2>2, <2>3 DEF Pending
  <2>5. Pending' = <<>>
    BY <2>4
  <2>6. Pending = <<>>
    BY <1>3 DEF WriteAlloc, Pending
  <2>7. Commands' = Commands
    BY <1>1, <1>2, <2>1, <2>2, EntryBlocks, CommandsFrame
  <2> QED
    BY <2>5, <2>6, <2>7
<1>4. CASE WriteGrow(p)
  <2> DEFINE old == temp_buf.data
             capacity == temp_buf.size + Len(call[p].buf) + Slack
             b == [len |-> capacity, data |-> heap[old].data]
  <2>1. PICK d \in Unused \cup {old} :
          /\ heap' = [heap EXCEPT ![old] = Free, ![d] = b]
          /\ temp_buf' = [temp_buf EXCEPT !.data = d, !.capacity = capacity]
    BY <1>4 DEF WriteGrow
  <2>2. old # NULL /\ old \in Ptr
    BY <1>4, TempBlock DEF WriteGrow
  <2>3. d \in Ptr /\ d # NULL /\ (d = old \/ heap[d] = Free)
    BY <2>1, <2>2, PtrAssumption DEF Unused
  <2>4. heap'[d].data = heap[old].data /\ temp_buf'.data = d /\ temp_buf'.size = temp_buf.size
    BY <1>2, <2>1, <2>2, <2>3
  <2>5. Pending' = Pending
    BY <2>2, <2>3, <2>4 DEF Pending
  <2>6. Commands' = Commands
    BY <1>1, <1>2, <2>1, <2>2, <2>3, EntryBlocks, CommandsFrame
  <2> QED
    BY <2>5, <2>6
<1> QED
  BY <1>3, <1>4

(* Bytes stored in temp_buf's block are the pending bytes from then on. *)
LEMMA StoredIsPending ==
  ASSUME IInv, NEW p \in Proc, pc[p] = "copy_from_user",
         UNCHANGED <<loaded, buffer>>,
         heap' = Stored(Joined(p)),
         temp_buf' = [temp_buf EXCEPT !.size = Len(Joined(p))]
  PROVE  Commands' = Commands /\ Pending' = Joined(p)
<1> DEFINE t == temp_buf.data
<1>1. /\ loaded /\ heap \in [Ptr -> Block \cup {Free}] /\ t # NULL
      /\ temp_buf \in [data : Ptr \cup {NULL}, size : Nat, capacity : Nat]
  BY WriterFacts
<1>2. t \in Ptr /\ heap[t] \in Block
  BY <1>1, TempBlock
<1>3. Joined(p) \in Seq(Byte)
  BY JoinedBytes DEF Joined
<1>4. heap'[t].data = Joined(p)
  BY <1>1, <1>2 DEF Stored, Block
<1>5. temp_buf'.data = t /\ temp_buf'.size = Len(Joined(p))
  BY <1>1
<1>6. Pending' = SubSeq(Joined(p), 1, Len(Joined(p)))
  BY <1>1, <1>4, <1>5 DEF Pending
<1>7. SubSeq(Joined(p), 1, Len(Joined(p))) = Joined(p)
  BY <1>3, SubSeqFull
<1>8. Commands' = Commands
  BY <1>1, <1>2, EntryBlocks, CommandsFrame DEF Stored
<1> QED
  BY <1>6, <1>7, <1>8

(* The ways out of copy_from_user that make no command. *)
LEMMA OutIsWrite ==
  ASSUME IInv, Carried, NEW p \in Proc, WriteFault(p) \/ WritePart(p) \/ CommitNoMemory(p)
  PROVE  Device!Next
<1>1. pc[p] = "copy_from_user" /\ UNCHANGED <<loaded, buffer>> /\ call[p].buf \in Chunks
  BY DEF WriteFault, WritePart, CommitNoMemory, Carried
<1>2. CASE WriteFault(p)
  <2>1. /\ loaded /\ temp_buf.data # NULL
        /\ temp_buf \in [data : Ptr \cup {NULL}, size : Nat, capacity : Nat]
    BY <1>1, WriterFacts
  <2>2. heap' = heap /\ temp_buf'.size = 0 /\ temp_buf'.data = temp_buf.data
    BY <1>2, <2>1 DEF WriteFault, Emptied
  <2>3. Commands' = Commands
    BY <1>1, <2>1, <2>2, CommandsFrame
  <2>4. Pending' = SubSeq(heap[temp_buf.data].data, 1, 0)
    BY <2>1, <2>2 DEF Pending
  <2>5. heap[temp_buf.data].data \in Seq(Byte)
    BY <2>1, TempBlock
  <2>6. Pending' = <<>>
    BY <2>4, <2>5
  <2> QED
    BY <2>3, <2>6 DEF Device!Next, Device!WriteFault
<1>3. CASE WritePart(p)
  <2>1. Commands' = Commands /\ Pending' = Joined(p) /\ ~HasNewline(Joined(p))
    BY <1>1, <1>3, StoredIsPending DEF WritePart, Joined
  <2>2. ~Device!Complete(Joined(p))
    BY <2>1 DEF HasNewline, Device!Complete
  <2>3. Device!Write(call[p].buf)
    BY <2>1, <2>2 DEF Device!Write, Joined
  <2> QED
    BY <1>1, <2>3 DEF Device!Next
<1>4. CASE CommitNoMemory(p)
  <2>1. Commands' = Commands /\ Pending' = Joined(p) /\ HasNewline(Joined(p))
    BY <1>1, <1>4, StoredIsPending DEF CommitNoMemory, Joined
  <2>2. Device!Complete(Joined(p))
    BY <2>1 DEF HasNewline, Device!Complete
  <2>3. Device!WriteNoMemory(call[p].buf)
    BY <2>1, <2>2 DEF Device!WriteNoMemory, Joined
  <2> QED
    BY <1>1, <2>3 DEF Device!Next
<1> QED
  BY <1>2, <1>3, <1>4
-----------------------------------------------------------------------------
(* In a full ring every command but the oldest stands in a slot other than *)
(* the one a commit overwrites.                                            *)
LEMMA YoungerSlots ==
  ASSUME NEW b \in Buffer(Entry), RingOK(b), NEW k \in Slots,
         b.full => k # 0, ~b.full => k < b.in_offs
  PROVE  Slot(b, k) # b.in_offs
<1>1. b.in_offs \in Slots /\ b.out_offs \in Slots /\ b.full \in BOOLEAN
  BY DEF Buffer
<1>2. Slot(b, k) = IF b.out_offs + k < MAX THEN b.out_offs + k ELSE b.out_offs + k - MAX
  BY <1>1, SlotValue
<1>3. CASE b.full
  <2>1. b.out_offs = b.in_offs
    BY <1>3 DEF RingOK
  <2> QED
    BY <1>1, <1>2, <1>3, <2>1, MaxPositive DEF Slots
<1>4. CASE ~b.full
  <2>1. b.out_offs = 0
    BY <1>4 DEF RingOK
  <2> QED
    BY <1>1, <1>2, <1>4, <2>1, MaxPositive DEF Slots
<1> QED
  BY <1>1, <1>3, <1>4

(* What a commit does to memory, as far as the commands are concerned. *)
LEMMA CommitFacts ==
  ASSUME IInv, NEW p \in Proc, WriteCommit(p)
  PROVE  \E e \in Entry :
           /\ buffer' = aesd_circular_buffer_add_entry(buffer, e)
           /\ e.size = Len(Joined(p)) /\ heap'[e.buffptr].data = Joined(p)
           /\ \A i \in UsedSlots(buffer) \ {buffer.in_offs} :
                heap'[buffer.entry[i].buffptr] = heap[buffer.entry[i].buffptr]
           /\ Pending' = <<>>
<1> DEFINE bytes == Joined(p)
           t == temp_buf.data
           o == overwritten_entry(buffer)
<1>1. pc[p] = "copy_from_user" /\ temp_buf' = [temp_buf EXCEPT !.size = 0]
  BY DEF WriteCommit, Emptied
<1>2. /\ RingOK(buffer) /\ buffer \in Buffer(Entry) /\ t # NULL
      /\ temp_buf \in [data : Ptr \cup {NULL}, size : Nat, capacity : Nat]
  BY <1>1, WriterFacts
<1>3. bytes \in Seq(Byte) /\ Len(bytes) \in Nat
  BY <1>1, JoinedBytes DEF Joined
<1>4. PICK d \in Unused :
        /\ heap' = kfree([Stored(bytes) EXCEPT ![d] = [len |-> Len(bytes), data |-> bytes]], o)
        /\ buffer' = aesd_circular_buffer_add_entry(buffer, [buffptr |-> d, size |-> Len(bytes)])
  BY DEF WriteCommit, Joined
<1> DEFINE e == [buffptr |-> d, size |-> Len(bytes)]
           new == [len |-> Len(bytes), data |-> bytes]
<1>5. /\ d \in Ptr /\ d # t /\ t \in Ptr
      /\ \A i \in UsedSlots(buffer) : buffer.entry[i].buffptr # d
      /\ \A x \in Ptr : heap'[x] = IF x = o THEN Free ELSE IF x = d THEN new
                                   ELSE IF x = t THEN [heap[x] EXCEPT !.data = bytes]
                                   ELSE heap[x]
  BY <1>1, <1>4, CommitHeap
<1> HIDE DEF bytes
<1>6. e \in Entry /\ e.buffptr = d /\ e.size = Len(bytes)
  BY <1>3, <1>5 DEF Entry
<1>7. o = buffer.entry[buffer.in_offs].buffptr /\ buffer.in_offs \in Slots
  BY <1>2, <1>4, <1>6, AddEntrySlots
<1> HIDE DEF o, e
<1>8. o # d /\ o # t
  <2>1. CASE buffer.in_offs \in UsedSlots(buffer)
    BY <1>5, <1>7, <2>1, EntryBlocks
  <2>2. CASE buffer.in_offs \notin UsedSlots(buffer)
    BY <1>2, <1>5, <1>7, <2>2, UsedIsEntry, PtrAssumption
  <2> QED
    BY <2>1, <2>2
<1>9. ASSUME NEW i \in UsedSlots(buffer) \ {buffer.in_offs}
      PROVE  heap'[buffer.entry[i].buffptr] = heap[buffer.entry[i].buffptr]
  <2>1. buffer.entry[i].buffptr \in Ptr /\ buffer.entry[i].buffptr # t
    BY EntryBlocks
  <2>2. buffer.entry[i].buffptr # o
    <3>1. CASE buffer.in_offs \in UsedSlots(buffer)
      BY <1>7, <3>1 DEF IInv, MemInv, HeapExact
    <3>2. CASE buffer.in_offs \notin UsedSlots(buffer)
      BY <1>2, <1>7, <2>1, <3>2, UsedIsEntry, PtrAssumption
    <3> QED
      BY <3>1, <3>2
  <2> QED
    BY <1>5, <2>1, <2>2
<1>10. Pending' = <<>>
  <2>1. temp_buf'.data = t /\ temp_buf'.size = 0
    BY <1>1, <1>2
  <2>2. heap'[t] = [heap[t] EXCEPT !.data = bytes] /\ heap[t] \in Block
    BY <1>2, <1>5, <1>8, TempBlock
  <2>3. heap'[t].data = bytes
    BY <2>2 DEF Block
  <2>4. Pending' = SubSeq(bytes, 1, 0)
    BY <1>2, <2>1, <2>3 DEF Pending
  <2> QED
    BY <1>3, <2>4
<1>11. heap'[d].data = bytes
  <2>1. heap'[d] = new
    BY <1>5, <1>8
  <2> QED
    BY <2>1
<1> QED
  BY <1>4, <1>6, <1>9, <1>10, <1>11 DEF e, bytes

(* A commit pushes the joined bytes and drops the oldest command when the  *)
(* device holds MAX of them.                                               *)
LEMMA CommitIsPush ==
  ASSUME IInv, NEW p \in Proc, WriteCommit(p)
  PROVE  Commands' = Device!Pushed(Commands, Joined(p)) /\ Pending' = <<>>
<1> DEFINE es == Entries(buffer)
           fs == Entries(buffer')
           n == Len(es)
           m == Len(fs)
           bytes == Joined(p)
           shift == IF buffer.full THEN 1 ELSE 0
<1>1. /\ pc[p] = "copy_from_user" /\ loaded' = loaded
  BY DEF WriteCommit
<1>2. loaded /\ loaded' /\ buffer \in Buffer(Entry) /\ RingOK(buffer) /\ buffer.full \in BOOLEAN
  BY <1>1, WriterFacts DEF Buffer
<1>3. PICK e \in Entry :
        /\ buffer' = aesd_circular_buffer_add_entry(buffer, e)
        /\ e.size = Len(bytes) /\ heap'[e.buffptr].data = bytes
        /\ \A i \in UsedSlots(buffer) \ {buffer.in_offs} :
             heap'[buffer.entry[i].buffptr] = heap[buffer.entry[i].buffptr]
        /\ Pending' = <<>>
  BY CommitFacts
<1>4. bytes \in Seq(Byte)
  BY <1>1, JoinedBytes DEF Joined
<1>5. /\ es \in Seq(Entry) /\ n \in 0 .. MAX
      /\ Commands \in Seq(Seq(Byte)) /\ Len(Commands) = n
      /\ \A k \in 1 .. n : Commands[k] = Contents(es[k])
  BY <1>2, EntryAt, CommandAt
<1>6. buffer.full <=> n = MAX
  BY <1>2, OverwrittenIsOldest
<1>7. fs = IF buffer.full THEN Append(Tail(es), e) ELSE Append(es, e)
  BY <1>2, <1>3, NoEntryNotEntry, AddEntryAppends, AddEntryRotates
<1> HIDE DEF bytes
<1>8. ASSUME NEW k \in 1 .. n, shift < k
      PROVE  heap'[es[k].buffptr] = heap[es[k].buffptr]
  <2> DEFINE i == Slot(buffer, k - 1)
  <2>1. i \in UsedSlots(buffer) /\ es[k] = buffer.entry[i] /\ k - 1 \in Slots
    BY <1>2, EntryAt
  <2>2. buffer.full => k - 1 # 0
    BY <1>8
  <2>3. ~buffer.full => k - 1 < buffer.in_offs
    <3>1. n = total_entries(buffer)
      BY <1>2, EntriesType
    <3> QED
      BY <1>2, <3>1 DEF total_entries, Buffer, Slots
  <2>4. i # buffer.in_offs
    BY <1>2, <2>1, <2>2, <2>3, YoungerSlots
  <2> QED
    BY <1>3, <2>1, <2>4
<1>9. ASSUME NEW k \in 1 .. n, shift < k
      PROVE  SubSeq(heap'[es[k].buffptr].data, 1, es[k].size) = Commands[k]
  <2>1. Commands[k] = SubSeq(heap[es[k].buffptr].data, 1, es[k].size)
    BY <1>5 DEF Contents
  <2> QED
    BY <1>8, <1>9, <2>1
<1>10. SubSeq(heap'[e.buffptr].data, 1, e.size) = bytes
  BY <1>3, <1>4, SubSeqFull
<1>11. Commands' = [k \in 1 .. m |-> SubSeq(heap'[fs[k].buffptr].data, 1, fs[k].size)]
  BY <1>2 DEF Commands, Contents
<1> HIDE DEF es, fs, n, m
(* The mapped sequence element by element. *)
<1> DEFINE kept == IF buffer.full THEN Tail(Commands) ELSE Commands
           rest == IF buffer.full THEN Tail(es) ELSE es
           l == n - shift
<1>12. n \in Nat /\ l \in Nat /\ MAX \in Nat \ {0}
  BY <1>2, <1>5, <1>6, MaxPositive
<1>13. /\ rest \in Seq(Entry) /\ Len(rest) = l
       /\ \A k \in 1 .. l : rest[k] = es[k + shift]
  <2>1. CASE buffer.full
    <3>1. es # <<>> /\ Len(es) = n
      BY <1>5, <1>6, <1>12, <2>1 DEF n
    <3> QED
      BY <1>5, <1>12, <2>1, <3>1, HeadTailProperties
  <2>2. CASE ~buffer.full
    BY <1>5, <1>12, <2>2 DEF n
  <2> QED
    BY <1>2, <2>1, <2>2
<1>14. /\ kept \in Seq(Seq(Byte)) /\ Len(kept) = l
       /\ \A k \in 1 .. l : kept[k] = Commands[k + shift]
  <2>1. CASE buffer.full
    <3>1. Commands # <<>>
      BY <1>5, <1>6, <1>12, <2>1
    <3> QED
      BY <1>5, <1>12, <2>1, <3>1, HeadTailProperties
  <2>2. CASE ~buffer.full
    BY <1>5, <1>12, <2>2
  <2> QED
    BY <1>2, <2>1, <2>2
<1>15. fs = Append(rest, e)
  BY <1>2, <1>7
<1> HIDE DEF rest, kept
<1>16. /\ m = l + 1
       /\ \A k \in 1 .. l + 1 : fs[k] = IF k <= l THEN rest[k] ELSE e
  BY <1>12, <1>13, <1>15, AppendProperties DEF m
<1>17. /\ Append(kept, bytes) \in Seq(Seq(Byte)) /\ Len(Append(kept, bytes)) = l + 1
       /\ \A k \in 1 .. l + 1 : Append(kept, bytes)[k] = IF k <= l THEN kept[k] ELSE bytes
  BY <1>4, <1>12, <1>14, AppendProperties
<1>18. ASSUME NEW k \in 1 .. l + 1
       PROVE  SubSeq(heap'[fs[k].buffptr].data, 1, fs[k].size) = Append(kept, bytes)[k]
  <2>1. CASE k <= l
    <3>1. k + shift \in 1 .. n /\ shift < k + shift /\ k \in 1 .. l
      BY <1>2, <1>12, <2>1
    <3>2. fs[k] = es[k + shift] /\ Append(kept, bytes)[k] = Commands[k + shift]
      BY <1>13, <1>14, <1>16, <1>17, <2>1, <3>1
    <3> QED
      BY <1>9, <3>1, <3>2
  <2>2. CASE ~(k <= l)
    BY <1>10, <1>16, <1>17, <2>2
  <2> QED
    BY <2>1, <2>2
<1>19. Append(kept, bytes) = [k \in 1 .. l + 1 |-> Append(kept, bytes)[k]]
  BY <1>12, <1>17, SeqDef, LenProperties
<1>20. Commands' = Append(kept, bytes)
  BY <1>11, <1>16, <1>18, <1>19
<1>21. Device!Pushed(Commands, bytes) = Append(kept, bytes)
  BY <1>2, <1>5, <1>6, <1>12 DEF Device!Pushed, kept
<1> QED
  BY <1>3, <1>20, <1>21 DEF bytes
-----------------------------------------------------------------------------
(* Loading and unloading: the device is empty on both sides of a load and  *)
(* after an unload.                                                        *)
LEMMA LoadIsStutter ==
  ASSUME IInv, aesd_init_module
  PROVE  UNCHANGED <<Commands, Pending>>
<1>1. temp_buf.data = NULL /\ temp_buf'.data = NULL /\ ~loaded
  BY DEF IInv, MemInv, Unloaded, aesd_init_module, NoTemp
<1>2. Entries(buffer') = <<>> /\ loaded'
  BY InitBuffer DEF aesd_init_module
<1>3. Commands' = <<>>
  BY <1>2 DEF Commands
<1>4. Commands = <<>>
  BY <1>1 DEF Commands
<1>5. Pending' = Pending
  BY <1>1 DEF Pending
<1> QED
  BY <1>3, <1>4, <1>5

(* aesd_cleanup_module forgets the pending bytes and every command. *)
LEMMA UnloadIsReset ==
  ASSUME IInv, aesd_cleanup_module
  PROVE  Device!Reset
<1>1. Commands' = <<>>
  BY DEF Commands, aesd_cleanup_module
<1>2. temp_buf'.data = NULL
  BY DEF aesd_cleanup_module, NoTemp
<1>3. Pending' = <<>>
  BY <1>2 DEF Pending
<1> QED
  BY <1>1, <1>3 DEF Device!Reset

(* Steps that leave the device's memory alone. *)
LEMMA DevUnchanged ==
  ASSUME UNCHANGED <<loaded, dev>>
  PROVE  UNCHANGED <<Commands, Pending>>
BY DEF dev, Commands, Contents, Entries, total_entries, Slot, Pending

(* Every step of the driver is one of the device, or none. *)
LEMMA StepIsDeviceStep ==
  IInv /\ Carried /\ [Next]_vars => [Device!Next]_(Device!vars)
<1> SUFFICES ASSUME IInv, Carried, [Next]_vars PROVE [Device!Next]_(Device!vars)
  OBVIOUS
<1>1. CASE UNCHANGED <<loaded, dev>>
  BY <1>1, DevUnchanged DEF Device!vars
<1>2. ASSUME NEW p \in Proc, EnterStep(p) PROVE UNCHANGED <<loaded, dev>>
  BY <1>2 DEF EnterStep, ReadEnter, WriteEnter, LlseekEnter, IoctlEnter, Enter
<1>3. ASSUME NEW p \in Proc, LockStep(p) PROVE [Device!Next]_(Device!vars)
  <2>1. CASE WriteAlloc(p) \/ WriteGrow(p)
    BY <2>1, RoomIsStutter DEF Device!vars
  <2>2. CASE ~(WriteAlloc(p) \/ WriteGrow(p))
    BY <1>1, <1>3, <2>2 DEF LockStep, ReadFind, WriteFits, WriteOn, WriteNoMemory, LlseekSize,
                            IoctlSeek, IoctlRefuse, dev
  <2> QED
    BY <2>1, <2>2
<1>4. ASSUME NEW p \in Proc, RunStep(p) PROVE [Device!Next]_(Device!vars)
  <2>1. CASE WriteFault(p) \/ WritePart(p) \/ CommitNoMemory(p)
    BY <2>1, OutIsWrite
  <2>2. CASE WriteCommit(p)
    <3>1. Commands' = Device!Pushed(Commands, Joined(p)) /\ Pending' = <<>>
      BY <2>2, CommitIsPush
    <3>2. call[p].buf \in Chunks /\ HasNewline(Joined(p))
      BY <2>2 DEF WriteCommit, Carried, Joined
    <3>3. Device!Complete(Joined(p))
      BY <3>2 DEF HasNewline, Device!Complete
    <3>4. Device!Write(call[p].buf)
      BY <3>1, <3>3 DEF Device!Write, Joined
    <3> QED
      BY <3>2, <3>4 DEF Device!Next
  <2>3. CASE ReadCopy(p) \/ ReadFault(p) \/ fixed_size_llseek(p) \/ IoctlSet(p) \/ Return(p)
    BY <1>1, <2>3 DEF ReadCopy, ReadFault, fixed_size_llseek, IoctlSet, Return
  <2> QED
    BY <1>4, <2>1, <2>2, <2>3 DEF RunStep
<1>5. ASSUME NEW f \in File, aesd_open(f) \/ aesd_release(f) PROVE UNCHANGED <<loaded, dev>>
  BY <1>5 DEF aesd_open, aesd_release
<1>6. CASE aesd_init_module
  BY <1>6, LoadIsStutter DEF Device!vars
<1>7. CASE aesd_cleanup_module
  BY <1>7, UnloadIsReset DEF Device!Next
<1>8. CASE UNCHANGED vars
  BY <1>1, <1>8 DEF vars, dev
<1> QED
  BY <1>1, <1>2, <1>3, <1>4, <1>5, <1>6, <1>7, <1>8 DEF Next

(* The ring, the blocks, the mutex and the error paths together implement  *)
(* the device that joins writes into commands and keeps the last MAX of    *)
(* them: however many processes call it, whichever allocation or copy      *)
(* fails.                                                                  *)
THEOREM DriverImplementsDevice == Spec => ImplementsCharDevice
<1>1. Init => Device!Init
  <2> SUFFICES ASSUME Init PROVE Commands = <<>> /\ Pending = <<>>
    BY DEF Device!Init
  <2> QED
    BY DEF Init, Commands, Pending, NoTemp
<1>2. IInv /\ Carried /\ [Next]_vars => IInv' /\ Carried'
  BY NextIInv, NextCarried
<1> QED
  BY <1>1, <1>2, InitIInv, InitCarried, StepIsDeviceStep, PTL
     DEF Spec, ImplementsCharDevice, Device!Spec
-----------------------------------------------------------------------------
(* Positions.  The content of the device is the concatenation the lemmas   *)
(* about the search speak of.                                              *)
LEMMA ContentIs ==
  ASSUME NEW s
  PROVE  Device!Content(s) = FlattenSeq(s)
BY DEF Device!Content, Device!FlattenSeq, FlattenSeq

(* The bytes of the entries are the commands. *)
LEMMA CommandBytes ==
  ASSUME IInv, loaded
  PROVE  /\ buffer \in Buffer([buffptr : Ptr, size : Nat]) /\ RingOK(buffer)
         /\ BytesOf(Byte, buffer, Commands)
<1>1. buffer \in Buffer([buffptr : Ptr, size : Nat]) /\ RingOK(buffer)
  BY EntryAt DEF Entry
<1>2. /\ Commands \in Seq(Seq(Byte)) /\ Len(Commands) = Len(Entries(buffer))
      /\ \A k \in 1 .. Len(Entries(buffer)) : Commands[k] = Contents(Entries(buffer)[k])
  BY CommandAt
<1>3. ASSUME NEW k \in 1 .. Len(Entries(buffer)) PROVE Len(Commands[k]) = Entries(buffer)[k].size
  <2> DEFINE i == Slot(buffer, k - 1)
             e == buffer.entry[i]
             data == heap[e.buffptr].data
  <2>1. i \in UsedSlots(buffer) /\ Entries(buffer)[k] = e /\ buffer \in Buffer(Entry)
    BY EntryAt
  <2>2. e.buffptr \in Ptr /\ e.size \in Nat
    BY <2>1, UsedIsEntry DEF UsedSlots
  <2>3. heap[e.buffptr] # Free
    BY <2>1, EntryBlocks
  <2>4. heap[e.buffptr] \in Block
    BY <2>2, <2>3 DEF IInv, TypeOK
  <2>5. data \in Seq(Byte) /\ Len(data) = e.size
    BY <2>1, <2>4 DEF Block, IInv, MemInv, BlocksFit
  <2> HIDE DEF data
  <2>6. Len(SubSeq(data, 1, e.size)) = e.size
    BY <2>2, <2>5
  <2>7. Commands[k] = SubSeq(data, 1, e.size)
    BY <1>2, <2>1 DEF Contents, data
  <2> QED
    BY <2>1, <2>6, <2>7
<1> QED
  BY <1>1, <1>2, <1>3 DEF BytesOf

(* Whoever is in a call has the driver loaded. *)
LEMMA CallerFacts ==
  ASSUME IInv, NEW p \in Proc, pc[p] # "user"
  PROVE  loaded /\ opened # {} /\ call[p] \in Call /\ call[p].pos \in Nat /\ call[p].count \in Nat
<1>1. call[p] \in Call /\ call[p].filp \in opened
  BY DEF IInv, TypeOK, CallInv, InCall
<1>2. loaded
  BY <1>1 DEF IInv, MemInv, Unloaded
<1> QED
  BY <1>1, <1>2 DEF Call

(* What read copies stands at its position in the content. *)
LEMMA ReadCopyServes ==
  ASSUME IInv, NEW p \in Proc, ReadCopy(p)
  PROVE  LET content == FlattenSeq(Commands)
             c == call[p]
             n == call'[p].ret
         IN  /\ n <= c.count /\ (c.count > 0 => n > 0)
             /\ call'[p].buf = SubSeq(content, c.pos + 1, c.pos + n)
             /\ call'[p].pos = c.pos + n
<1> DEFINE pos == call[p].pos
           count == call[p].count
           at == call[p].at
           off == at.entry_offset
           e == buffer.entry[at.slot]
           available == e.size - off
           n == IF count < available THEN count ELSE available
           s == Commands
<1>1. /\ loaded /\ call \in [Proc -> Call] /\ call[p] \in Call /\ pos \in Nat /\ count \in Nat
      /\ at = aesd_circular_buffer_find_entry_offset_for_fpos(buffer, pos) /\ at.slot # NULL
  BY CallerFacts DEF ReadCopy, IInv, TypeOK, CallInv, Found
<1>2. /\ call'[p].buf = Copied(Contents(e), off, n) /\ call'[p].pos = pos + n /\ call'[p].ret = n
  BY <1>1 DEF ReadCopy, Call
<1>3. /\ buffer \in Buffer([buffptr : Ptr, size : Nat]) /\ RingOK(buffer)
      /\ BytesOf(Byte, buffer, s)
  BY <1>1, CommandBytes
<1>4. /\ s \in Seq(Seq(Byte)) /\ Len(s) = Len(Entries(buffer)) /\ Len(s) \in Nat
      /\ \A k \in 1 .. Len(s) : Len(s[k]) = Entries(buffer)[k].size
      /\ \A k \in 1 .. Len(s) : s[k] = Contents(Entries(buffer)[k])
  BY <1>1, <1>3, CommandAt DEF BytesOf
<1>5. pos < Len(FlattenSeq(s))
  BY <1>1, <1>3, SearchEnds
<1>6. Finds(buffer, s, pos, at)
  BY <1>1, <1>3, <1>5, SearchFinds
<1> HIDE DEF s, at, pos, count
<1>7. PICK i \in 0 .. Len(s) - 1 : /\ e = Entries(buffer)[i+1] /\ off \in 0 .. Len(s[i+1]) - 1
                                  /\ pos = Before(s, i) + off
  BY <1>6 DEF Finds
<1>8. i+1 \in 1 .. Len(s)
  BY <1>4
<1>9. s[i+1] = Contents(e) /\ Len(s[i+1]) = e.size /\ s[i+1] \in Seq(Byte) /\ Len(s[i+1]) \in Nat
  BY <1>4, <1>7, <1>8, ElementOfSeq
<1>10. off \in Nat /\ off < e.size /\ e.size \in Nat
  BY <1>7, <1>9
<1> HIDE DEF e, off
<1>11. n \in Nat /\ n <= count /\ (count > 0 => n > 0) /\ off + n <= e.size
  BY <1>1, <1>10
<1> HIDE DEF n
<1>12. off \in 0 .. Len(s[i+1]) /\ off + n \in off .. Len(s[i+1])
  BY <1>9, <1>10, <1>11
<1>13. Before(s, i) \in Nat
  BY <1>4, <1>12, FlattenSuffix DEF Before
<1>14. SubSeq(FlattenSeq(s), Before(s, i) + off + 1, Before(s, i) + (off + n))
         = SubSeq(s[i+1], off + 1, off + n)
  <2> DEFINE z == off + n
  <2>1. off \in 0 .. Len(s[i+1]) /\ z \in off .. Len(s[i+1])
    BY <1>12
  <2> HIDE DEF z
  <2>2. SubSeq(FlattenSeq(s), Len(FlattenSeq(SubSeq(s, 1, i))) + off + 1,
                              Len(FlattenSeq(SubSeq(s, 1, i))) + z) = SubSeq(s[i+1], off + 1, z)
    BY <1>4, <1>7, <2>1, FlattenSlice, SMTT(30)
  <2> QED
    BY <2>2 DEF Before, z
<1>15. Before(s, i) + off + 1 = pos + 1 /\ Before(s, i) + (off + n) = pos + n
  BY <1>7, <1>10, <1>11, <1>13
<1>16. call'[p].buf = SubSeq(FlattenSeq(s), pos + 1, pos + n)
  BY <1>2, <1>9, <1>14, <1>15 DEF Copied
<1> QED
  BY <1>2, <1>11, <1>16 DEF s, pos, count

(* A search that finds nothing has a position at or past the end. *)
LEMMA EndOfFile ==
  ASSUME IInv, NEW p \in Proc, ReadFind(p), pc'[p] = "return"
  PROVE  call[p].pos >= Len(FlattenSeq(Commands))
<1> DEFINE pos == call[p].pos
           at == aesd_circular_buffer_find_entry_offset_for_fpos(buffer, pos)
<1>1. loaded /\ pos \in Nat /\ pc \in [Proc -> PC]
  BY CallerFacts DEF ReadFind, IInv, TypeOK
<1>2. at.slot = NULL
  BY <1>1 DEF ReadFind
<1>3. /\ buffer \in Buffer([buffptr : Ptr, size : Nat]) /\ RingOK(buffer)
      /\ BytesOf(Byte, buffer, Commands)
  BY <1>1, CommandBytes
<1>4. Len(FlattenSeq(Commands)) \in Nat
  BY <1>3, FlattenType DEF BytesOf
<1>5. ~(pos < Len(FlattenSeq(Commands)))
  <2> SUFFICES ASSUME pos < Len(FlattenSeq(Commands)) PROVE FALSE
    OBVIOUS
  <2>1. Finds(buffer, Commands, pos, at)
    BY <1>1, <1>3, SearchFinds
  <2> HIDE DEF at
  <2> QED
    BY <1>2, <2>1 DEF Finds
<1> HIDE DEF pos
<1>6. pos >= Len(FlattenSeq(Commands))
  BY <1>1, <1>4, <1>5
<1> QED
  BY <1>6 DEF pos

(* Every read returns the bytes at its position, of the content as it is   *)
(* when it copies, and end of file only at the end, in the presence of any *)
(* number of writers.                                                      *)
THEOREM ReadsRight == Spec => ReadServesPosition
<1> DEFINE Serves(p) ==
             LET content == Device!Content(Commands)
                 c == call[p]
                 n == call'[p].ret
             IN  /\ ReadCopy(p) =>
                      /\ n <= c.count /\ (c.count > 0 => n > 0)
                      /\ call'[p].buf = SubSeq(content, c.pos + 1, c.pos + n)
                      /\ call'[p].pos = c.pos + n
                 /\ ReadFind(p) /\ pc'[p] = "return" => c.pos >= Len(content)
<1>1. ASSUME IInv, NEW p \in Proc PROVE Serves(p)
  BY <1>1, ReadCopyServes, EndOfFile, ContentIs
<1>2. IInv /\ [Next]_vars => [\A p \in Proc : Serves(p)]_vars
  BY <1>1
<1> QED
  BY <1>2, InitIInv, NextIInv, PTL DEF Spec, ReadServesPosition
-----------------------------------------------------------------------------
(* Seeks.  The argument of an accepted seek is the unsigned one. *)
SeekKept == \A p \in Proc : pc[p] = "set_f_pos" => call[p].arg \in Nat \X Nat

(* Nobody is in a seek at the start. *)
LEMMA InitSeekKept == Init => SeekKept
BY DEF Init, SeekKept

(* Only IoctlSeek brings a call to set_f_pos, and it keeps the argument;   *)
(* what a call at set_f_pos knows does not change before it goes on.       *)
LEMMA SeekSteps ==
  ASSUME IInv, [Next]_vars, NEW p \in Proc, pc'[p] = "set_f_pos"
  PROVE  \/ pc[p] # "set_f_pos" /\ IoctlSeek(p)
         \/ pc[p] = "set_f_pos" /\ call'[p] = call[p]
<1>0. call \in [Proc -> Call] /\ pc \in [Proc -> PC]
  BY DEF IInv, TypeOK
<1>1. CASE UNCHANGED <<pc, call>>
  BY <1>1
<1>2. ASSUME NEW q \in Proc, EnterStep(q)
      PROVE  q # p /\ pc'[p] = pc[p] /\ call'[p] = call[p]
  BY <1>0, <1>2 DEF EnterStep, ReadEnter, WriteEnter, LlseekEnter, IoctlEnter, Enter
<1>3. ASSUME NEW q \in Proc, LockStep(q)
      PROVE  \/ q = p /\ pc[p] # "set_f_pos" /\ IoctlSeek(p)
             \/ pc'[p] = pc[p] /\ call'[p] = call[p]
  <2>1. CASE IoctlSeek(q)
    BY <1>0, <2>1 DEF IoctlSeek
  <2>2. CASE ~IoctlSeek(q)
    BY <1>0, <1>3, <2>2 DEF LockStep, ReadFind, WriteFits, WriteAlloc, WriteGrow, WriteNoMemory,
                            WriteOn, LlseekSize, IoctlRefuse, Finish, Leave
  <2> QED
    BY <2>1, <2>2
<1>4. ASSUME NEW q \in Proc, RunStep(q)
      PROVE  pc'[p] = pc[p] /\ call'[p] = call[p]
  BY <1>0, <1>4 DEF RunStep, ReadCopy, ReadFault, WriteFault, WritePart, WriteCommit,
                    CommitNoMemory, WriteDone, fixed_size_llseek, IoctlSet, Return, Finish, Leave
<1> QED
  BY <1>1, <1>2, <1>3, <1>4
     DEF Next, vars, aesd_open, aesd_release, aesd_init_module, aesd_cleanup_module

(* No step of anybody changes the argument of a seek under way. *)
LEMMA NextSeekKept == IInv /\ SeekKept /\ [Next]_vars => SeekKept'
<1> SUFFICES ASSUME IInv, SeekKept, [Next]_vars, NEW p \in Proc, pc'[p] = "set_f_pos"
             PROVE  call'[p].arg \in Nat \X Nat
  BY DEF SeekKept
<1>1. CASE IoctlSeek(p)
  <2>1. call \in [Proc -> Call] /\ call[p].arg \in Nat \X Nat
    BY <1>1 DEF IInv, TypeOK, CallInv, SeekArgs, IoctlSeek
  <2>2. call'[p].arg = call[p].arg
    BY <1>1, <2>1 DEF IoctlSeek, Call
  <2> QED
    BY <2>1, <2>2
<1>2. CASE pc[p] = "set_f_pos" /\ call'[p] = call[p]
  BY <1>2 DEF SeekKept
<1> QED
  BY <1>1, <1>2, SeekSteps

(* While somebody is in a call a step leaves the commands alone or pushes  *)
(* one: the driver is not unloaded.                                        *)
LEMMA CommandsGrow ==
  ASSUME IInv, [Next]_vars, loaded, opened # {}
  PROVE  \/ Commands' = Commands
         \/ \E bytes \in Seq(Byte) : Commands' = Device!Pushed(Commands, bytes)
<1>1. CASE UNCHANGED <<loaded, dev>>
  BY <1>1, DevUnchanged
<1>2. ASSUME NEW p \in Proc, EnterStep(p) PROVE UNCHANGED <<loaded, dev>>
  BY <1>2 DEF EnterStep, ReadEnter, WriteEnter, LlseekEnter, IoctlEnter, Enter
<1>3. ASSUME NEW p \in Proc, LockStep(p) PROVE Commands' = Commands
  <2>1. CASE WriteAlloc(p) \/ WriteGrow(p)
    BY <2>1, RoomIsStutter
  <2>2. CASE ~(WriteAlloc(p) \/ WriteGrow(p))
    <3>1. UNCHANGED <<loaded, dev>>
      BY <1>3, <2>2 DEF LockStep, ReadFind, WriteFits, WriteOn, WriteNoMemory, LlseekSize,
                        IoctlSeek, IoctlRefuse, dev
    <3> QED
      BY <3>1, DevUnchanged
  <2> QED
    BY <2>1, <2>2
<1>4. ASSUME NEW p \in Proc, RunStep(p)
      PROVE  \/ Commands' = Commands
             \/ \E bytes \in Seq(Byte) : Commands' = Device!Pushed(Commands, bytes)
  <2>1. CASE WriteFault(p)
    BY <2>1, CommandsFrame DEF WriteFault
  <2>2. CASE WritePart(p) \/ CommitNoMemory(p)
    BY <2>2, StoredIsPending DEF WritePart, CommitNoMemory, Joined
  <2>3. CASE WriteCommit(p)
    <3>1. Joined(p) \in Seq(Byte)
      BY <2>3, JoinedBytes DEF Joined, WriteCommit
    <3> QED
      BY <2>3, <3>1, CommitIsPush
  <2>4. CASE ReadCopy(p) \/ ReadFault(p) \/ fixed_size_llseek(p) \/ IoctlSet(p) \/ Return(p)
    BY <1>1, <2>4 DEF ReadCopy, ReadFault, fixed_size_llseek, IoctlSet, Return
  <2> QED
    BY <1>4, <2>1, <2>2, <2>3, <2>4 DEF RunStep
<1>5. ASSUME NEW f \in File, aesd_open(f) \/ aesd_release(f) PROVE UNCHANGED <<loaded, dev>>
  BY <1>5 DEF aesd_open, aesd_release
<1>6. ~aesd_init_module /\ ~aesd_cleanup_module
  BY DEF aesd_init_module, aesd_cleanup_module
<1>7. CASE UNCHANGED vars
  BY <1>1, <1>7 DEF vars, dev
<1> QED
  BY <1>1, <1>2, <1>3, <1>4, <1>5, <1>6, <1>7 DEF Next

(* A push onto a ring that is not full moves no command. *)
LEMMA SeekStays ==
  ASSUME NEW s \in Seq(Seq(Byte)), NEW bytes \in Seq(Byte), NEW x \in Nat, x < Len(s)
  PROVE  /\ x < Len(Append(s, bytes)) /\ Append(s, bytes)[x+1] = s[x+1]
         /\ SubSeq(Append(s, bytes), 1, x) = SubSeq(s, 1, x)
<1> DEFINE t == Append(s, bytes)
<1>1. /\ t \in Seq(Seq(Byte)) /\ Len(t) = Len(s) + 1 /\ Len(s) \in Nat
      /\ \A k \in 1 .. Len(s) : t[k] = s[k]
  BY AppendProperties
<1> HIDE DEF t
<1>2. 0 \in 0 .. Len(s) /\ 0 \in 0 .. Len(t) /\ x \in 0 .. Len(s) /\ x \in 0 .. Len(t)
  BY <1>1
<1>3. /\ SubSeq(s, 0+1, x) \in Seq(Seq(Byte)) /\ Len(SubSeq(s, 0+1, x)) = x - 0
      /\ \A m \in 1 .. x - 0 : SubSeq(s, 0+1, x)[m] = s[0+m]
  BY <1>2, Slice
<1>4. /\ SubSeq(t, 0+1, x) \in Seq(Seq(Byte)) /\ Len(SubSeq(t, 0+1, x)) = x - 0
      /\ \A m \in 1 .. x - 0 : SubSeq(t, 0+1, x)[m] = t[0+m]
  BY <1>1, <1>2, Slice
<1>5. \A m \in 1 .. x - 0 : 0 + m \in 1 .. Len(s)
  BY <1>1
<1>6. SubSeq(t, 0+1, x) = SubSeq(s, 0+1, x)
  BY <1>1, <1>3, <1>4, <1>5, SeqEqual
<1>7. x + 1 \in 1 .. Len(s)
  BY <1>1
<1> QED
  BY <1>1, <1>6, <1>7 DEF t

(* An accepted seek has computed the position of its command. *)
LEMMA SeekComputes ==
  ASSUME IInv, NEW p \in Proc, IoctlSeek(p)
  PROVE  SeekHolds(p)'
<1> DEFINE x == call[p].arg[1]
           y == call[p].arg[2]
           s == Commands
<1>1. /\ loaded /\ call[p] \in Call /\ call \in [Proc -> Call] /\ call[p].arg \in Nat \X Nat
  BY CallerFacts DEF IoctlSeek, IInv, TypeOK, CallInv, SeekArgs
<1>2. /\ call'[p].arg = call[p].arg /\ call'[p].pos = CharCount(buffer)[x] + y
      /\ UNCHANGED <<loaded, dev>>
  BY <1>1 DEF IoctlSeek, new_f_pos, Call
<1>3. Commands' = s
  BY <1>2, DevUnchanged
<1>4. /\ buffer \in Buffer([buffptr : Ptr, size : Nat]) /\ RingOK(buffer)
      /\ BytesOf(Byte, buffer, s)
  BY <1>1, CommandBytes
<1>5. /\ s \in Seq(Seq(Byte)) /\ Len(s) = Len(Entries(buffer)) /\ Len(s) \in Nat
      /\ \A k \in 1 .. Len(s) : Len(s[k]) = Entries(buffer)[k].size
      /\ \A k \in 1 .. Len(s) : Entries(buffer)[k] = buffer.entry[Slot(buffer, k - 1)]
  BY <1>1, <1>4, EntryAt DEF BytesOf
<1>6. x \in Nat /\ y \in Nat /\ x < Len(s) /\ y < buffer.entry[Slot(buffer, x)].size
  BY <1>1, <1>4, <1>5, PtrAssumption, SizeIsEntries DEF IoctlSeek, SeekInRange
<1> HIDE DEF x, y, s
<1>7. x \in 0 .. Len(s) /\ x+1 \in 1 .. Len(s) /\ (x+1) - 1 = x
  BY <1>5, <1>6
<1>8. Len(s[x+1]) = buffer.entry[Slot(buffer, x)].size
  BY <1>5, <1>7
<1>9. CharCount(buffer)[x] = Before(s, x)
  BY <1>4, <1>7, CountIsBefore
<1>10. /\ x < Len(s) /\ y < Len(s[x+1])
       /\ call'[p].pos = Len(Device!Content(SubSeq(s, 1, x))) + y
  BY <1>2, <1>6, <1>8, <1>9, ContentIs DEF Before
<1>11. SeekHolds(p)' <=> /\ call'[p].arg[1] < Len(Commands')
                         /\ call'[p].arg[2] < Len(Commands'[call'[p].arg[1] + 1])
                         /\ call'[p].pos = Len(Device!Content(SubSeq(Commands', 1, call'[p].arg[1])))
                                             + call'[p].arg[2]
  BY DEF SeekHolds, Device!Content, Device!FlattenSeq
<1> QED
  BY <1>2, <1>3, <1>10, <1>11 DEF x, y, s

(* It stays right until a step finds the ring full. *)
LEMMA SeekKeeps ==
  ASSUME IInv, SeekKept, [Next]_vars, NEW p \in Proc, pc[p] = "set_f_pos",
         call'[p] = call[p], SeekHolds(p), ~buffer.full
  PROVE  SeekHolds(p)'
<1> DEFINE x == call[p].arg[1]
           y == call[p].arg[2]
           s == Commands
<1>1. loaded /\ opened # {} /\ call[p].arg \in Nat \X Nat
  BY CallerFacts DEF SeekKept
<1>2. /\ s \in Seq(Seq(Byte)) /\ Len(s) = Len(Entries(buffer)) /\ Len(s) \in 0 .. MAX
  BY <1>1, EntryAt, CommandAt
<1>3. Len(s) < MAX
  <2>1. Len(Entries(buffer)) # MAX
    BY <1>1, EntryAt, OverwrittenIsOldest
  <2> QED
    BY <1>2, <2>1, MaxPositive
<1>4. /\ x \in Nat /\ y \in Nat /\ x < Len(s) /\ y < Len(s[x+1])
      /\ call[p].pos = Len(FlattenSeq(SubSeq(s, 1, x))) + y
  BY <1>1, ContentIs DEF SeekHolds
<1>5. SeekHolds(p)' <=> /\ x < Len(Commands') /\ y < Len(Commands'[x + 1])
                        /\ call[p].pos = Len(FlattenSeq(SubSeq(Commands', 1, x))) + y
  <2>1. SeekHolds(p)' <=> /\ call'[p].arg[1] < Len(Commands')
                          /\ call'[p].arg[2] < Len(Commands'[call'[p].arg[1] + 1])
                          /\ call'[p].pos = Len(Device!Content(SubSeq(Commands', 1, call'[p].arg[1])))
                                              + call'[p].arg[2]
    BY DEF SeekHolds, Device!Content, Device!FlattenSeq
  <2> QED
    BY <2>1, ContentIs
<1>6. CASE Commands' = s
  BY <1>4, <1>5, <1>6
<1>7. ASSUME NEW bytes \in Seq(Byte), Commands' = Device!Pushed(Commands, bytes)
      PROVE  SeekHolds(p)'
  <2>1. Commands' = Append(s, bytes)
    BY <1>3, <1>7 DEF Device!Pushed
  <2> HIDE DEF x, y, s
  <2>2. /\ x < Len(Append(s, bytes)) /\ Append(s, bytes)[x+1] = s[x+1]
        /\ SubSeq(Append(s, bytes), 1, x) = SubSeq(s, 1, x)
    BY <1>2, <1>4, SeekStays
  <2> QED
    BY <1>4, <1>5, <2>1, <2>2
<1> QED
  BY <1>1, <1>6, <1>7, CommandsGrow

(* An accepted AESDCHAR_IOCSEEKTO computes the position of its command,    *)
(* and until f_pos is set only a step that finds the ring full can make    *)
(* that position stale.                                                    *)
THEOREM SeeksRight == Spec => SeekFindsCommand
<1> DEFINE Right(p) == pc'[p] = "set_f_pos" /\ (pc[p] = "set_f_pos" => SeekHolds(p) /\ ~buffer.full)
                         => SeekHolds(p)'
<1>1. ASSUME IInv, SeekKept, [Next]_vars, NEW p \in Proc PROVE Right(p)
  BY <1>1, SeekSteps, SeekComputes, SeekKeeps
<1>2. IInv /\ SeekKept /\ [Next]_vars => [\A p \in Proc : Right(p)]_vars
  BY <1>1
<1>3. IInv /\ SeekKept /\ [Next]_vars => IInv' /\ SeekKept'
  BY NextIInv, NextSeekKept
<1> QED
  BY <1>2, <1>3, InitIInv, InitSeekKept, PTL DEF Spec, SeekFindsCommand
=============================================================================
