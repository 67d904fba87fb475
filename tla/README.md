# Formal models of the AESD character device and socket server

This directory specifies, in TLA+, the core of the repository: the `aesdchar`
kernel driver (`aesd-char-driver/`) and the socket server that uses it
(`server/aesdsocket.c`), and beside them the server's predecessor and the two
example programs. TLC checks small instances of every module; TLAPS proves the
theorems listed below for every value of the constants.

## 1. The system

| Component | State | Operations | Modelled in |
|---|---|---|---|
| Circular buffer (`aesd-circular-buffer.c`) | `entry[]`, `in_offs`, `out_offs`, `full` | init, add_entry, find_entry_offset_for_fpos, size, total_size | `CircularBuffer`, `CircularBufferSpec`, abstractly `CommandLog` |
| Driver (`aesd-char-driver/main.c`) | the buffer, `temp_buf`, the device mutex, kernel memory, `f_pos` of every open file | open, release, read, write, llseek, ioctl, module init and cleanup | `AesdChar`, abstractly `CharDevice` |
| Server (`server/aesdsocket.c`) | thread list, `aesdsocket_mutex`, per thread buffer and descriptors, the node `/dev/aesdchar` | startup, `daemonize`, accept loop, reaper, `threadfunc`, `handle_signal`, restart | `AesdSocket` on top of `CharDevice`; its descriptors, from `main` on, in `Startup` |
| Scripts (`aesdchar_load`, `aesdchar_unload`, `aesdsocket-start-stop.sh`) | the node, the loaded module, the process | load, unload, start, stop | actions `ReloadDriver`, `Restart`, `handle_signal` of `AesdSocket`; `Start` of `Startup` |
| Thread example (`examples/threading`) | `thread_data` of every thread, the mutex | start_thread_obtaining_mutex, threadfunc, the caller's join | `Threading` |
| System call examples (`examples/systemcalls`) | parents and children, their descriptors, exit statuses | do_system, do_exec, do_exec_redirect | `SystemCalls` |
| Old server (`server/aesdsocket_old.c`, built by no Makefile) | descriptor table, the data file, the client being served | startup, `daemonize`, the serving loop, `handle_signal` | `AesdSocketOld` |
| `finder-app/`, `server/queue.h`, build, image and test scripts | | | not modelled, section 7 |

How they interact. A server thread opens `/dev/aesdchar`, and each `read`,
`write` and `ioctl` it makes is one call of the driver; the driver keeps its
commands in the circular buffer, whose pointers it owns. A mutex of the driver
serialises the calls of all processes; a mutex of the server serialises, on top
of that, the exchange of each thread with its client. The driver outlives the
server: its log survives a restart, and so does a mutex it left locked. The
server's own state is in memory but for two things: the node in `/dev`, which
its signal handler removes, and the port, on which closed connections linger.

What is hard: calls of several processes interleave at every point where the
mutex is free; a file's position can be shared; every `kmalloc`, `krealloc` and
user copy can fail and leave half an operation; a client may send its bytes in
any fragments, stop, or disconnect; a signal interrupts any thread at any point
while the others run on; servers are started while others start, serve or have
just ended; descriptor numbers are reused. The
list, line by line, is in `PROJECT.json` under `hazards`.

What makes each part correct:

* buffer: it is the log of the last `MAX` commands, and each add_entry hands
  back the one pointer that is dropped;
* driver: it is the device of `CharDevice` whatever interleaves or fails; it
  neither leaks, nor overruns, nor frees early; calls return; reads and seeks
  agree with the concatenation of the commands;
* server: one thread at a time uses the device, a message arrives in one piece,
  the answer is the content of the device, threads are reaped once they ended,
  every client is served, and a signal ends the process;
* startup and descriptors: `sockfd` names the server's socket until a signal, a
  thread's numbers are its own, one server listens on the port, and a server that
  is started serves;
* old server: clients do not share lines, and no descriptor is lost but by
  clients that break off;
* thread example: nobody writes to freed `thread_data`, and the success flag
  tells the truth;
* system call examples: true is returned only for a command that ran, succeeded
  and was waited for, and no descriptor stays open.

## 2. Modules

```
CommandLog            CharDevice  <------------------ AesdSocket <- MCAesdSocket
   ^ refined by          ^ refined by     actions used by
CircularBufferSpec     AesdChar <- MCAesdChar         Threading    SystemCalls
        \                /
         CircularBuffer

Descriptors <- Startup
     ^-------- AesdSocketOld <- MCAesdSocketOld
```

| Proof module | About |
|---|---|
| `FlattenLemmas` | concatenation of sequences, induction up to a number, least numbers |
| `CircularBufferLemmas` | what add_entry, the search and the size functions do to any well-formed ring |
| `CircularBufferProofs` | `CircularBufferSpec`: invariant, refinement of `CommandLog`, positions and sizes |
| `AesdCharProofs` | `AesdChar`: types, memory, refinement of `CharDevice`, reads and seeks |
| `AesdSocketProofs` | `AesdSocket`: buffers, list nodes, exclusion, whole messages and answers |
| `StartupProofs` | `Startup`: the socket's number, one listener, the threads' numbers |
| `AesdSocketOldProofs` | `AesdSocketOld`: descriptors, whole lines |
| `ExampleProofs` | `Threading`: `thread_data` and the success flag; `SystemCalls`, whose specification is `CallSpec`: results and descriptors |

`CircularBuffer` holds the C functions as operators on the value of the struct,
so that both the buffer's own state machine (`CircularBufferSpec`) and the
driver use the same definitions, and the lemmas about them serve both. The
entry array is a function on `0 .. MAX-1`; slots never written hold the zeroes
of `memset`. The two `uint8_t` offsets stay below `MAX = 10`, so their width
does not matter. The running sums of the loops (`char_count`, `total`) are one
recursive function, `RunningTotal`.

`AesdChar` gives each process a program counter and the locals of its call.
A call is split wherever other processes can see the difference: entry (the
kernel copies `f_pos`), the part up to and including the search or the
allocation, the user copy with what follows it, and the return (the kernel
stores `f_pos` back unless the call failed). `mutex_lock` is the guard
`mutex = NULL`. Each outcome of a call is an action: `WriteFits`, `WriteAlloc`,
`WriteGrow` and `WriteNoMemory` are the branches of lines 122-148 of `main.c`,
`WriteFault`, `WritePart`, `WriteCommit` and `CommitNoMemory` those of lines
150-191. `IoctlRefuse` is the pair of `-EINVAL` returns and leaves the mutex
locked, as the code does. Memory is a function from addresses to blocks with a
length and the bytes stored; a fresh block may be at any unused address, and
`krealloc` may move or stay. Calls that cannot change anything (`-ENOTTY`, an
unreadable ioctl argument, failing `alloc_chrdev_region` or `cdev_add`) are
left out. External, modelled from their use: the system call layer
(`Enter`, `Leave`, `Return`, `Quiet`) and `fixed_size_llseek`. A char device
has no `f_pos` lock, so the model has none.

`CharDevice` is what a user of the device may rely on: pending bytes, and the
log of complete commands. It makes explicit two behaviours of the driver that a
reader of `aesd_write` might miss: after `-EFAULT` the bytes of earlier
successful writes are gone (`WriteFault`), after `-ENOMEM` for the command the
bytes of the failed write stay (`WriteNoMemory`).

`AesdSocket` models the build the Makefile produces: `USE_AESD_CHAR_DEVICE` is
always defined, so the timestamp thread does not exist and `FILE_PATH` is
`/dev/aesdchar`. Bytes are tokens: a client's data byte, a newline, the seek
prefix, `X,` of its argument, and one token for each digit of Y, which is the value
Y has up to there (`0,12` is 0, 1, 12); `recv` returns any non-empty piece of what
was sent that fits the buffer. So a seek can be cut behind its prefix, before Y and
between its digits, and since the receive loop ends with the prefix, `sscanf`
(`Parsed`, `SeekTo`) sees what has arrived by then. A cut inside the prefix is only
waited out, and one inside X leaves no comma, like one behind the prefix. What a
client does is its script: what it sends, whether it then shuts its side, and
whether it reads the answer (`reads`). `ReadSend` is taken when `send` returns; for
a client that does not read it may never be (`SendWaits`), and the mutex is held
meanwhile. The device is used through the actions of `CharDevice`, each system call
one step, which `AesdChar` justifies. What of the driver survives a call is added:
`stuck`, its mutex left locked after a refused seek, upon which every further call
blocks, unkillably. `Faults` names the failures an instance allows.

`handle_signal` runs on the stack of whichever thread the signal interrupts,
which does nothing else from then on (`handler`), while all others go on. Its
steps are those the others can tell apart: `stop`, the node and the socket;
`pthread_mutex_destroy`; `exit`. What destroying does is glibc's: a locked mutex
stays as it is (`EBUSY`), an unlocked one is `DESTROYED` and afterwards lock and
unlock return at once (`EINVAL`), which the server does not look at. A `main`
that is not the interrupted thread may see `stop` first and return
(`MainReturns`); one that already waits in `accept` is not woken by the closing
of the socket, so `AcceptFails` may happen but is never counted on. One handler
runs at a time; a second signal would do the same again. A client that is still
in the queue when the process ends is taken to connect again.

`Startup` is the server once more, as far as its descriptor numbers go, for several
processes at once that are started with or without `-d`: `main` from `getaddrinfo`
to its end, the threads with `new_fd` and `file_fd`, and the handler. Its state is
the descriptor table of each (`Descriptors`: numbers are handed out lowest first,
the first `syslog` takes one too) and the state of its socket. `BindConflict` and
`ListenConflict` are the rules of Linux: sockets may share a port while none
listens if all have set `SO_REUSEADDR`, and a lingering connection keeps others
from binding without it. Looking at `stop`, calling `accept` and its return are
steps of their own, since the handler, on `main` or on a thread, may close `sockfd`
in between; a `main` that waits in `accept` keeps the socket listening although its
number is gone (`Settled`). `close(sockfd)` in the handler and behind `main`'s loop
are the same step (`CloseSockfd`, `CloseSockfd_thread`); the end of the process
closes everything else. A thread may open and close a file any number of times,
where the code has it twice at most; a second signal may come while a handler runs.

`AesdSocketOld` is the server before threads and driver: one process, one client
at a time, each piece written to the file as it arrives. It keeps numbers in
`new_fd` and `file_fd` and goes on using them after closing them when the file
cannot be reopened, so it too has the descriptor table. Its `send` loop waits for a
client that does not read, as the new server's does, and with it everybody.

`Threading` gives each thread two program counters: one for the caller inside
`start_thread_obtaining_mutex`, which stores the thread's ID after the thread
was created, and one for `threadfunc`. A sleep is any delay between two steps.
Setting the flag (`Complete`) and returning (`ReturnData`) are two steps.
`Join` is the caller's, external: it frees the `thread_data` it is given.

`SystemCalls` lets several threads of one process call the three functions at
once. They share the process's descriptors; `fork` copies all that are open at
that moment. A call with no command at all is refused by `do_exec`;
`do_exec_redirect` does not look at `count`, and is modelled for one argument
or more, as its comment requires. What `system()` does is the C library's; the
model has its outcomes.

`MCAesdChar`, `MCAesdSocket` and `MCAesdSocketOld` define the values of constants
that a `.cfg` cannot write.

## 3. Runs

| Run | Asks | Bounds |
|---|---|---|
| `circular_buffer` | ring = log, search = concatenation, sizes | 3 slots, 3 addresses, sizes 0..2: every rotation and both sides of the wrap; the state space is closed, add_entry is called without limit |
| `driver_memory` | memory and refinement | 2 processes sharing a file, 2 slots, 4 addresses (temp_buf, two entries, one on the way), writes of `x` and `x\n`, `Slack` 1 so that temp_buf has to grow; commands of up to 3 bytes, also with bytes behind the newline (after `-ENOMEM`) |
| `driver_positions` | reads and seeks | the same processes with `read` of 1 and 2 bytes, `SEEK_CUR`, `SEEK_END`, seeks to (0,1) and (1,0), commands of 1 and 2 bytes; writes start at positions up to 2 (`MaxPos`) |
| `driver_live` | every call returns | 2 processes, 1 slot, no seeks that could be refused |
| `driver_seek_leak` | violation | a refused seek keeps the mutex |
| `server_answers` | exclusion, buffer, answers, reaper | 3 clients, 2 commands kept, so that a command is dropped while others wait; messages, seeks `1,01`, refused ones too and cut anywhere, and clients that stop before the newline; `buffer_size` starts at 5, so that a message of five bytes makes it grow, and a whole seek arrives in one piece or several; write and realloc fail |
| `server_restarts` | exclusion, whole messages and answers across signals and restarts, every client served, every signal ends the process | 2 clients, 1 command kept, so that an answer read without the mutex would miss the drop, one restart, a signal in any thread and SIGPIPE at any point, with or without a driver reload; malloc, pthread_create and open fail; messages, a seek by a client that does not read, a client that sends nothing and one that stops halfway |
| `server_silent_client` | violation | 2 clients |
| `threading` | memory, the success flag, every thread ends | 3 threads, everything may fail; the state space is closed |
| `syscalls` | results, descriptors, every call returns | 2 calls at once of any of the three functions, every system call may fail |
| `old_server` | whole lines, descriptors, every client served | 3 clients, those with a message not reading, 2 starts with or without `-d`, 8 descriptors, so that two clients that break off use them up; everything may fail |
| `startup` | the socket's number, one listener, whose number is whose, every start serves | 2 servers started once each, 2 threads, 2 connections, 7 descriptors, every call may fail, signals at any point |

Two processes suffice for the driver: its only shared objects are the device
and `f_pos`, and every conflict is between the holder of the mutex and one
other. `MaxPending` and `MaxPos` bound the bytes of an unfinished command and
the positions writes can reach; they are guards of `WriteEnter` only, so no call
under way is ever held back by a bound. `MaxRestarts` and `MaxStarts` bound the
restarts; one is enough for what a process leaves behind to meet its successor. In
`startup` the second server is the restart: it may start before, with or after the
end of the first. `Thread` and `MaxClients` bound the threads and connections
there: two threads meet on one number, and the third party is the handler.
A client that does not read is the harder one: its `send` may return all the same,
so where only one kind is in an instance it is this one.
`OPEN_MAX` is the smallest table that holds all a server with one thread has open at
once, so that two threads run into it, plus one for the old server, which loses
descriptors. `server_restarts` gets by with
2 clients where `server_answers` has 3: with signals in any thread and liveness,
3 are out of reach in the time of a run.
Deadlock is not checked where the system may stop: after a refused seek or a
leaked mutex everybody waits, and the server without further clients waits in
`accept`; threads and calls of the examples come to an end. `driver_live`
checks it. Addresses, processes and clients are
interchangeable in the definitions and are declared symmetric in the safety
runs only.

Fairness. `driver_live` assumes weak fairness of every step of a call that does
not wait, and strong fairness of the steps that take the mutex: the kernel's
mutex hands itself to a waiter that keeps missing it. No fairness is assumed of
entering calls, opening, closing or loading. `server_restarts` assumes weak
fairness of main, of each thread, of the handler, and of delivery of sent bytes
(`Recv` is a step of the thread), but not that a `send` to a client that does not
read ever returns: fairness is of `~SendWaits(c) /\ ThreadStep(c)`, in the old server
of `~SendWaits /\ Main`; a `pthread` mutex promises no more, and as each
thread locks it at most twice no more is needed. Signals, restarts, and a failing
`accept` are never counted on. `old_server` and `startup` assume weak fairness
of each process, and neither that a lingering connection ever times out nor that
anybody starts a server. `threading` assumes weak fairness of the
starter and of the thread, but not that a waiting `pthread_mutex_lock` ever
fails: otherwise a failure would be the way out of a mutex nobody releases.
`syscalls` assumes weak fairness of parents and children and that commands
end, but not that `waitpid` is ever interrupted.

## 4. What the runs found

* A refused `AESDCHAR_IOCSEEKTO` returns with the device mutex locked
  (`main.c:223`, `main.c:230`): `MutexReleased` fails in five steps. From then
  on nobody can use the device, and the server's threads cannot even be killed.
* A client that disconnects without sending leaves `aesdsocket_mutex` locked
  (`aesdsocket.c:206`): `LineAnswered` fails under fairness.

Seen while modelling, each plain from a few steps of the model and given no run:

* `handle_signal` removes `/dev/aesdchar` (`aesdsocket.c:74`), though the comment
  beside it says "Remove only if using a regular file". The next server then
  creates a regular file there (`WriteOpen`), on which every seek fails.
* When `fork` fails, `do_exec_redirect` returns with `outputfile` open
  (`systemcalls.c:164`), against its comment (`systemcalls.c:121`).
  `DescriptorsClosed` excepts this one way out.
* `handle_signal` destroys the mutex while threads run on (`aesdsocket.c:85`):
  from then to `exit` two of them may be inside, and one may drop the command that
  the other is sending. `OneInside`, `AnswerIsContent` and `SeekAnswerIsSuffix` are
  stated until a signal arrives; `CommandFromOneClient` holds all the same.
* The bytes of a client that shuts its side before the newline are written
  (`aesdsocket.c:284`) and become part of the next client's command.
  `CommandFromOneClient` is about clients that finish their line.
* The `malloc` of the list node is not checked (`aesdsocket.c:406`), and a
  connection whose thread cannot be created is never closed. `EveryoneServed`
  lists all that keeps a client from being served.
* A seek does not wait for the end of its numbers: the receive loop ends with the
  prefix (`aesdsocket.c:200`) and `sscanf` takes what has arrived
  (`aesdsocket.c:213`). Cut by TCP between the digits of Y, `0,12` is answered from
  byte 1. `SeekAnswerIsSuffix` excepts that cut and no other (`CutInNumber`): without
  the exception TLC finds it violated.
* `send` runs under the mutex (`aesdsocket.c:249` and `:304`; `aesdsocket_old.c:185`
  has no mutex, but one client at a time): a client that does not read its answer
  keeps everybody else waiting. Both `EveryoneServed` name it.
* `close(sockfd)` is called by the handler (`aesdsocket.c:79`) and again by a `main`
  that saw `stop` (`aesdsocket.c:441`), with threads running on between the two: a
  thread may by then have that number for its connection or file, and loses it.
  `NumbersOwned` excepts that one number after a signal (`Lost`): without the
  exception TLC finds it violated.
* With `-d` number 2 is a connection or the device by the time `perror` is
  called (`aesdsocket.c:415`), and the error goes there.
* The start script says "started successfully" (`aesdsocket-start-stop.sh:16`)
  once the first parent has exited, before the server listens.
* With `-d` the old server closes its socket (`aesdsocket_old.c:68`) and never
  serves; without `SO_REUSEADDR` it cannot be restarted while a connection
  lingers; and each client that breaks off costs it a descriptor
  (`aesdsocket_old.c:163`).
* The failing ioctl unlocks the server's mutex twice (`aesdsocket.c:236` and
  `:238`); another thread may have locked it in between. `OneInside` is therefore
  stated only as long as no seek has failed.
* After a failed `realloc` `buffer_size` is twice the buffer (`aesdsocket.c:190`),
  and the answer is read with it (`aesdsocket.c:303`). What is received before
  that does fit: `BufferHolds`.
* `threadfunc` of the thread example returns NULL after a failed lock or unlock
  (`threading.c:28`, `:40`), against `threading.h:38`; its joiner cannot free the
  `thread_data`.

## 5. Theorems

| Theorem | States |
|---|---|
| `RingTypes`, `RingCorrect` | the buffer: `[]TypeOK`, `[]RingInv` |
| `BufferImplementsLog` | the buffer: `ImplementsCommandLog` |
| `SearchCorrect`, `SizesCorrect` | the buffer: `[]FindIsConcatenation`, `[]SizesAgree` |
| `DriverTypes` | the driver: `[]TypeOK` |
| `MemorySafe`, `BlockSizes` | the driver: `[]HeapExact`, `[]BlocksFit` |
| `CopySafe`, `FoundSafe` | the driver: `[]CopyInBounds`, `[]FoundEntryHolds` |
| `DriverImplementsDevice` | the driver: `ImplementsCharDevice` |
| `ReadsRight`, `SeeksRight` | the driver: `ReadServesPosition`, `SeekFindsCommand` |
| `BufferSafe`, `NodesKept`, `MutualExclusion` | the server: `[]BufferHolds`, `[]NodeOutlivesThread`, `[]OneInside` |
| `WholeCommands` | the server, clients of `WholeScripts`: `[]CommandFromOneClient` |
| `WholeAnswers`, `SeekAnswers` | the server: `AnswerIsContent`, `SeekAnswerIsSuffix` |
| `SocketStays`, `OneListener`, `NumbersStay` | startup: `[]SocketKept`, `[]OneListens`, `[]NumbersOwned` |
| `OnlyCutOffLeaks` | the old server: `[]OnlyCutLeaks` |
| `OldLinesWhole` | the old server, clients of `OneLineEach`: `[]LinesWhole` |
| `DataSafe`, `SuccessTrue` | thread example: `[]DataOutlivesWriters`, `[]SuccessIsTrue` |
| `TrueIsDone`, `FilesClosed` | system call examples: `[]TrueMeansDone`, `[]DescriptorsClosed` |

Each is a consequence of `Spec`, so of the fair specifications too, and holds for
every value of the constants: any number of slots, addresses, processes, files,
clients, servers, threads and callers, any chunks, counts, seeks and scripts, any
choice of `Faults`, and without the bounds of the runs. The assumptions are those
the modules name:

| Assumption | Says |
|---|---|
| `MaxAssumption`, `CapacityAssumption` | at least one command is kept |
| `BufferAssumption` | `buffer_size` starts at 2 or more, so that doubling leaves room for the NUL (the code: 1024) |
| `OpenMaxAssumption` | a process may open what a server needs at once |
| `SlackAssumption`, `SizesAssumption`, `ByteAssumption`, `CountAssumption`, `SeekAssumption`, `ScriptsAssumption` | what user space or a client passes is of its C type |
| `FaultsAssumption`, `StartupAssumption` | names of the failures an instance allows |
| `NullAssumption`, `PtrAssumption`, `FreeAssumption`, `ThreadsAssumption`, `TokensAssumption`, `ThreadingAssumption`, `ClientAssumption`, `FileAssumption` | NULL, the mark of freed memory, `main`, the destroyed mutex, the tokens, clients, and a file that does not exist differ from what they stand beside |

Two theorems have a hypothesis more. `WholeCommands` is for clients that do not
shut their side before the newline (`aesdsocket.c:284` writes what there is) and
for a server whose `realloc` and `write` do not fail, because each of these cuts a
message and the property is then false of the code; `server_restarts` is such an
instance. `OldLinesWhole` is for clients that send one line each, as those of
`old_server` do: the old server writes what a piece has behind a newline together
with it and leaves the loop, so that these bytes begin a line nobody finishes.

*Buffer.* `TypeOK` alone is not inductive: that the slots in use are those
between the offsets depends on how `in_offs`, `out_offs` and `full` go together.
The inductive invariant is `TypeOK /\ RingInv`, where `RingInv` (`RingOK`) says
that until the ring is full reading starts at slot 0 and the slots below `in_offs`
are used, and that afterwards the offsets coincide and all slots are used.
Below that invariant add_entry either appends (`AddEntryAppends`) or rotates
(`AddEntryRotates`), and what it hands back is the oldest pointer
(`OverwrittenIsOldest`): a push onto the log.

*Running totals.* `RunningTotal` is a recursive function. Its equation needs
that the function exists, which the library proves by an induction rule that
cannot be instantiated here. `RunningTotalStep` argues by a least counterexample
instead (`LeastNat`, from the well-foundedness of `<`): at the first length
without a solution, the solution one shorter can be extended. From it follow that totals are
naturals (`TotalSizeType`), that the search only ever returns a used slot
(`SearchUsed`) and an offset inside that slot's entry (`FindInEntry`).

*Positions.* Where an induction is needed, it is over the set of the numbers for
which a fact holds: `UpTo` says that a set that contains the first number and
with each its successor contains them all, and needs no operator as parameter.
So `CountIsBefore` shows that `char_count` after k turns is the length of the
first k entries put together. `SearchFinds` concludes that the search stops
at the entry that has the byte of that position, `SearchEnds` that it finds none
past the end; entries of size zero are passed over as they are in the
concatenation. `total_size` sums in slot order, which is not the order of the
commands once the ring has wrapped: `SumIsRotated` compares the two sums.
`FlattenElement` and `FlattenSlice` say which element of which sequence a
position in a concatenation is; driver and server use them again.

*Driver.* `IInv == TypeOK /\ MemInv /\ CallInv`. `HeapExact` (the allocated
addresses are exactly those that `temp_buf` and the used slots name, each named
once) is preserved by `aesd_write` only because `RingOK` makes the overwritten
pointer the one whose slot is reused (`RingUp`), and because unloading finds
nobody inside a call (`Unloaded`, `InCall`). `CopyInBounds` and `Found` speak of
a process that has left the first step of its call and not yet copied; they
survive the steps of others because both are inside the mutex (`Exclusive`).
One lemma per action or outcome of a call; frame lemmas (`MemFrame`, `QuietStep`,
`WriteStep`, `TempStep`) carry the parts a step does not touch.

*Refinement.* The mapping sends the driver to `Commands` (the bytes of the used
slots' blocks, oldest first) and `Pending` (the bytes in `temp_buf`). Beside
`IInv` it needs `Carried`: a write under way still holds the chunk it was called
with. Making room for the copy is a stutter (`RoomIsStutter`), although it may
move `temp_buf`; `WriteCommit` is a push with or without dropping
(`CommitIsPush`); `-EFAULT` and `-ENOMEM` are the device's own failing writes
(`OutIsWrite`); unloading is its reset (`UnloadIsReset`).

*Reads and seeks.* `CommandBytes` carries the facts about positions from slots
and sizes to the bytes in memory, by `BlocksFit`; what `ReadCopy` copies is then
what the found entry has there (`ReadCopyServes`), and `ReadFind` returns 0 only
past the last byte (`EndOfFile`). A seek has two steps, and other calls run
between them, as `f_pos` is set after the mutex has been released. `SeekKept`
says that its argument is still the one it was called with; `CommandsGrow` that
a step which does not find the ring full, whoever makes it, leaves the commands
that are there where they are; so the computed position stays right
(`SeekComputes`, `SeekKeeps`).

*Server.* `ServerInv == TypeOK /\ SeekParsed /\ BufferInv /\ NodeInv /\ MutexInv`.
`BufferHolds` needs that while a thread receives, `buffer_size` is what is
allocated: a failed `realloc` breaks that, but the thread stops receiving in the
same step. `NodeOutlivesThread` needs that no thread outlives the process,
and that a node is removed only after the join. `OneInside` needs its stronger
form that the thread inside owns the mutex and that none is about to unlock it for
a second time, as long as no seek failed and no signal came (`Healthy`).
`WholeInv` adds that nothing waits in the device for a newline, that every command
has one owner, and that what a thread holds, with what its client has yet to send,
is that client's and ends its line. It does not rest on exclusion: a message is
one write. `AnswerInv` adds, as long as no signal came, that what a thread has
open is what `/dev/aesdchar` names, and that the answer so far is the content of
that file from where reading began (`Start`) to its position. For the device this
rests on exclusion: nobody writes between two reads (`AnswerOthers`). The seek's
`Start` is what `sscanf` found in the buffer, the property speaks of what the client
sent: `SeekToWhole` says that the two are the same unless the number is cut. On a regular
file, which a server that is started after a signal creates, every seek fails and
its second unlock may let two threads in; there it rests on the file growing only
at its end (`SliceOfGrown`). The invariant needs no hypothesis on `Faults`: a
process that ends takes its threads along, so the next one starts with it.

*Old server.* `LeakInv == TypeOK /\ ConnInv /\ CutInv /\ FileInv`. `OnlyCutLeaks`
speaks of one place in the loop; its invariant says for every place what the
descriptor table names: a connection is open exactly while `new_fd` names it
(`ConnInv`), and the numbers that name the file are one for each client this
process has cut off, plus one while the file is open for the client being served
(`FileInv`, with the cardinalities of finite sets). Counting needs that a client
is cut off at most once, because it is then neither queued nor, but for the
`close` that follows, open (`CutInv`). `LinesInv` adds that what a client has
yet to send is its own, with the newline at the end, and that the last line of the
file is unfinished only while its client is being received from or is one that
`LinesWhole` excuses.

*Startup.* `StartInv` says of each process (`ProcOK`) that no number but `sockfd`
names the socket, and that until a signal `sockfd` does, being 3 or more, which
`daemonize` does not close (`SocketOK`); that it set `SO_REUSEADDR` before it bound;
that whoever is about to close `sockfd` has seen or set `stop` (`StopOK`); and
`NumbersOwned`, written number by number (`Owned`). Each step is one on the table
that `Grows` or `Shrinks`: what is opened takes a free number, which belongs to
nobody (`LowestFree`, `GrowsOwned`), and what a thread closes is its own
(`CloseOwnKeeps`); only `close(sockfd)` closes what may be another's, and `Lost`
is that number. `OneListens` is preserved by `listen`, which fails while somebody
else listens, and not by `bind`; and a socket that nobody names or waits on is gone
(`Settled`), so closing never adds a listener.

*Examples.* The invariant of `Threading` ties the starter's place to the thread's
(`Created`, `JoinedEnded`), the memory to both (`Allocated`), the mutex to its
owner's place (`Owner`) and the flag to a thread that returns its `thread_data`, or
has returned it (`FlagReturned`).
That of `SystemCalls` says of each call which places of parent and child go
together (`Order`), when `outputfile` is open in each (`Opened`, `Redirected`), and
that status 0 comes from the command alone (`EndsWell`): all the child does before
`execv` ends with status 1.

## 6. Only model-checked

Liveness (`CallsReturn` twice, `EveryoneServed` twice, `SignalEnds`,
`StartServes`, `ThreadsEnd`): temporal reasoning under fairness is beyond the
provers used. Every other property of a passing run is a theorem.
The statements of the two runs that find a violation are no theorems.

## 7. Not modelled

* `server/queue.h`: a vendored copy of the BSD macros that no program includes
  (the server takes the system's `<sys/queue.h>`). The one list the server keeps
  is the sequence `list` of `AesdSocket` with its sweep.
* `finder-app/`: a program and scripts that write and search files and end, with
  no state between two runs and nothing concurrent.
* The timestamp thread of `aesdsocket.c`: `USE_AESD_CHAR_DEVICE` is defined
  unconditionally, so it is never compiled.
* Log messages and other wording, and with them that every thread logs the
  address found in `their_addr` (`aesdsocket.c:408`), which by then may be that
  of a later client.
* The locks inside the C library: `handle_signal` calls `syslog`, `remove` and
  `exit`, which are not async-signal-safe, and can wait for a lock of the thread
  it interrupted. `SignalEnds` is about the server's own steps.
* Two regular files in the place of the node at once. `regular` is the content of
  the one there is: a thread that still has a removed one open reads its
  successor. It takes a seek that failed on a regular file, a signal and a third
  thread that creates the next file before `exit`; what is answered between a
  signal and `exit` is no property's subject.
* Build, image and test scripts, and the modes, groups and messages of the
  start and load scripts.

## 8. Plan

1. Done: the circular buffer, its refinement and proofs; the driver, its runs,
   the proofs of its types, its memory safety and its refinement of
   `CharDevice`; the server on the abstract device with its signal handler step
   by step, failures and restarts, a refused seek's mutex across them included;
   startup and the old server; the two examples.
2. Done: inductive invariants and proofs for the server, startup and the two
   examples; positions, reads and seeks.
3. Done: the old server, descriptors and lines; answers for every choice of
   `Faults`, restarts and regular files included.
4. Left: nothing among the safety properties. A timestamp thread or a server on a
   regular file from the start would be a second build of `aesdsocket.c`, with
   `USE_AESD_CHAR_DEVICE` undefined, which the repository does not make.
