----------------------------- MODULE AesdSocket -----------------------------
(***************************************************************************)
(* server/aesdsocket.c, as built with USE_AESD_CHAR_DEVICE: the main loop  *)
(* that accepts connections and reaps threads, a thread per connection, the*)
(* signal handler, and restarts of the server.  The device is CharDevice,  *)
(* which the driver of AesdChar implements, together with the one thing of *)
(* the driver that outlives a call: a mutex left locked by a refused seek. *)
(*                                                                         *)
(* A connection's bytes are a sequence of tokens: the client itself stands *)
(* for a byte of its data, NEWLINE for '\n' and SEEKTO for the string      *)
(* "AESDCHAR_IOCSEEKTO:".  Of its argument "X,Y" the number X stands for   *)
(* "X,", and each digit of Y is a token of its own, whose value is that of *)
(* Y up to this digit: "0,12" is <<0, 1, 12>>.                             *)
(***************************************************************************)
EXTENDS Naturals, Sequences, FiniteSetsExt, SequencesExt

CONSTANTS Client,       \* connections, and the threads that serve them
          NULL,         \* no thread
          MAIN,         \* the thread that runs main
          DESTROYED,    \* what pthread_mutex_destroy makes of an unlocked mutex
          NEWLINE, SEEKTO, DATA,
          Scripts,      \* what a client may do: [tokens, closes, reads]
          Capacity,     \* commands the device keeps
          BUFFER_SIZE,  \* the first buffer_size: 1024 in the source
          Faults,       \* the failures of the environment that may happen
          MaxRestarts   \* bound: how often the server is started again

ASSUME CapacityAssumption == Capacity \in Nat \ {0}
ASSUME BufferAssumption == BUFFER_SIZE \in Nat /\ BUFFER_SIZE >= 2
ASSUME FaultsAssumption ==
  Faults \subseteq {"malloc", "realloc", "pthread_create", "open", "write", "reset", "signal"}

(* The model's own values are told apart, and a script is of the right form. *)
ASSUME ThreadsAssumption ==
  /\ Client \cap {NULL, MAIN, DESTROYED} = {}
  /\ NULL # DESTROYED /\ NULL # MAIN
ASSUME TokensAssumption ==
  /\ Client \cap {NEWLINE, SEEKTO} = {} /\ NEWLINE # SEEKTO /\ DATA \notin {NEWLINE, SEEKTO}
  /\ \A t \in Client \cup {NEWLINE, SEEKTO, DATA} : t \notin Nat
ASSUME ScriptsAssumption ==
  \A s \in Scripts : /\ s.tokens \in Seq({DATA, NEWLINE, SEEKTO} \cup Nat)
                     /\ s.closes \in BOOLEAN /\ s.reads \in BOOLEAN

VARIABLES running,   \* the server process exists
          restarts,  \* how often it has been started again
          mainpc,    \* where main is: accept, insert or sweep
          list,      \* the SLIST, head first
          todo,      \* what the sweep has still to visit: node and its successors
          handler,   \* the thread that runs handle_signal, or NULL
          hpc,       \* where handle_signal is
          conn,      \* each connection, as the client sees it
          stream,    \* bytes sent by the client and not received yet
          script,    \* what the client does: the tokens it sends, DATA for its own bytes,
                     \* whether it shuts its side after them, and whether it reads the answer
          sent,      \* bytes sent to the client
          pc,        \* where each thread is
          local,     \* the locals of threadfunc
          status,    \* thread_struct->status
          mutex,     \* aesdsocket_mutex: the thread that locked it, NULL or DESTROYED
          node,      \* what /dev/aesdchar names: chardev, regular, absent
          log, pending,  \* the device
          stuck,     \* the driver's mutex was left locked
          regular    \* the content of the last regular file at /dev/aesdchar

device  == <<node, log, pending, stuck, regular>>
clients == <<conn, stream, script, sent>>
mainvars == <<running, restarts, mainpc, list, todo>>
threads == <<pc, local, status, mutex>>
signals == <<handler, hpc>>
vars == <<mainvars, clients, threads, signals, device>>

Device == INSTANCE CharDevice WITH Byte <- Client \cup {NEWLINE}, Chunks <- {}

NoLocal == [buffer |-> <<>>, buffer_size |-> BUFFER_SIZE, allocated |-> BUFFER_SIZE,
            fd |-> "none", pos |-> 0]

Init == /\ running = TRUE
        /\ restarts = 0
        /\ mainpc = "accept"
        /\ list = <<>> /\ todo = <<>>
        /\ handler = NULL /\ hpc = "none"
        /\ conn = [c \in Client |-> "queued"]
        /\ script \in [Client -> Scripts]
        /\ stream = [c \in Client |->
             [i \in 1 .. Len(script[c].tokens) |->
                IF script[c].tokens[i] = DATA THEN c ELSE script[c].tokens[i]]]
        /\ sent = [c \in Client |-> <<>>]
        /\ pc = [c \in Client |-> "none"]
        /\ local = [c \in Client |-> NoLocal]
        /\ status = [c \in Client |-> FALSE]
        /\ mutex = NULL
        /\ node = "chardev"
        /\ log = <<>> /\ pending = <<>>
        /\ stuck = FALSE
        /\ regular = <<>>
-----------------------------------------------------------------------------
(* The flag stop, which main reads at the head of its loop. *)
stop == hpc # "none"

(* main: accept, malloc and pthread_create. *)
Accept(c) ==
  /\ mainpc = "accept"
  /\ conn[c] = "queued"
  /\ conn' = [conn EXCEPT ![c] = "open"]
  /\ pc' = [pc EXCEPT ![c] = "threadfunc"]
  /\ mainpc' = "insert"
  /\ todo' = <<c>>
  /\ UNCHANGED <<running, restarts, list, stream, script, sent, local, status, mutex, device>>

(* pthread_create fails: the struct is freed, the connection stays open,   *)
(* and main goes to the head of its loop.                                  *)
CreateFails(c) ==
  /\ "pthread_create" \in Faults
  /\ mainpc = "accept"
  /\ conn[c] = "queued"
  /\ conn' = [conn EXCEPT ![c] = "open"]
  /\ mainpc' = "sweep"
  /\ UNCHANGED <<running, restarts, list, todo, stream, script, sent, threads, device>>

(* accept fails on the socket the handler has closed.  It does so only     *)
(* when it is called after that: a main already waiting in accept stays.   *)
AcceptFails ==
  /\ mainpc = "accept" /\ handler # MAIN
  /\ stop
  /\ mainpc' = "sweep"
  /\ UNCHANGED <<running, restarts, list, todo, clients, threads, signals, device>>

(* SLIST_INSERT_HEAD; the sweep starts at the new head. *)
Insert ==
  /\ mainpc = "insert"
  /\ list' = todo \o list
  /\ todo' = list'
  /\ mainpc' = "sweep"
  /\ UNCHANGED <<running, restarts, clients, threads, device>>

(* The node of thread c is unlinked. *)
SLIST_REMOVE(c) == \E i \in 1 .. Len(list) : list[i] = c /\ list' = RemoveAt(list, i)

(* MUTANT: a finished node is freed without waiting for its thread. *)
SweepWithoutJoin ==
  /\ mainpc = "sweep"
  /\ todo # <<>>
  /\ todo' = Tail(todo)
  /\ IF status[Head(todo)] THEN SLIST_REMOVE(Head(todo)) ELSE list' = list
  /\ UNCHANGED <<running, restarts, mainpc, clients, threads, device>>

(* One turn of the sweep: a node whose status is set is joined, which      *)
(* waits for the end of its thread, removed and freed.                     *)
Sweep ==
  /\ mainpc = "sweep"
  /\ todo # <<>>
  /\ \/ /\ ~status[Head(todo)]
        /\ list' = list
     \/ /\ status[Head(todo)]
        /\ pc[Head(todo)] = "ended"
        /\ SLIST_REMOVE(Head(todo))
  /\ todo' = Tail(todo)
  /\ UNCHANGED <<running, restarts, mainpc, clients, threads, device>>

(* The head of the loop. *)
SweepEnds ==
  /\ mainpc = "sweep"
  /\ todo = <<>> /\ ~stop
  /\ mainpc' = "accept"
  /\ UNCHANGED <<running, restarts, list, todo, clients, threads, device>>
-----------------------------------------------------------------------------
(* threadfunc. *)
Go(c, where) == pc' = [pc EXCEPT ![c] = where]

(* threadfunc returns, its buffer freed. *)
Ends(c) == /\ pc' = [pc EXCEPT ![c] = "ended"]
           /\ local' = [local EXCEPT ![c] = NoLocal]

(* close(new_fd) *)
CloseConn(c) == conn' = [conn EXCEPT ![c] = "closed"]

(* Without memory for the buffer the thread ends, status is never set. *)
MallocFails(c) ==
  /\ "malloc" \in Faults
  /\ pc[c] = "threadfunc"
  /\ CloseConn(c)
  /\ Ends(c)
  /\ UNCHANGED <<mainvars, stream, script, sent, status, mutex, device>>

(* pthread_mutex_lock and pthread_mutex_unlock, their results not looked   *)
(* at: on a destroyed mutex both return EINVAL at once.                    *)
Acquire(c) == /\ mutex \in {NULL, DESTROYED}
              /\ mutex' = IF mutex = NULL THEN c ELSE mutex

Release == mutex' = IF mutex = DESTROYED THEN mutex ELSE NULL

(* malloc, and the mutex is taken before the first byte is received. *)
Lock(c) ==
  /\ pc[c] = "threadfunc"
  /\ Acquire(c)
  /\ Go(c, "recv")
  /\ UNCHANGED <<mainvars, clients, local, status, device>>

(* The buffer begins with "AESDCHAR_IOCSEEKTO:". *)
IsSeek(buffer) == buffer # <<>> /\ buffer[1] = SEEKTO

(* MUTANT: every recv ends the message. *)
AnyPart(buffer) == buffer # <<>>

(* What ends the receive loop: a newline, or the prefix of a seek. *)
MessageEnds(buffer) == IsSeek(buffer) \/ \E i \in 1 .. Len(buffer) : buffer[i] = NEWLINE

(* MUTANT: recv is told of the whole buffer each time. *)
RoomOfBuffer(l) == l.buffer_size - 1

(* The length recv is called with: the last byte is kept for the NUL. *)
Room(l) == l.buffer_size - Len(l.buffer) - 1

(* recv returns the next n bytes; a full buffer is doubled.  When realloc  *)
(* fails the loop is left with buffer_size doubled and the buffer not.     *)
Recv(c) ==
  LET l == local[c]
  IN  /\ pc[c] = "recv"
      /\ \E n \in 1 .. Len(stream[c]) :
           LET buffer == l.buffer \o SubSeq(stream[c], 1, n)
               full == Len(buffer) >= l.buffer_size - 1
               size == IF full THEN 2 * l.buffer_size ELSE l.buffer_size
           IN  /\ n <= Room(l)
               /\ stream' = [stream EXCEPT ![c] = SubSeq(@, n + 1, Len(@))]
               /\ \/ /\ local' = [local EXCEPT ![c].buffer = buffer, ![c].buffer_size = size,
                                               ![c].allocated = size]
                     /\ Go(c, IF MessageEnds(buffer) THEN "received" ELSE "recv")
                  \/ /\ full /\ "realloc" \in Faults
                     /\ local' = [local EXCEPT ![c].buffer = buffer, ![c].buffer_size = size]
                     /\ Go(c, "received")
      /\ UNCHANGED <<mainvars, conn, script, sent, status, mutex, device>>

(* recv returns 0: the client has shut its side. *)
RecvEnds(c) ==
  /\ pc[c] = "recv"
  /\ stream[c] = <<>> /\ script[c].closes
  /\ Go(c, "received")
  /\ UNCHANGED <<mainvars, clients, local, status, mutex, device>>

(* Nothing was received: the thread ends, and the mutex stays locked. *)
NothingReceived(c) ==
  /\ pc[c] = "received"
  /\ local[c].buffer = <<>>
  /\ CloseConn(c)
  /\ status' = [status EXCEPT ![c] = TRUE]
  /\ Ends(c)
  /\ UNCHANGED <<mainvars, stream, script, sent, mutex, device>>
-----------------------------------------------------------------------------
(* The seek branch.  The receive loop ended with the prefix: sscanf sees   *)
(* what of the argument has arrived together with it.                      *)
IsDigit(t) == t \notin Client \cup {NEWLINE, SEEKTO}

(* Two numbers are found when the comma and one digit behind it are there. *)
Parsed(buffer) == Len(buffer) >= 3 /\ IsDigit(buffer[2]) /\ IsDigit(buffer[3])

(* The place behind the last digit of Y. *)
NumberEnd(buffer) ==
  Min({i \in 3 .. Len(buffer) + 1 : i <= Len(buffer) => ~IsDigit(buffer[i])})

(* seekto: X, and Y as far as its digits go. *)
SeekTo(buffer) == <<buffer[2], buffer[NumberEnd(buffer) - 1]>>

(* MUTANT: the mutex is unlocked here and again at the end. *)
SeekIgnoredUnlocks(c) ==
  /\ pc[c] = "received"
  /\ IsSeek(local[c].buffer) /\ ~Parsed(local[c].buffer)
  /\ Release
  /\ Go(c, "seek_done")
  /\ UNCHANGED <<mainvars, clients, local, status, device>>

(* A malformed request, or no device to open: the connection is closed.    *)
SeekIgnored(c) ==
  /\ pc[c] = "received"
  /\ IsSeek(local[c].buffer)
  /\ ~Parsed(local[c].buffer) \/ node = "absent" \/ "open" \in Faults
  /\ Go(c, "seek_done")
  /\ UNCHANGED <<mainvars, clients, local, status, mutex, device>>

SeekOpen(c) ==
  /\ pc[c] = "received"
  /\ IsSeek(local[c].buffer) /\ Parsed(local[c].buffer)
  /\ node # "absent"
  /\ local' = [local EXCEPT ![c].fd = node]
  /\ Go(c, "ioctl")
  /\ UNCHANGED <<mainvars, clients, status, mutex, device>>

(* The command and the byte in it exist, as the driver checks. *)
InRange(arg) == arg[1] < Len(log) /\ arg[2] < Len(log[arg[1] + 1])

(* MUTANT: the offset in the command is lost. *)
SeekPosNoOffset(arg) == Len(Device!Content(SubSeq(log, 1, arg[1])))

(* The position of byte Y of command X. *)
SeekPos(arg) == Len(Device!Content(SubSeq(log, 1, arg[1]))) + arg[2]

(* ioctl succeeds: the file stands at byte Y of command X. *)
Ioctl(c) ==
  LET arg == SeekTo(local[c].buffer)
  IN  /\ pc[c] = "ioctl"
      /\ local[c].fd = "chardev" /\ ~stuck
      /\ InRange(arg)
      /\ local' = [local EXCEPT ![c].pos = SeekPos(arg)]
      /\ Go(c, "seek_read")
      /\ UNCHANGED <<mainvars, clients, status, mutex, device>>

(* ioctl fails: the driver refuses the seek and keeps its mutex locked, or *)
(* a regular file knows no such request.  The server's mutex is unlocked a *)
(* first time; the connection stays open.                                  *)
IoctlFails(c) ==
  /\ pc[c] = "ioctl"
  /\ \/ local[c].fd = "chardev" /\ ~stuck /\ ~InRange(SeekTo(local[c].buffer)) /\ stuck' = TRUE
     \/ local[c].fd = "regular" /\ stuck' = stuck
  /\ Release
  /\ Go(c, "second_unlock")
  /\ UNCHANGED <<mainvars, clients, local, status, node, log, pending, regular>>

(* The second pthread_mutex_unlock, whoever holds the mutex by now. *)
SecondUnlock(c) ==
  /\ pc[c] = "second_unlock"
  /\ Release
  /\ status' = [status EXCEPT ![c] = TRUE]
  /\ Ends(c)
  /\ UNCHANGED <<mainvars, clients, device>>

(* close(new_fd) and status, and only then the mutex. *)
SeekDone(c) ==
  /\ pc[c] = "seek_done"
  /\ CloseConn(c)
  /\ status' = [status EXCEPT ![c] = TRUE]
  /\ Go(c, "seek_unlock")
  /\ UNCHANGED <<mainvars, stream, script, sent, local, mutex, device>>

SeekUnlock(c) ==
  /\ pc[c] = "seek_unlock"
  /\ Release
  /\ Ends(c)
  /\ UNCHANGED <<mainvars, clients, status, device>>
-----------------------------------------------------------------------------
(* The write branch: open creates an empty file where there is no node.    *)
WriteOpen(c) ==
  /\ pc[c] = "received"
  /\ local[c].buffer # <<>> /\ ~IsSeek(local[c].buffer)
  /\ \/ node # "absent" /\ UNCHANGED <<node, regular>>
     \/ node = "absent" /\ node' = "regular" /\ regular' = <<>>
  /\ local' = [local EXCEPT ![c].fd = node']
  /\ Go(c, "write")
  /\ UNCHANGED <<mainvars, clients, status, mutex, log, pending, stuck>>

(* MUTANT: the mutex stays locked when open fails. *)
WriteOpenFailsLocked(c) ==
  /\ "open" \in Faults
  /\ pc[c] = "received"
  /\ local[c].buffer # <<>> /\ ~IsSeek(local[c].buffer)
  /\ CloseConn(c)
  /\ Ends(c)
  /\ UNCHANGED <<mainvars, stream, script, sent, status, mutex, device>>

(* open fails: the thread ends and status is never set. *)
WriteOpenFails(c) ==
  /\ "open" \in Faults
  /\ pc[c] = "received"
  /\ local[c].buffer # <<>> /\ ~IsSeek(local[c].buffer)
  /\ CloseConn(c)
  /\ Release
  /\ Ends(c)
  /\ UNCHANGED <<mainvars, stream, script, sent, status, device>>

(* write of the whole message, close and unlock. *)
Write(c) ==
  /\ pc[c] = "write"
  /\ \/ /\ local[c].fd = "chardev" /\ ~stuck
        /\ Device!Write(local[c].buffer)
        /\ UNCHANGED regular
     \/ /\ local[c].fd = "regular"
        /\ regular' = regular \o local[c].buffer
        /\ UNCHANGED <<log, pending>>
  /\ Release
  /\ Go(c, "relock")
  /\ UNCHANGED <<mainvars, clients, local, status, node, stuck>>

(* write fails, in one of the driver's ways, or before it has any effect;  *)
(* the server logs it and goes on.                                         *)
WriteFails(c) ==
  /\ "write" \in Faults
  /\ pc[c] = "write"
  /\ local[c].fd = "chardev" => ~stuck
  /\ \/ local[c].fd = "chardev" /\ Device!WriteNoMemory(local[c].buffer)
     \/ local[c].fd = "chardev" /\ Device!WriteFault
     \/ UNCHANGED <<log, pending>>
  /\ Release
  /\ Go(c, "relock")
  /\ UNCHANGED <<mainvars, clients, local, status, node, stuck, regular>>

(* MUTANT: the answer is read without the mutex. *)
RelockNot(c) ==
  /\ pc[c] = "relock"
  /\ node # "absent"
  /\ local' = [local EXCEPT ![c].fd = node, ![c].pos = 0]
  /\ Go(c, "read")
  /\ UNCHANGED <<mainvars, clients, status, mutex, device>>

(* MUTANT: the file stays open for the answer, which is read from behind   *)
(* the bytes that were written.                                            *)
RelockKeepsFile(c) ==
  /\ pc[c] = "relock"
  /\ Acquire(c)
  /\ local' = [local EXCEPT ![c].pos = Len(local[c].buffer)]
  /\ Go(c, "read")
  /\ UNCHANGED <<mainvars, clients, status, device>>

(* The mutex again, and open for reading. *)
Relock(c) ==
  /\ pc[c] = "relock"
  /\ node # "absent"
  /\ Acquire(c)
  /\ local' = [local EXCEPT ![c].fd = node, ![c].pos = 0]
  /\ Go(c, "read")
  /\ UNCHANGED <<mainvars, clients, status, device>>

(* open fails: unlocked again, no answer. *)
RelockFails(c) ==
  /\ pc[c] = "relock"
  /\ node = "absent" \/ "open" \in Faults
  /\ mutex \in {NULL, DESTROYED}
  /\ Go(c, "answered")
  /\ UNCHANGED <<mainvars, clients, local, status, mutex, device>>
-----------------------------------------------------------------------------
(* What read returns at a position: from the device, bytes of one command; *)
(* from a regular file, any.                                               *)
CommandAt(pos) ==
  CHOOSE k \in 1 .. Len(log) :
    /\ Len(Device!Content(SubSeq(log, 1, k - 1))) <= pos
    /\ pos < Len(Device!Content(SubSeq(log, 1, k)))

(* The end of what one read can return. *)
ReadLimit(l) ==
  IF l.fd = "regular" THEN Len(regular)
  ELSE IF l.pos >= Len(Device!Content(log)) THEN l.pos
  ELSE Len(Device!Content(SubSeq(log, 1, CommandAt(l.pos))))

ReadBytes(l) ==
  LET all == IF l.fd = "regular" THEN regular ELSE Device!Content(log)
      last == IF l.pos + l.buffer_size < ReadLimit(l) THEN l.pos + l.buffer_size ELSE ReadLimit(l)
  IN  SubSeq(all, l.pos + 1, last)

(* A thread has read bytes and sends them, with the mutex locked. *)
Sending(c) == /\ pc[c] \in {"read", "seek_read"}
              /\ local[c].fd = "chardev" => ~stuck
              /\ ReadBytes(local[c]) # <<>>

(* send waits while the client does not read and the socket is full. *)
SendWaits(c) == Sending(c) /\ ~script[c].reads

(* One turn of a read and send loop, in either branch; the step is taken   *)
(* when send returns, which Fairness does not promise while SendWaits.     *)
ReadSend(c) ==
  LET bytes == ReadBytes(local[c])
  IN  /\ Sending(c)
      /\ sent' = [sent EXCEPT ![c] = @ \o bytes]
      /\ local' = [local EXCEPT ![c].pos = @ + Len(bytes)]
      /\ UNCHANGED <<mainvars, conn, stream, script, pc, status, mutex, device>>

SeekReadEnds(c) ==
  /\ pc[c] = "seek_read"
  /\ local[c].fd = "chardev" => ~stuck
  /\ ReadBytes(local[c]) = <<>>
  /\ Go(c, "seek_done")
  /\ UNCHANGED <<mainvars, clients, local, status, mutex, device>>

ReadEnds(c) ==
  /\ pc[c] = "read"
  /\ local[c].fd = "chardev" => ~stuck
  /\ ReadBytes(local[c]) = <<>>
  /\ Release
  /\ Go(c, "answered")
  /\ UNCHANGED <<mainvars, clients, local, status, device>>

(* close(new_fd), free(buffer), status. *)
Answered(c) ==
  /\ pc[c] = "answered"
  /\ CloseConn(c)
  /\ status' = [status EXCEPT ![c] = TRUE]
  /\ Ends(c)
  /\ UNCHANGED <<mainvars, stream, script, sent, mutex, device>>
-----------------------------------------------------------------------------
(* The end of the process.  Its sockets are closed with it; a thread that  *)
(* waits for the driver's mutex cannot be killed, and while it waits the   *)
(* process keeps its port.                                                 *)
Waits(c) == /\ pc[c] \in {"ioctl", "write", "read", "seek_read"}
            /\ stuck /\ local[c].fd = "chardev"

Exit(accepted) ==
  /\ running' = FALSE
  /\ mainpc' = IF \E c \in Client : Waits(c) THEN "hung" ELSE "down"
  /\ list' = <<>> /\ todo' = <<>>
  /\ handler' = NULL /\ hpc' = "none"
  /\ conn' = [c \in Client |->
                IF conn[c] = "open" \/ c \in accepted THEN "closed" ELSE conn[c]]
  /\ pc' = [c \in Client |-> IF pc[c] = "none" THEN "none" ELSE "ended"]
  /\ local' = [c \in Client |-> NoLocal]
  /\ mutex' = NULL
  /\ UNCHANGED <<restarts, stream, script, sent, status, log, pending, stuck>>

(* remove(FILE_PATH), whatever it names; who has it open still uses it. *)
Unlink == node' = "absent" /\ UNCHANGED regular

(* SIGINT or SIGTERM interrupts any thread, which does nothing else from   *)
(* then on, while the others go on: stop is set, the file removed and the  *)
(* socket closed.                                                          *)
handle_signal(who) ==
  /\ "signal" \in Faults
  /\ running /\ hpc = "none"
  /\ who # MAIN => pc[who] \notin {"none", "ended"} /\ ~Waits(who)
  /\ handler' = who
  /\ hpc' = "destroy"
  /\ Unlink
  /\ UNCHANGED <<mainvars, clients, threads, log, pending, stuck>>

(* pthread_mutex_destroy: nothing but EBUSY when the mutex is locked. *)
DestroyMutex ==
  /\ hpc = "destroy"
  /\ mutex' = IF mutex = NULL THEN DESTROYED ELSE mutex
  /\ hpc' = "exit"
  /\ UNCHANGED <<handler, mainvars, clients, pc, local, status, device>>

(* MUTANT: the handler returns to what it interrupted. *)
HandlerReturns ==
  /\ hpc = "exit"
  /\ hpc' = "returned"
  /\ handler' = NULL
  /\ UNCHANGED <<mainvars, clients, threads, device>>

(* exit(0) *)
HandlerExits ==
  /\ hpc = "exit"
  /\ UNCHANGED <<node, regular>>
  /\ Exit({})

(* main sees stop: the file is removed once more, and main returns. *)
MainReturns ==
  /\ mainpc = "sweep"
  /\ todo = <<>> /\ stop
  /\ Unlink
  /\ Exit({})

(* No memory for the list node: NULL is written through. *)
NodeMallocFails(c) ==
  /\ "malloc" \in Faults
  /\ mainpc = "accept"
  /\ conn[c] = "queued"
  /\ UNCHANGED <<node, regular>>
  /\ Exit({c})

(* send to a client that has reset its connection: SIGPIPE, not handled.   *)
SendFails(c) ==
  /\ "reset" \in Faults
  /\ Sending(c)
  /\ UNCHANGED <<node, regular>>
  /\ Exit({})

(* The start script starts the server again. *)
Restart ==
  /\ mainpc = "down"
  /\ restarts < MaxRestarts
  /\ restarts' = restarts + 1
  /\ running' = TRUE
  /\ mainpc' = "accept"
  /\ UNCHANGED <<list, todo, clients, threads, signals, device>>

(* aesdchar_unload and aesdchar_load between two runs of the server. *)
ReloadDriver ==
  /\ mainpc = "down"
  /\ node' = "chardev"
  /\ Device!Reset
  /\ stuck' = FALSE
  /\ regular' = <<>>
  /\ UNCHANGED <<mainvars, clients, threads, signals>>
-----------------------------------------------------------------------------
(* What goes on in each thread as long as the handler has not taken it.    *)
MainStep ==
  /\ handler # MAIN
  /\ \/ /\ \/ \E c \in Client : Accept(c) \/ CreateFails(c)
           \/ Insert \/ Sweep \/ SweepEnds
        /\ UNCHANGED signals
     \/ MainReturns
     \/ \E c \in Client : NodeMallocFails(c)

ThreadStep(c) ==
  /\ handler # c
  /\ \/ /\ \/ MallocFails(c) \/ Lock(c)
           \/ Recv(c) \/ RecvEnds(c) \/ NothingReceived(c)
           \/ SeekIgnored(c) \/ SeekOpen(c) \/ Ioctl(c) \/ IoctlFails(c) \/ SecondUnlock(c)
           \/ SeekReadEnds(c) \/ SeekDone(c) \/ SeekUnlock(c)
           \/ WriteOpen(c) \/ WriteOpenFails(c) \/ Write(c) \/ WriteFails(c)
           \/ Relock(c) \/ RelockFails(c) \/ ReadSend(c) \/ ReadEnds(c) \/ Answered(c)
        /\ UNCHANGED signals
     \/ SendFails(c)

HandlerStep == DestroyMutex \/ HandlerExits

Next == \/ MainStep \/ AcceptFails
        \/ \E c \in Client : ThreadStep(c)
        \/ \E who \in Client \cup {MAIN} : handle_signal(who)
        \/ HandlerStep \/ Restart \/ ReloadDriver

Spec == Init /\ [][Next]_vars

(* Main, every thread and the handler keep running, and what a client has  *)
(* sent arrives.  Weak fairness is enough: a thread locks the mutex at     *)
(* most twice.  Nothing says that a waiting accept ever fails, nor that a  *)
(* send to a client that does not read ever returns.                       *)
Fairness == /\ WF_vars(MainStep) /\ WF_vars(HandlerStep)
            /\ \A c \in Client : WF_vars(~SendWaits(c) /\ ThreadStep(c))

FairSpec == Spec /\ Fairness
-----------------------------------------------------------------------------
(* Where a thread believes that it holds the mutex. *)
Inside == {"recv", "received", "ioctl", "seek_read", "seek_done", "seek_unlock", "write", "read"}

(* At most one thread is between lock and unlock, as long as no seek has   *)
(* failed, so that the second unlock of a failing ioctl has not taken the  *)
(* mutex from anybody, and until a signal: the handler destroys the mutex  *)
(* under threads that go on.                                               *)
OneInside ==
  ~stuck /\ node # "regular" /\ ~stop =>
    \A c, d \in Client : pc[c] \in Inside /\ pc[d] \in Inside => c = d

(* What was received and the NUL behind it fit in the memory of buffer,    *)
(* whether the last realloc succeeded or not.                              *)
BufferHolds == \A c \in Client : Len(local[c].buffer) < local[c].allocated

(* A list node, which its thread still uses, is not freed before the       *)
(* thread has ended: the node of every live thread is in the list, or      *)
(* about to be inserted.                                                   *)
NodeOutlivesThread ==
  \A c \in Client : pc[c] \notin {"none", "ended"} =>
     c \in Range(list) \/ (mainpc = "insert" /\ todo = <<c>>)

(* The whole message of a client reaches the device in one piece, whatever *)
(* way TCP cuts it, whoever else sends, and wherever the server is killed: *)
(* no command mixes the bytes of two clients.  It is about clients that do *)
(* not shut their side before the newline: the bytes of such a client are  *)
(* written and wait in the device for somebody else's newline.             *)
CommandFromOneClient ==
  \A k \in 1 .. Len(log) : \A c, d \in Range(log[k]) \cap Client : c = d

(* The answer to a message is the whole content of the file, as it is when *)
(* the last read has been made, although it takes several reads and other  *)
(* clients write: "Send back the full file content".  It is so until a     *)
(* signal, after which the mutex may be destroyed under threads that go on.*)
AnswerIsContent ==
  [][\A c \in Client : ReadEnds(c) /\ ~stop =>
       sent[c] = IF local[c].fd = "regular" THEN regular ELSE Device!Content(log)]_vars

(* TCP has cut the request of c inside the digits of Y, and the rest of    *)
(* them comes too late for sscanf.                                         *)
CutInNumber(c) == stream[c] # <<>> /\ IsDigit(Head(stream[c]))

(* The answer to a seek is the content from byte Y of command X on, X and  *)
(* Y as the client has sent them, again until a signal.  What the client   *)
(* has sent is what was received and what was not, so a request answered   *)
(* from a part of it counts, but for one cut inside the digits of Y: the   *)
(* code takes "0,1" of "0,12" for the whole.                               *)
SeekAnswerIsSuffix ==
  [][\A c \in Client : SeekReadEnds(c) /\ ~stop /\ ~CutInNumber(c) =>
       LET arg == SeekTo(local[c].buffer \o stream[c])
       IN  /\ arg[1] < Len(log)
           /\ sent[c] = SubSeq(log[arg[1] + 1], arg[2] + 1, Len(log[arg[1] + 1]))
                          \o Device!Content(SubSeq(log, arg[1] + 2, Len(log)))]_vars

(* What keeps every later client waiting for good: the driver's mutex left *)
(* locked by a refused seek, the server's left locked by the thread of a   *)
(* client that sent nothing at all, or a client that stops in the middle   *)
(* of its message.                                                         *)
Wedged == \/ stuck
          \/ \E d \in Client : mutex = d /\ pc[d] = "ended" /\ script[d].tokens = <<>>
          \/ \E d \in Client : pc[d] = "recv" /\ stream[d] = <<>> /\ ~script[d].closes

(* Every client that connects is served and its connection closed, unless  *)
(* the process ends, the server is wedged, its thread could not be created *)
(* or its seek failed, or a send to a client that does not read never      *)
(* returns: no failure of malloc, open, write or realloc, no signal that   *)
(* misses, and no client that was slow to read, leaves a client without an *)
(* end.                                                                    *)
EveryoneServed ==
  \/ <>[](\E d \in Client : SendWaits(d))
  \/ \A c \in Client :
       conn[c] = "queued" ~> \/ conn[c] = "closed" \/ ~running \/ Wedged
                             \/ conn[c] = "open" /\ pc[c] \in {"none", "ended"}

(* A signal ends the server whichever thread it interrupts and whatever    *)
(* that thread holds, so that it can be started again; only a thread that  *)
(* waits for the driver's mutex keeps the process.                         *)
SignalEnds == stop ~> mainpc = "down" \/ stuck

(* A client that sends a line gets an answer: "Send back the full file     *)
(* content".                                                               *)
LineAnswered ==
  \A c \in Client : conn[c] = "queued" /\ NEWLINE \in Range(stream[c]) ~> sent[c] # <<>>
=============================================================================
