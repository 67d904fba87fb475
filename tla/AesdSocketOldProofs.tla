------------------------ MODULE AesdSocketOldProofs ------------------------
(***************************************************************************)
(* What TLAPS proves about the old server, for any clients, scripts and    *)
(* failures, and any number of descriptors and starts.                     *)
(***************************************************************************)
EXTENDS AesdSocketOld, FlattenLemmas

Places == {"bind", "daemonize", "listen", "accept", "open", "recv", "reopen", "read",
           "close", "down"}

(* The places in main where a client is served. *)
Serving == {"open", "recv", "reopen", "read", "close"}

Byte == Client \cup {NEWLINE}
Table == [Fd -> Object \cup Client \cup {NULL}]

Process == [pc : Places, start : Nat \ {0}, daemonize_flag : BOOLEAN, fds : Table,
            sockfd : Nat, new_fd : Nat \cup {NULL}, file_fd : Nat \cup {NULL}]

TypeOK ==
  /\ main \in Process
  /\ conn \in [Client -> {"queued", "open", "closed", "failed", "refused"}]
  /\ stream \in [Client -> Seq(Byte)]
  /\ cut \subseteq Client \X Nat /\ IsFiniteSet(cut)

(* A connection is open exactly while new_fd names it, and no other number *)
(* ever names one.                                                         *)
ConnInv ==
  /\ main.pc \in Serving => main.new_fd \in Fd /\ main.fds[main.new_fd] \in Client \cup {NULL}
  /\ main.pc \in {"open", "reopen", "read"} => main.fds[main.new_fd] \in Client
  /\ \A n \in Fd : main.fds[n] \in Client => main.pc \in Serving /\ n = main.new_fd
  /\ \A c \in Client : conn[c] = "open" => main.pc \in Serving /\ main.fds[main.new_fd] = c
  /\ \A n \in Fd : main.fds[n] \in Client => conn[main.fds[n]] = "open"

(* Who was cut off has been served in an earlier or in this process, and   *)
(* is not being served any more.                                           *)
CutInv ==
  \A c \in Client, n \in Nat : <<c, n>> \in cut =>
     n <= main.start /\ conn[c] # "queued" /\ (conn[c] = "open" => main.pc = "close")

Files(fds) == {n \in Fd : fds[n] = "file"}

(* The file is open for the client being served. *)
Writing == \/ main.pc \in {"reopen", "read"}
           \/ main.pc = "recv" /\ main.fds[main.new_fd] \in Client

FileInv ==
  /\ main.pc = "bind" => main.fds = Standard
  /\ main.pc = "daemonize" => Files(main.fds) = {}
  /\ Writing => main.file_fd \in Files(main.fds)
  /\ main.pc # "down" =>
       Cardinality(Files(main.fds)) = IF Writing THEN CutOff + 1 ELSE CutOff

LeakInv == TypeOK /\ ConnInv /\ CutInv /\ FileInv
-----------------------------------------------------------------------------
(* The descriptor table. *)

(* The lowest free number is a free one. *)
LEMMA LowestFree ==
  ASSUME NEW fds, FreeFds(fds) # {}
  PROVE  Lowest(fds) \in Fd /\ fds[Lowest(fds)] = NULL
<1>1. FreeFds(fds) \subseteq Nat
  BY OpenMaxAssumption DEF FreeFds, Fd
<1>2. Min(FreeFds(fds)) \in FreeFds(fds) /\ \A m \in FreeFds(fds) : Min(FreeFds(fds)) <= m
  BY <1>1, LeastNat
<1>3. \E n \in FreeFds(fds) : \A m \in FreeFds(fds) : n <= m
  BY <1>2
<1>4. Lowest(fds) \in FreeFds(fds)
  BY <1>3 DEF Lowest
<1> QED
  BY <1>4 DEF FreeFds

(* There are finitely many descriptors, so the files among them count. *)
LEMMA FilesFinite ==
  ASSUME NEW fds
  PROVE  IsFiniteSet(Files(fds)) /\ Cardinality(Files(fds)) \in Nat
<1>1. IsFiniteSet(Fd)
  BY OpenMaxAssumption, FS_Interval DEF Fd
<1>2. Files(fds) \in SUBSET Fd
  BY DEF Files
<1>3. IsFiniteSet(Files(fds))
  BY <1>1, <1>2, FS_Subset
<1> QED
  BY <1>3, FS_CardinalityType

(* open, socket and accept: one number that was free names the object. *)
LEMMA OpenedTable ==
  ASSUME NEW fds \in Table, FreeFds(fds) # {}, NEW object \in Object \cup Client
  PROVE  /\ Opened(fds, object) \in Table
         /\ Lowest(fds) \in Fd /\ fds[Lowest(fds)] = NULL
         /\ Opened(fds, object)[Lowest(fds)] = object
         /\ \A n \in Fd \ {Lowest(fds)} : Opened(fds, object)[n] = fds[n]
         /\ Cardinality(Files(Opened(fds, object))) =
              IF object = "file" THEN Cardinality(Files(fds)) + 1 ELSE Cardinality(Files(fds))
<1> DEFINE low == Lowest(fds)
<1>1. low \in Fd /\ fds[low] = NULL
  BY LowestFree
<1>2. low \notin Files(fds)
  BY <1>1, NullAssumption DEF Files, Object
<1>3. Opened(fds, object) = [fds EXCEPT ![low] = object]
  BY DEF Opened
<1> HIDE DEF low
<1>4. /\ Opened(fds, object) \in Table
      /\ Opened(fds, object)[low] = object
      /\ \A n \in Fd \ {low} : Opened(fds, object)[n] = fds[n]
  BY <1>1, <1>3 DEF Table
<1>5. Files(Opened(fds, object)) = IF object = "file" THEN Files(fds) \cup {low} ELSE Files(fds)
  BY <1>1, <1>2, <1>4 DEF Files
<1>6. Cardinality(Files(fds) \cup {low}) = Cardinality(Files(fds)) + 1
  BY <1>2, FilesFinite, FS_AddElement
<1> QED
  BY <1>1, <1>4, <1>5, <1>6 DEF low

(* The log takes a free number, or none. *)
LEMMA LoggedTable ==
  ASSUME NEW fds \in Table
  PROVE  /\ Logged(fds) \in Table
         /\ \A n \in Fd : Logged(fds)[n] \in {fds[n], "log"}
         /\ Cardinality(Files(Logged(fds))) = Cardinality(Files(fds))
<1>1. "log" \in Object /\ "log" # "file"
  BY DEF Object
<1>2. CASE Logged(fds) = fds
  BY <1>2
<1>3. CASE FreeFds(fds) # {} /\ Logged(fds) = Opened(fds, "log")
  BY <1>1, <1>3, OpenedTable
<1> QED
  BY <1>2, <1>3 DEF Logged

(* close: numbers that name a file are the files less. *)
LEMMA ClosedTable ==
  ASSUME NEW fds \in Table, NEW numbers
  PROVE  /\ Closed(fds, numbers) \in Table
         /\ \A n \in Fd : Closed(fds, numbers)[n] = IF n \in numbers THEN NULL ELSE fds[n]
         /\ Files(Closed(fds, numbers)) = Files(fds) \ numbers
<1>1. \A n \in Fd : Closed(fds, numbers)[n] = IF n \in numbers THEN NULL ELSE fds[n]
  BY DEF Closed
<1>2. Closed(fds, numbers) \in Table
  BY DEF Closed, Table
<1> QED
  BY <1>1, <1>2, NullAssumption DEF Files, Object

(* What a process is started with. *)
LEMMA StandardTable ==
  /\ Standard \in Table /\ NoFds \in Table
  /\ \A n \in Fd : Standard[n] \notin Client /\ NoFds[n] \notin Client
  /\ Cardinality(Files(Standard)) = 0
<1>1. Standard \in Table /\ NoFds \in Table
  BY DEF Standard, NoFds, Table, Object
<1>2. \A n \in Fd : Standard[n] \in {"tty", NULL} /\ NoFds[n] = NULL
  BY DEF Standard, NoFds
<1>3. Client \cap {"tty", NULL} = {} /\ "file" \notin {"tty", NULL}
  BY ClientAssumption, NullAssumption DEF Object
<1>4. Files(Standard) = {}
  BY <1>2, <1>3 DEF Files
<1> QED
  BY <1>1, <1>2, <1>3, <1>4, FS_EmptySet

(* The clients cut off by a process are counted. *)
LEMMA CutOffNat == ASSUME TypeOK PROVE CutOff \in Nat
<1>1. cut \cap (Client \X {main.start}) \in SUBSET cut
  OBVIOUS
<1>2. IsFiniteSet(cut)
  BY DEF TypeOK
<1>3. IsFiniteSet(cut \cap (Client \X {main.start}))
  BY <1>1, <1>2, FS_Subset
<1> QED
  BY <1>3, FS_CardinalityType DEF CutOff
-----------------------------------------------------------------------------
(* No process has served anybody. *)
LEMMA LeakInit == Init => LeakInv
<1> SUFFICES ASSUME Init PROVE LeakInv
  OBVIOUS
<1>1. PICK flag \in BOOLEAN : main = Started(1, flag)
  BY DEF Init
<1>2. /\ script \in [Client -> Scripts]
      /\ stream = [c \in Client |->
                     [i \in 1 .. Len(script[c].tokens) |->
                        IF script[c].tokens[i] = DATA THEN c ELSE script[c].tokens[i]]]
  BY DEF Init
<1>3. /\ main.pc = "bind" /\ main.start = 1 /\ main.fds = Standard /\ main \in Process
  BY <1>1, StandardTable DEF Started, Process, Places
<1>4. ASSUME NEW c \in Client PROVE stream[c] \in Seq(Byte)
  <2> DEFINE t == script[c].tokens
  <2>1. t \in Seq({DATA, NEWLINE})
    BY <1>2, ScriptsAssumption
  <2>2. stream[c] = [i \in 1 .. Len(t) |-> IF t[i] = DATA THEN c ELSE t[i]]
    BY <1>2
  <2> HIDE DEF t
  <2>3. Len(t) \in Nat /\ \A i \in 1 .. Len(t) : (IF t[i] = DATA THEN c ELSE t[i]) \in Byte
    BY <2>1 DEF Byte
  <2> QED
    BY <2>2, <2>3
<1>5. stream \in [Client -> Seq(Byte)]
  BY <1>2, <1>4
<1>6. TypeOK
  BY <1>3, <1>5, FS_EmptySet DEF TypeOK, Init
<1>7. ConnInv /\ CutInv
  BY <1>3, StandardTable DEF ConnInv, CutInv, Init, Serving
<1>8. CutOff = 0
  <2>1. cut \cap (Client \X {main.start}) = {}
    BY DEF Init
  <2> QED
    BY <2>1, FS_EmptySet DEF CutOff
<1> QED
  BY <1>3, <1>6, <1>7, <1>8, StandardTable DEF LeakInv, FileInv, Writing

(* The end of the process. *)
LEMMA LeakExit == ASSUME LeakInv, Exit PROVE LeakInv'
<1>1. /\ main' \in Process /\ main'.pc = "down" /\ main'.fds = NoFds /\ main'.start = main.start
      /\ cut' = cut /\ stream' = stream
  BY StandardTable DEF LeakInv, TypeOK, Exit, Process, Places, history
<1>2. conn' = [c \in Client |-> IF conn[c] = "open" THEN "closed" ELSE conn[c]]
  BY DEF Exit
<1>3. TypeOK'
  BY <1>1, <1>2 DEF LeakInv, TypeOK
<1>4. ConnInv' /\ CutInv'
  BY <1>1, <1>2, StandardTable DEF LeakInv, TypeOK, ConnInv, CutInv, Serving
<1> QED
  BY <1>1, <1>3, <1>4 DEF LeakInv, FileInv, Writing

(* A step of the process that serves nobody, before and after, and has as  *)
(* many files open as before.                                              *)
LEMMA LeakIdle ==
  ASSUME LeakInv, main.pc \notin Serving, main'.pc \notin Serving, main.pc # "down",
         main' \in Process, main'.start = main.start,
         \A n \in Fd : main'.fds[n] \notin Client,
         Cardinality(Files(main'.fds)) = Cardinality(Files(main.fds)),
         main'.pc # "bind", main'.pc = "daemonize" => Files(main'.fds) = {},
         UNCHANGED <<conn, stream, cut>>
  PROVE  LeakInv'
<1>1. TypeOK'
  BY DEF LeakInv, TypeOK
<1>2. ConnInv' /\ CutInv'
  BY DEF LeakInv, TypeOK, ConnInv, CutInv, Serving
<1>3. CutOff' = CutOff
  BY DEF CutOff
<1>4. ~Writing /\ ~Writing'
  BY DEF Writing, Serving
<1> QED
  BY <1>1, <1>2, <1>3, <1>4 DEF LeakInv, FileInv

(* Bind, daemonize and Listen, up to the first accept. *)
LEMMA LeakStart == ASSUME LeakInv, Bind \/ daemonize \/ Listen PROVE LeakInv'
<1>1. /\ main \in Process /\ main.pc \in {"bind", "daemonize", "listen"}
      /\ UNCHANGED <<conn, stream, cut>>
      /\ main.pc \notin Serving /\ \A n \in Fd : main.fds[n] \notin Client
  BY DEF LeakInv, TypeOK, ConnInv, Bind, daemonize, Listen, clients, history, Serving
<1>2. main.fds \in Table /\ 3 \in Fd /\ Fd \subseteq Nat
  BY <1>1, OpenMaxAssumption DEF Process, Fd
<1>3. Client \cap {"socket", "log", "null", NULL} = {} /\ "socket" \in Object
  BY ClientAssumption DEF Object
<1>4. {"file"} \cap {"null", NULL} = {}
  BY NullAssumption DEF Object
<1>5. CASE Bind
  <2>1. main.fds = Standard
    BY <1>5 DEF Bind, LeakInv, FileInv
  <2>2. FreeFds(main.fds) # {}
    <3>1. main.fds[3] = NULL
      BY <1>2, <2>1 DEF Standard
    <3> QED
      BY <1>2, <3>1 DEF FreeFds
  <2> DEFINE fds == Opened(main.fds, "socket")
  <2>3. /\ fds \in Table /\ Lowest(main.fds) \in Fd /\ fds[Lowest(main.fds)] = "socket"
        /\ \A n \in Fd \ {Lowest(main.fds)} : fds[n] = main.fds[n]
        /\ Cardinality(Files(fds)) = Cardinality(Files(main.fds))
    <3>1. "socket" \in Object \cup Client /\ "socket" # "file"
      BY <1>3
    <3> QED
      BY <1>2, <2>2, <3>1, OpenedTable
  <2>4. Files(fds) = {}
    BY <2>1, <2>3, StandardTable, FilesFinite, FS_EmptySet
  <2>5. main' = [main EXCEPT !.fds = fds, !.sockfd = Lowest(main.fds),
                             !.pc = IF main.daemonize_flag THEN "daemonize" ELSE "listen"]
    BY <1>5 DEF Bind
  <2> HIDE DEF fds
  <2>6. /\ main' \in Process /\ main'.pc \in {"daemonize", "listen"} /\ main'.fds = fds
        /\ main'.start = main.start
    BY <1>1, <1>2, <2>3, <2>5 DEF Process, Places
  <2> QED
    BY <1>1, <1>3, <2>3, <2>4, <2>6, LeakIdle DEF Serving
<1>6. CASE daemonize
  <2> DEFINE null == [n \in Fd |-> IF n < 3 THEN "null" ELSE NULL]
             fds == Logged(null)
  <2>1. null \in Table /\ \A n \in Fd : null[n] \in {"null", NULL}
    BY DEF Table, Object
  <2>2. Files(null) = {} /\ Files(main.fds) = {}
    BY <1>4, <1>6, <2>1 DEF Files, daemonize, LeakInv, FileInv
  <2>3. main' = [main EXCEPT !.fds = fds, !.pc = "listen"]
    BY <1>6 DEF daemonize
  <2> HIDE DEF null
  <2>4. /\ fds \in Table /\ \A n \in Fd : fds[n] \in {null[n], "log"}
        /\ Cardinality(Files(fds)) = Cardinality(Files(main.fds))
    BY <2>1, <2>2, LoggedTable
  <2> HIDE DEF fds
  <2>5. main' \in Process /\ main'.pc = "listen" /\ main'.fds = fds /\ main'.start = main.start
    BY <1>1, <2>3, <2>4 DEF Process, Places
  <2> QED
    BY <1>1, <1>3, <2>1, <2>4, <2>5, LeakIdle DEF Serving
<1>7. CASE Listen
  <2> DEFINE fds == Logged(main.fds)
  <2>1. main' = [main EXCEPT !.fds = fds, !.pc = "accept"]
    BY <1>7 DEF Listen
  <2>2. /\ fds \in Table /\ \A n \in Fd : fds[n] \in {main.fds[n], "log"}
        /\ Cardinality(Files(fds)) = Cardinality(Files(main.fds))
    BY <1>2, LoggedTable
  <2> HIDE DEF fds
  <2>3. main' \in Process /\ main'.pc = "accept" /\ main'.fds = fds /\ main'.start = main.start
    BY <1>1, <2>1, <2>2 DEF Process, Places
  <2> QED
    BY <1>1, <1>3, <2>2, <2>3, LeakIdle DEF Serving
<1> QED
  BY <1>5, <1>6, <1>7

(* The next process: nobody of it was cut off yet. *)
LEMMA LeakRestart == ASSUME LeakInv, Restart PROVE LeakInv'
<1>1. PICK flag \in BOOLEAN : main' = Started(main.start + 1, flag)
  BY DEF Restart
<1>2. main \in Process /\ main.start \in Nat /\ main.pc = "down" /\ UNCHANGED <<conn, stream, cut>>
  BY DEF LeakInv, TypeOK, Process, Restart, clients, history
<1>3. /\ main'.pc = "bind" /\ main'.fds = Standard /\ main'.start = main.start + 1
      /\ main' \in Process
  BY <1>1, <1>2, StandardTable DEF Started, Process, Places
<1>4. TypeOK'
  BY <1>2, <1>3 DEF LeakInv, TypeOK
<1>5. ConnInv' /\ CutInv'
  BY <1>2, <1>3, StandardTable DEF LeakInv, TypeOK, ConnInv, CutInv, Serving
<1>6. CutOff' = 0
  <2>1. cut' \cap (Client \X {main'.start}) = {}
    BY <1>2, <1>3 DEF LeakInv, CutInv
  <2> QED
    BY <2>1, FS_EmptySet DEF CutOff
<1>7. FileInv'
  BY <1>3, <1>6, StandardTable DEF FileInv, Writing
<1> QED
  BY <1>4, <1>5, <1>7 DEF LeakInv
-----------------------------------------------------------------------------
(* accept: a client that was in the queue, so was not cut off before. *)
LEMMA LeakAccept == ASSUME LeakInv, NEW c \in Client, Accept(c) PROVE LeakInv'
<1> DEFINE fds == Opened(main.fds, c)
           low == Lowest(main.fds)
<1>1. /\ main \in Process /\ main.fds \in Table /\ main.pc = "accept"
      /\ FreeFds(main.fds) # {} /\ conn[c] = "queued"
      /\ conn' = [conn EXCEPT ![c] = "open"] /\ UNCHANGED <<stream, cut>>
      /\ main' = [main EXCEPT !.fds = fds, !.new_fd = low, !.pc = "open"]
  BY DEF LeakInv, TypeOK, Process, Accept, history
<1>2. c # "file" /\ c \in Object \cup Client /\ Fd \subseteq Nat
  BY ClientAssumption, OpenMaxAssumption DEF Object, Fd
<1>3. /\ fds \in Table /\ low \in Fd /\ fds[low] = c
      /\ \A n \in Fd \ {low} : fds[n] = main.fds[n]
      /\ Cardinality(Files(fds)) = Cardinality(Files(main.fds))
  BY <1>1, <1>2, OpenedTable
<1> HIDE DEF fds, low
<1>4. /\ main' \in Process /\ main'.pc = "open" /\ main'.fds = fds /\ main'.new_fd = low
      /\ main'.start = main.start
  BY <1>1, <1>2, <1>3 DEF Process, Places
<1>5. TypeOK'
  BY <1>1, <1>4 DEF LeakInv, TypeOK
<1>6. ConnInv'
  <2>1. \A n \in Fd : main.fds[n] \notin Client
    BY <1>1 DEF LeakInv, ConnInv, Serving
  <2>2. \A n \in Fd : fds[n] \in Client => n = low
    BY <1>3, <2>1
  <2>3. \A d \in Client : conn'[d] = "open" <=> d = c
    BY <1>1 DEF LeakInv, TypeOK, ConnInv, Serving
  <2> QED
    BY <1>3, <1>4, <2>2, <2>3 DEF ConnInv, Serving
<1>7. CutInv'
  BY <1>1, <1>4 DEF LeakInv, TypeOK, CutInv
<1>8. CutOff' = CutOff
  BY <1>1, <1>4 DEF CutOff
<1>9. FileInv'
  BY <1>1, <1>3, <1>4, <1>8 DEF LeakInv, FileInv, Writing
<1> QED
  BY <1>5, <1>6, <1>7, <1>9 DEF LeakInv

(* The connection that new_fd names. *)
LEMMA CurrentIs ==
  ASSUME LeakInv, main.pc \in Serving
  PROVE  /\ main.new_fd \in Fd /\ Current = Client \cap {main.fds[main.new_fd]}
         /\ \A c \in Client : c \in Current <=> conn[c] = "open"
BY DEF LeakInv, ConnInv, Current

(* Hangup ends just that one. *)
LEMMA HangupConn ==
  ASSUME LeakInv, main.pc \in Serving,
         NEW how \in {"closed", "failed", "refused"}, Hangup(how)
  PROVE  /\ conn' \in [Client -> {"queued", "open", "closed", "failed", "refused"}]
         /\ \A c \in Client : conn'[c] # "open" /\ (conn'[c] = "queued" => conn[c] = "queued")
         /\ stream' = stream
BY CurrentIs DEF LeakInv, TypeOK, Hangup

(* open: a file for the client being served. *)
LEMMA LeakOpen == ASSUME LeakInv, Open PROVE LeakInv'
<1> DEFINE fds == Opened(main.fds, "file")
           low == Lowest(main.fds)
<1>1. /\ main \in Process /\ main.fds \in Table /\ main.pc = "open" /\ FreeFds(main.fds) # {}
      /\ main' = [main EXCEPT !.fds = fds, !.file_fd = low, !.pc = "recv"]
      /\ UNCHANGED <<conn, stream, cut>>
  BY DEF LeakInv, TypeOK, Process, Open, clients, history
<1>2. /\ "file" \in Object \cup Client /\ Fd \subseteq Nat
      /\ \A c \in Client : c # "file" /\ c # NULL
  BY ClientAssumption, OpenMaxAssumption DEF Object, Fd
<1>3. /\ fds \in Table /\ low \in Fd /\ fds[low] = "file" /\ main.fds[low] = NULL
      /\ \A n \in Fd \ {low} : fds[n] = main.fds[n]
      /\ Cardinality(Files(fds)) = Cardinality(Files(main.fds)) + 1
  BY <1>1, <1>2, OpenedTable
<1> HIDE DEF fds, low
<1>4. /\ main' \in Process /\ main'.pc = "recv" /\ main'.fds = fds /\ main'.file_fd = low
      /\ main'.new_fd = main.new_fd /\ main'.start = main.start
  BY <1>1, <1>2, <1>3 DEF Process, Places
<1>5. /\ main.new_fd \in Fd /\ main.fds[main.new_fd] \in Client
      /\ fds[main.new_fd] = main.fds[main.new_fd]
  BY <1>1, <1>2, <1>3 DEF LeakInv, ConnInv, Serving
<1>6. TypeOK'
  BY <1>1, <1>4 DEF LeakInv, TypeOK
<1>7. ConnInv'
  <2>1. \A n \in Fd : fds[n] \in Client => n = main.new_fd
    BY <1>1, <1>2, <1>3 DEF LeakInv, ConnInv
  <2>2. \A c \in Client : conn[c] = "open" <=> main.fds[main.new_fd] = c
    BY <1>1, <1>5 DEF LeakInv, ConnInv
  <2> QED
    BY <1>1, <1>4, <1>5, <2>1, <2>2 DEF ConnInv, Serving
<1>8. CutInv'
  BY <1>1, <1>4 DEF LeakInv, TypeOK, CutInv
<1>9. CutOff' = CutOff
  BY <1>1, <1>4 DEF CutOff
<1>10. FileInv'
  BY <1>1, <1>3, <1>4, <1>5, <1>9 DEF LeakInv, FileInv, Writing, Files
<1> QED
  BY <1>6, <1>7, <1>8, <1>10 DEF LeakInv

(* The connection is closed, and nothing is open for a client any more:    *)
(* OpenFails, ReopenFails and Close.                                       *)
LEMMA LeakHangup ==
  ASSUME LeakInv, main.pc \in Serving, main' \in Process, main'.start = main.start,
         main'.pc \in {"accept", "recv"}, main'.new_fd = main.new_fd,
         main'.fds \in Table, main'.fds[main.new_fd] = NULL,
         \A n \in Fd : main'.fds[n] \in {main.fds[n], NULL},
         Cardinality(Files(main'.fds)) = CutOff,
         NEW how \in {"closed", "failed", "refused"}, Hangup(how), UNCHANGED cut
  PROVE  LeakInv'
<1>1. /\ main.new_fd \in Fd /\ NULL \notin Client
  BY CurrentIs, ClientAssumption
<1>2. \A n \in Fd : main'.fds[n] \notin Client
  BY <1>1 DEF LeakInv, ConnInv
<1>3. TypeOK'
  BY HangupConn DEF LeakInv, TypeOK
<1>4. ConnInv' /\ CutInv'
  BY <1>1, <1>2, HangupConn DEF LeakInv, ConnInv, CutInv, Serving
<1>5. CutOff' = CutOff /\ ~Writing'
  BY <1>1, <1>2 DEF CutOff, Writing
<1>6. FileInv'
  BY <1>5 DEF FileInv
<1> QED
  BY <1>3, <1>4, <1>6 DEF LeakInv

(* Closing the connection closes no file. *)
LEMMA LeakClose == ASSUME LeakInv, OpenFails \/ Close PROVE LeakInv'
<1> DEFINE fds == Closed(main.fds, {main.new_fd})
<1>1. /\ main \in Process /\ main.fds \in Table /\ main.pc \in {"open", "close"}
      /\ UNCHANGED cut /\ main.pc \in Serving
      /\ \/ main' = [main EXCEPT !.fds = fds, !.file_fd = NULL, !.pc = "accept"]
         \/ main' = [main EXCEPT !.fds = fds, !.pc = "accept"]
  BY DEF LeakInv, TypeOK, Process, OpenFails, Close, Serving, history
<1>2. PICK how \in {"closed", "failed", "refused"} : Hangup(how)
  BY DEF OpenFails, Close
<1>3. /\ fds \in Table /\ Files(fds) = Files(main.fds) \ {main.new_fd}
      /\ \A n \in Fd : fds[n] = IF n \in {main.new_fd} THEN NULL ELSE main.fds[n]
  BY <1>1, ClosedTable
<1> HIDE DEF fds
<1>4. /\ main' \in Process /\ main'.pc = "accept" /\ main'.fds = fds
      /\ main'.new_fd = main.new_fd /\ main'.start = main.start
  BY <1>1, <1>3 DEF Process, Places
<1>5. main.new_fd \in Fd /\ main.fds[main.new_fd] # "file"
  BY <1>1, ClientAssumption, NullAssumption DEF LeakInv, ConnInv, Object
<1>6. Cardinality(Files(fds)) = CutOff
  <2>1. Files(fds) = Files(main.fds)
    BY <1>3, <1>5 DEF Files
  <2> QED
    BY <1>1, <2>1 DEF LeakInv, FileInv, Writing
<1> QED
  BY <1>1, <1>2, <1>3, <1>4, <1>5, <1>6, LeakHangup

(* A file less. *)
LEMMA OneFileLess ==
  ASSUME NEW fds, NEW n \in Files(fds), NEW k \in Nat, Cardinality(Files(fds)) = k + 1
  PROVE  Cardinality(Files(fds) \ {n}) = k
<1> DEFINE S == Files(fds)
<1>1. IsFiniteSet(S)
  BY FilesFinite
<1> HIDE DEF S
<1>2. Cardinality(S \ {n}) = IF n \in S THEN Cardinality(S) - 1 ELSE Cardinality(S)
  BY <1>1, FS_RemoveElement
<1> QED
  BY <1>2 DEF S

(* A file that cannot be opened again was closed all the same. *)
LEMMA LeakReopenFails == ASSUME LeakInv, ReopenFails PROVE LeakInv'
<1> DEFINE fds == Closed(main.fds, {main.file_fd, main.new_fd})
<1>1. /\ main \in Process /\ main.fds \in Table /\ main.pc = "reopen"
      /\ UNCHANGED cut /\ main.pc \in Serving /\ Hangup("failed")
      /\ main' = [main EXCEPT !.fds = fds, !.file_fd = NULL, !.pc = "recv"]
  BY DEF LeakInv, TypeOK, Process, ReopenFails, Serving, history
<1>2. /\ fds \in Table /\ Files(fds) = Files(main.fds) \ {main.file_fd, main.new_fd}
      /\ \A n \in Fd : fds[n] = IF n \in {main.file_fd, main.new_fd} THEN NULL ELSE main.fds[n]
  BY <1>1, ClosedTable
<1> HIDE DEF fds
<1>3. /\ main' \in Process /\ main'.pc = "recv" /\ main'.fds = fds
      /\ main'.new_fd = main.new_fd /\ main'.start = main.start
  BY <1>1, <1>2 DEF Process, Places
<1>4. main.new_fd \in Fd /\ main.fds[main.new_fd] # "file"
  BY <1>1, ClientAssumption, NullAssumption DEF LeakInv, ConnInv, Object
<1>5. main.file_fd \in Files(main.fds) /\ Cardinality(Files(main.fds)) = CutOff + 1
  BY <1>1 DEF LeakInv, FileInv, Writing
<1>6. Files(fds) = Files(main.fds) \ {main.file_fd}
  BY <1>2, <1>4 DEF Files
<1>7. CutOff \in Nat
  BY CutOffNat DEF LeakInv
<1>8. Cardinality(Files(fds)) = CutOff
  BY <1>5, <1>6, <1>7, OneFileLess
<1> QED
  BY <1>1, <1>2, <1>3, <1>4, <1>8, LeakHangup
(* A step that goes on with the client being served. *)
LEMMA ServingConn ==
  ASSUME LeakInv, main.pc \in Serving \ {"open"}, main'.pc \in Serving \ {"open"},
         main'.pc \in {"reopen", "read"} => main.fds[main.new_fd] \in Client,
         main'.new_fd = main.new_fd, main'.fds[main.new_fd] = main.fds[main.new_fd],
         \A n \in Fd : main'.fds[n] \in Client => main'.fds[n] = main.fds[n],
         UNCHANGED conn
  PROVE  ConnInv'
BY DEF LeakInv, ConnInv

(* recv of a piece, which is not the client's end. *)
LEMMA LeakRecv == ASSUME LeakInv, NEW c \in Client, Recv(c) PROVE LeakInv'
<1>1. PICK n \in 1 .. Len(stream[c]) :
        /\ stream' = [stream EXCEPT ![c] = SubSeq(@, n + 1, Len(@))]
        /\ main' = [main EXCEPT !.pc = IF HasNewline(SubSeq(stream[c], 1, n)) THEN "reopen"
                                                                           ELSE "recv"]
  BY DEF Recv
<1>2. /\ main \in Process /\ main.pc = "recv" /\ main.pc \in Serving /\ c \in Current
      /\ UNCHANGED <<conn, cut>>
  BY DEF LeakInv, TypeOK, Recv, Serving
<1>3. /\ main' \in Process /\ main'.pc \in {"recv", "reopen"} /\ main'.fds = main.fds
      /\ main'.new_fd = main.new_fd /\ main'.file_fd = main.file_fd /\ main'.start = main.start
  BY <1>1, <1>2 DEF Process, Places
<1>4. main.fds[main.new_fd] \in Client /\ conn[c] = "open"
  BY <1>2, CurrentIs
<1>5. SubSeq(stream[c], n + 1, Len(stream[c])) \in Seq(Byte)
  BY DEF LeakInv, TypeOK
<1>6. TypeOK'
  BY <1>1, <1>2, <1>3, <1>5 DEF LeakInv, TypeOK
<1>7. ConnInv'
  BY <1>2, <1>3, <1>4, ServingConn DEF Serving
<1>8. CutInv'
  BY <1>2, <1>3 DEF LeakInv, CutInv
<1>9. CutOff' = CutOff /\ Writing /\ Writing'
  BY <1>2, <1>3, <1>4 DEF CutOff, Writing
<1>10. FileInv'
  BY <1>2, <1>3, <1>9 DEF LeakInv, FileInv
<1> QED
  BY <1>6, <1>7, <1>8, <1>10 DEF LeakInv

(* The client ends its connection, and its file stays open; or there is no *)
(* client any more, nor a file for it.                                     *)
LEMMA LeakRecvEnds == ASSUME LeakInv, RecvEnds PROVE LeakInv'
<1>1. /\ main \in Process /\ main.pc = "recv" /\ main.pc \in Serving
      /\ UNCHANGED <<conn, stream>> /\ main' = [main EXCEPT !.pc = "close"]
      /\ cut' = cut \cup (Current \X {main.start})
  BY DEF LeakInv, TypeOK, RecvEnds, Serving, clients
<1>2. /\ main' \in Process /\ main'.pc = "close" /\ main'.fds = main.fds
      /\ main'.new_fd = main.new_fd /\ main'.start = main.start /\ main.start \in Nat
  BY <1>1 DEF Process, Places
<1>3. /\ main.new_fd \in Fd /\ Current = Client \cap {main.fds[main.new_fd]}
      /\ \A c \in Client : c \in Current <=> conn[c] = "open"
  BY <1>1, CurrentIs
<1>4. ConnInv'
  BY <1>1, <1>2, ServingConn DEF Serving
<1>5. CutInv'
  BY <1>1, <1>2, <1>3 DEF LeakInv, CutInv
<1>6. IsFiniteSet(cut) /\ cut \subseteq Client \X Nat
  BY DEF LeakInv, TypeOK
<1>7. CASE main.fds[main.new_fd] \in Client
  <2> DEFINE c == main.fds[main.new_fd]
             all == cut \cap (Client \X {main.start})
  <2>1. Current = {c} /\ conn[c] = "open" /\ c \in Client
    BY <1>3, <1>7
  <2> HIDE DEF c
  <2>2. <<c, main.start>> \notin cut
    BY <1>1, <1>2, <2>1 DEF LeakInv, CutInv
  <2>3. cut' = cut \cup {<<c, main.start>>}
    BY <1>1, <2>1
  <2>4. TypeOK'
    <3>1. IsFiniteSet(cut')
      BY <1>6, <2>3, FS_AddElement
    <3>2. cut' \subseteq Client \X Nat
      BY <1>2, <1>6, <2>1, <2>3
    <3> QED
      BY <1>1, <1>2, <3>1, <3>2 DEF LeakInv, TypeOK
  <2>5. cut' \cap (Client \X {main'.start}) = all \cup {<<c, main.start>>}
    BY <1>2, <2>1, <2>3
  <2>6. IsFiniteSet(all) /\ <<c, main.start>> \notin all
    BY <1>6, <2>2, FS_Subset
  <2> HIDE DEF all
  <2>7. Cardinality(all \cup {<<c, main.start>>}) = Cardinality(all) + 1
    BY <2>6, FS_AddElement
  <2>8. CutOff' = CutOff + 1
    BY <2>5, <2>7 DEF CutOff, all
  <2>9. Writing /\ ~Writing'
    BY <1>1, <1>2, <1>7 DEF Writing
  <2>10. FileInv'
    BY <1>1, <1>2, <2>8, <2>9 DEF LeakInv, FileInv
  <2> QED
    BY <1>4, <1>5, <2>4, <2>10 DEF LeakInv
<1>8. CASE main.fds[main.new_fd] \notin Client
  <2>1. Current = {}
    BY <1>3, <1>8
  <2>2. cut' = cut
    BY <1>1, <2>1
  <2>3. TypeOK'
    BY <1>1, <1>2, <2>2 DEF LeakInv, TypeOK
  <2>4. CutOff' = CutOff /\ ~Writing /\ ~Writing'
    BY <1>1, <1>2, <1>8, <2>2 DEF CutOff, Writing
  <2>5. FileInv'
    BY <1>1, <1>2, <2>4 DEF LeakInv, FileInv
  <2> QED
    BY <1>4, <1>5, <2>3, <2>5 DEF LeakInv
<1> QED
  BY <1>7, <1>8

(* One file is closed and one opened. *)
LEMMA LeakReopen == ASSUME LeakInv, Reopen PROVE LeakInv'
<1> DEFINE closed == Closed(main.fds, {main.file_fd})
           fds == Opened(closed, "file")
           low == Lowest(closed)
<1>1. /\ main \in Process /\ main.fds \in Table /\ main.pc = "reopen" /\ main.pc \in Serving
      /\ UNCHANGED <<conn, stream, cut>>
      /\ main' = [main EXCEPT !.fds = fds, !.file_fd = low, !.pc = "read"]
  BY DEF LeakInv, TypeOK, Process, Reopen, Serving, clients, history
<1>2. /\ main.file_fd \in Files(main.fds) /\ Cardinality(Files(main.fds)) = CutOff + 1
      /\ CutOff \in Nat
  BY <1>1, CutOffNat DEF LeakInv, FileInv, Writing
<1>3. /\ closed \in Table /\ Files(closed) = Files(main.fds) \ {main.file_fd}
      /\ \A n \in Fd : closed[n] = IF n \in {main.file_fd} THEN NULL ELSE main.fds[n]
  BY <1>1, ClosedTable
<1> HIDE DEF closed
<1>4. Cardinality(Files(closed)) = CutOff
  BY <1>2, <1>3, OneFileLess
<1>5. FreeFds(closed) # {}
  BY <1>2, <1>3 DEF FreeFds, Files
<1>6. /\ "file" \in Object \cup Client /\ Fd \subseteq Nat
      /\ \A c \in Client : c # "file" /\ c # NULL
  BY ClientAssumption, OpenMaxAssumption DEF Object, Fd
<1>7. /\ fds \in Table /\ low \in Fd /\ fds[low] = "file" /\ closed[low] = NULL
      /\ \A n \in Fd \ {low} : fds[n] = closed[n]
      /\ Cardinality(Files(fds)) = CutOff + 1
  BY <1>3, <1>4, <1>5, <1>6, OpenedTable
<1> HIDE DEF fds, low
<1>8. /\ main' \in Process /\ main'.pc = "read" /\ main'.fds = fds /\ main'.file_fd = low
      /\ main'.new_fd = main.new_fd /\ main'.start = main.start
  BY <1>1, <1>6, <1>7 DEF Process, Places
<1>9. main.new_fd \in Fd /\ main.fds[main.new_fd] \in Client
  BY <1>1 DEF LeakInv, ConnInv
<1>10. fds[main.new_fd] = main.fds[main.new_fd]
  BY <1>2, <1>3, <1>6, <1>7, <1>9 DEF Files
<1>11. \A n \in Fd : fds[n] \in Client => fds[n] = main.fds[n]
  BY <1>3, <1>6, <1>7
<1>12. TypeOK'
  BY <1>1, <1>8 DEF LeakInv, TypeOK
<1>13. ConnInv'
  BY <1>1, <1>8, <1>9, <1>10, <1>11, ServingConn DEF Serving
<1>14. CutInv'
  BY <1>1, <1>8 DEF LeakInv, CutInv
<1>15. CutOff' = CutOff
  BY <1>1, <1>8 DEF CutOff
<1>16. FileInv'
  BY <1>7, <1>8, <1>15 DEF FileInv, Writing, Files
<1> QED
  BY <1>12, <1>13, <1>14, <1>16 DEF LeakInv

(* The answer, after which the file is closed. *)
LEMMA LeakReadSend == ASSUME LeakInv, NEW c \in Client, ReadSend(c) PROVE LeakInv'
<1> DEFINE fds == Closed(main.fds, {main.file_fd})
<1>1. /\ main \in Process /\ main.fds \in Table /\ main.pc = "read" /\ main.pc \in Serving
      /\ UNCHANGED <<conn, stream, cut>> /\ main' = [main EXCEPT !.fds = fds, !.pc = "close"]
  BY DEF LeakInv, TypeOK, Process, ReadSend, Answered, Serving, history
<1>2. /\ main.file_fd \in Files(main.fds) /\ Cardinality(Files(main.fds)) = CutOff + 1
      /\ CutOff \in Nat
  BY <1>1, CutOffNat DEF LeakInv, FileInv, Writing
<1>3. /\ fds \in Table /\ Files(fds) = Files(main.fds) \ {main.file_fd}
      /\ \A n \in Fd : fds[n] = IF n \in {main.file_fd} THEN NULL ELSE main.fds[n]
  BY <1>1, ClosedTable
<1>4. Cardinality(Files(fds)) = CutOff
  BY <1>2, <1>3, OneFileLess
<1> HIDE DEF fds
<1>5. /\ main' \in Process /\ main'.pc = "close" /\ main'.fds = fds
      /\ main'.new_fd = main.new_fd /\ main'.start = main.start
  BY <1>1, <1>3 DEF Process, Places
<1>6. main.new_fd \in Fd /\ main.fds[main.new_fd] \in Client
  BY <1>1 DEF LeakInv, ConnInv
<1>7. "file" \notin Client /\ NULL \notin Client
  BY ClientAssumption DEF Object
<1>8. fds[main.new_fd] = main.fds[main.new_fd]
  BY <1>2, <1>3, <1>6, <1>7 DEF Files
<1>9. TypeOK'
  BY <1>1, <1>5 DEF LeakInv, TypeOK
<1>10. ConnInv'
  BY <1>1, <1>3, <1>5, <1>7, <1>8, ServingConn DEF Serving
<1>11. CutInv'
  BY <1>1, <1>5 DEF LeakInv, CutInv
<1>12. CutOff' = CutOff /\ ~Writing'
  BY <1>1, <1>5 DEF CutOff, Writing
<1>13. FileInv'
  BY <1>4, <1>5, <1>12 DEF FileInv
<1> QED
  BY <1>9, <1>10, <1>11, <1>13 DEF LeakInv

(* Every step of the old server preserves the invariant. *)
LEMMA LeakNext == LeakInv /\ [Next]_vars => LeakInv'
<1> SUFFICES ASSUME LeakInv, [Next]_vars PROVE LeakInv'
  OBVIOUS
<1>1. CASE UNCHANGED <<main, conn, stream, cut>>
  BY <1>1 DEF LeakInv, TypeOK, ConnInv, CutInv, FileInv, Writing, CutOff
<1>2. CASE StartFails \/ SendFails \/ handle_signal
  BY <1>2, LeakExit DEF StartFails, SendFails, handle_signal
<1>3. CASE LingerEnds \/ UNCHANGED vars
  BY <1>1, <1>3 DEF LingerEnds, vars, clients, history
<1> QED
  BY <1>2, <1>3, LeakStart, LeakRestart, LeakAccept, LeakOpen, LeakClose, LeakReopenFails,
     LeakRecv, LeakRecvEnds, LeakReopen, LeakReadSend DEF Next, Main

(* Every reachable state satisfies the invariant. *)
LEMMA LeakAlways == Spec => []LeakInv
BY LeakInit, LeakNext, PTL DEF Spec

(* On whichever path the last client left, the old server has the file     *)
(* open once for each client it cut off, and no connection.                *)
THEOREM OnlyCutOffLeaks == Spec => []OnlyCutLeaks
<1>1. LeakInv => OnlyCutLeaks
  BY DEF LeakInv, ConnInv, FileInv, Writing, Serving, Files, OnlyCutLeaks
<1> QED
  BY <1>1, LeakAlways, PTL
-----------------------------------------------------------------------------
(* A client sends no byte after its newline: it waits for the answer. What *)
(* a piece has behind a newline is written to the file with it, and stays  *)
(* an unfinished line.                                                     *)
OneLineEach ==
  \A s \in Scripts : \A i \in 1 .. Len(s.tokens) - 1 : s.tokens[i] # NEWLINE

(* The clients that LinesWhole excuses. *)
Excused(c) == c \in lost \/ \E n \in 1 .. main.start : <<c, n>> \in cut

(* What a client has yet to send: its own bytes, and a newline at the end. *)
OwnLine(c, s) == \A i \in 1 .. Len(s) : s[i] = c \/ (s[i] = NEWLINE /\ i = Len(s))

(* The last line of the file is unfinished only while its client is being  *)
(* served, or for one that is excused.                                     *)
Finished ==
  file # NULL /\ Len(file) > 0 /\ file[Len(file)] \in Client =>
     \/ Excused(file[Len(file)])
     \/ main.pc = "recv" /\ main.fds[main.new_fd] = file[Len(file)]

LinesInv ==
  /\ file = NULL \/ file \in Seq(Byte)
  /\ main.pc \in Serving \ {"open"} => file \in Seq(Byte)
  /\ \A c \in Client : OwnLine(c, stream[c])
  /\ Finished /\ LinesWhole

(* LinesWhole, with the excuse by its name. *)
LEMMA WholeIs ==
  LinesWhole <=>
    (file # NULL =>
       \A i \in 1 .. Len(file) - 1 :
         {file[i], file[i + 1]} \subseteq Client /\ file[i] # file[i + 1] => Excused(file[i]))
BY DEF LinesWhole, Excused

(* Nobody has sent anything. *)
LEMMA LinesInit == ASSUME OneLineEach PROVE Init => LinesInv
<1> SUFFICES ASSUME Init PROVE LinesInv
  OBVIOUS
<1>1. file = NULL /\ main.pc \notin Serving
  BY DEF Init, Started, Serving
<1>2. /\ script \in [Client -> Scripts]
      /\ stream = [c \in Client |->
                     [i \in 1 .. Len(script[c].tokens) |->
                        IF script[c].tokens[i] = DATA THEN c ELSE script[c].tokens[i]]]
  BY DEF Init
<1>3. ASSUME NEW c \in Client PROVE OwnLine(c, stream[c])
  <2> DEFINE t == script[c].tokens
  <2>1. t \in Seq({DATA, NEWLINE}) /\ \A i \in 1 .. Len(t) - 1 : t[i] # NEWLINE
    BY <1>2, ScriptsAssumption DEF OneLineEach
  <2>2. stream[c] = [i \in 1 .. Len(t) |-> IF t[i] = DATA THEN c ELSE t[i]]
    BY <1>2
  <2> HIDE DEF t
  <2>3. Len(t) \in Nat /\ \A i \in 1 .. Len(t) : t[i] \in {DATA, NEWLINE}
    BY <2>1
  <2>4. Len(stream[c]) = Len(t)
    BY <2>2, <2>3
  <2>5. \A i \in 1 .. Len(t) : t[i] = DATA \/ (t[i] = NEWLINE /\ i = Len(t))
    BY <2>1, <2>3
  <2>6. \A i \in 1 .. Len(t) : stream[c][i] = IF t[i] = DATA THEN c ELSE t[i]
    BY <2>2
  <2> QED
    BY <2>4, <2>5, <2>6 DEF OwnLine
<1> QED
  BY <1>1, <1>3 DEF LinesInv, Finished, LinesWhole

(* Who is excused stays so. *)
LEMMA ExcusedStays ==
  ASSUME LeakInv, [Next]_vars, NEW c, Excused(c)
  PROVE  Excused(c)'
<1>1. lost \subseteq lost'
  BY DEF Next, Main, vars, history, clients, Bind, daemonize, Listen, StartFails, Exit, Accept,
         Recv, ReadSend, Open, OpenFails, RecvEnds, Reopen, ReopenFails, Close, SendFails,
         handle_signal, Restart, LingerEnds
<1>2. cut \subseteq cut'
  BY DEF Next, Main, vars, history, clients, Bind, daemonize, Listen, StartFails, Exit, Accept,
         Recv, ReadSend, Open, OpenFails, RecvEnds, Reopen, ReopenFails, Close, SendFails,
         handle_signal, Restart, LingerEnds
<1>3. LeakInv' /\ main'.start \in Nat
  BY LeakNext DEF LeakInv, TypeOK, Process
<1>4. CASE c \in lost
  BY <1>1, <1>4 DEF Excused
<1>5. CASE \E n \in 1 .. main.start : <<c, n>> \in cut
  <2>1. PICK n \in 1 .. main.start : <<c, n>> \in cut
    BY <1>5
  <2>2. <<c, n>> \in cut' /\ c \in Client /\ n \in Nat /\ n >= 1
    BY <1>2, <2>1 DEF LeakInv, TypeOK, Process
  <2>3. n <= main'.start
    BY <1>3, <2>2 DEF LeakInv, CutInv
  <2> QED
    BY <1>3, <2>2, <2>3 DEF Excused
<1> QED
  BY <1>4, <1>5 DEF Excused

(* Whatever leaves file and streams as they are, and does not leave the    *)
(* client being served with an unfinished line, preserves the lines.       *)
LEMMA LinesKept ==
  ASSUME LeakInv, LinesInv, [Next]_vars, UNCHANGED stream, file' = file \/ file' = NULL,
         main.pc = "recv" /\ main.fds[main.new_fd] \in Client =>
           file' = NULL \/ main.fds[main.new_fd] \in lost'
           \/ \E n \in 1 .. main'.start : <<main.fds[main.new_fd], n>> \in cut',
         main'.pc \in Serving \ {"open"} => file' \in Seq(Byte)
  PROVE  LinesInv'
<1>1. CASE file' = NULL
  BY <1>1 DEF LinesInv, Finished, LinesWhole
<1>2. CASE file' = file /\ file # NULL
  <2>1. file \in Seq(Byte)
    BY <1>2 DEF LinesInv
  <2> DEFINE Ex(c) == c \in lost' \/ \E n \in 1 .. main'.start : <<c, n>> \in cut'
  <2>2. \A c : Excused(c) => Ex(c)
    BY ExcusedStays DEF Excused
  <2> HIDE DEF Ex
  <2>3. \A i \in 1 .. Len(file) - 1 :
          {file[i], file[i + 1]} \subseteq Client /\ file[i] # file[i + 1] => Ex(file[i])
    BY <1>2, <2>2, WholeIs DEF LinesInv
  <2>4. LinesWhole'
    BY <1>2, <2>3 DEF LinesWhole, Ex
  <2>5. Len(file) > 0 /\ file[Len(file)] \in Client => Ex(file[Len(file)])
    <3> SUFFICES ASSUME Len(file) > 0, file[Len(file)] \in Client PROVE Ex(file[Len(file)])
      OBVIOUS
    <3>1. CASE Excused(file[Len(file)])
      BY <2>2, <3>1
    <3>2. CASE main.pc = "recv" /\ main.fds[main.new_fd] = file[Len(file)]
      BY <1>2, <3>2 DEF Ex
    <3> QED
      BY <1>2, <3>1, <3>2 DEF LinesInv, Finished
  <2>6. Finished'
    BY <1>2, <2>5 DEF Finished, Excused, Ex
  <2> QED
    BY <1>2, <2>1, <2>4, <2>6 DEF LinesInv
<1> QED
  BY <1>1, <1>2

(* A piece is put behind a line that is finished, or is the same client's. *)
LEMMA LinesAppended ==
  ASSUME LeakInv, LinesInv, [Next]_vars, NEW c \in Client, main.fds[main.new_fd] = c,
         NEW buffer \in Seq(Byte), buffer # <<>>, OwnLine(c, buffer),
         file \in Seq(Byte), file' = file \o buffer
  PROVE  LinesWhole'
<1>1. /\ Len(file) \in Nat /\ Len(buffer) \in Nat \ {0} /\ file' \in Seq(Byte)
      /\ Len(file') = Len(file) + Len(buffer)
  OBVIOUS
<1>2. \A i \in 1 .. Len(file) : file'[i] = file[i]
  OBVIOUS
<1>3. \A i \in 1 .. Len(buffer) : file'[Len(file) + i] = buffer[i]
  OBVIOUS
<1>4. \A i \in 1 .. Len(buffer) : buffer[i] \in {c, NEWLINE}
  BY DEF OwnLine
<1>5. NEWLINE \notin Client /\ file # NULL
  BY ClientAssumption, FileAssumption DEF Byte
<1> DEFINE Ex(d) == d \in lost' \/ \E n \in 1 .. main'.start : <<d, n>> \in cut'
<1>6. \A d : Excused(d) => Ex(d)
  BY ExcusedStays DEF Excused
<1> HIDE DEF Ex
<1>7. ASSUME NEW i \in 1 .. Len(file') - 1,
             {file'[i], file'[i + 1]} \subseteq Client, file'[i] # file'[i + 1]
      PROVE  Ex(file'[i])
  <2>1. CASE i < Len(file)
    <3>1. i \in 1 .. Len(file) - 1 /\ file'[i] = file[i] /\ file'[i + 1] = file[i + 1]
      BY <1>1, <1>2, <2>1
    <3>2. Excused(file[i])
      BY <1>5, <1>7, <3>1, WholeIs DEF LinesInv
    <3> QED
      BY <1>6, <3>1, <3>2
  <2>2. CASE i = Len(file)
    <3>1. file'[i] = file[Len(file)] /\ Len(file) > 0
      BY <1>1, <1>2, <2>2
    <3>2. file'[i + 1] = buffer[1] /\ 1 \in 1 .. Len(buffer)
      BY <1>1, <1>3, <2>2
    <3>3. file'[i + 1] = c
      BY <1>4, <1>5, <1>7, <3>2
    <3>4. Excused(file[Len(file)])
      BY <1>5, <1>7, <3>1, <3>3 DEF LinesInv, Finished
    <3> QED
      BY <1>6, <3>1, <3>4
  <2>3. CASE i > Len(file)
    <3> DEFINE j == i - Len(file)
    <3>1. j \in 1 .. Len(buffer) - 1 /\ i = Len(file) + j /\ i + 1 = Len(file) + (j + 1)
      BY <1>1, <2>3
    <3> HIDE DEF j
    <3>2. j \in 1 .. Len(buffer) /\ j + 1 \in 1 .. Len(buffer)
      BY <1>1, <3>1
    <3>3. file'[i] = buffer[j] /\ file'[i + 1] = buffer[j + 1]
      BY <1>3, <3>1, <3>2
    <3> QED
      BY <1>4, <1>5, <1>7, <3>2, <3>3
  <2> QED
    BY <1>1, <2>1, <2>2, <2>3
<1> QED
  BY <1>7 DEF LinesWhole, Ex

(* What is left of a line, and what was taken from it. *)
LEMMA OwnLineCut ==
  ASSUME NEW c \in Client, NEW s \in Seq(Byte), OwnLine(c, s), NEW n \in 1 .. Len(s)
  PROVE  /\ SubSeq(s, 1, n) \in Seq(Byte) /\ Len(SubSeq(s, 1, n)) = n
         /\ OwnLine(c, SubSeq(s, 1, n))
         /\ OwnLine(c, SubSeq(s, n + 1, Len(s)))
         /\ HasNewline(SubSeq(s, 1, n)) => SubSeq(s, 1, n)[n] = NEWLINE
<1>1. /\ SubSeq(s, 1, n) \in Seq(Byte) /\ Len(SubSeq(s, 1, n)) = n
      /\ \A i \in 1 .. n : SubSeq(s, 1, n)[i] = s[i]
  OBVIOUS
<1>2. /\ Len(SubSeq(s, n + 1, Len(s))) = Len(s) - n
      /\ \A i \in 1 .. Len(s) - n : SubSeq(s, n + 1, Len(s))[i] = s[n + i]
  OBVIOUS
<1>3. OwnLine(c, SubSeq(s, 1, n))
  BY <1>1 DEF OwnLine
<1>4. OwnLine(c, SubSeq(s, n + 1, Len(s)))
  <2>1. ASSUME NEW i \in 1 .. Len(s) - n
        PROVE  /\ n + i \in 1 .. Len(s)
               /\ n + i = Len(s) => i = Len(s) - n
    OBVIOUS
  <2> QED
    BY <1>2, <2>1 DEF OwnLine
<1>5. HasNewline(SubSeq(s, 1, n)) => SubSeq(s, 1, n)[n] = NEWLINE
  <2>1. NEWLINE # c
    BY ClientAssumption
  <2> QED
    BY <1>1, <1>3, <2>1 DEF HasNewline, OwnLine
<1> QED
  BY <1>1, <1>3, <1>4, <1>5

(* recv and write of a piece. *)
LEMMA LinesRecv == ASSUME LeakInv, LinesInv, NEW c \in Client, Recv(c) PROVE LinesInv'
<1>1. PICK n \in 1 .. Len(stream[c]) :
        /\ stream' = [stream EXCEPT ![c] = SubSeq(@, n + 1, Len(@))]
        /\ \/ file' = file \o SubSeq(stream[c], 1, n) /\ lost' = lost
           \/ "write" \in Faults /\ file' = file /\ lost' = lost \cup {c}
        /\ main' = [main EXCEPT !.pc = IF HasNewline(SubSeq(stream[c], 1, n)) THEN "reopen"
                                                                           ELSE "recv"]
  BY DEF Recv
<1> DEFINE buffer == SubSeq(stream[c], 1, n)
<1>2. /\ main \in Process /\ main.pc = "recv" /\ main.pc \in Serving /\ c \in Current
      /\ [Next]_vars /\ stream \in [Client -> Seq(Byte)] /\ file \in Seq(Byte)
  BY DEF LeakInv, TypeOK, Recv, Serving, Next, Main, LinesInv
<1>3. main.fds[main.new_fd] = c
  BY <1>2, CurrentIs
<1>4. /\ main'.pc = IF HasNewline(buffer) THEN "reopen" ELSE "recv"
      /\ main'.fds = main.fds /\ main'.new_fd = main.new_fd
  BY <1>1, <1>2 DEF Process
<1>5. /\ buffer \in Seq(Byte) /\ Len(buffer) = n /\ OwnLine(c, buffer)
      /\ OwnLine(c, SubSeq(stream[c], n + 1, Len(stream[c])))
      /\ HasNewline(buffer) => buffer[n] = NEWLINE
  BY <1>2, OwnLineCut DEF LinesInv
<1>6. \A d \in Client : OwnLine(d, stream'[d])
  BY <1>1, <1>2, <1>5 DEF LinesInv
<1>7. CASE file' = file \o buffer
  <2>1. buffer # <<>>
    BY <1>5
  <2> HIDE DEF buffer
  <2>2. file' \in Seq(Byte) /\ Len(file') = Len(file) + n /\ file'[Len(file) + n] = buffer[n]
    <3>1. file \in Seq(Byte) /\ buffer \in Seq(Byte) /\ Len(buffer) = n /\ n \in 1 .. n
      BY <1>2, <1>5
    <3>2. /\ file \o buffer \in Seq(Byte) /\ Len(file \o buffer) = Len(file) + Len(buffer)
          /\ \A i \in 1 .. Len(buffer) : (file \o buffer)[Len(file) + i] = buffer[i]
      BY <3>1
    <3> QED
      BY <1>7, <3>1, <3>2
  <2>3. LinesWhole'
    BY <1>2, <1>3, <1>5, <1>7, <2>1, LinesAppended
  <2>4. buffer[n] \in Client => main'.pc = "recv" /\ main'.fds[main'.new_fd] = buffer[n]
    BY <1>3, <1>4, <1>5, ClientAssumption DEF OwnLine
  <2>5. Finished'
    BY <2>2, <2>4 DEF Finished
  <2> QED
    BY <1>6, <2>2, <2>3, <2>5 DEF LinesInv
<1>8. CASE file' = file /\ lost' = lost \cup {c}
  <2> DEFINE Ex(d) == d \in lost' \/ \E k \in 1 .. main'.start : <<d, k>> \in cut'
  <2>1. \A d : Excused(d) => Ex(d)
    BY <1>2, ExcusedStays DEF Excused
  <2>2. Ex(c)
    BY <1>8
  <2> HIDE DEF Ex
  <2>3. file # NULL
    BY <1>2, FileAssumption DEF Byte
  <2>4. \A i \in 1 .. Len(file) - 1 :
          {file[i], file[i + 1]} \subseteq Client /\ file[i] # file[i + 1] => Ex(file[i])
    BY <2>1, <2>3, WholeIs DEF LinesInv
  <2>5. LinesWhole'
    BY <1>8, <2>4 DEF LinesWhole, Ex
  <2>6. Len(file) > 0 /\ file[Len(file)] \in Client => Ex(file[Len(file)])
    BY <1>3, <2>1, <2>2, <2>3 DEF LinesInv, Finished
  <2>7. Finished'
    BY <1>8, <2>6 DEF Finished, Excused, Ex
  <2> QED
    BY <1>2, <1>6, <1>8, <2>5, <2>7 DEF LinesInv
<1> QED
  BY <1>1, <1>7, <1>8

(* The client being served ends its connection, and is excused. *)
LEMMA LinesRecvEnds == ASSUME LeakInv, LinesInv, RecvEnds PROVE LinesInv'
<1>1. /\ main \in Process /\ main.pc = "recv" /\ main.pc \in Serving /\ [Next]_vars
      /\ cut' = cut \cup (Current \X {main.start}) /\ main' = [main EXCEPT !.pc = "close"]
      /\ UNCHANGED <<file, stream>>
  BY DEF LeakInv, TypeOK, RecvEnds, Serving, Next, Main, clients
<1>2. main'.start = main.start /\ main.start \in 1 .. main.start
  BY <1>1 DEF Process
<1>3. ASSUME main.fds[main.new_fd] \in Client
      PROVE  \E n \in 1 .. main'.start : <<main.fds[main.new_fd], n>> \in cut'
  <2>1. main.fds[main.new_fd] \in Current
    BY <1>1, <1>3, CurrentIs
  <2> QED
    BY <1>1, <1>2, <2>1
<1> QED
  BY <1>1, <1>3, LinesKept DEF LinesInv, Serving

(* open creates the file if there is none. *)
LEMMA LinesOpen == ASSUME LeakInv, LinesInv, Open PROVE LinesInv'
<1>1. /\ [Next]_vars /\ main.pc = "open" /\ UNCHANGED stream
      /\ file' = IF file = NULL THEN <<>> ELSE file
  BY DEF Open, Next, Main, clients
<1>2. CASE file = NULL
  BY <1>1, <1>2 DEF LinesInv, Finished, LinesWhole
<1>3. CASE file # NULL
  BY <1>1, <1>3, LinesKept DEF LinesInv
<1> QED
  BY <1>2, <1>3

(* The steps that neither receive nor open leave the file as it is, or     *)
(* remove it.                                                              *)
LEMMA LinesQuiet ==
  ASSUME LeakInv, LinesInv,
         \/ Bind \/ daemonize \/ Listen \/ StartFails \/ OpenFails \/ Reopen \/ ReopenFails
         \/ Close \/ SendFails \/ handle_signal \/ Restart
         \/ \E c \in Client : Accept(c) \/ ReadSend(c)
  PROVE  LinesInv'
<1>1. [Next]_vars /\ main \in Process
  BY DEF Next, Main, LeakInv, TypeOK
<1>2. CASE handle_signal
  <2>1. file' = NULL /\ UNCHANGED stream
    BY <1>2 DEF handle_signal, Exit
  <2>2. main'.pc = "down"
    BY <1>1, <1>2 DEF handle_signal, Exit, Process
  <2> QED
    BY <1>1, <2>1, <2>2, LinesKept DEF Serving
<1>3. CASE ~handle_signal
  <2>1. /\ UNCHANGED <<file, stream>> /\ main.pc # "recv"
    BY <1>3 DEF Bind, daemonize, Listen, StartFails, OpenFails, Reopen, ReopenFails, Close,
                SendFails, Restart, Accept, ReadSend, Exit, Hangup, clients
  <2>2. main'.pc \in Serving \ {"open"} => main.pc \in Serving \ {"open"}
    <3>1. CASE Reopen \/ ReopenFails \/ \E c \in Client : ReadSend(c)
      BY <3>1 DEF Reopen, ReopenFails, ReadSend, Serving
    <3>2. CASE StartFails \/ SendFails
      BY <1>1, <3>2 DEF StartFails, SendFails, Exit, Process, Serving
    <3>3. CASE Bind \/ daemonize \/ Listen
      BY <1>1, <3>3 DEF Bind, daemonize, Listen, Process, Serving
    <3>4. CASE OpenFails \/ Close \/ \E c \in Client : Accept(c)
      BY <1>1, <3>4 DEF OpenFails, Close, Accept, Process, Serving
    <3>5. CASE Restart
      BY <3>5 DEF Restart, Started, Serving
    <3> QED
      BY <1>3, <3>1, <3>2, <3>3, <3>4, <3>5
  <2> QED
    BY <1>1, <2>1, <2>2, LinesKept DEF LinesInv
<1> QED
  BY <1>2, <1>3

(* Every step of the old server preserves the lines. *)
LEMMA LinesNext == LeakInv /\ LinesInv /\ [Next]_vars => LinesInv'
<1> SUFFICES ASSUME LeakInv, LinesInv, [Next]_vars PROVE LinesInv'
  OBVIOUS
<1>1. CASE UNCHANGED <<main, file, stream, cut, lost>>
  BY <1>1 DEF LinesInv, Finished, LinesWhole, Excused, OwnLine
<1>2. CASE LingerEnds \/ UNCHANGED vars
  BY <1>1, <1>2 DEF LingerEnds, vars, clients, history
<1> QED
  BY <1>2, LinesQuiet, LinesOpen, LinesRecv, LinesRecvEnds DEF Next, Main

(* Clients that send one line each: nobody's bytes are put on the line of  *)
(* another client, in whatever pieces they arrive and however often the    *)
(* old server ends and is started again, but for those of clients that     *)
(* broke off or whose bytes could not be written.                          *)
THEOREM OldLinesWhole == ASSUME OneLineEach PROVE Spec => []LinesWhole
<1>1. Init => LeakInv /\ LinesInv
  BY LeakInit, LinesInit
<1>2. LeakInv /\ LinesInv /\ [Next]_vars => (LeakInv /\ LinesInv)'
  BY LeakNext, LinesNext
<1>3. LinesInv => LinesWhole
  BY DEF LinesInv
<1> QED
  BY <1>1, <1>2, <1>3, PTL DEF Spec
=============================================================================
