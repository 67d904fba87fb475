-------------------------- MODULE AesdSocketProofs --------------------------
(***************************************************************************)
(* What TLAPS proves about the server of AesdSocket, for any number of     *)
(* clients, any scripts, any size of the buffer, and any faults.           *)
(***************************************************************************)
EXTENDS AesdSocket, FlattenLemmas

Token == Client \cup {NEWLINE, SEEKTO} \cup Nat

Local == [buffer : Seq(Token), buffer_size : Nat \ {0}, allocated : Nat,
          fd : {"none", "chardev", "regular"}, pos : Nat]

Places == {"none", "threadfunc", "recv", "received", "ioctl", "seek_read", "seek_done",
           "seek_unlock", "second_unlock", "write", "relock", "read", "answered", "ended"}

TypeOK ==
  /\ running \in BOOLEAN /\ restarts \in Nat
  /\ mainpc \in {"accept", "insert", "sweep", "down", "hung"}
  /\ list \in Seq(Client) /\ todo \in Seq(Client)
  /\ handler \in Client \cup {NULL, MAIN} /\ hpc \in {"none", "destroy", "exit"}
  /\ conn \in [Client -> {"queued", "open", "closed"}]
  /\ stream \in [Client -> Seq(Token)] /\ script \in [Client -> Scripts]
  /\ sent \in [Client -> Seq(Token)]
  /\ pc \in [Client -> Places] /\ local \in [Client -> Local]
  /\ status \in [Client -> BOOLEAN] /\ mutex \in Client \cup {NULL, DESTROYED}
  /\ node \in {"chardev", "regular", "absent"}
  /\ log \in Seq(Seq(Token)) /\ pending \in Seq(Token)
  /\ stuck \in BOOLEAN /\ regular \in Seq(Token)

(* Between recv and the seek the buffer is what the branch was chosen for: *)
(* the argument of an ioctl is a pair of numbers.                          *)
SeekParsed ==
  \A c \in Client : pc[c] \in {"ioctl", "seek_read"} =>
    /\ IsSeek(local[c].buffer) /\ Parsed(local[c].buffer)
    /\ SeekTo(local[c].buffer) \in Nat \X Nat
-----------------------------------------------------------------------------
(* The buffer grows with its size while the thread receives, and a thread  *)
(* that has none starts with an empty one.                                 *)
BufferInv ==
  /\ BufferHolds
  /\ \A c \in Client :
       /\ pc[c] = "recv" => local[c].allocated = local[c].buffer_size
       /\ pc[c] \in {"none", "threadfunc", "ended"} => local[c] = NoLocal

(* Between accept and the insertion exactly the new node is outside the    *)
(* list, and no thread outlives the process.                               *)
NodeInv ==
  /\ NodeOutlivesThread
  /\ running = (mainpc \notin {"down", "hung"})
  /\ ~running => \A c \in Client : pc[c] \in {"none", "ended"}
  /\ \A c \in Client : conn[c] = "queued" => pc[c] = "none"

(* As long as nothing has gone wrong the thread inside has the mutex, and  *)
(* nobody is about to unlock it a second time.                             *)
Healthy == ~stuck /\ node # "regular" /\ ~stop

MutexInv ==
  /\ stop => running
  /\ mutex = DESTROYED => stop
  /\ \A c \in Client : local[c].fd = "regular" => node = "regular" \/ stop
  /\ Healthy => \A c \in Client : /\ pc[c] \in Inside => mutex = c
                                  /\ pc[c] # "second_unlock"
-----------------------------------------------------------------------------
(* The clients that CommandFromOneClient is about: one that shuts its side *)
(* has sent a newline or nothing, or begins with a seek.  No write fails,  *)
(* and no realloc cuts a message.                                          *)
WholeScripts ==
  /\ "realloc" \notin Faults /\ "write" \notin Faults
  /\ \A s \in Scripts : s.closes =>
       \/ s.tokens = <<>> \/ s.tokens[1] = SEEKTO
       \/ \E i \in 1 .. Len(s.tokens) : s.tokens[i] = NEWLINE

HasNewline(s) == \E i \in 1 .. Len(s) : s[i] = NEWLINE

(* All of s that is somebody's data is c's. *)
Own(c, s) == \A i \in 1 .. Len(s) : s[i] \in Client => s[i] = c

(* A thread leaves the receive loop only with a whole message or a seek,   *)
(* or with nothing.                                                        *)
WholeOf(c) ==
  /\ Own(c, stream[c]) /\ Own(c, local[c].buffer)
  /\ pc[c] = "recv" => ~MessageEnds(local[c].buffer)
  /\ pc[c] \in {"none", "threadfunc", "recv"} /\ script[c].closes =>
       \/ HasNewline(stream[c])
       \/ local[c].buffer = <<>> /\ (stream[c] = <<>> \/ stream[c][1] = SEEKTO)
  /\ pc[c] = "received" => local[c].buffer = <<>> \/ MessageEnds(local[c].buffer)
  /\ pc[c] = "write" => HasNewline(local[c].buffer)

WholeInv ==
  /\ pending = <<>>
  /\ \A k \in 1 .. Len(log) : \E c \in Client : Own(c, log[k])
  /\ \A c \in Client : WholeOf(c)
-----------------------------------------------------------------------------
(* The answer grows with the position of the file: from its begin, or from *)
(* where the seek put it.  Until a signal nobody removes the file that a   *)
(* thread has open; the commands change only while the writer is alone     *)
(* inside, and a regular file, which a failed ioctl may open to two        *)
(* threads, only grows at its end.                                         *)
Start(c) ==
  IF pc[c] = "seek_read"
  THEN LET arg == SeekTo(local[c].buffer)
       IN  Len(FlattenSeq(SubSeq(log, 1, arg[1]))) + arg[2]
  ELSE 0

(* What is read: the content of the file that is open. *)
AllOf(l) == IF l.fd = "regular" THEN regular ELSE Device!Content(log)

Answering(c) ==
  /\ pc[c] \in {"ioctl", "seek_read", "write", "read"} => local[c].fd = node
  /\ pc[c] = "seek_read" => local[c].fd = "chardev"
  /\ pc[c] = "seek_read" /\ ~stuck => InRange(SeekTo(local[c].buffer))
  /\ pc[c] \in {"read", "seek_read"} /\ (local[c].fd = "chardev" => ~stuck) =>
       /\ Start(c) <= local[c].pos /\ local[c].pos <= Len(AllOf(local[c]))
       /\ sent[c] = SubSeq(AllOf(local[c]), Start(c) + 1, local[c].pos)

Unanswered == {"none", "threadfunc", "recv", "received", "ioctl", "write", "relock"}

AnswerOf(c) ==
  /\ pc[c] \in Unanswered => sent[c] = <<>>
  /\ ~stop => Answering(c)

AnswerInv == \A c \in Client : AnswerOf(c)
-----------------------------------------------------------------------------
(* What a read returns: bytes of the file from the position on, and none   *)
(* only at its end.                                                        *)

(* The content of the device is the concatenation of its commands. *)
LEMMA ContentIs ==
  ASSUME NEW s
  PROVE  Device!Content(s) = FlattenSeq(s)
BY DEF Device!Content, Device!FlattenSeq, FlattenSeq

(* The content of the device, whole or up to a command, consists of tokens. *)
LEMMA ContentType ==
  ASSUME TypeOK
  PROVE  /\ Device!Content(log) \in Seq(Token)
         /\ \A k \in 0 .. Len(log) : Device!Content(SubSeq(log, 1, k)) \in Seq(Token)
<1>1. log \in Seq(Seq(Token))
  BY DEF TypeOK
<1> QED
  BY <1>1, FlattenType, FlattenGrows, ContentIs

(* The command that holds a position inside the content exists. *)
LEMMA CommandAtHolds ==
  ASSUME TypeOK, NEW p \in Nat, p < Len(Device!Content(log))
  PROVE  /\ CommandAt(p) \in 1 .. Len(log)
         /\ p < Len(Device!Content(SubSeq(log, 1, CommandAt(p))))
<1> DEFINE C(k) == Len(Device!Content(SubSeq(log, 1, k)))
           T == {k \in 0 .. Len(log) : p < C(k)}
           m == Min(T)
<1>1. log \in Seq(Seq(Token)) /\ Len(log) \in Nat
  BY DEF TypeOK
<1>2. C(0) = 0 /\ C(Len(log)) = Len(Device!Content(log)) /\ \A k \in 0 .. Len(log) : C(k) \in Nat
  <2>1. /\ FlattenSeq(SubSeq(log, 1, 0)) = <<>>
        /\ FlattenSeq(SubSeq(log, 1, Len(log))) = FlattenSeq(log)
        /\ \A k \in 0 .. Len(log) : FlattenSeq(SubSeq(log, 1, k)) \in Seq(Token)
    BY <1>1, FlattenGrows
  <2>2. \A x \in Seq(Token) : Len(x) \in Nat
    OBVIOUS
  <2>3. Len(<<>>) = 0
    OBVIOUS
  <2> QED
    BY <2>1, <2>2, <2>3, ContentIs
<1> HIDE DEF C
<1>3. T \subseteq Nat /\ Len(log) \in T
  BY <1>1, <1>2
<1>4. m \in T /\ \A y \in T : m <= y
  BY <1>3, LeastNat
<1> HIDE DEF m
<1>5. m \in 1 .. Len(log) /\ p < C(m)
  BY <1>1, <1>2, <1>4
<1>6. C(m - 1) <= p
  <2>1. m - 1 \in 0 .. Len(log) /\ ~(m <= m - 1)
    BY <1>1, <1>5
  <2>2. m - 1 \notin T
    BY <1>4, <2>1
  <2>3. C(m - 1) \in Nat
    BY <1>2, <2>1
  <2> QED
    BY <2>1, <2>2, <2>3
<1>7. \E k \in 1 .. Len(log) : C(k - 1) <= p /\ p < C(k)
  BY <1>5, <1>6
<1> QED
  BY <1>7 DEF CommandAt, C

(* A read returns the bytes at the position, and none only at the end. *)
LEMMA ReadReturns ==
  ASSUME TypeOK, NEW l \in Local
  PROVE  /\ AllOf(l) \in Seq(Token) /\ ReadBytes(l) \in Seq(Token)
         /\ ReadBytes(l) = <<>> => l.pos >= Len(AllOf(l))
         /\ ReadBytes(l) # <<>> =>
              /\ l.pos + Len(ReadBytes(l)) <= Len(AllOf(l))
              /\ ReadBytes(l) = SubSeq(AllOf(l), l.pos + 1, l.pos + Len(ReadBytes(l)))
<1> DEFINE all == AllOf(l)
           limit == ReadLimit(l)
           pos == l.pos
           size == l.buffer_size
           last == IF pos + size < limit THEN pos + size ELSE limit
           bytes == SubSeq(all, pos + 1, last)
<1>1. pos \in Nat /\ size \in Nat \ {0}
  BY DEF Local
<1>2. all \in Seq(Token) /\ Len(all) \in Nat
  <2>1. regular \in Seq(Token) /\ Device!Content(log) \in Seq(Token)
    BY ContentType DEF TypeOK
  <2>2. all \in Seq(Token)
    BY <2>1 DEF AllOf
  <2> HIDE DEF all
  <2> QED
    BY <2>2
<1>3. /\ limit \in Nat
      /\ limit <= Len(all) \/ limit = pos
      /\ pos < Len(all) => pos < limit
  <2>1. CASE l.fd = "regular"
    <3>1. limit = Len(all)
      BY <2>1 DEF ReadLimit, AllOf
    <3> HIDE DEF limit, all, pos
    <3> QED
      BY <1>2, <3>1
  <2>2. CASE l.fd # "regular" /\ pos >= Len(Device!Content(log))
    <3>1. limit = pos /\ all = Device!Content(log)
      BY <2>2 DEF ReadLimit, AllOf
    <3> QED
      BY <1>1, <1>2, <2>2, <3>1
  <2>3. CASE l.fd # "regular" /\ ~(pos >= Len(Device!Content(log)))
    <3> DEFINE k == CommandAt(pos)
    <3>1. limit = Len(Device!Content(SubSeq(log, 1, k))) /\ all = Device!Content(log)
      BY <2>3 DEF ReadLimit, AllOf
    <3>2. pos < Len(Device!Content(log))
      BY <1>1, <1>2, <2>3, <3>1
    <3>3. k \in 1 .. Len(log) /\ pos < limit
      BY <1>1, <3>1, <3>2, CommandAtHolds
    <3> HIDE DEF limit, all, k
    <3>4. log \in Seq(Seq(Token)) /\ k \in 0 .. Len(log) /\ Len(log) \in k .. Len(log)
      BY <3>3 DEF TypeOK
    <3>5. Len(FlattenSeq(SubSeq(log, 1, k))) <= Len(FlattenSeq(SubSeq(log, 1, Len(log))))
      BY <3>4, FlattenMonotonic
    <3>6. FlattenSeq(SubSeq(log, 1, Len(log))) = FlattenSeq(log)
      BY <3>4, FlattenGrows
    <3>7. limit <= Len(all)
      BY <3>1, <3>5, <3>6, ContentIs
    <3>8. Device!Content(SubSeq(log, 1, k)) \in Seq(Token)
      BY <3>4, ContentType
    <3>9. limit \in Nat
      BY <3>1, <3>8
    <3> QED
      BY <3>3, <3>7, <3>9
  <2> QED
    BY <2>1, <2>2, <2>3
<1>4. ReadBytes(l) = bytes
  BY DEF ReadBytes, AllOf
<1> HIDE DEF all, limit, pos, size
<1>5. last \in Nat /\ (last <= Len(all) \/ last = pos) /\ (pos < Len(all) => pos < last)
  BY <1>1, <1>2, <1>3
<1> HIDE DEF last
<1>6. \A i \in pos + 1 .. last : all[i] \in Token
  BY <1>1, <1>2, <1>5
<1>7. bytes \in Seq(Token) /\ Len(bytes) = IF pos + 1 <= last THEN last - (pos + 1) + 1 ELSE 0
  BY <1>1, <1>5, <1>6, SubSeqProperties
<1>8. bytes = <<>> => pos >= Len(all)
  <2>1. SUFFICES ASSUME bytes = <<>>, pos < Len(all) PROVE FALSE
    BY <1>1, <1>2
  <2>2. Len(<<>>) = 0
    OBVIOUS
  <2> HIDE DEF bytes
  <2> QED
    BY <1>1, <1>2, <1>5, <1>7, <2>1, <2>2
<1>9. bytes # <<>> => pos + Len(bytes) = last /\ last <= Len(all)
  <2>1. SUFFICES ASSUME bytes # <<>> PROVE pos + Len(bytes) = last /\ last <= Len(all)
    OBVIOUS
  <2>2. Len(bytes) # 0
    BY <1>7, <2>1
  <2> HIDE DEF bytes
  <2> QED
    BY <1>1, <1>2, <1>5, <1>7, <2>2
<1> QED
  BY <1>2, <1>4, <1>7, <1>8, <1>9 DEF all, pos
-----------------------------------------------------------------------------
(* The argument of a seek. *)

(* Y ends where its digits do. *)
LEMMA NumberEnds ==
  ASSUME NEW b \in Seq(Token), Parsed(b)
  PROVE  /\ NumberEnd(b) \in 4 .. Len(b) + 1
         /\ \A i \in 3 .. NumberEnd(b) - 1 : IsDigit(b[i])
         /\ NumberEnd(b) <= Len(b) => ~IsDigit(b[NumberEnd(b)])
<1> DEFINE T == {i \in 3 .. Len(b) + 1 : i <= Len(b) => ~IsDigit(b[i])}
           m == Min(T)
<1>1. Len(b) \in Nat /\ Len(b) >= 3 /\ IsDigit(b[3])
  BY DEF Parsed
<1>2. T \subseteq Nat /\ Len(b) + 1 \in T
  BY <1>1
<1>3. m \in T /\ \A i \in T : m <= i
  BY <1>2, LeastNat
<1>4. NumberEnd(b) = m
  BY DEF NumberEnd
<1> HIDE DEF m
<1>5. m \in 3 .. Len(b) + 1 /\ (m <= Len(b) => ~IsDigit(b[m]))
  BY <1>3
<1>6. m # 3
  BY <1>1, <1>5
<1>7. ASSUME NEW i \in 3 .. m - 1, ~IsDigit(b[i]) PROVE FALSE
  <2>1. i \in 3 .. Len(b) + 1 /\ ~(m <= i)
    BY <1>1, <1>5
  <2>2. i \in T
    BY <1>7, <2>1
  <2> QED
    BY <1>3, <2>1, <2>2
<1>8. m \in 4 .. Len(b) + 1
  BY <1>1, <1>5, <1>6
<1> QED
  BY <1>4, <1>5, <1>7, <1>8

(* sscanf finds two numbers. *)
LEMMA SeekToType ==
  ASSUME NEW b \in Seq(Token), Parsed(b)
  PROVE  SeekTo(b) \in Nat \X Nat
<1> DEFINE n == NumberEnd(b) - 1
<1>1. Len(b) \in Nat /\ Len(b) >= 3 /\ IsDigit(b[2])
  BY DEF Parsed
<1>2. n \in 3 .. Len(b) /\ IsDigit(b[n])
  <2>1. NumberEnd(b) \in 4 .. Len(b) + 1 /\ \A i \in 3 .. NumberEnd(b) - 1 : IsDigit(b[i])
    BY NumberEnds
  <2> QED
    BY <1>1, <2>1
<1> HIDE DEF n
<1>3. b[2] \in Token /\ b[n] \in Token
  BY <1>1, <1>2
<1>4. b[2] \in Nat /\ b[n] \in Nat
  BY <1>1, <1>2, <1>3 DEF IsDigit, Token
<1> QED
  BY <1>4 DEF SeekTo, n

(* Of a request that is not cut inside Y, what has arrived says as much as *)
(* the whole.                                                              *)
LEMMA SeekToWhole ==
  ASSUME NEW b \in Seq(Token), NEW s \in Seq(Token), Parsed(b),
         ~(s # <<>> /\ IsDigit(Head(s)))
  PROVE  SeekTo(b \o s) = SeekTo(b)
<1> DEFINE w == b \o s
           n == NumberEnd(b)
           m == NumberEnd(w)
<1>1. Len(b) \in Nat /\ Len(b) >= 3 /\ IsDigit(b[2]) /\ IsDigit(b[3]) /\ Len(s) \in Nat
  BY DEF Parsed
<1>2. /\ w \in Seq(Token) /\ Len(w) = Len(b) + Len(s)
      /\ \A i \in 1 .. Len(b) : w[i] = b[i]
  BY <1>1
<1>3. s # <<>> => Len(w) >= Len(b) + 1 /\ ~IsDigit(w[Len(b) + 1])
  <2>1. SUFFICES ASSUME s # <<>> PROVE Len(w) >= Len(b) + 1 /\ w[Len(b) + 1] = Head(s)
    OBVIOUS
  <2>2. Len(s) >= 1 /\ Head(s) = s[1]
    BY <1>1, <2>1
  <2>3. w[Len(b) + 1] = s[1]
    BY <1>1, <2>2
  <2> QED
    BY <1>1, <1>2, <2>2, <2>3
<1> HIDE DEF w
<1>4. Parsed(w)
  BY <1>1, <1>2 DEF Parsed
<1>5. /\ n \in 4 .. Len(b) + 1 /\ \A i \in 3 .. n - 1 : IsDigit(b[i])
      /\ n <= Len(b) => ~IsDigit(b[n])
  BY NumberEnds
<1>6. /\ m \in 4 .. Len(w) + 1 /\ \A i \in 3 .. m - 1 : IsDigit(w[i])
      /\ m <= Len(w) => ~IsDigit(w[m])
  BY <1>2, <1>4, NumberEnds
<1> HIDE DEF n, m
<1>7. s = <<>> => Len(s) = 0
  OBVIOUS
<1>8. ~(n < m)
  <2>1. SUFFICES ASSUME n < m PROVE FALSE
    OBVIOUS
  <2>2. n \in 3 .. m - 1 /\ n <= Len(w)
    BY <1>1, <1>2, <1>5, <1>6, <2>1
  <2>3. IsDigit(w[n])
    BY <1>6, <2>2
  <2>4. CASE n <= Len(b)
    BY <1>1, <1>2, <1>5, <2>3, <2>4
  <2>5. CASE n = Len(b) + 1
    BY <1>1, <1>2, <1>3, <1>7, <2>2, <2>3, <2>5
  <2> QED
    BY <1>1, <1>5, <2>4, <2>5
<1>9. ~(m < n)
  <2>1. SUFFICES ASSUME m < n PROVE FALSE
    OBVIOUS
  <2>2. m \in 3 .. n - 1 /\ m \in 1 .. Len(b) /\ m <= Len(w)
    BY <1>1, <1>2, <1>5, <1>6, <2>1
  <2> QED
    BY <1>2, <1>5, <1>6, <2>2
<1>10. m = n
  BY <1>1, <1>2, <1>5, <1>6, <1>8, <1>9
<1>11. w[2] = b[2] /\ w[n - 1] = b[n - 1]
  <2>1. 2 \in 1 .. Len(b) /\ n - 1 \in 1 .. Len(b)
    BY <1>1, <1>5
  <2> QED
    BY <1>2, <2>1
<1> QED
  BY <1>10, <1>11 DEF SeekTo, n, m, w
-----------------------------------------------------------------------------
(* Types. *)
LEMMA NoLocalType == NoLocal \in Local
BY BufferAssumption DEF NoLocal, Local

(* The clients have their scripts to send, and nothing else has happened. *)
LEMMA TypeInit == Init => TypeOK /\ SeekParsed
<1> SUFFICES ASSUME Init PROVE TypeOK /\ SeekParsed
  OBVIOUS
<1>1. /\ script \in [Client -> Scripts]
      /\ stream = [c \in Client |->
           [i \in 1 .. Len(script[c].tokens) |->
              IF script[c].tokens[i] = DATA THEN c ELSE script[c].tokens[i]]]
  BY DEF Init
<1>2. ASSUME NEW c \in Client PROVE stream[c] \in Seq(Token)
  <2> DEFINE s == script[c].tokens
             S == {DATA, NEWLINE, SEEKTO} \cup Nat
  <2>1. s \in Seq(S)
    BY <1>1, ScriptsAssumption
  <2>2. stream[c] = [i \in 1 .. Len(s) |-> IF s[i] = DATA THEN c ELSE s[i]]
    BY <1>1
  <2> HIDE DEF s
  <2>3. Len(s) \in Nat /\ \A i \in 1 .. Len(s) : s[i] \in S
    BY <2>1
  <2>4. \A i \in 1 .. Len(s) : (IF s[i] = DATA THEN c ELSE s[i]) \in Token
    BY <2>3 DEF Token
  <2> HIDE DEF S
  <2>5. stream[c] \in [1 .. Len(s) -> Token]
    BY <2>2, <2>4
  <2> QED
    BY <2>3, <2>5, SeqDef
<1>3. stream \in [Client -> Seq(Token)]
  BY <1>1, <1>2
<1>5. TypeOK
  <2>1. /\ conn \in [Client -> {"queued", "open", "closed"}]
        /\ sent \in [Client -> Seq(Token)] /\ status \in [Client -> BOOLEAN]
        /\ pc \in [Client -> Places]
    BY DEF Init, Places
  <2>2. local \in [Client -> Local]
    BY NoLocalType DEF Init
  <2>3. /\ list \in Seq(Client) /\ todo \in Seq(Client) /\ log \in Seq(Seq(Token))
        /\ pending \in Seq(Token) /\ regular \in Seq(Token)
    BY DEF Init
  <2>4. /\ running \in BOOLEAN /\ restarts \in Nat /\ stuck \in BOOLEAN
        /\ mainpc \in {"accept", "insert", "sweep", "down", "hung"}
        /\ handler \in Client \cup {NULL, MAIN} /\ hpc \in {"none", "destroy", "exit"}
        /\ mutex \in Client \cup {NULL, DESTROYED}
        /\ node \in {"chardev", "regular", "absent"}
    BY DEF Init
  <2> QED
    BY <1>1, <1>3, <2>1, <2>2, <2>3, <2>4 DEF TypeOK
<1> QED
  BY <1>5 DEF Init, SeekParsed

(* The position of a seek in range is a number. *)
LEMMA SeekPosType ==
  ASSUME TypeOK, NEW arg \in Nat \X Nat, InRange(arg)
  PROVE  SeekPos(arg) \in Nat
<1>1. arg[1] \in 0 .. Len(log) /\ arg[2] \in Nat
  BY DEF TypeOK, InRange
<1>2. Device!Content(SubSeq(log, 1, arg[1])) \in Seq(Token)
  BY <1>1, ContentType
<1> QED
  BY <1>1, <1>2 DEF SeekPos

(* A message of no tokens is one of any tokens. *)
LEMMA NoTokens == \A S : <<>> \in Seq(S)
OBVIOUS

(* What a write makes of the device or of the file. *)
LEMMA DeviceTypes ==
  ASSUME TypeOK, NEW c \in Client,
         \/ Device!Write(local[c].buffer) /\ UNCHANGED regular
         \/ UNCHANGED <<log, pending>> /\ regular' \in {regular, regular \o local[c].buffer}
         \/ (Device!WriteNoMemory(local[c].buffer) \/ Device!WriteFault) /\ UNCHANGED regular
  PROVE  log' \in Seq(Seq(Token)) /\ pending' \in Seq(Token) /\ regular' \in Seq(Token)
<1> DEFINE b == local[c].buffer
           bytes == pending \o b
<1>1. b \in Seq(Token) /\ log \in Seq(Seq(Token)) /\ pending \in Seq(Token) /\ regular \in Seq(Token)
  BY DEF TypeOK, Local
<1>2. bytes \in Seq(Token) /\ regular \o b \in Seq(Token)
  BY <1>1
<1> HIDE DEF bytes
<1>3. Append(log, bytes) \in Seq(Seq(Token))
  BY <1>1, <1>2
<1>4. ASSUME ~(Len(log) < Capacity) PROVE Append(Tail(log), bytes) \in Seq(Seq(Token))
  <2>1. log # <<>>
    BY <1>4, CapacityAssumption
  <2> QED
    BY <1>1, <1>2, <2>1
<1>5. CASE Device!Write(b) /\ UNCHANGED regular
  <2>1. pending' \in {<<>>, bytes} /\ log' \in {log, Device!Pushed(log, bytes)}
    BY <1>5 DEF Device!Write, bytes
  <2>2. Device!Pushed(log, bytes) \in Seq(Seq(Token))
    BY <1>3, <1>4 DEF Device!Pushed
  <2> QED
    BY <1>1, <1>2, <1>5, <2>1, <2>2, NoTokens
<1>6. CASE UNCHANGED <<log, pending>> /\ regular' \in {regular, regular \o b}
  BY <1>1, <1>2, <1>6
<1>7. CASE (Device!WriteNoMemory(b) \/ Device!WriteFault) /\ UNCHANGED regular
  <2>1. pending' \in {<<>>, bytes} /\ log' = log
    BY <1>7 DEF Device!WriteNoMemory, Device!WriteFault, bytes
  <2> QED
    BY <1>1, <1>2, <1>7, <2>1, NoTokens
<1> QED
  BY <1>5, <1>6, <1>7

(* One recv of n bytes, after which the size is size and the memory a. *)
Received(c, n) == local[c].buffer \o SubSeq(stream[c], 1, n)

Receives(c, n, size, a, where) ==
  /\ stream' = [stream EXCEPT ![c] = SubSeq(stream[c], n + 1, Len(stream[c]))]
  /\ local' = [local EXCEPT ![c] = [@ EXCEPT !.buffer = Received(c, n), !.buffer_size = size,
                                             !.allocated = a]]
  /\ pc' = [pc EXCEPT ![c] = where]
  /\ n <= Room(local[c])
  /\ size = IF Len(Received(c, n)) >= local[c].buffer_size - 1 THEN 2 * local[c].buffer_size
            ELSE local[c].buffer_size
  /\ \/ a = size /\ where = IF MessageEnds(Received(c, n)) THEN "received" ELSE "recv"
     \/ "realloc" \in Faults /\ a = local[c].allocated /\ where = "received"

(* What recv takes from a client and what it leaves. *)
LEMMA RecvTypes ==
  ASSUME TypeOK, NEW c \in Client, NEW n \in 1 .. Len(stream[c])
  PROVE  /\ SubSeq(stream[c], 1, n) \in Seq(Token) /\ Len(SubSeq(stream[c], 1, n)) = n
         /\ SubSeq(stream[c], n + 1, Len(stream[c])) \in Seq(Token)
         /\ Received(c, n) \in Seq(Token)
         /\ Len(Received(c, n)) = Len(local[c].buffer) + n
<1> DEFINE s == stream[c]
           b == local[c].buffer
<1>1. s \in Seq(Token) /\ b \in Seq(Token)
  BY DEF TypeOK, Local
<1>2. n \in 1 .. Len(s)
  OBVIOUS
<1> HIDE DEF s, b
<1>3. \A i \in 1 .. Len(s) : s[i] \in Token
  BY <1>1
<1>4. SubSeq(s, 1, n) \in Seq(Token) /\ Len(SubSeq(s, 1, n)) = n
  BY <1>1, <1>2, <1>3
<1>5. SubSeq(s, n + 1, Len(s)) \in Seq(Token)
  <2>1. \A i \in n + 1 .. Len(s) : s[i] \in Token
    BY <1>1, <1>2, <1>3
  <2> QED
    BY <1>1, <1>2, <2>1, SubSeqProperties
<1> DEFINE u == SubSeq(s, 1, n)
<1>6. u \in Seq(Token) /\ Len(u) = n
  BY <1>4
<1> HIDE DEF u
<1>7. b \o u \in Seq(Token) /\ Len(b \o u) = Len(b) + n
  BY <1>1, <1>6
<1> QED
  BY <1>4, <1>5, <1>7 DEF Received, s, b, u

(* A recv, with the realloc behind it, is Receives for some number of       *)
(* bytes.                                                                   *)
LEMMA RecvReceives ==
  ASSUME TypeOK, NEW c \in Client, Recv(c)
  PROVE  \E n \in 1 .. Len(stream[c]), size \in Nat \ {0}, a \in Nat, where \in {"received", "recv"} :
           Receives(c, n, size, a, where)
<1> DEFINE l == local[c]
<1>1. l \in Local
  BY DEF TypeOK
<1>2. PICK n \in 1 .. Len(stream[c]) :
        LET size == IF Len(Received(c, n)) >= l.buffer_size - 1 THEN 2 * l.buffer_size
                    ELSE l.buffer_size
        IN  /\ n <= Room(l)
            /\ stream' = [stream EXCEPT ![c] = SubSeq(@, n + 1, Len(@))]
            /\ \/ /\ local' = [local EXCEPT ![c].buffer = Received(c, n), ![c].buffer_size = size,
                                            ![c].allocated = size]
                  /\ pc' = [pc EXCEPT ![c] = IF MessageEnds(Received(c, n)) THEN "received" ELSE "recv"]
               \/ /\ "realloc" \in Faults
                  /\ local' = [local EXCEPT ![c].buffer = Received(c, n), ![c].buffer_size = size]
                  /\ pc' = [pc EXCEPT ![c] = "received"]
  BY DEF Recv, Received, Go
<1> DEFINE b == Received(c, n)
           size == IF Len(b) >= l.buffer_size - 1 THEN 2 * l.buffer_size ELSE l.buffer_size
           where == IF MessageEnds(b) THEN "received" ELSE "recv"
<1>3. size \in Nat \ {0} /\ l.allocated \in Nat /\ where \in {"received", "recv"}
  <2>1. Len(b) \in Nat
    BY RecvTypes
  <2> HIDE DEF b
  <2> QED
    BY <1>1, <2>1 DEF Local
<1>4. \/ /\ local' = [local EXCEPT ![c].buffer = b, ![c].buffer_size = size, ![c].allocated = size]
         /\ pc' = [pc EXCEPT ![c] = where]
      \/ /\ "realloc" \in Faults
         /\ local' = [local EXCEPT ![c].buffer = b, ![c].buffer_size = size]
         /\ pc' = [pc EXCEPT ![c] = "received"]
  BY <1>2
<1>5. n <= Room(local[c]) /\ stream' = [stream EXCEPT ![c] = SubSeq(stream[c], n + 1, Len(stream[c]))]
  BY <1>2
<1>6. /\ size = IF Len(Received(c, n)) >= local[c].buffer_size - 1 THEN 2 * local[c].buffer_size
                ELSE local[c].buffer_size
      /\ where = IF MessageEnds(Received(c, n)) THEN "received" ELSE "recv"
      /\ b = Received(c, n)
  OBVIOUS
<1> HIDE DEF b, size, where
<1>7. CASE /\ local' = [local EXCEPT ![c].buffer = b, ![c].buffer_size = size, ![c].allocated = size]
           /\ pc' = [pc EXCEPT ![c] = where]
  <2>1. local' = [local EXCEPT ![c] = [@ EXCEPT !.buffer = b, !.buffer_size = size, !.allocated = size]]
    BY <1>1, <1>7 DEF Local, TypeOK
  <2>2. Receives(c, n, size, size, where)
    BY <1>5, <1>6, <1>7, <2>1 DEF Receives
  <2> QED
    BY <1>3, <2>2
<1>8. CASE /\ "realloc" \in Faults
           /\ local' = [local EXCEPT ![c].buffer = b, ![c].buffer_size = size]
           /\ pc' = [pc EXCEPT ![c] = "received"]
  <2>1. local' = [local EXCEPT ![c] = [@ EXCEPT !.buffer = b, !.buffer_size = size, !.allocated = l.allocated]]
    BY <1>1, <1>8 DEF Local, TypeOK
  <2>2. Receives(c, n, size, l.allocated, "received")
    BY <1>5, <1>6, <1>8, <2>1 DEF Receives
  <2> QED
    BY <1>3, <2>2
<1> QED
  BY <1>4, <1>7, <1>8
-----------------------------------------------------------------------------
(* Opening a file and moving in it keep the types of a thread's variables. *)
LEMMA LocalFields ==
  ASSUME NEW c \in Client, local \in [Client -> Local],
         NEW fd \in {"none", "chardev", "regular"}, NEW pos \in Nat
  PROVE  /\ [local EXCEPT ![c].fd = fd] \in [Client -> Local]
         /\ [local EXCEPT ![c].pos = pos] \in [Client -> Local]
         /\ [local EXCEPT ![c].fd = fd, ![c].pos = pos] \in [Client -> Local]
<1>1. \A l \in Local : [l EXCEPT !.fd = fd] \in Local
  BY DEF Local
<1>2. \A l \in Local : [l EXCEPT !.pos = pos] \in Local
  BY DEF Local
<1>3. local[c] \in Local
  OBVIOUS
<1>4. [local EXCEPT ![c].fd = fd] \in [Client -> Local]
  BY <1>1, <1>3
<1>5. [local EXCEPT ![c].pos = pos] \in [Client -> Local]
  BY <1>2, <1>3
<1>6. [local EXCEPT ![c].fd = fd, ![c].pos = pos] = [local EXCEPT ![c] = [[@ EXCEPT !.fd = fd] EXCEPT !.pos = pos]]
  OBVIOUS
<1>7. [[local[c] EXCEPT !.fd = fd] EXCEPT !.pos = pos] \in Local
  BY <1>1, <1>2, <1>3
<1> QED
  BY <1>4, <1>5, <1>6, <1>7

(* A thread touches nothing of main, and of the others only the mutex and  *)
(* the device.                                                             *)
LEMMA ThreadTypes ==
  ASSUME TypeOK, SeekParsed, NEW c \in Client, ThreadStep(c), ~SendFails(c)
  PROVE  TypeOK'
<1> USE DEF mainvars, clients, device, signals, threads, Go, Ends, CloseConn, Release, Acquire
<1>1. CASE MallocFails(c) /\ UNCHANGED signals
  BY <1>1, NoLocalType DEF TypeOK, Places, MallocFails
<1>2. CASE Lock(c) /\ UNCHANGED signals
  BY <1>2, NoLocalType DEF TypeOK, Places, Lock
<1>3. CASE Recv(c) /\ UNCHANGED signals
  <2>1. PICK n \in 1 .. Len(stream[c]), size \in Nat \ {0}, a \in Nat, where \in {"received", "recv"} :
          Receives(c, n, size, a, where)
    BY <1>3, RecvReceives
  <2>2. stream' \in [Client -> Seq(Token)] /\ pc' \in [Client -> Places]
    BY <2>1, RecvTypes DEF Receives, TypeOK, Places
  <2>3. local' \in [Client -> Local]
    <3> DEFINE b == Received(c, n)
    <3>1. b \in Seq(Token) /\ local[c] \in Local /\ local \in [Client -> Local]
      BY RecvTypes DEF TypeOK
    <3>2. local' = [local EXCEPT ![c] = [@ EXCEPT !.buffer = b, !.buffer_size = size, !.allocated = a]]
      BY <2>1 DEF Receives
    <3> HIDE DEF b
    <3>3. [local[c] EXCEPT !.buffer = b, !.buffer_size = size, !.allocated = a] \in Local
      BY <3>1 DEF Local
    <3> QED
      BY <3>1, <3>2, <3>3
  <2>4. UNCHANGED <<mainvars, conn, script, sent, status, mutex, device, signals>>
    BY <1>3 DEF Recv
  <2> QED
    BY <2>2, <2>3, <2>4, SMTT(30) DEF TypeOK
<1>4. CASE RecvEnds(c) /\ UNCHANGED signals
  BY <1>4, NoLocalType DEF TypeOK, Places, RecvEnds
<1>5. CASE NothingReceived(c) /\ UNCHANGED signals
  BY <1>5, NoLocalType DEF TypeOK, Places, NothingReceived
<1>6. CASE SeekIgnored(c) /\ UNCHANGED signals
  BY <1>6, NoLocalType DEF TypeOK, Places, SeekIgnored
<1>7. CASE SeekOpen(c) /\ UNCHANGED signals
  <2>1. /\ node \in {"chardev", "regular"}
        /\ local' = [local EXCEPT ![c].fd = node] /\ pc' = [pc EXCEPT ![c] = "ioctl"]
        /\ UNCHANGED <<mainvars, clients, status, mutex, device, signals>>
    BY <1>7 DEF TypeOK, SeekOpen
  <2>2. local' \in [Client -> Local]
    BY <2>1, LocalFields DEF TypeOK
  <2> QED
    BY <2>1, <2>2 DEF TypeOK, Places
<1>8. CASE Ioctl(c) /\ UNCHANGED signals
  <2>1. SeekPos(SeekTo(local[c].buffer)) \in Nat
    BY <1>8, SeekPosType DEF Ioctl, SeekParsed
  <2>2. /\ local' = [local EXCEPT ![c].pos = SeekPos(SeekTo(local[c].buffer))]
        /\ pc' = [pc EXCEPT ![c] = "seek_read"]
        /\ UNCHANGED <<mainvars, clients, status, mutex, device, signals>>
    BY <1>8 DEF Ioctl
  <2>3. local' \in [Client -> Local]
    BY <2>1, <2>2, LocalFields DEF TypeOK
  <2> QED
    BY <2>2, <2>3 DEF TypeOK, Places
<1>9. CASE IoctlFails(c) /\ UNCHANGED signals
  <2>1. /\ stuck' \in {stuck, TRUE} /\ mutex' \in {mutex, NULL}
        /\ pc' = [pc EXCEPT ![c] = "second_unlock"]
        /\ UNCHANGED <<mainvars, clients, local, status, node, log, pending, regular, signals>>
    BY <1>9 DEF IoctlFails
  <2>2. /\ stuck' \in BOOLEAN /\ mutex' \in Client \cup {NULL, DESTROYED}
        /\ pc' \in [Client -> Places]
    BY <2>1 DEF TypeOK, Places
  <2> QED
    BY <2>1, <2>2 DEF TypeOK
<1>10. CASE SecondUnlock(c) /\ UNCHANGED signals
  BY <1>10, NoLocalType DEF TypeOK, Places, SecondUnlock
<1>11. CASE SeekReadEnds(c) /\ UNCHANGED signals
  BY <1>11, NoLocalType DEF TypeOK, Places, SeekReadEnds
<1>12. CASE SeekDone(c) /\ UNCHANGED signals
  BY <1>12, NoLocalType DEF TypeOK, Places, SeekDone
<1>13. CASE SeekUnlock(c) /\ UNCHANGED signals
  BY <1>13, NoLocalType DEF TypeOK, Places, SeekUnlock
<1>14. CASE WriteOpen(c) /\ UNCHANGED signals
  <2>1. /\ node' \in {"chardev", "regular"} /\ regular' \in {regular, <<>>}
        /\ local' = [local EXCEPT ![c].fd = node']
        /\ pc' = [pc EXCEPT ![c] = "write"]
        /\ UNCHANGED <<mainvars, clients, status, mutex, log, pending, stuck, signals>>
    BY <1>14 DEF TypeOK, WriteOpen
  <2>2. regular' \in Seq(Token)
    BY <2>1, NoTokens DEF TypeOK
  <2>3. local' \in [Client -> Local] /\ pc' \in [Client -> Places]
    BY <2>1, LocalFields DEF TypeOK, Places
  <2> QED
    BY <2>1, <2>2, <2>3, SMTT(30) DEF TypeOK
<1>15. CASE WriteOpenFails(c) /\ UNCHANGED signals
  BY <1>15, NoLocalType DEF TypeOK, Places, WriteOpenFails
<1>16. CASE Write(c) /\ UNCHANGED signals
  <2>1. log' \in Seq(Seq(Token)) /\ pending' \in Seq(Token) /\ regular' \in Seq(Token)
    BY <1>16, DeviceTypes DEF Write
  <2> QED
    BY <1>16, <2>1 DEF TypeOK, Places, Write
<1>17. CASE WriteFails(c) /\ UNCHANGED signals
  <2>1. log' \in Seq(Seq(Token)) /\ pending' \in Seq(Token) /\ regular' \in Seq(Token)
    BY <1>17, DeviceTypes DEF WriteFails
  <2> QED
    BY <1>17, <2>1 DEF TypeOK, Places, WriteFails
<1>18. CASE Relock(c) /\ UNCHANGED signals
  <2>1. /\ node \in {"chardev", "regular"} /\ mutex' \in {mutex, c}
        /\ local' = [local EXCEPT ![c].fd = node, ![c].pos = 0] /\ pc' = [pc EXCEPT ![c] = "read"]
        /\ UNCHANGED <<mainvars, clients, status, device, signals>>
    BY <1>18 DEF TypeOK, Relock
  <2>2. local' \in [Client -> Local]
    BY <2>1, LocalFields DEF TypeOK
  <2> QED
    BY <2>1, <2>2 DEF TypeOK, Places
<1>19. CASE RelockFails(c) /\ UNCHANGED signals
  BY <1>19, NoLocalType DEF TypeOK, Places, RelockFails
<1>20. CASE ReadSend(c) /\ UNCHANGED signals
  <2> DEFINE bytes == ReadBytes(local[c])
  <2>1. local[c] \in Local
    BY DEF TypeOK
  <2>2. bytes \in Seq(Token)
    BY <2>1, ReadReturns
  <2>3. /\ sent' = [sent EXCEPT ![c] = @ \o bytes]
        /\ local' = [local EXCEPT ![c].pos = @ + Len(bytes)]
        /\ UNCHANGED <<mainvars, conn, stream, script, pc, status, mutex, device, signals>>
    BY <1>20 DEF ReadSend, Sending
  <2> HIDE DEF bytes
  <2>4. sent[c] \o bytes \in Seq(Token) /\ local[c].pos + Len(bytes) \in Nat
    <3>1. sent[c] \in Seq(Token) /\ local[c].pos \in Nat
      BY <2>1 DEF TypeOK, Local
    <3>2. Len(bytes) \in Nat
      BY <2>2
    <3> QED
      BY <2>2, <3>1, <3>2, ConcatProperties
  <2>5. sent' \in [Client -> Seq(Token)] /\ local' \in [Client -> Local]
    BY <2>3, <2>4, LocalFields DEF TypeOK
  <2> QED
    BY <2>3, <2>5, SMTT(30) DEF TypeOK
<1>21. CASE ReadEnds(c) /\ UNCHANGED signals
  BY <1>21, NoLocalType DEF TypeOK, Places, ReadEnds
<1>22. CASE Answered(c) /\ UNCHANGED signals
  BY <1>22, NoLocalType DEF TypeOK, Places, Answered
<1> QED
  BY <1>1, <1>2, <1>3, <1>4, <1>5, <1>6, <1>7, <1>8, <1>9, <1>10, <1>11, <1>12, <1>13, <1>14, <1>15, <1>16, <1>17, <1>18, <1>19, <1>20, <1>21, <1>22 DEF ThreadStep

(* Every step is one of a thread, one that ends the process, or another. *)
ExitStep == \E accepted \in SUBSET Client :
              /\ Exit(accepted) /\ regular' = regular
              /\ node' = node \/ (stop /\ node' = "absent")

OtherStep ==
  \/ (\E c \in Client : Accept(c) \/ CreateFails(c)) /\ UNCHANGED signals
  \/ (Insert \/ Sweep \/ SweepEnds) /\ UNCHANGED signals
  \/ AcceptFails \/ DestroyMutex \/ Restart \/ ReloadDriver
  \/ \E who \in Client \cup {MAIN} : handle_signal(who)

(* A step is one of a thread, the end of the process, or one of main, of    *)
(* the handler or of the system.                                            *)
LEMMA NextKinds ==
  ASSUME Next
  PROVE  (\E c \in Client : ThreadStep(c) /\ ~SendFails(c)) \/ ExitStep \/ OtherStep
<1>1. ASSUME \/ HandlerExits \/ MainReturns
             \/ \E c \in Client : NodeMallocFails(c) \/ SendFails(c)
      PROVE  ExitStep
  BY <1>1 DEF HandlerExits, MainReturns, NodeMallocFails, SendFails, Unlink, ExitStep
<1>2. MainStep => OtherStep \/ MainReturns \/ \E c \in Client : NodeMallocFails(c)
  BY DEF MainStep, OtherStep
<1> QED
  BY <1>1, <1>2 DEF Next, HandlerStep, OtherStep

(* What the end of the process leaves. *)
LEMMA ExitTypes ==
  ASSUME TypeOK, ExitStep
  PROVE  TypeOK'
<1> PICK accepted \in SUBSET Client :
       /\ Exit(accepted) /\ regular' = regular
       /\ node' = node \/ (stop /\ node' = "absent")
  BY DEF ExitStep
<1>1. conn' \in [Client -> {"queued", "open", "closed"}] /\ pc' \in [Client -> Places]
  BY DEF TypeOK, Exit, Places
<1>2. local' \in [Client -> Local]
  BY NoLocalType DEF Exit
<1>3. list' \in Seq(Client) /\ todo' \in Seq(Client)
  BY NoTokens DEF Exit
<1> QED
  BY <1>1, <1>2, <1>3 DEF TypeOK, Exit

(* RemoveAt takes one element out. *)
LEMMA RemoveOne ==
  ASSUME NEW S, NEW s \in Seq(S), NEW i \in 1 .. Len(s)
  PROVE  /\ RemoveAt(s, i) \in Seq(S)
         /\ \A x \in Range(s) : x # s[i] => x \in Range(RemoveAt(s, i))
<1> DEFINE a == SubSeq(s, 1, i - 1)
           b == SubSeq(s, i + 1, Len(s))
<1>1. /\ a \in Seq(S) /\ Len(a) = i - 1 /\ \A j \in 1 .. i - 1 : a[j] = s[j]
  <2>1. \A j \in 1 .. i - 1 : s[j] \in S
    OBVIOUS
  <2>2. /\ a \in Seq(S) /\ Len(a) = IF 1 <= i - 1 THEN (i - 1) - 1 + 1 ELSE 0
        /\ \A j \in 1 .. (i - 1) - 1 + 1 : a[j] = s[1 + j - 1]
    BY <2>1, SubSeqProperties
  <2> HIDE DEF a
  <2> QED
    BY <2>2
<1>2. /\ b \in Seq(S) /\ Len(b) = Len(s) - i /\ \A j \in 1 .. Len(s) - i : b[j] = s[i + j]
  <2>1. \A j \in i + 1 .. Len(s) : s[j] \in S
    OBVIOUS
  <2>2. /\ b \in Seq(S) /\ Len(b) = IF i + 1 <= Len(s) THEN Len(s) - (i + 1) + 1 ELSE 0
        /\ \A j \in 1 .. Len(s) - (i + 1) + 1 : b[j] = s[(i + 1) + j - 1]
    BY <2>1, SubSeqProperties
  <2> HIDE DEF b
  <2>3. ASSUME NEW j \in 1 .. Len(s) - i PROVE b[j] = s[i + j]
    BY <2>2
  <2> QED
    BY <2>2, <2>3
<1>3. RemoveAt(s, i) = a \o b
  BY DEF RemoveAt
<1> HIDE DEF a, b
<1>4. a \o b \in Seq(S) /\ Len(a \o b) = Len(s) - 1
  BY <1>1, <1>2
<1>5. ASSUME NEW j \in 1 .. Len(s), j # i PROVE \E k \in 1 .. Len(a \o b) : (a \o b)[k] = s[j]
  <2>1. CASE j < i
    <3>1. j \in 1 .. Len(a \o b) /\ j \in 1 .. i - 1
      BY <1>4, <2>1
    <3>2. (a \o b)[j] = a[j]
      BY <1>1, <1>2, <3>1
    <3> QED
      BY <1>1, <3>1, <3>2
  <2>2. CASE j > i
    <3>1. j - 1 \in 1 .. Len(a \o b) /\ j - i \in 1 .. Len(s) - i /\ i + (j - i) = j
      BY <1>4, <2>2
    <3>2. (a \o b)[j - 1] = b[j - i]
      BY <1>1, <1>2, <2>2
    <3>3. b[j - i] = s[j]
      BY <1>2, <3>1
    <3> QED
      BY <3>1, <3>2, <3>3
  <2> QED
    BY <1>5, <2>1, <2>2
<1>6. ASSUME NEW x \in Range(s), x # s[i] PROVE x \in Range(a \o b)
  <2>1. PICK j \in 1 .. Len(s) : s[j] = x
    BY DEF Range
  <2>2. PICK k \in 1 .. Len(a \o b) : (a \o b)[k] = x
    BY <1>5, <1>6, <2>1
  <2> QED
    BY <1>4, <2>2 DEF Range
<1> QED
  BY <1>3, <1>4, <1>6

(* The steps of main, the handler and the system keep the types. *)
LEMMA OtherTypes ==
  ASSUME TypeOK, OtherStep
  PROVE  TypeOK'
<1> USE DEF mainvars, clients, device, signals, threads
<1>1. ASSUME NEW c \in Client, Accept(c), UNCHANGED signals PROVE TypeOK'
  <2>1. todo' \in Seq(Client)
    BY <1>1 DEF Accept
  <2> QED
    BY <1>1, <2>1 DEF TypeOK, Accept, Places
<1>2. ASSUME NEW c \in Client, CreateFails(c), UNCHANGED signals PROVE TypeOK'
  BY <1>2 DEF TypeOK, CreateFails
<1>3. CASE Insert /\ UNCHANGED signals
  <2>1. list' \in Seq(Client) /\ todo' \in Seq(Client)
    <3>1. list \in Seq(Client) /\ todo \in Seq(Client)
      BY DEF TypeOK
    <3>2. todo \o list \in Seq(Client)
      BY <3>1, ConcatProperties
    <3> QED
      BY <1>3, <3>2 DEF Insert
  <2> QED
    BY <1>3, <2>1 DEF TypeOK, Insert
<1>4. CASE Sweep /\ UNCHANGED signals
  <2>1. todo' \in Seq(Client)
    BY <1>4 DEF Sweep, TypeOK
  <2>2. list' \in Seq(Client)
    <3>1. list \in Seq(Client)
      BY DEF TypeOK
    <3>2. ASSUME NEW i \in 1 .. Len(list) PROVE RemoveAt(list, i) \in Seq(Client)
      BY <3>1, RemoveOne
    <3> QED
      BY <1>4, <3>1, <3>2 DEF Sweep, SLIST_REMOVE
  <2> QED
    BY <1>4, <2>1, <2>2 DEF TypeOK, Sweep
<1>5. CASE SweepEnds /\ UNCHANGED signals
  BY <1>5 DEF TypeOK, SweepEnds
<1>6. CASE AcceptFails
  BY <1>6 DEF TypeOK, AcceptFails
<1>7. CASE DestroyMutex
  BY <1>7 DEF TypeOK, DestroyMutex
<1>8. CASE Restart
  BY <1>8 DEF TypeOK, Restart
<1>9. CASE ReloadDriver
  <2>1. log' \in Seq(Seq(Token)) /\ pending' \in Seq(Token) /\ regular' \in Seq(Token)
    BY <1>9, NoTokens DEF ReloadDriver, Device!Reset
  <2> QED
    BY <1>9, <2>1 DEF TypeOK, ReloadDriver
<1>10. ASSUME NEW who \in Client \cup {MAIN}, handle_signal(who) PROVE TypeOK'
  BY <1>10 DEF TypeOK, handle_signal, Unlink
<1> QED
  BY <1>1, <1>2, <1>3, <1>4, <1>5, <1>6, <1>7, <1>8, <1>9, <1>10 DEF OtherStep

(* The frame of a thread's step. *)
LEMMA ThreadFrame ==
  ASSUME TypeOK, NEW c \in Client, ThreadStep(c), ~SendFails(c)
  PROVE  /\ UNCHANGED <<running, restarts, mainpc, list, todo, script, handler, hpc>>
         /\ pc[c] \notin {"none", "ended"} /\ pc'[c] # "none"
         /\ \A d \in Client : conn'[d] \in {conn[d], "closed"}
         /\ \A d \in Client : d # c => /\ pc'[d] = pc[d] /\ local'[d] = local[d]
                                       /\ sent'[d] = sent[d] /\ stream'[d] = stream[d]
<1> USE DEF mainvars, clients, device, signals, threads, Go, Ends, CloseConn
<1>1. CASE MallocFails(c) /\ UNCHANGED signals
  BY <1>1 DEF TypeOK, MallocFails
<1>2. CASE Lock(c) /\ UNCHANGED signals
  BY <1>2 DEF TypeOK, Lock
<1>3. CASE Recv(c) /\ UNCHANGED signals
  BY <1>3 DEF TypeOK, Recv
<1>4. CASE RecvEnds(c) /\ UNCHANGED signals
  BY <1>4 DEF TypeOK, RecvEnds
<1>5. CASE NothingReceived(c) /\ UNCHANGED signals
  BY <1>5 DEF TypeOK, NothingReceived
<1>6. CASE SeekIgnored(c) /\ UNCHANGED signals
  BY <1>6 DEF TypeOK, SeekIgnored
<1>7. CASE SeekOpen(c) /\ UNCHANGED signals
  BY <1>7 DEF TypeOK, SeekOpen
<1>8. CASE Ioctl(c) /\ UNCHANGED signals
  BY <1>8 DEF TypeOK, Ioctl
<1>9. CASE IoctlFails(c) /\ UNCHANGED signals
  BY <1>9 DEF TypeOK, IoctlFails
<1>10. CASE SecondUnlock(c) /\ UNCHANGED signals
  BY <1>10 DEF TypeOK, SecondUnlock
<1>11. CASE SeekReadEnds(c) /\ UNCHANGED signals
  BY <1>11 DEF TypeOK, SeekReadEnds
<1>12. CASE SeekDone(c) /\ UNCHANGED signals
  BY <1>12 DEF TypeOK, SeekDone
<1>13. CASE SeekUnlock(c) /\ UNCHANGED signals
  BY <1>13 DEF TypeOK, SeekUnlock
<1>14. CASE WriteOpen(c) /\ UNCHANGED signals
  BY <1>14 DEF TypeOK, WriteOpen
<1>15. CASE WriteOpenFails(c) /\ UNCHANGED signals
  BY <1>15 DEF TypeOK, WriteOpenFails
<1>16. CASE Write(c) /\ UNCHANGED signals
  BY <1>16 DEF TypeOK, Write
<1>17. CASE WriteFails(c) /\ UNCHANGED signals
  BY <1>17 DEF TypeOK, WriteFails
<1>18. CASE Relock(c) /\ UNCHANGED signals
  BY <1>18 DEF TypeOK, Relock
<1>19. CASE RelockFails(c) /\ UNCHANGED signals
  BY <1>19 DEF TypeOK, RelockFails
<1>20. CASE ReadSend(c) /\ UNCHANGED signals
  BY <1>20 DEF TypeOK, ReadSend, Sending
<1>21. CASE ReadEnds(c) /\ UNCHANGED signals
  BY <1>21 DEF TypeOK, ReadEnds
<1>22. CASE Answered(c) /\ UNCHANGED signals
  BY <1>22 DEF TypeOK, Answered
<1> QED
  BY <1>1, <1>2, <1>3, <1>4, <1>5, <1>6, <1>7, <1>8, <1>9, <1>10, <1>11, <1>12, <1>13, <1>14, <1>15, <1>16, <1>17, <1>18, <1>19, <1>20, <1>21, <1>22 DEF ThreadStep
-----------------------------------------------------------------------------
(* The seek branch keeps the request that chose it. *)
LEMMA SeekParsedThread ==
  ASSUME TypeOK, SeekParsed, NEW c \in Client, ThreadStep(c), ~SendFails(c)
  PROVE  SeekParsed'
<1> USE DEF mainvars, clients, device, signals, threads, Go, Ends
<1> SUFFICES ASSUME pc'[c] \in {"ioctl", "seek_read"}
             PROVE  /\ IsSeek(local'[c].buffer) /\ Parsed(local'[c].buffer)
                    /\ SeekTo(local'[c].buffer) \in Nat \X Nat
  BY ThreadFrame DEF SeekParsed, IsSeek, Parsed
<1>1. CASE MallocFails(c) /\ UNCHANGED signals
  BY <1>1 DEF TypeOK, MallocFails
<1>2. CASE Lock(c) /\ UNCHANGED signals
  BY <1>2 DEF TypeOK, Lock
<1>3. CASE Recv(c) /\ UNCHANGED signals
  <2>1. PICK n \in 1 .. Len(stream[c]), size \in Nat \ {0}, a \in Nat, where \in {"received", "recv"} :
          Receives(c, n, size, a, where)
    BY <1>3, RecvReceives
  <2>2. pc'[c] = where
    BY <2>1 DEF TypeOK, Receives
  <2> QED
    BY <2>2
<1>4. CASE RecvEnds(c) /\ UNCHANGED signals
  BY <1>4 DEF TypeOK, RecvEnds
<1>5. CASE NothingReceived(c) /\ UNCHANGED signals
  BY <1>5 DEF TypeOK, NothingReceived
<1>6. CASE SeekIgnored(c) /\ UNCHANGED signals
  BY <1>6 DEF TypeOK, SeekIgnored
<1>7. CASE SeekOpen(c) /\ UNCHANGED signals
  <2>1. local'[c].buffer = local[c].buffer
    BY <1>7 DEF SeekOpen, TypeOK, Local
  <2>2. IsSeek(local[c].buffer) /\ Parsed(local[c].buffer)
    BY <1>7 DEF SeekOpen
  <2>3. local[c].buffer \in Seq(Token)
    BY DEF TypeOK, Local
  <2>4. SeekTo(local[c].buffer) \in Nat \X Nat
    BY <2>2, <2>3, SeekToType
  <2> QED
    BY <2>1, <2>2, <2>4
<1>8. CASE Ioctl(c) /\ UNCHANGED signals
  <2>1. local'[c].buffer = local[c].buffer
    BY <1>8 DEF Ioctl, TypeOK, Local
  <2> QED
    BY <1>8, <2>1 DEF Ioctl, SeekParsed
<1>9. CASE IoctlFails(c) /\ UNCHANGED signals
  BY <1>9 DEF TypeOK, IoctlFails
<1>10. CASE SecondUnlock(c) /\ UNCHANGED signals
  BY <1>10 DEF TypeOK, SecondUnlock
<1>11. CASE SeekReadEnds(c) /\ UNCHANGED signals
  BY <1>11 DEF TypeOK, SeekReadEnds
<1>12. CASE SeekDone(c) /\ UNCHANGED signals
  BY <1>12 DEF TypeOK, SeekDone
<1>13. CASE SeekUnlock(c) /\ UNCHANGED signals
  BY <1>13 DEF TypeOK, SeekUnlock
<1>14. CASE WriteOpen(c) /\ UNCHANGED signals
  BY <1>14 DEF TypeOK, WriteOpen
<1>15. CASE WriteOpenFails(c) /\ UNCHANGED signals
  BY <1>15 DEF TypeOK, WriteOpenFails
<1>16. CASE Write(c) /\ UNCHANGED signals
  BY <1>16 DEF TypeOK, Write
<1>17. CASE WriteFails(c) /\ UNCHANGED signals
  BY <1>17 DEF TypeOK, WriteFails
<1>18. CASE Relock(c) /\ UNCHANGED signals
  BY <1>18 DEF TypeOK, Relock
<1>19. CASE RelockFails(c) /\ UNCHANGED signals
  BY <1>19 DEF TypeOK, RelockFails
<1>20. CASE ReadSend(c) /\ UNCHANGED signals
  <2>1. local'[c].buffer = local[c].buffer
    BY <1>20 DEF ReadSend, Sending, TypeOK, Local
  <2> QED
    BY <1>20, <2>1 DEF ReadSend, Sending, SeekParsed
<1>21. CASE ReadEnds(c) /\ UNCHANGED signals
  BY <1>21 DEF TypeOK, ReadEnds
<1>22. CASE Answered(c) /\ UNCHANGED signals
  BY <1>22 DEF TypeOK, Answered
<1> QED
  BY <1>1, <1>2, <1>3, <1>4, <1>5, <1>6, <1>7, <1>8, <1>9, <1>10, <1>11, <1>12, <1>13, <1>14, <1>15, <1>16, <1>17, <1>18, <1>19, <1>20, <1>21, <1>22 DEF ThreadStep

(* Steps of main, of the handler and of the system keep the seek branch. *)
LEMMA OtherFrame ==
  ASSUME TypeOK, OtherStep
  PROVE  /\ UNCHANGED <<local, stream, script, sent>>
         /\ \A d \in Client : \/ pc'[d] = pc[d]
                              \/ Accept(d) /\ pc'[d] = "threadfunc"
<1> USE DEF mainvars, clients, device, signals, threads
<1>1. ASSUME NEW c \in Client, Accept(c)
      PROVE  /\ UNCHANGED <<local, stream, script, sent>>
             /\ pc'[c] = "threadfunc" /\ \A d \in Client : d # c => pc'[d] = pc[d]
  BY <1>1 DEF Accept, TypeOK
<1>2. ASSUME OtherStep, ~\E c \in Client : Accept(c)
      PROVE  UNCHANGED <<pc, local, stream, script, sent>>
  BY <1>2 DEF OtherStep, CreateFails, Insert, Sweep, SweepEnds, AcceptFails, DestroyMutex, Restart,
              ReloadDriver, handle_signal
<1> QED
  BY <1>1, <1>2

(* No thread is left when the process has ended. *)
LEMMA ExitFrame ==
  ASSUME TypeOK, ExitStep
  PROVE  /\ running' = FALSE /\ mainpc' \in {"down", "hung"} /\ hpc' = "none" /\ mutex' = NULL
         /\ UNCHANGED <<stream, script, sent, log, pending, stuck>>
         /\ \A d \in Client : /\ local'[d] = NoLocal
                              /\ pc'[d] = IF pc[d] = "none" THEN "none" ELSE "ended"
         /\ node' = node \/ (stop /\ node' = "absent")
         /\ \A d \in Client : conn'[d] \in {conn[d], "closed"}
BY DEF ExitStep, Exit

(* Every step keeps the argument of a seek that is under way. *)
LEMMA SeekParsedStep ==
  ASSUME TypeOK, SeekParsed, [Next]_vars
  PROVE  SeekParsed'
<1>1. ASSUME NEW c \in Client, ThreadStep(c), ~SendFails(c) PROVE SeekParsed'
  BY <1>1, SeekParsedThread
<1>2. CASE ExitStep
  BY <1>2, ExitFrame DEF SeekParsed
<1>3. CASE OtherStep
  BY <1>3, OtherFrame DEF SeekParsed, IsSeek, Parsed
<1>4. CASE UNCHANGED vars
  BY <1>4 DEF vars, threads, SeekParsed, IsSeek, Parsed
<1> QED
  BY <1>1, <1>2, <1>3, <1>4, NextKinds

(* Every step keeps the types. *)
LEMMA TypeStep ==
  ASSUME TypeOK, SeekParsed, [Next]_vars
  PROVE  TypeOK'
<1>1. CASE UNCHANGED vars
  BY <1>1 DEF vars, mainvars, clients, threads, signals, device, TypeOK
<1> QED
  BY <1>1, NextKinds, ThreadTypes, ExitTypes, OtherTypes
-----------------------------------------------------------------------------
(* The buffer. *)
BufferOf(c) ==
  /\ Len(local[c].buffer) < local[c].allocated
  /\ pc[c] = "recv" => local[c].allocated = local[c].buffer_size
  /\ pc[c] \in {"none", "threadfunc", "ended"} => local[c] = NoLocal

(* The invariant is about each thread by itself. *)
LEMMA BufferOfEach == BufferInv <=> \A c \in Client : BufferOf(c)
BY DEF BufferInv, BufferHolds, BufferOf

(* A fresh buffer has room for the NUL and is as large as buffer_size says. *)
LEMMA NoLocalHolds == Len(NoLocal.buffer) < NoLocal.allocated /\ NoLocal.allocated = NoLocal.buffer_size
<1>1. NoLocal.buffer = <<>> /\ NoLocal.allocated = BUFFER_SIZE /\ NoLocal.buffer_size = BUFFER_SIZE
  BY DEF NoLocal
<1>2. Len(<<>>) = 0
  OBVIOUS
<1> QED
  BY <1>1, <1>2, BufferAssumption

(* Each step of a thread keeps its buffer large enough. *)
LEMMA BufferThread ==
  ASSUME TypeOK, NEW c \in Client, BufferOf(c), ThreadStep(c), ~SendFails(c)
  PROVE  BufferOf(c)'
<1> USE DEF mainvars, clients, device, signals, threads, Go, Ends, BufferOf
<1>1. CASE MallocFails(c) /\ UNCHANGED signals
  BY <1>1, NoLocalHolds DEF TypeOK, Local, MallocFails
<1>2. CASE Lock(c) /\ UNCHANGED signals
  BY <1>2, NoLocalHolds DEF TypeOK, Local, Lock
<1>3. CASE Recv(c) /\ UNCHANGED signals
  <2>1. PICK n \in 1 .. Len(stream[c]), size \in Nat \ {0}, a \in Nat, where \in {"received", "recv"} :
          Receives(c, n, size, a, where)
    BY <1>3, RecvReceives
  <2> DEFINE b == Received(c, n)
             l == local[c]
  <2>2. /\ l \in Local /\ Len(b) = Len(l.buffer) + n /\ Len(l.buffer) \in Nat
        /\ l.buffer_size \in Nat /\ l.allocated = l.buffer_size
    <3>1. l \in Local /\ pc[c] = "recv"
      BY <1>3 DEF TypeOK, Recv
    <3>2. Len(l.buffer) \in Nat /\ l.buffer_size \in Nat
      BY <3>1 DEF Local
    <3>3. Len(b) = Len(l.buffer) + n
      BY RecvTypes
    <3> QED
      BY <3>1, <3>2, <3>3
  <2>3. /\ local'[c].buffer = b /\ local'[c].allocated = a /\ local'[c].buffer_size = size
        /\ pc'[c] = where
    BY <2>1, <2>2 DEF Receives, TypeOK, Local
  <2>4. /\ n <= l.buffer_size - Len(l.buffer) - 1
        /\ size = IF Len(b) >= l.buffer_size - 1 THEN 2 * l.buffer_size ELSE l.buffer_size
        /\ a = size \/ (a = l.allocated /\ where = "received")
    BY <2>1 DEF Receives, Room
  <2> HIDE DEF b, l
  <2>5. Len(b) < a /\ (where = "recv" => a = size)
    BY <2>2, <2>4, SMTT(30)
  <2> QED
    BY <2>3, <2>5
<1>4. CASE RecvEnds(c) /\ UNCHANGED signals
  BY <1>4, NoLocalHolds DEF TypeOK, Local, RecvEnds
<1>5. CASE NothingReceived(c) /\ UNCHANGED signals
  BY <1>5, NoLocalHolds DEF TypeOK, Local, NothingReceived
<1>6. CASE SeekIgnored(c) /\ UNCHANGED signals
  BY <1>6, NoLocalHolds DEF TypeOK, Local, SeekIgnored
<1>7. CASE SeekOpen(c) /\ UNCHANGED signals
  BY <1>7, NoLocalHolds DEF TypeOK, Local, SeekOpen
<1>8. CASE Ioctl(c) /\ UNCHANGED signals
  BY <1>8, NoLocalHolds DEF TypeOK, Local, Ioctl
<1>9. CASE IoctlFails(c) /\ UNCHANGED signals
  BY <1>9, NoLocalHolds DEF TypeOK, Local, IoctlFails
<1>10. CASE SecondUnlock(c) /\ UNCHANGED signals
  BY <1>10, NoLocalHolds DEF TypeOK, Local, SecondUnlock
<1>11. CASE SeekReadEnds(c) /\ UNCHANGED signals
  BY <1>11, NoLocalHolds DEF TypeOK, Local, SeekReadEnds
<1>12. CASE SeekDone(c) /\ UNCHANGED signals
  BY <1>12, NoLocalHolds DEF TypeOK, Local, SeekDone
<1>13. CASE SeekUnlock(c) /\ UNCHANGED signals
  BY <1>13, NoLocalHolds DEF TypeOK, Local, SeekUnlock
<1>14. CASE WriteOpen(c) /\ UNCHANGED signals
  BY <1>14, NoLocalHolds DEF TypeOK, Local, WriteOpen
<1>15. CASE WriteOpenFails(c) /\ UNCHANGED signals
  BY <1>15, NoLocalHolds DEF TypeOK, Local, WriteOpenFails
<1>16. CASE Write(c) /\ UNCHANGED signals
  BY <1>16, NoLocalHolds DEF TypeOK, Local, Write
<1>17. CASE WriteFails(c) /\ UNCHANGED signals
  BY <1>17, NoLocalHolds DEF TypeOK, Local, WriteFails
<1>18. CASE Relock(c) /\ UNCHANGED signals
  BY <1>18, NoLocalHolds DEF TypeOK, Local, Relock
<1>19. CASE RelockFails(c) /\ UNCHANGED signals
  BY <1>19, NoLocalHolds DEF TypeOK, Local, RelockFails
<1>20. CASE ReadSend(c) /\ UNCHANGED signals
  BY <1>20, NoLocalHolds DEF TypeOK, Local, ReadSend, Sending
<1>21. CASE ReadEnds(c) /\ UNCHANGED signals
  BY <1>21, NoLocalHolds DEF TypeOK, Local, ReadEnds
<1>22. CASE Answered(c) /\ UNCHANGED signals
  BY <1>22, NoLocalHolds DEF TypeOK, Local, Answered
<1> QED
  BY <1>1, <1>2, <1>3, <1>4, <1>5, <1>6, <1>7, <1>8, <1>9, <1>10, <1>11, <1>12, <1>13, <1>14, <1>15, <1>16, <1>17, <1>18, <1>19, <1>20, <1>21, <1>22 DEF ThreadStep

(* Every step keeps every buffer large enough. *)
LEMMA BufferStep ==
  ASSUME TypeOK, NodeInv, BufferInv, [Next]_vars
  PROVE  BufferInv'
<1> SUFFICES ASSUME NEW d \in Client PROVE BufferOf(d)'
  BY BufferOfEach DEF BufferInv, BufferHolds, BufferOf
<1>0. BufferOf(d)
  BY BufferOfEach
<1>1. ASSUME NEW c \in Client, ThreadStep(c), ~SendFails(c) PROVE BufferOf(d)'
  <2>1. CASE c = d
    BY <1>0, <1>1, <2>1, BufferThread
  <2>2. CASE c # d
    BY <1>0, <1>1, <2>2, ThreadFrame DEF BufferOf
  <2> QED
    BY <2>1, <2>2
<1>2. CASE ExitStep
  BY <1>2, ExitFrame, NoLocalHolds DEF BufferOf
<1>3. CASE OtherStep
  <2>1. ASSUME Accept(d) PROVE pc[d] = "none"
    BY <2>1 DEF Accept, NodeInv
  <2> QED
    BY <1>0, <1>3, <2>1, OtherFrame DEF BufferOf
<1>4. CASE UNCHANGED vars
  BY <1>0, <1>4 DEF vars, threads, BufferOf
<1> QED
  BY <1>1, <1>2, <1>3, <1>4, NextKinds
-----------------------------------------------------------------------------
(* The list. *)
LEMMA NodeStep ==
  ASSUME TypeOK, NodeInv, [Next]_vars
  PROVE  NodeInv'
<1> USE DEF mainvars, clients, device, signals, threads
<1>1. ASSUME NEW c \in Client, ThreadStep(c), ~SendFails(c) PROVE NodeInv'
  BY <1>1, ThreadFrame DEF NodeInv, NodeOutlivesThread
<1>2. CASE ExitStep
  BY <1>2, ExitFrame DEF NodeInv, NodeOutlivesThread
<1>3. ASSUME NEW c \in Client, Accept(c) PROVE NodeInv'
  BY <1>3 DEF NodeInv, NodeOutlivesThread, Accept, TypeOK
<1>4. CASE Insert
  <2>1. ASSUME NEW d \in Client, pc'[d] \notin {"none", "ended"} PROVE d \in Range(list')
    <3>1. list \in Seq(Client) /\ todo \in Seq(Client) /\ list' = todo \o list
      BY <1>4 DEF TypeOK, Insert
    <3>2. d \in Range(list) \/ todo = <<d>>
      BY <1>4, <2>1 DEF NodeInv, NodeOutlivesThread, Insert
    <3>3. Range(todo \o list) = Range(todo) \cup Range(list)
      BY <3>1, RangeConcatenation
    <3>4. todo = <<d>> => d \in Range(todo)
      BY DEF Range
    <3> QED
      BY <3>1, <3>2, <3>3, <3>4
  <2> QED
    BY <1>4, <2>1 DEF Insert, NodeInv, NodeOutlivesThread
<1>5. CASE Sweep
  <2>1. ASSUME NEW d \in Client, pc'[d] \notin {"none", "ended"} PROVE d \in Range(list')
    <3>1. list \in Seq(Client) /\ d \in Range(list) /\ pc[d] # "ended"
      BY <1>5, <2>1 DEF TypeOK, NodeInv, NodeOutlivesThread, Sweep
    <3>2. \/ list' = list
          \/ \E i \in 1 .. Len(list) : pc[list[i]] = "ended" /\ list' = RemoveAt(list, i)
      BY <1>5 DEF Sweep, SLIST_REMOVE
    <3> QED
      BY <3>1, <3>2, RemoveOne
  <2> QED
    BY <1>5, <2>1 DEF Sweep, NodeInv, NodeOutlivesThread
<1>6. CASE SweepEnds \/ AcceptFails \/ DestroyMutex
           \/ (\E who \in Client \cup {MAIN} : handle_signal(who)) \/ ReloadDriver
  BY <1>6 DEF NodeInv, NodeOutlivesThread, SweepEnds, AcceptFails, DestroyMutex,
              handle_signal, ReloadDriver
<1>9. ASSUME NEW c \in Client, CreateFails(c) PROVE NodeInv'
  BY <1>9 DEF NodeInv, NodeOutlivesThread, CreateFails, TypeOK
<1>7. CASE Restart
  BY <1>7 DEF NodeInv, NodeOutlivesThread, Restart
<1>8. CASE UNCHANGED vars
  BY <1>8 DEF vars, NodeInv, NodeOutlivesThread
<1> QED
  BY <1>1, <1>2, <1>3, <1>4, <1>5, <1>6, <1>7, <1>8, <1>9, NextKinds DEF OtherStep
-----------------------------------------------------------------------------
(* The mutex. *)
LEMMA MutexThread ==
  ASSUME TypeOK, MutexInv, NEW c \in Client, ThreadStep(c), ~SendFails(c)
  PROVE  MutexInv'
<1> USE DEF mainvars, clients, device, signals, threads, Go, Ends, Acquire, Release, stop, Healthy, Inside
<1> DEFINE Kept == /\ mutex' = DESTROYED => mutex = DESTROYED
                   /\ \A d \in Client : local'[d].fd = "regular" => node' = "regular" \/ stop
                   /\ Healthy' => /\ Healthy
                                  /\ \A d \in Client : /\ pc'[d] \in Inside => mutex' = d
                                                       /\ pc'[d] # "second_unlock"
<1>0. SUFFICES Kept
  BY ThreadFrame DEF MutexInv
<1>1. CASE MallocFails(c) /\ UNCHANGED signals
  BY <1>1, ThreadsAssumption DEF MutexInv, TypeOK, Local, NoLocal, MallocFails
<1>2. CASE Lock(c) /\ UNCHANGED signals
  BY <1>2, ThreadsAssumption DEF MutexInv, TypeOK, Local, NoLocal, Lock
<1>3. CASE Recv(c) /\ UNCHANGED signals
  <2>1. PICK n \in 1 .. Len(stream[c]), size \in Nat \ {0}, a \in Nat, where \in {"received", "recv"} :
          Receives(c, n, size, a, where)
    BY <1>3, RecvReceives
  <2>2. \A d \in Client : local'[d].fd = local[d].fd
    BY <2>1 DEF Receives, TypeOK, Local
  <2>3. /\ pc[c] = "recv" /\ pc' = [pc EXCEPT ![c] = where]
        /\ UNCHANGED <<mutex, node, stuck, hpc>>
    BY <1>3, <2>1 DEF Receives, Recv
  <2> QED
    BY <2>2, <2>3 DEF MutexInv, TypeOK
<1>4. CASE RecvEnds(c) /\ UNCHANGED signals
  BY <1>4, ThreadsAssumption DEF MutexInv, TypeOK, Local, NoLocal, RecvEnds
<1>5. CASE NothingReceived(c) /\ UNCHANGED signals
  BY <1>5, ThreadsAssumption DEF MutexInv, TypeOK, Local, NoLocal, NothingReceived
<1>6. CASE SeekIgnored(c) /\ UNCHANGED signals
  BY <1>6, ThreadsAssumption DEF MutexInv, TypeOK, Local, NoLocal, SeekIgnored
<1>7. CASE SeekOpen(c) /\ UNCHANGED signals
  BY <1>7, ThreadsAssumption DEF MutexInv, TypeOK, Local, NoLocal, SeekOpen
<1>8. CASE Ioctl(c) /\ UNCHANGED signals
  BY <1>8, ThreadsAssumption, SMTT(30) DEF MutexInv, TypeOK, Local, NoLocal, Ioctl
<1>9. CASE IoctlFails(c) /\ UNCHANGED signals
  BY <1>9, ThreadsAssumption DEF MutexInv, TypeOK, Local, NoLocal, IoctlFails
<1>10. CASE SecondUnlock(c) /\ UNCHANGED signals
  BY <1>10, ThreadsAssumption DEF MutexInv, TypeOK, Local, NoLocal, SecondUnlock
<1>11. CASE SeekReadEnds(c) /\ UNCHANGED signals
  BY <1>11, ThreadsAssumption DEF MutexInv, TypeOK, Local, NoLocal, SeekReadEnds
<1>12. CASE SeekDone(c) /\ UNCHANGED signals
  BY <1>12, ThreadsAssumption DEF MutexInv, TypeOK, Local, NoLocal, SeekDone
<1>13. CASE SeekUnlock(c) /\ UNCHANGED signals
  BY <1>13, ThreadsAssumption DEF MutexInv, TypeOK, Local, NoLocal, SeekUnlock
<1>14. CASE WriteOpen(c) /\ UNCHANGED signals
  BY <1>14, ThreadsAssumption DEF MutexInv, TypeOK, Local, NoLocal, WriteOpen
<1>15. CASE WriteOpenFails(c) /\ UNCHANGED signals
  BY <1>15, ThreadsAssumption DEF MutexInv, TypeOK, Local, NoLocal, WriteOpenFails
<1>16. CASE Write(c) /\ UNCHANGED signals
  BY <1>16, ThreadsAssumption DEF MutexInv, TypeOK, Local, NoLocal, Write
<1>17. CASE WriteFails(c) /\ UNCHANGED signals
  BY <1>17, ThreadsAssumption DEF MutexInv, TypeOK, Local, NoLocal, WriteFails
<1>18. CASE Relock(c) /\ UNCHANGED signals
  BY <1>18, ThreadsAssumption DEF MutexInv, TypeOK, Local, NoLocal, Relock
<1>19. CASE RelockFails(c) /\ UNCHANGED signals
  BY <1>19, ThreadsAssumption DEF MutexInv, TypeOK, Local, NoLocal, RelockFails
<1>20. CASE ReadSend(c) /\ UNCHANGED signals
  BY <1>20, ThreadsAssumption, SMTT(30) DEF MutexInv, TypeOK, Local, NoLocal, ReadSend, Sending
<1>21. CASE ReadEnds(c) /\ UNCHANGED signals
  BY <1>21, ThreadsAssumption DEF MutexInv, TypeOK, Local, NoLocal, ReadEnds
<1>22. CASE Answered(c) /\ UNCHANGED signals
  BY <1>22, ThreadsAssumption DEF MutexInv, TypeOK, Local, NoLocal, Answered
<1> QED
  BY <1>1, <1>2, <1>3, <1>4, <1>5, <1>6, <1>7, <1>8, <1>9, <1>10, <1>11, <1>12, <1>13, <1>14, <1>15, <1>16, <1>17, <1>18, <1>19, <1>20, <1>21, <1>22 DEF ThreadStep

(* Every step keeps the owner of the mutex the one inside. *)
LEMMA MutexStep ==
  ASSUME TypeOK, NodeInv, BufferInv, MutexInv, [Next]_vars
  PROVE  MutexInv'
<1> USE DEF mainvars, clients, device, signals, threads, stop, Healthy, Inside
<1>1. ASSUME NEW c \in Client, ThreadStep(c), ~SendFails(c) PROVE MutexInv'
  BY <1>1, MutexThread
<1>2. CASE ExitStep
  <2>1. NoLocal.fd = "none"
    BY DEF NoLocal
  <2> QED
    BY <1>2, <2>1, ExitFrame, ThreadsAssumption DEF MutexInv
<1>3. ASSUME NEW c \in Client, Accept(c), UNCHANGED signals PROVE MutexInv'
  BY <1>3 DEF MutexInv, Accept, TypeOK
<1>4. CASE ((\E c \in Client : CreateFails(c)) \/ Insert \/ Sweep \/ SweepEnds) /\ UNCHANGED signals
  BY <1>4 DEF MutexInv, CreateFails, Insert, Sweep, SweepEnds
<1>5. CASE AcceptFails
  BY <1>5 DEF MutexInv, AcceptFails
<1>6. CASE DestroyMutex
  BY <1>6 DEF MutexInv, DestroyMutex
<1>7. CASE Restart
  BY <1>7 DEF MutexInv, Restart
<1>8. CASE ReloadDriver
  <2>1. \A d \in Client : pc[d] \in {"none", "ended"}
    BY <1>8 DEF NodeInv, ReloadDriver
  <2>2. \A d \in Client : local[d] = NoLocal
    BY <2>1 DEF BufferInv
  <2>3. NoLocal.fd = "none"
    BY DEF NoLocal
  <2> QED
    BY <1>8, <2>1, <2>2, <2>3 DEF MutexInv, ReloadDriver
<1>9. ASSUME NEW who \in Client \cup {MAIN}, handle_signal(who) PROVE MutexInv'
  BY <1>9 DEF MutexInv, handle_signal, Unlink
<1>10. CASE UNCHANGED vars
  BY <1>10 DEF vars, MutexInv
<1> QED
  BY <1>1, <1>2, <1>3, <1>4, <1>5, <1>6, <1>7, <1>8, <1>9, <1>10, NextKinds DEF OtherStep
-----------------------------------------------------------------------------
(* The inductive invariant of the server, whatever its clients send and    *)
(* whatever fails.                                                         *)
ServerInv == TypeOK /\ SeekParsed /\ BufferInv /\ NodeInv /\ MutexInv

(* The invariant holds at the start. *)
LEMMA ServerInit == Init => ServerInv
<1> SUFFICES ASSUME Init PROVE ServerInv
  OBVIOUS
<1>1. TypeOK /\ SeekParsed
  BY TypeInit
<1>2. BufferInv
  BY NoLocalHolds DEF Init, BufferInv, BufferHolds
<1>3. NodeInv
  BY DEF Init, NodeInv, NodeOutlivesThread
<1>4. MutexInv
  BY ThreadsAssumption DEF Init, MutexInv, Healthy, stop, Inside, NoLocal
<1> QED
  BY <1>1, <1>2, <1>3, <1>4 DEF ServerInv

(* Every step keeps the invariant. *)
LEMMA ServerInductive == ServerInv /\ [Next]_vars => ServerInv'
BY TypeStep, SeekParsedStep, BufferStep, NodeStep, MutexStep DEF ServerInv

(* So it always holds. *)
LEMMA ServerAlways == Spec => []ServerInv
BY ServerInit, ServerInductive, PTL DEF Spec

(* What was received fits in the buffer, and its NUL with it, for every    *)
(* size of the first buffer and every way TCP cuts a message, whether      *)
(* realloc fails or not.                                                   *)
THEOREM BufferSafe == Spec => []BufferHolds
<1>1. ServerInv => BufferHolds
  BY DEF ServerInv, BufferInv
<1> QED
  BY <1>1, ServerAlways, PTL

(* The sweep of main never frees the node of a thread that still runs,     *)
(* however many there are and wherever one ends.                           *)
THEOREM NodesKept == Spec => []NodeOutlivesThread
<1>1. ServerInv => NodeOutlivesThread
  BY DEF ServerInv, NodeInv
<1> QED
  BY <1>1, ServerAlways, PTL

(* At most one thread is between lock and unlock until a seek fails or a   *)
(* signal comes.                                                           *)
THEOREM MutualExclusion == Spec => []OneInside
<1>1. ServerInv => OneInside
  BY DEF ServerInv, MutexInv, OneInside, Healthy
<1> QED
  BY <1>1, ServerAlways, PTL
-----------------------------------------------------------------------------
(* Whole messages. *)
LEMMA NoLocalOwn == NoLocal.buffer = <<>> /\ \A c : Own(c, NoLocal.buffer)
<1>1. NoLocal.buffer = <<>>
  BY DEF NoLocal
<1>2. 1 .. Len(<<>>) = {}
  OBVIOUS
<1> QED
  BY <1>1, <1>2 DEF Own

(* One recv. *)
LEMMA WholeRecv ==
  ASSUME WholeScripts, TypeOK, NEW c \in Client, WholeOf(c), Recv(c)
  PROVE  WholeOf(c)'
<1>1. PICK n \in 1 .. Len(stream[c]), size \in Nat \ {0}, a \in Nat, where \in {"received", "recv"} :
        Receives(c, n, size, a, where)
  BY RecvReceives
<1> DEFINE s == stream[c]
           b == local[c].buffer
           r == Received(c, n)
           u == SubSeq(s, 1, n)
           v == SubSeq(s, n + 1, Len(s))
<1>2. s \in Seq(Token) /\ b \in Seq(Token) /\ Len(s) \in Nat /\ Len(b) \in Nat
  <2>1. s \in Seq(Token) /\ b \in Seq(Token)
    BY DEF TypeOK, Local
  <2> HIDE DEF s, b
  <2> QED
    BY <2>1
<1>3. /\ local'[c].buffer = r /\ stream'[c] = v /\ script' = script /\ pc[c] = "recv"
      /\ pc'[c] = IF MessageEnds(r) THEN "received" ELSE "recv"
  <2>1. /\ stream'[c] = v /\ pc'[c] = where /\ where = IF MessageEnds(r) THEN "received" ELSE "recv"
    BY <1>1 DEF Receives, TypeOK, WholeScripts
  <2>2. local'[c].buffer = r
    BY <1>1 DEF Receives, TypeOK, Local
  <2> QED
    BY <2>1, <2>2 DEF Recv
<1>4. r = b \o u
  BY DEF Received
<1>5. /\ u \in Seq(Token) /\ Len(u) = n /\ \A i \in 1 .. n : u[i] = s[i]
  <2>1. \A i \in 1 .. n : s[i] \in Token
    BY <1>2
  <2>2. /\ u \in Seq(Token) /\ Len(u) = IF 1 <= n THEN n - 1 + 1 ELSE 0
        /\ \A i \in 1 .. n - 1 + 1 : u[i] = s[1 + i - 1]
    BY <2>1, SubSeqProperties
  <2> HIDE DEF u
  <2> QED
    BY <2>2
<1>6. /\ v \in Seq(Token) /\ Len(v) = Len(s) - n /\ \A i \in 1 .. Len(s) - n : v[i] = s[n + i]
  <2>1. \A i \in n + 1 .. Len(s) : s[i] \in Token
    BY <1>2
  <2>2. /\ v \in Seq(Token) /\ Len(v) = IF n + 1 <= Len(s) THEN Len(s) - (n + 1) + 1 ELSE 0
        /\ \A i \in 1 .. Len(s) - (n + 1) + 1 : v[i] = s[(n + 1) + i - 1]
    BY <1>2, <2>1, SubSeqProperties
  <2> HIDE DEF v
  <2>3. ASSUME NEW i \in 1 .. Len(s) - n PROVE v[i] = s[n + i]
    BY <1>2, <2>2
  <2> QED
    BY <1>2, <2>2, <2>3
<1> HIDE DEF u, v, r
<1>7. n \in 1 .. Len(s)
  OBVIOUS
<1>8. /\ Own(c, s) /\ Own(c, b) /\ ~MessageEnds(b)
      /\ script[c].closes => \/ HasNewline(s)
                             \/ b = <<>> /\ (s = <<>> \/ s[1] = SEEKTO)
  BY <1>3 DEF WholeOf
<1> HIDE DEF s, b
<1>9. Len(r) = Len(b) + n /\ \A i \in 1 .. Len(b) : r[i] = b[i]
  BY <1>2, <1>4, <1>5, <1>7
<1>10. \A i \in 1 .. n : r[Len(b) + i] = s[i] /\ Len(b) + i \in 1 .. Len(r)
  BY <1>2, <1>4, <1>5, <1>7
<1>11. Own(c, v)
  <2>1. ASSUME NEW i \in 1 .. Len(v), v[i] \in Client PROVE v[i] = c
    <3>1. v[i] = s[n + i] /\ n + i \in 1 .. Len(s)
      BY <1>2, <1>6, <1>7
    <3> QED
      BY <1>8, <2>1, <3>1 DEF Own
  <2> QED
    BY <2>1 DEF Own
<1>12. Own(c, r)
  <2>1. ASSUME NEW i \in 1 .. Len(r), r[i] \in Client PROVE r[i] = c
    <3>1. CASE i \in 1 .. Len(b)
      BY <1>8, <1>9, <2>1, <3>1 DEF Own
    <3>2. CASE i \notin 1 .. Len(b)
      <4>1. i - Len(b) \in 1 .. n /\ i - Len(b) \in 1 .. Len(s) /\ Len(b) + (i - Len(b)) = i
        BY <1>2, <1>7, <1>9, <3>2
      <4>2. r[i] = s[i - Len(b)]
        BY <1>10, <4>1
      <4> QED
        BY <1>8, <2>1, <4>1, <4>2 DEF Own
    <3> QED
      BY <3>1, <3>2
  <2> QED
    BY <2>1 DEF Own
<1>13. ASSUME ~MessageEnds(r), script[c].closes PROVE HasNewline(v)
  <2>1. HasNewline(s)
    <3>1. SUFFICES ASSUME b = <<>>, s = <<>> \/ s[1] = SEEKTO PROVE FALSE
      BY <1>8, <1>13
    <3>2. Len(b) = 0 /\ 1 \in 1 .. n /\ s # <<>>
      BY <1>2, <1>7, <3>1
    <3>3. r[Len(b) + 1] = s[1]
      BY <1>10, <3>2
    <3>4. r[1] = SEEKTO /\ r # <<>>
      BY <1>9, <3>1, <3>2, <3>3
    <3> QED
      BY <1>13, <3>4 DEF MessageEnds, IsSeek
  <2>2. PICK i \in 1 .. Len(s) : s[i] = NEWLINE
    BY <2>1 DEF HasNewline
  <2>3. i \notin 1 .. n
    BY <1>10, <1>13, <2>2 DEF MessageEnds
  <2>4. i - n \in 1 .. Len(s) - n /\ n + (i - n) = i
    BY <1>2, <1>7, <2>3
  <2>5. v[i - n] = NEWLINE
    BY <1>6, <2>2, <2>4
  <2> QED
    BY <1>6, <2>4, <2>5 DEF HasNewline
<1> QED
  BY <1>3, <1>11, <1>12, <1>13 DEF WholeOf, Own, MessageEnds, IsSeek, HasNewline

(* Each step of a thread keeps what it holds its own client's, to be        *)
(* finished by a newline.                                                   *)
LEMMA WholeThread ==
  ASSUME WholeScripts, TypeOK, NEW c \in Client, BufferOf(c), WholeOf(c), ThreadStep(c), ~SendFails(c)
  PROVE  WholeOf(c)'
<1> USE DEF mainvars, clients, device, signals, threads, Go, Ends, WholeOf, Own, HasNewline, MessageEnds, IsSeek
<1>1. CASE MallocFails(c) /\ UNCHANGED signals
  BY <1>1, NoLocalOwn DEF TypeOK, Local, MallocFails
<1>2. CASE Lock(c) /\ UNCHANGED signals
  <2>1. local[c].buffer = <<>> /\ local' = local /\ Len(<<>>) = 0
    BY <1>2, NoLocalOwn DEF BufferOf, Lock
  <2> QED
    BY <1>2, <2>1 DEF TypeOK, Lock
<1>3. CASE Recv(c) /\ UNCHANGED signals
  BY <1>3, WholeRecv
<1>4. CASE RecvEnds(c) /\ UNCHANGED signals
  <2>1. 1 .. Len(<<>>) = {}
    OBVIOUS
  <2>2. local[c].buffer = <<>>
    BY <1>4, <2>1 DEF RecvEnds
  <2>3. UNCHANGED <<local, stream, script>> /\ pc'[c] = "received"
    BY <1>4 DEF RecvEnds, TypeOK
  <2> QED
    BY <2>2, <2>3
<1>5. CASE NothingReceived(c) /\ UNCHANGED signals
  BY <1>5, NoLocalOwn DEF TypeOK, Local, NothingReceived
<1>6. CASE SeekIgnored(c) /\ UNCHANGED signals
  BY <1>6, NoLocalOwn DEF TypeOK, Local, SeekIgnored
<1>7. CASE SeekOpen(c) /\ UNCHANGED signals
  BY <1>7, NoLocalOwn DEF TypeOK, Local, SeekOpen
<1>8. CASE Ioctl(c) /\ UNCHANGED signals
  BY <1>8, NoLocalOwn DEF TypeOK, Local, Ioctl
<1>9. CASE IoctlFails(c) /\ UNCHANGED signals
  BY <1>9, NoLocalOwn DEF TypeOK, Local, IoctlFails
<1>10. CASE SecondUnlock(c) /\ UNCHANGED signals
  BY <1>10, NoLocalOwn DEF TypeOK, Local, SecondUnlock
<1>11. CASE SeekReadEnds(c) /\ UNCHANGED signals
  BY <1>11, NoLocalOwn DEF TypeOK, Local, SeekReadEnds
<1>12. CASE SeekDone(c) /\ UNCHANGED signals
  BY <1>12, NoLocalOwn DEF TypeOK, Local, SeekDone
<1>13. CASE SeekUnlock(c) /\ UNCHANGED signals
  BY <1>13, NoLocalOwn DEF TypeOK, Local, SeekUnlock
<1>14. CASE WriteOpen(c) /\ UNCHANGED signals
  BY <1>14, NoLocalOwn DEF TypeOK, Local, WriteOpen
<1>15. CASE WriteOpenFails(c) /\ UNCHANGED signals
  BY <1>15, NoLocalOwn DEF TypeOK, Local, WriteOpenFails
<1>16. CASE Write(c) /\ UNCHANGED signals
  BY <1>16, NoLocalOwn DEF TypeOK, Local, Write
<1>17. CASE WriteFails(c) /\ UNCHANGED signals
  BY <1>17 DEF WriteFails, WholeScripts
<1>18. CASE Relock(c) /\ UNCHANGED signals
  BY <1>18, NoLocalOwn DEF TypeOK, Local, Relock
<1>19. CASE RelockFails(c) /\ UNCHANGED signals
  BY <1>19, NoLocalOwn DEF TypeOK, Local, RelockFails
<1>20. CASE ReadSend(c) /\ UNCHANGED signals
  BY <1>20, NoLocalOwn DEF TypeOK, Local, ReadSend, Sending
<1>21. CASE ReadEnds(c) /\ UNCHANGED signals
  BY <1>21, NoLocalOwn DEF TypeOK, Local, ReadEnds
<1>22. CASE Answered(c) /\ UNCHANGED signals
  BY <1>22, NoLocalOwn DEF TypeOK, Local, Answered
<1> QED
  BY <1>1, <1>2, <1>3, <1>4, <1>5, <1>6, <1>7, <1>8, <1>9, <1>10, <1>11, <1>12, <1>13, <1>14, <1>15, <1>16, <1>17, <1>18, <1>19, <1>20, <1>21, <1>22 DEF ThreadStep
(* A message that holds a newline becomes a command of its own. *)
LEMMA WholeWrite ==
  ASSUME TypeOK, NEW c \in Client, WholeOf(c), pending = <<>>, pc[c] = "write",
         \A k \in 1 .. Len(log) : \E d \in Client : Own(d, log[k]),
         Device!Write(local[c].buffer)
  PROVE  pending' = <<>> /\ \A k \in 1 .. Len(log') : \E d \in Client : Own(d, log'[k])
<1> DEFINE b == local[c].buffer
<1>1. b \in Seq(Token) /\ log \in Seq(Seq(Token))
  BY DEF TypeOK, Local
<1>2. Own(c, b) /\ HasNewline(b)
  BY DEF WholeOf
<1> HIDE DEF b
<1>3. pending \o b = b
  BY <1>1
<1>4. Device!Complete(pending \o b)
  BY <1>2, <1>3 DEF HasNewline, Device!Complete
<1>5. log' = Device!Pushed(log, b) /\ pending' = <<>>
  BY <1>3, <1>4 DEF Device!Write, b
<1>6. ASSUME NEW t \in Seq(Seq(Token)), \A k \in 1 .. Len(t) : \E d \in Client : Own(d, t[k])
      PROVE  \A k \in 1 .. Len(Append(t, b)) : \E d \in Client : Own(d, Append(t, b)[k])
  <2>1. ASSUME NEW k \in 1 .. Len(Append(t, b)) PROVE \E d \in Client : Own(d, Append(t, b)[k])
    <3>1. CASE k \in 1 .. Len(t)
      <4>1. Append(t, b)[k] = t[k]
        BY <1>6, <3>1, AppendProperties
      <4> QED
        BY <1>6, <3>1, <4>1
    <3>2. CASE k \notin 1 .. Len(t)
      <4>1. Append(t, b)[k] = b
        BY <1>1, <1>6, <2>1, <3>2, AppendProperties
      <4> QED
        BY <1>2, <4>1
    <3> QED
      BY <3>1, <3>2
  <2> QED
    BY <2>1
<1>7. CASE Len(log) < Capacity
  BY <1>1, <1>5, <1>6, <1>7 DEF Device!Pushed
<1>8. CASE ~(Len(log) < Capacity)
  <2> DEFINE t == Tail(log)
  <2>1. log # <<>>
    BY <1>1, <1>8, CapacityAssumption
  <2>2. t \in Seq(Seq(Token)) /\ Len(t) = Len(log) - 1 /\ \A k \in 1 .. Len(t) : t[k] = log[k + 1]
    BY <1>1, <2>1
  <2>3. \A k \in 1 .. Len(t) : k + 1 \in 1 .. Len(log)
    BY <1>1, <2>2
  <2> HIDE DEF t
  <2>4. \A k \in 1 .. Len(t) : \E d \in Client : Own(d, t[k])
    BY <2>2, <2>3
  <2>5. log' = Append(t, b)
    BY <1>5, <1>8 DEF Device!Pushed, t
  <2> QED
    BY <1>5, <1>6, <2>2, <2>4, <2>5
<1> QED
  BY <1>7, <1>8

(* The steps that change the commands of the device. *)
LEMMA LogFrame ==
  ASSUME WholeScripts, TypeOK, Next
  PROVE  \/ UNCHANGED <<log, pending>>
         \/ log' = <<>> /\ pending' = <<>>
         \/ \E c \in Client : pc[c] = "write" /\ Device!Write(local[c].buffer)
<1> USE DEF mainvars, clients, device, signals, threads
<1>1. ASSUME NEW c \in Client, ThreadStep(c), ~SendFails(c)
      PROVE  \/ UNCHANGED <<log, pending>>
             \/ pc[c] = "write" /\ Device!Write(local[c].buffer)
  BY <1>1 DEF WholeScripts, ThreadStep, MallocFails, Lock, Recv, RecvEnds, NothingReceived, SeekIgnored, SeekOpen,
     Ioctl, IoctlFails, SecondUnlock, SeekReadEnds, SeekDone, SeekUnlock, WriteOpen, WriteOpenFails,
     Write, WriteFails, Relock, RelockFails, ReadSend, Sending, ReadEnds, Answered
<1>2. ExitStep => UNCHANGED <<log, pending>>
  BY DEF ExitStep, Exit
<1>3. OtherStep => UNCHANGED <<log, pending>> \/ (log' = <<>> /\ pending' = <<>>)
  BY DEF OtherStep, Accept, CreateFails, Insert, Sweep, SweepEnds, AcceptFails, DestroyMutex, Restart,
         ReloadDriver, Device!Reset, handle_signal
<1> QED
  BY <1>1, <1>2, <1>3, NextKinds

(* Every step keeps the commands whole: the one write of a message brings   *)
(* its newline.                                                             *)
LEMMA WholeStep ==
  ASSUME WholeScripts, TypeOK, NodeInv, BufferInv, WholeInv, [Next]_vars
  PROVE  WholeInv'
<1> USE DEF WholeInv
<1>1. CASE UNCHANGED vars
  BY <1>1 DEF vars, mainvars, clients, device, signals, threads, WholeOf, Own, HasNewline, MessageEnds, IsSeek
<1>2. CASE Next
  <2>1. pending' = <<>> /\ \A k \in 1 .. Len(log') : \E d \in Client : Own(d, log'[k])
    <3>1. CASE UNCHANGED <<log, pending>>
      BY <3>1
    <3>2. CASE log' = <<>> /\ pending' = <<>>
      BY <3>2
    <3>3. ASSUME NEW c \in Client, pc[c] = "write", Device!Write(local[c].buffer)
          PROVE  pending' = <<>> /\ \A k \in 1 .. Len(log') : \E d \in Client : Own(d, log'[k])
      BY <3>3, WholeWrite
    <3> QED
      BY <1>2, <3>1, <3>2, <3>3, LogFrame
  <2>2. ASSUME NEW d \in Client PROVE WholeOf(d)'
    <3>0. WholeOf(d) /\ BufferOf(d)
      BY BufferOfEach
    <3>1. ASSUME NEW c \in Client, ThreadStep(c), ~SendFails(c) PROVE WholeOf(d)'
      <4>1. CASE c = d
        BY <3>0, <3>1, <4>1, WholeThread
      <4>2. CASE c # d
        BY <3>0, <3>1, <4>2, ThreadFrame DEF WholeOf, Own, HasNewline, MessageEnds, IsSeek
      <4> QED
        BY <4>1, <4>2
    <3>2. CASE ExitStep
      BY <3>0, <3>2, ExitFrame, NoLocalOwn DEF BufferOf, WholeOf, Own, HasNewline, MessageEnds, IsSeek
    <3>3. CASE OtherStep
      <4>1. ASSUME Accept(d) PROVE pc[d] = "none"
        BY <4>1 DEF Accept, NodeInv
      <4> QED
        BY <3>0, <3>3, <4>1, OtherFrame DEF WholeOf, Own, HasNewline, MessageEnds, IsSeek
    <3> QED
      BY <1>2, <3>1, <3>2, <3>3, NextKinds
  <2> QED
    BY <2>1, <2>2 DEF Own
<1> QED
  BY <1>1, <1>2

(* What the clients have to send is their own, and the device is empty. *)
LEMMA WholeInit == WholeScripts /\ Init => WholeInv
<1> SUFFICES ASSUME WholeScripts, Init PROVE WholeInv
  OBVIOUS
<1>1. pending = <<>> /\ \A k \in 1 .. Len(log) : \E c \in Client : Own(c, log[k])
  BY DEF Init
<1>2. /\ script \in [Client -> Scripts]
      /\ stream = [c \in Client |->
           [i \in 1 .. Len(script[c].tokens) |->
              IF script[c].tokens[i] = DATA THEN c ELSE script[c].tokens[i]]]
  BY DEF Init
<1>3. ASSUME NEW c \in Client PROVE WholeOf(c)
  <2> DEFINE s == script[c].tokens
             S == {DATA, NEWLINE, SEEKTO} \cup Nat
             u == stream[c]
  <2>1. s \in Seq(S)
    BY <1>2, ScriptsAssumption
  <2>2. u = [i \in 1 .. Len(s) |-> IF s[i] = DATA THEN c ELSE s[i]]
    BY <1>2
  <2>3. script[c].closes => s = <<>> \/ s[1] = SEEKTO \/ \E i \in 1 .. Len(s) : s[i] = NEWLINE
    BY <1>2 DEF WholeScripts
  <2>4. pc[c] = "none" /\ local[c] = NoLocal
    BY DEF Init
  <2> HIDE DEF s, u
  <2>5. Len(s) \in Nat /\ Len(u) = Len(s) /\ \A i \in 1 .. Len(s) : s[i] \in S
    BY <2>1, <2>2
  <2>6. Own(c, u)
    <3>1. ASSUME NEW i \in 1 .. Len(u), u[i] \in Client, s[i] # DATA PROVE FALSE
      <4>1. u[i] = s[i] /\ s[i] \in {NEWLINE, SEEKTO} \cup Nat
        BY <2>2, <2>5, <3>1
      <4> QED
        BY <3>1, <4>1, TokensAssumption
    <3> QED
      BY <2>2, <2>5, <3>1 DEF Own
  <2>7. ASSUME script[c].closes PROVE HasNewline(u) \/ u = <<>> \/ u[1] = SEEKTO
    <3>1. CASE s = <<>>
      BY <2>2, <2>5, <3>1
    <3>2. CASE s[1] = SEEKTO /\ s # <<>>
      BY <2>1, <2>2, <2>5, <3>2, TokensAssumption
    <3>3. ASSUME NEW i \in 1 .. Len(s), s[i] = NEWLINE PROVE HasNewline(u)
      BY <2>2, <2>5, <3>3, TokensAssumption DEF HasNewline
    <3> QED
      BY <2>3, <2>7, <3>1, <3>2, <3>3
  <2> QED
    BY <2>4, <2>6, <2>7, NoLocalOwn DEF WholeOf, u
<1> QED
  BY <1>1, <1>3 DEF WholeInv
(* No command mixes the bytes of two clients, wherever the server is cut,  *)
(* restarted or interrupted, as long as no write fails, no realloc fails   *)
(* and who shuts its side has finished its message.                        *)
THEOREM WholeCommands == ASSUME WholeScripts PROVE Spec => []CommandFromOneClient
<1>1. Init => ServerInv /\ WholeInv
  BY ServerInit, WholeInit
<1>2. ServerInv /\ WholeInv /\ [Next]_vars => (ServerInv /\ WholeInv)'
  BY ServerInductive, WholeStep DEF ServerInv
<1>3. ServerInv /\ WholeInv => CommandFromOneClient
  <2> SUFFICES ASSUME ServerInv, WholeInv, NEW k \in 1 .. Len(log),
                      NEW c \in Range(log[k]) \cap Client, NEW d \in Range(log[k]) \cap Client
               PROVE  c = d
    BY DEF CommandFromOneClient
  <2>1. PICK e \in Client : Own(e, log[k])
    BY DEF WholeInv
  <2>2. log[k] \in Seq(Token)
    BY DEF ServerInv, TypeOK
  <2>3. ASSUME NEW x \in Range(log[k]) \cap Client PROVE x = e
    BY <2>1, <2>2 DEF Own, Range
  <2> QED
    BY <2>3
<1> QED
  BY <1>1, <1>2, <1>3, PTL DEF Spec
-----------------------------------------------------------------------------
(* Answers. *)

(* Where a seek puts the file. *)
LEMMA SeekPosInside ==
  ASSUME TypeOK, NEW arg \in Nat \X Nat, InRange(arg)
  PROVE  /\ SeekPos(arg) = Len(FlattenSeq(SubSeq(log, 1, arg[1]))) + arg[2]
         /\ SeekPos(arg) \in Nat /\ Len(FlattenSeq(log)) \in Nat
         /\ SeekPos(arg) <= Len(FlattenSeq(log))
         /\ SubSeq(FlattenSeq(log), SeekPos(arg) + 1, Len(FlattenSeq(log)))
              = SubSeq(log[arg[1] + 1], arg[2] + 1, Len(log[arg[1] + 1]))
                  \o FlattenSeq(SubSeq(log, arg[1] + 2, Len(log)))
<1> DEFINE x == arg[1]
           y == arg[2]
           a == FlattenSeq(SubSeq(log, 1, x))
           all == FlattenSeq(log)
<1>1. x \in Nat /\ y \in Nat /\ log \in Seq(Seq(Token)) /\ x < Len(log) /\ y < Len(log[x + 1])
  BY DEF TypeOK, InRange
<1>2. x \in 0 .. Len(log) - 1 /\ x + 1 \in 1 .. Len(log)
  BY <1>1
<1>3. log[x + 1] \in Seq(Token)
  BY <1>1, <1>2
<1>4. y \in 0 .. Len(log[x + 1]) /\ Len(log[x + 1]) \in Nat
  BY <1>1, <1>3
<1> HIDE DEF x, y
<1>5. /\ Len(a) \in Nat /\ Len(all) \in Nat
      /\ Len(a) + Len(log[x + 1]) <= Len(all)
      /\ SubSeq(all, Len(a) + y + 1, Len(all))
           = SubSeq(log[x + 1], y + 1, Len(log[x + 1])) \o FlattenSeq(SubSeq(log, x + 2, Len(log)))
  BY <1>1, <1>2, <1>4, FlattenSuffix
<1>6. SeekPos(arg) = Len(a) + y
  BY ContentIs DEF SeekPos, x, y
<1> HIDE DEF a, all
<1>8. Len(a) + y \in Nat /\ Len(a) + y <= Len(all)
  BY <1>1, <1>4, <1>5, SMTT(30)
<1> QED
  BY <1>5, <1>6, <1>8 DEF x, y, a, all

(* Before the first read. *)
LEMMA NothingYet ==
  ASSUME NEW s, NEW i \in Nat
  PROVE  SubSeq(s, i + 1, i) = <<>>
BY SubSeqEmpty

(* One read and send. *)
LEMMA AnswerReads ==
  ASSUME TypeOK, SeekParsed, NEW c \in Client, Answering(c), ReadSend(c)
  PROVE  Answering(c)'
<1> DEFINE bytes == ReadBytes(local[c])
           all == AllOf(local[c])
           p == local[c].pos
           q == local[c].pos + Len(bytes)
<1>1. /\ pc[c] \in {"read", "seek_read"} /\ (local[c].fd = "chardev" => ~stuck) /\ bytes # <<>>
      /\ sent' = [sent EXCEPT ![c] = @ \o bytes]
      /\ local' = [local EXCEPT ![c].pos = @ + Len(bytes)]
      /\ UNCHANGED <<pc, node, log, stuck, regular>>
  BY DEF ReadSend, Sending, device
<1>2. local[c] \in Local /\ p \in Nat
  BY DEF TypeOK, Local
<1>4. /\ all \in Seq(Token) /\ bytes \in Seq(Token) /\ q <= Len(all) /\ bytes = SubSeq(all, p + 1, q)
  BY <1>1, <1>2, ReadReturns
<1>5. Start(c) \in Nat /\ Start(c) <= p /\ sent[c] = SubSeq(all, Start(c) + 1, p)
  <2>1. CASE pc[c] = "seek_read"
    <3>1. InRange(SeekTo(local[c].buffer)) /\ SeekTo(local[c].buffer) \in Nat \X Nat
      BY <1>1, <2>1 DEF Answering, SeekParsed
    <3>2. Start(c) \in Nat
      BY <2>1, <3>1, SeekPosInside DEF Start
    <3> QED
      BY <1>1, <3>2 DEF Answering
  <2>2. CASE pc[c] = "read"
    BY <1>1, <2>2 DEF Answering, Start
  <2> QED
    BY <1>1, <2>1, <2>2
<1>6. /\ Start(c)' = Start(c) /\ local'[c].buffer = local[c].buffer /\ local'[c].pos = q
      /\ local'[c].fd = local[c].fd /\ sent'[c] = sent[c] \o bytes
  <2>1. local'[c].buffer = local[c].buffer /\ local'[c].pos = q /\ local'[c].fd = local[c].fd
    BY <1>1, <1>2 DEF TypeOK, Local
  <2>2. Start(c)' = Start(c)
    BY <1>1, <2>1 DEF Start
  <2>3. sent'[c] = sent[c] \o bytes
    BY <1>1 DEF TypeOK
  <2> QED
    BY <2>1, <2>2, <2>3
<1>7. Len(bytes) \in Nat /\ Len(all) \in Nat
  BY <1>4
<1>10. AllOf(local[c])' = all /\ (InRange(SeekTo(local[c].buffer)) => InRange(SeekTo(local[c].buffer))')
  BY <1>1, <1>6 DEF AllOf, InRange, Device!Content, Device!FlattenSeq
<1> DEFINE o == Start(c)
<1> HIDE DEF bytes, all
<1>8. o \in 0 .. Len(all) /\ p \in o .. Len(all) /\ q \in p .. Len(all)
  BY <1>2, <1>4, <1>5, <1>7
<1> HIDE DEF o, p, q
<1>9. SubSeq(all, o + 1, p) \o SubSeq(all, p + 1, q) = SubSeq(all, o + 1, q)
  BY <1>4, <1>8, SlicesJoin
<1>11. sent'[c] = SubSeq(all, o + 1, q) /\ o <= q /\ q <= Len(all)
  <2>1. sent[c] = SubSeq(all, o + 1, p) /\ bytes = SubSeq(all, p + 1, q) /\ sent'[c] = sent[c] \o bytes
    BY <1>4, <1>5, <1>6 DEF o
  <2>2. sent'[c] = SubSeq(all, o + 1, q)
    BY <1>9, <2>1
  <2> QED
    BY <1>2, <1>7, <1>8, <2>2
<1> QED
  BY <1>1, <1>6, <1>10, <1>11 DEF Answering, o

(* The seek has put the file at its byte. *)
LEMMA AnswerSeeks ==
  ASSUME TypeOK, SeekParsed, NEW c \in Client, Answering(c), sent[c] = <<>>, Ioctl(c)
  PROVE  Answering(c)'
<1> DEFINE arg == SeekTo(local[c].buffer)
           all == FlattenSeq(log)
           o == Len(FlattenSeq(SubSeq(log, 1, arg[1]))) + arg[2]
<1>1. /\ pc[c] = "ioctl" /\ local[c].fd = "chardev" /\ node = "chardev" /\ ~stuck
      /\ InRange(arg) /\ arg \in Nat \X Nat
      /\ local' = [local EXCEPT ![c].pos = SeekPos(arg)]
      /\ pc' = [pc EXCEPT ![c] = "seek_read"]
      /\ UNCHANGED <<sent, node, log, stuck>>
  BY DEF Ioctl, Answering, SeekParsed, device, clients, Go
<1>2. o = SeekPos(arg) /\ o \in Nat /\ o <= Len(all)
  BY <1>1, SeekPosInside
<1>3. /\ local'[c].pos = o /\ local'[c].fd = "chardev" /\ SeekTo(local'[c].buffer) = arg
      /\ pc'[c] = "seek_read" /\ sent'[c] = <<>>
  BY <1>1, <1>2 DEF TypeOK, Local
<1>4. Start(c)' = o /\ AllOf(local[c])' = all
  <2>1. Device!Content(log)' = all
    BY <1>1, ContentIs DEF Device!Content, Device!FlattenSeq, FlattenSeq
  <2> QED
    BY <1>1, <1>3, <2>1 DEF Start, AllOf
<1>5. InRange(SeekTo(local[c].buffer))'
  BY <1>1, <1>3 DEF InRange
<1>6. SubSeq(all, o + 1, o) = <<>>
  BY <1>2, NothingYet
<1>7. local'[c].fd = node'
  BY <1>1, <1>3
<1> HIDE DEF all, o, arg
<1>8. Start(c)' <= local'[c].pos /\ local'[c].pos <= Len(all)
  BY <1>2, <1>3, <1>4
<1>9. sent'[c] = SubSeq(all, Start(c)' + 1, local'[c].pos)
  BY <1>3, <1>4, <1>6
<1> QED
  BY <1>3, <1>4, <1>5, <1>7, <1>8, <1>9 DEF Answering

(* Each step of a thread keeps its answer in step with its position. *)
LEMMA AnswerThread ==
  ASSUME TypeOK, SeekParsed, NEW c \in Client, AnswerOf(c), ThreadStep(c), ~SendFails(c)
  PROVE  AnswerOf(c)'
<1> USE DEF mainvars, clients, device, signals, threads, Go, Ends, Unanswered
<1> DEFINE Kept == /\ pc'[c] \notin {"read", "seek_read"}
                   /\ pc'[c] \in {"ioctl", "write"} => local'[c].fd = node'
                   /\ sent'[c] = sent[c]
                   /\ \/ pc'[c] \in {"second_unlock", "seek_done", "seek_unlock", "answered", "ended"}
                      \/ pc[c] \in Unanswered
<1>30. Kept => AnswerOf(c)'
  BY DEF AnswerOf, Answering
<1>32. hpc' = hpc
  BY ThreadFrame
<1>31. NoLocal.fd = "none"
  BY DEF NoLocal
<1>1. CASE MallocFails(c) /\ UNCHANGED signals
  <2>1. Kept
    BY <1>1, <1>31 DEF MallocFails, TypeOK, Local
  <2> QED
    BY <1>30, <2>1
<1>2. CASE Lock(c) /\ UNCHANGED signals
  <2>1. Kept
    BY <1>2, <1>31 DEF Lock, TypeOK, Local
  <2> QED
    BY <1>30, <2>1
<1>3. CASE Recv(c) /\ UNCHANGED signals
  <2>1. PICK n \in 1 .. Len(stream[c]), size \in Nat \ {0}, a \in Nat, where \in {"received", "recv"} :
          Receives(c, n, size, a, where)
    BY <1>3, RecvReceives
  <2>2. local'[c].fd = local[c].fd
    BY <2>1 DEF Receives, TypeOK, Local
  <2>3. pc[c] = "recv" /\ pc'[c] \in {"received", "recv"} /\ sent' = sent
    BY <1>3, <2>1 DEF Receives, Recv, TypeOK
  <2>4. Kept
    BY <2>2, <2>3
  <2> QED
    BY <1>30, <2>4
<1>4. CASE RecvEnds(c) /\ UNCHANGED signals
  <2>1. Kept
    BY <1>4, <1>31 DEF RecvEnds, TypeOK, Local
  <2> QED
    BY <1>30, <2>1
<1>5. CASE NothingReceived(c) /\ UNCHANGED signals
  <2>1. Kept
    BY <1>5, <1>31 DEF NothingReceived, TypeOK, Local
  <2> QED
    BY <1>30, <2>1
<1>6. CASE SeekIgnored(c) /\ UNCHANGED signals
  <2>1. Kept
    BY <1>6, <1>31 DEF SeekIgnored, TypeOK, Local
  <2> QED
    BY <1>30, <2>1
<1>7. CASE SeekOpen(c) /\ UNCHANGED signals
  <2>1. Kept
    BY <1>7, <1>31 DEF SeekOpen, TypeOK, Local
  <2> QED
    BY <1>30, <2>1
<1>8. CASE Ioctl(c) /\ UNCHANGED signals
  <2>1. pc[c] = "ioctl" /\ pc'[c] = "seek_read"
    BY <1>8 DEF Ioctl, TypeOK
  <2>2. CASE stop
    BY <1>32, <2>1, <2>2 DEF AnswerOf, stop
  <2>3. CASE ~stop
    BY <1>8, <2>1, <2>3, AnswerSeeks DEF AnswerOf
  <2> QED
    BY <2>2, <2>3
<1>9. CASE IoctlFails(c) /\ UNCHANGED signals
  <2>1. Kept
    BY <1>9, <1>31 DEF IoctlFails, TypeOK, Local
  <2> QED
    BY <1>30, <2>1
<1>10. CASE SecondUnlock(c) /\ UNCHANGED signals
  <2>1. Kept
    BY <1>10, <1>31 DEF SecondUnlock, TypeOK, Local
  <2> QED
    BY <1>30, <2>1
<1>11. CASE SeekReadEnds(c) /\ UNCHANGED signals
  <2>1. Kept
    BY <1>11, <1>31 DEF SeekReadEnds, TypeOK, Local
  <2> QED
    BY <1>30, <2>1
<1>12. CASE SeekDone(c) /\ UNCHANGED signals
  <2>1. Kept
    BY <1>12, <1>31 DEF SeekDone, TypeOK, Local
  <2> QED
    BY <1>30, <2>1
<1>13. CASE SeekUnlock(c) /\ UNCHANGED signals
  <2>1. Kept
    BY <1>13, <1>31 DEF SeekUnlock, TypeOK, Local
  <2> QED
    BY <1>30, <2>1
<1>14. CASE WriteOpen(c) /\ UNCHANGED signals
  <2>1. Kept
    BY <1>14, <1>31 DEF WriteOpen, TypeOK, Local
  <2> QED
    BY <1>30, <2>1
<1>15. CASE WriteOpenFails(c) /\ UNCHANGED signals
  <2>1. Kept
    BY <1>15, <1>31 DEF WriteOpenFails, TypeOK, Local
  <2> QED
    BY <1>30, <2>1
<1>16. CASE Write(c) /\ UNCHANGED signals
  <2>1. Kept
    BY <1>16, <1>31 DEF Write, TypeOK, Local
  <2> QED
    BY <1>30, <2>1
<1>17. CASE WriteFails(c) /\ UNCHANGED signals
  <2>1. Kept
    BY <1>17, <1>31 DEF WriteFails, TypeOK, Local
  <2> QED
    BY <1>30, <2>1
<1>18. CASE Relock(c) /\ UNCHANGED signals
  <2>1. /\ local'[c].fd = node /\ local'[c].pos = 0 /\ pc'[c] = "read" /\ sent'[c] = <<>>
        /\ UNCHANGED <<node, log, stuck, regular>> /\ local'[c] \in Local
    BY <1>18 DEF Relock, AnswerOf, TypeOK, Local
  <2>2. Start(c)' = 0
    BY <2>1 DEF Start
  <2>3. SubSeq(AllOf(local'[c]), 0 + 1, 0) = <<>>
    BY NothingYet
  <2>4. AllOf(local[c])' = AllOf(local'[c]) /\ Len(AllOf(local'[c])) \in Nat
    <3>1. AllOf(local'[c]) \in Seq(Token)
      BY <2>1, ReadReturns
    <3>2. Len(AllOf(local'[c])) \in Nat
      BY <3>1
    <3> QED
      BY <2>1, <3>2 DEF AllOf, Device!Content, Device!FlattenSeq
  <2> QED
    BY <2>1, <2>2, <2>3, <2>4 DEF AnswerOf, Answering
<1>19. CASE RelockFails(c) /\ UNCHANGED signals
  <2>1. Kept
    BY <1>19, <1>31 DEF RelockFails, TypeOK, Local
  <2> QED
    BY <1>30, <2>1
<1>20. CASE ReadSend(c) /\ UNCHANGED signals
  <2>1. pc[c] \in {"read", "seek_read"} /\ pc' = pc
    BY <1>20 DEF ReadSend, Sending
  <2>2. CASE stop
    BY <1>32, <2>1, <2>2 DEF AnswerOf, stop
  <2>3. CASE ~stop
    BY <1>20, <2>1, <2>3, AnswerReads DEF AnswerOf
  <2> QED
    BY <2>2, <2>3
<1>21. CASE ReadEnds(c) /\ UNCHANGED signals
  <2>1. Kept
    BY <1>21, <1>31 DEF ReadEnds, TypeOK, Local
  <2> QED
    BY <1>30, <2>1
<1>22. CASE Answered(c) /\ UNCHANGED signals
  <2>1. Kept
    BY <1>22, <1>31 DEF Answered, TypeOK, Local
  <2> QED
    BY <1>30, <2>1
<1> QED
  BY <1>1, <1>2, <1>3, <1>4, <1>5, <1>6, <1>7, <1>8, <1>9, <1>10, <1>11, <1>12, <1>13, <1>14, <1>15, <1>16, <1>17, <1>18, <1>19, <1>20, <1>21, <1>22 DEF ThreadStep

(* What a step of a thread does to the files: only a write adds to the     *)
(* commands, while the driver answers, and to a regular file; a file is    *)
(* created only where there is none; the driver's mutex is never freed.    *)
LEMMA DeviceFrame ==
  ASSUME TypeOK, NEW c \in Client, ThreadStep(c), ~SendFails(c)
  PROVE  /\ node' = node \/ node = "absent"
         /\ stuck' = FALSE => stuck = FALSE
         /\ log' # log => pc[c] = "write" /\ local[c].fd = "chardev" /\ stuck = FALSE
         /\ \/ node = "absent" \/ regular' = regular
            \/ \E t \in Seq(Token) : regular' = regular \o t
<1> USE DEF mainvars, clients, device, signals, threads
<1>1. CASE Write(c)
  <2>1. local[c].buffer \in Seq(Token)
    BY DEF TypeOK, Local
  <2> QED
    BY <1>1, <2>1 DEF Write, TypeOK
<1>2. CASE WriteFails(c)
  BY <1>2 DEF WriteFails, Device!WriteNoMemory, Device!WriteFault, TypeOK
<1>3. CASE IoctlFails(c)
  BY <1>3 DEF IoctlFails
<1>4. CASE WriteOpen(c)
  BY <1>4 DEF WriteOpen
<1>5. CASE ~Write(c) /\ ~WriteFails(c) /\ ~IoctlFails(c) /\ ~WriteOpen(c)
  <2>1. UNCHANGED <<node, log, stuck, regular>>
    BY <1>5 DEF ThreadStep, MallocFails, Lock, Recv, RecvEnds, NothingReceived, SeekIgnored, SeekOpen,
       Ioctl, SecondUnlock, SeekReadEnds, SeekDone, SeekUnlock, WriteOpenFails,
       Relock, RelockFails, ReadSend, Sending, ReadEnds, Answered
  <2> QED
    BY <2>1
<1> QED
  BY <1>1, <1>2, <1>3, <1>4, <1>5

(* What was read of a file that grows at its end is still its beginning. *)
LEMMA SliceOfGrown ==
  ASSUME NEW S, NEW s \in Seq(S), NEW t \in Seq(S), NEW n \in Nat, n <= Len(s)
  PROVE  n <= Len(s \o t) /\ SubSeq(s \o t, 1, n) = SubSeq(s, 1, n)
OBVIOUS

(* A thread is not disturbed by the steps of another. *)
LEMMA AnswerOthers ==
  ASSUME ServerInv, NEW c \in Client, NEW d \in Client, c # d, AnswerOf(c), AnswerOf(d),
         ThreadStep(c), ~SendFails(c), stuck' \in BOOLEAN
  PROVE  AnswerOf(d)'
<1> USE DEF ServerInv
<1>1. pc'[d] = pc[d] /\ local'[d] = local[d] /\ sent'[d] = sent[d] /\ hpc' = hpc
  BY ThreadFrame
<1>2. CASE stop
  BY <1>1, <1>2 DEF AnswerOf, stop
<1>3. CASE ~stop
  <2>1. ~stop' /\ Answering(c) /\ Answering(d)
    BY <1>1, <1>3 DEF AnswerOf, stop
  <2>2. CASE pc[d] \notin {"ioctl", "seek_read", "write", "read"}
    BY <1>1, <2>2 DEF AnswerOf, Answering
  <2>3. CASE pc[d] \in {"ioctl", "seek_read", "write", "read"}
    <3>1. local[d].fd = node /\ node # "absent" /\ local[d] \in Local
      BY <2>1, <2>3 DEF Answering, TypeOK, Local
    <3>2. log' = log
      <4>1. SUFFICES ASSUME log' # log PROVE FALSE
        OBVIOUS
      <4>2. pc[c] = "write" /\ local[c].fd = "chardev" /\ stuck = FALSE
        BY <4>1, DeviceFrame
      <4>3. node = "chardev"
        BY <2>1, <4>2 DEF Answering
      <4> QED
        BY <1>3, <2>3, <4>2, <4>3 DEF MutexInv, Healthy, Inside
    <3>3. node' = node /\ (stuck' = FALSE => stuck = FALSE)
      BY <3>1, DeviceFrame
    <3>4. Start(d)' = Start(d) /\ (InRange(SeekTo(local[d].buffer)) => InRange(SeekTo(local[d].buffer))')
      BY <1>1, <3>2 DEF Start, InRange
    <3>5. stuck \in BOOLEAN
      BY DEF TypeOK
    <3>6. CASE AllOf(local[d])' = AllOf(local[d])
      BY <1>1, <2>1, <3>3, <3>4, <3>5, <3>6 DEF AnswerOf, Answering
    <3>7. CASE AllOf(local[d])' # AllOf(local[d])
      <4>1. local[d].fd = "regular" /\ regular' # regular
        BY <1>1, <3>2, <3>7 DEF AllOf, Device!Content, Device!FlattenSeq
      <4>2. PICK t \in Seq(Token) : regular' = regular \o t
        BY <3>1, <4>1, DeviceFrame
      <4>3. AllOf(local[d]) = regular /\ AllOf(local[d])' = regular'
        BY <1>1, <4>1 DEF AllOf
      <4>4. pc[d] # "seek_read"
        BY <2>1, <4>1 DEF Answering
      <4>5. Start(d) = 0
        BY <4>4 DEF Start
      <4>6. ASSUME pc[d] = "read"
            PROVE  /\ 0 <= local[d].pos /\ local[d].pos <= Len(regular')
                   /\ sent[d] = SubSeq(regular', 0 + 1, local[d].pos)
        <5>1. /\ local[d].pos <= Len(regular) /\ sent[d] = SubSeq(regular, 0 + 1, local[d].pos)
          BY <2>1, <4>1, <4>3, <4>5, <4>6 DEF Answering
        <5>2. local[d].pos \in Nat /\ regular \in Seq(Token)
          BY <3>1 DEF Local, TypeOK
        <5>3. local[d].pos <= Len(regular') /\ SubSeq(regular', 1, local[d].pos) = SubSeq(regular, 1, local[d].pos)
          BY <4>2, <5>1, <5>2, SliceOfGrown
        <5> QED
          BY <5>1, <5>2, <5>3
      <4> QED
        BY <1>1, <2>1, <3>3, <3>4, <4>1, <4>3, <4>4, <4>5, <4>6 DEF AnswerOf, Answering
    <3> QED
      BY <3>6, <3>7
  <2> QED
    BY <2>2, <2>3
<1> QED
  BY <1>2, <1>3

(* A step of main, of the handler or of the system: until a signal it      *)
(* leaves alone what a thread has open.                                    *)
LEMMA AnswerOther ==
  ASSUME ServerInv, NEW d \in Client, AnswerOf(d), OtherStep
  PROVE  AnswerOf(d)'
<1> USE DEF ServerInv
<1>1. ASSUME Accept(d) PROVE pc[d] = "none"
  BY <1>1 DEF Accept, NodeInv
<1>2. UNCHANGED <<local, sent>> /\ (pc'[d] = pc[d] \/ (pc[d] = "none" /\ pc'[d] = "threadfunc"))
  BY <1>1, OtherFrame
<1>3. CASE pc[d] \in {"none", "ended"}
  BY <1>2, <1>3 DEF AnswerOf, Answering, Unanswered
<1>4. CASE pc[d] \notin {"none", "ended"}
  <2>1. pc'[d] = pc[d] /\ local'[d] = local[d] /\ sent'[d] = sent[d]
    BY <1>2, <1>4
  <2>2. CASE stop'
    BY <2>1, <2>2 DEF AnswerOf
  <2>3. CASE ~stop'
    <3>1. ~stop /\ UNCHANGED <<node, log, stuck, regular>>
      BY <1>4, <2>3 DEF stop, mainvars, clients, device, signals, threads, NodeInv, OtherStep, Accept,
         CreateFails, Insert, Sweep, SweepEnds, AcceptFails, DestroyMutex, Restart, ReloadDriver,
         handle_signal
    <3>2. Start(d)' = Start(d) /\ (InRange(SeekTo(local[d].buffer)) => InRange(SeekTo(local[d].buffer))')
      BY <2>1, <3>1 DEF Start, InRange
    <3>3. AllOf(local[d])' = AllOf(local[d])
      BY <2>1, <3>1 DEF AllOf, Device!Content, Device!FlattenSeq
    <3> QED
      BY <2>1, <3>1, <3>2, <3>3 DEF AnswerOf, Answering
  <2> QED
    BY <2>2, <2>3
<1> QED
  BY <1>3, <1>4

(* Every step keeps every answer right. *)
LEMMA AnswerStep ==
  ASSUME ServerInv, AnswerInv, [Next]_vars
  PROVE  AnswerInv'
<1> SUFFICES ASSUME NEW d \in Client PROVE AnswerOf(d)'
  BY DEF AnswerInv
<1>0. AnswerOf(d) /\ TypeOK /\ SeekParsed
  BY DEF AnswerInv, ServerInv
<1>1. CASE UNCHANGED vars
  <2>1. UNCHANGED <<pc, local, sent, hpc, node, log, stuck, regular>>
    BY <1>1 DEF vars, mainvars, clients, device, signals, threads
  <2>2. Start(d)' = Start(d) /\ AllOf(local[d])' = AllOf(local[d]) /\ stop' = stop
    BY <2>1 DEF Start, AllOf, Device!Content, Device!FlattenSeq, stop
  <2>3. InRange(SeekTo(local[d].buffer))' = InRange(SeekTo(local[d].buffer))
    BY <2>1 DEF InRange
  <2> QED
    BY <1>0, <2>1, <2>2, <2>3 DEF AnswerOf, Answering
<1>2. ASSUME NEW c \in Client, ThreadStep(c), ~SendFails(c) PROVE AnswerOf(d)'
  <2>1. CASE c = d
    BY <1>0, <1>2, <2>1, AnswerThread
  <2>2. CASE c # d
    <3>1. stuck' \in BOOLEAN
      BY TypeStep DEF TypeOK, ServerInv
    <3> QED
      BY <1>0, <1>2, <2>2, <3>1, AnswerOthers DEF AnswerInv
  <2> QED
    BY <2>1, <2>2
<1>3. CASE ExitStep
  BY <1>0, <1>3, ExitFrame DEF AnswerOf, Answering, Unanswered
<1>4. CASE OtherStep
  BY <1>0, <1>4, AnswerOther
<1> QED
  BY <1>1, <1>2, <1>3, <1>4, NextKinds

(* No thread has answered yet. *)
LEMMA AnswerInit == Init => AnswerInv
BY DEF Init, AnswerInv, AnswerOf, Answering, stop

(* The answer to a message is the whole content of the file at the last    *)
(* read, whoever else writes, whatever fails, however many reads it takes, *)
(* after a restart too, and whether the file is the device or a regular    *)
(* one, until a signal.                                                    *)
THEOREM WholeAnswers == Spec => AnswerIsContent
<1>1. Init => ServerInv /\ AnswerInv
  BY ServerInit, AnswerInit
<1>2. ServerInv /\ AnswerInv /\ [Next]_vars => (ServerInv /\ AnswerInv)'
  BY ServerInductive, AnswerStep
<1>3. ASSUME ServerInv, AnswerInv, NEW c \in Client, ReadEnds(c), ~stop
      PROVE  sent[c] = IF local[c].fd = "regular" THEN regular ELSE Device!Content(log)
  <2> DEFINE all == AllOf(local[c])
             p == local[c].pos
  <2>1. /\ Answering(c) /\ pc[c] = "read" /\ local[c] \in Local /\ ReadBytes(local[c]) = <<>>
        /\ TypeOK /\ (local[c].fd = "chardev" => ~stuck)
    BY <1>3 DEF AnswerInv, AnswerOf, ServerInv, TypeOK, ReadEnds
  <2>3. all \in Seq(Token) /\ p >= Len(all)
    BY <2>1, ReadReturns
  <2>4. Start(c) = 0
    BY <2>1 DEF Start
  <2>5. p <= Len(all) /\ sent[c] = SubSeq(all, 1, p)
    BY <2>1, <2>4 DEF Answering
  <2>6. p \in Nat
    BY <2>1 DEF Local
  <2> HIDE DEF all, p
  <2>7. p = Len(all)
    BY <2>3, <2>5, <2>6
  <2>8. SubSeq(all, 1, Len(all)) = all
    BY <2>3, SubSeqFull
  <2> QED
    BY <2>5, <2>7, <2>8 DEF all, AllOf
<1>4. ServerInv /\ AnswerInv /\ [Next]_vars =>
        [\A c \in Client : ReadEnds(c) /\ ~stop =>
           sent[c] = IF local[c].fd = "regular" THEN regular ELSE Device!Content(log)]_vars
  BY <1>3
<1> QED
  BY <1>1, <1>2, <1>4, PTL DEF Spec, AnswerIsContent

(* The answer to a seek is the content from byte Y of command X on, X and  *)
(* Y as the client has sent them, although other clients' messages were    *)
(* written before it, whatever fails and however the request arrives, but  *)
(* for one that is cut inside Y, until a signal.                           *)
THEOREM SeekAnswers == Spec => SeekAnswerIsSuffix
<1>1. Init => ServerInv /\ AnswerInv
  BY ServerInit, AnswerInit
<1>2. ServerInv /\ AnswerInv /\ [Next]_vars => (ServerInv /\ AnswerInv)'
  BY ServerInductive, AnswerStep
<1> DEFINE Suffix(c) == LET arg == SeekTo(local[c].buffer \o stream[c])
                        IN  /\ arg[1] < Len(log)
                            /\ sent[c] = SubSeq(log[arg[1] + 1], arg[2] + 1, Len(log[arg[1] + 1]))
                                           \o Device!Content(SubSeq(log, arg[1] + 2, Len(log)))
<1>3. ASSUME ServerInv, AnswerInv, NEW c \in Client, SeekReadEnds(c), ~stop, ~CutInNumber(c)
      PROVE  Suffix(c)
  <2> DEFINE arg == SeekTo(local[c].buffer)
             all == FlattenSeq(log)
             p == local[c].pos
  <2>1. /\ Answering(c) /\ pc[c] = "seek_read" /\ local[c] \in Local /\ ReadBytes(local[c]) = <<>>
        /\ TypeOK /\ local[c].fd = "chardev" /\ ~stuck /\ SeekParsed
    BY <1>3 DEF AnswerInv, AnswerOf, Answering, ServerInv, TypeOK, SeekReadEnds
  <2>2. InRange(arg) /\ arg \in Nat \X Nat
    BY <2>1 DEF Answering, SeekParsed
  <2>3. /\ SeekPos(arg) = Len(FlattenSeq(SubSeq(log, 1, arg[1]))) + arg[2]
        /\ SubSeq(all, SeekPos(arg) + 1, Len(all))
             = SubSeq(log[arg[1] + 1], arg[2] + 1, Len(log[arg[1] + 1]))
                 \o FlattenSeq(SubSeq(log, arg[1] + 2, Len(log)))
    BY <2>1, <2>2, SeekPosInside
  <2>4. Start(c) = SeekPos(arg)
    BY <2>1, <2>3 DEF Start
  <2>5. AllOf(local[c]) = all
    BY <2>1, ContentIs DEF AllOf
  <2>6. all \in Seq(Token) /\ p >= Len(all)
    BY <2>1, <2>5, ReadReturns
  <2>7. p <= Len(all) /\ sent[c] = SubSeq(all, SeekPos(arg) + 1, p)
    BY <2>1, <2>4, <2>5 DEF Answering
  <2>8. p = Len(all)
    <3>1. p \in Nat
      BY <2>1 DEF Local
    <3> HIDE DEF all, p
    <3> QED
      BY <2>6, <2>7, <3>1
  <2>9. sent[c] = SubSeq(log[arg[1] + 1], arg[2] + 1, Len(log[arg[1] + 1]))
                    \o Device!Content(SubSeq(log, arg[1] + 2, Len(log)))
    BY <2>3, <2>7, <2>8, ContentIs
  <2>10. SeekTo(local[c].buffer \o stream[c]) = arg
    <3>1. local[c].buffer \in Seq(Token) /\ stream[c] \in Seq(Token) /\ Parsed(local[c].buffer)
      BY <2>1 DEF TypeOK, Local, SeekParsed
    <3> QED
      BY <1>3, <3>1, SeekToWhole DEF CutInNumber
  <2>11. arg[1] < Len(log)
    BY <2>2 DEF InRange
  <2> HIDE DEF arg
  <2> QED
    BY <2>9, <2>10, <2>11
<1>4. ServerInv /\ AnswerInv /\ [Next]_vars => [\A c \in Client : SeekReadEnds(c) /\ ~stop /\ ~CutInNumber(c) => Suffix(c)]_vars
  BY <1>3
<1> QED
  BY <1>1, <1>2, <1>4, PTL DEF Spec, SeekAnswerIsSuffix
=============================================================================
