--------------------------- MODULE StartupProofs ---------------------------
(***************************************************************************)
(* What TLAPS proves about the descriptors of the server in Startup, for   *)
(* any number of processes, threads, descriptors, connections and starts.  *)
(***************************************************************************)
EXTENDS Startup, FlattenLemmas

Table == [Fd -> Object \cup {NULL}]

ThreadRecord == [at : {"none", "run", "file", "close", "exit"}, new_fd : Fd, file_fd : Fd]

Early == {"down", "socket", "setsockopt", "bind", "daemonize", "listen"}

Process == [pc : Early \cup {"loop", "accept", "blocked", "close", "exit"},
            starts : Nat, daemonize_flag : BOOLEAN, fds : Table, sockfd : Fd,
            option : {"none", "reuseaddr"}, socket : {"none", "unbound", "bound", "listening"},
            stop : BOOLEAN, thread : [Thread -> ThreadRecord],
            why : {"none", "failure", "port", "stopped"}]

(* The numbers that threads work on. *)
HasConn(p, t, n) == p.thread[t].at \in {"run", "file"} /\ p.thread[t].new_fd = n
HasFile(p, t, n) == p.thread[t].at = "file" /\ p.thread[t].file_fd = n

(* NumbersOwned, of one process. *)
Owned(p) ==
  \A t, u \in Thread, n \in Fd : ~Lost(p, n) =>
    /\ HasConn(p, t, n) => p.fds[n] = "connection" /\ (HasConn(p, u, n) => t = u)
    /\ HasFile(p, t, n) => p.fds[n] = "file" /\ (HasFile(p, u, n) => t = u)

(* No number but sockfd names the socket, and before a signal sockfd does, *)
(* which is none that daemonize closes.                                    *)
SocketOK(p) ==
  /\ \A m \in Fd : p.fds[m] = "socket" => m = p.sockfd
  /\ p.pc \notin {"down", "socket"} /\ p.stop = FALSE => p.sockfd >= 3 /\ p.fds[p.sockfd] = "socket"

(* Who is about to close sockfd has seen or set stop. *)
StopOK(p) ==
  /\ p.pc \in {"close", "exit"} => p.stop = TRUE
  /\ \A t \in Thread : p.thread[t].at \in {"close", "exit"} => p.stop = TRUE

ProcOK(p) ==
  /\ p \in Process
  /\ p.pc = "socket" => p.fds = Standard
  /\ p.pc \in Early => \A t \in Thread : p.thread[t].at = "none"
  /\ p.pc \in {"bind", "daemonize", "listen"} => p.option = "reuseaddr"
  /\ SocketOK(p)
  /\ StopOK(p)
  /\ Owned(p)

StartInv == /\ proc \in [Server -> Process]
            /\ \A s \in Server : ProcOK(proc[s])
            /\ OneListens
-----------------------------------------------------------------------------
(* Tables: what opening and closing a descriptor may change. *)
Grows(f, g) == g \in Table /\ \A n \in Fd : g[n] = f[n] \/ (f[n] = NULL /\ g[n] # "socket")
Shrinks(f, g, numbers) ==
  g \in Table /\ \A n \in Fd : g[n] = f[n] \/ (n \in numbers /\ g[n] = NULL)

(* The lowest free number is a free one. *)
LEMMA LowestFree ==
  ASSUME NEW fds \in Table, FreeFds(fds) # {}
  PROVE  Lowest(fds) \in Fd /\ fds[Lowest(fds)] = NULL
<1>1. FreeFds(fds) \subseteq Nat
  BY OpenMaxAssumption DEF FreeFds, Fd
<1>2. Min(FreeFds(fds)) \in FreeFds(fds) /\ \A m \in FreeFds(fds) : Min(FreeFds(fds)) <= m
  BY <1>1, LeastNat
<1>3. \E n \in FreeFds(fds) : \A m \in FreeFds(fds) : n <= m
  BY <1>2
<1>4. Lowest(fds) \in FreeFds(fds)
  BY <1>3 DEF Lowest
<1> QED
  BY <1>4 DEF FreeFds

(* A new descriptor takes a free number. *)
LEMMA OpenedGrows ==
  ASSUME NEW fds \in Table, FreeFds(fds) # {}, NEW object \in Object
  PROVE  /\ Opened(fds, object) \in Table /\ Opened(fds, object)[Lowest(fds)] = object
         /\ object # "socket" => Grows(fds, Opened(fds, object))
<1>1. Lowest(fds) \in Fd /\ fds[Lowest(fds)] = NULL
  BY LowestFree
<1> QED
  BY <1>1 DEF Opened, Table, Grows

(* So does the descriptor that the first syslog takes. *)
LEMMA LoggedGrows ==
  ASSUME NEW fds \in Table
  PROVE  Grows(fds, Logged(fds))
<1>1. "log" \in Object /\ "log" # "socket"
  BY DEF Object
<1> QED
  BY <1>1, OpenedGrows DEF Logged, Grows

(* Closing leaves the other numbers. *)
LEMMA ClosedShrinks ==
  ASSUME NEW fds \in Table, NEW numbers
  PROVE  Shrinks(fds, Closed(fds, numbers), numbers)
BY DEF Closed, Table, Shrinks

(* The first socket is behind the standard descriptors. *)
LEMMA FirstSocket ==
  /\ Standard \in Table /\ FreeFds(Standard) # {}
  /\ \A m \in Fd : Standard[m] # "socket"
  /\ Lowest(Standard) \in Fd /\ Lowest(Standard) >= 3
<1>1. 3 \in Fd /\ Fd \subseteq Nat
  BY OpenMaxAssumption DEF Fd
<1>2. Standard \in Table
  BY DEF Standard, Table, Object
<1>3. Standard[3] = NULL
  BY <1>1 DEF Standard
<1>4. FreeFds(Standard) # {}
  BY <1>1, <1>3 DEF FreeFds
<1>5. Lowest(Standard) \in Fd /\ Standard[Lowest(Standard)] = NULL
  BY <1>2, <1>4, LowestFree
<1>6. NULL # "socket" /\ NULL # "tty"
  BY NullAssumption DEF Object
<1>7. Lowest(Standard) >= 3
  <2>1. \A n \in Fd : n < 3 => Standard[n] = "tty"
    BY DEF Standard
  <2>2. \A n \in Fd : Standard[n] # "tty" => n >= 3
    BY <1>1, <2>1
  <2> QED
    BY <1>5, <1>6, <2>2
<1>8. \A m \in Fd : Standard[m] # "socket"
  BY <1>6 DEF Standard
<1> QED
  BY <1>2, <1>4, <1>5, <1>7, <1>8
-----------------------------------------------------------------------------
(* What a step does to one process. *)

(* Without threads nobody has a number. *)
LEMMA NobodyOwns ==
  ASSUME NEW p, \A t \in Thread : p.thread[t].at = "none"
  PROVE  Owned(p)
BY DEF Owned, HasConn, HasFile

(* Nothing is lost for threads that take no new number, if the numbers     *)
(* they keep name what they did.                                           *)
LEMMA OwnedLess ==
  ASSUME NEW p, NEW q, Owned(p), p.stop = TRUE => q.stop = TRUE, q.sockfd = p.sockfd,
         p.stop \in BOOLEAN, q.stop \in BOOLEAN,
         \A t \in Thread, n \in Fd : /\ HasConn(q, t, n) => HasConn(p, t, n)
                                     /\ HasFile(q, t, n) => HasFile(p, t, n),
         \A t \in Thread, n \in Fd : HasConn(q, t, n) \/ HasFile(q, t, n) =>
                                      q.fds[n] = p.fds[n] \/ Lost(q, n)
  PROVE  Owned(q)
<1> SUFFICES ASSUME NEW t \in Thread, NEW u \in Thread, NEW n \in Fd, ~Lost(q, n)
             PROVE  /\ HasConn(q, t, n) => q.fds[n] = "connection" /\ (HasConn(q, u, n) => t = u)
                    /\ HasFile(q, t, n) => q.fds[n] = "file" /\ (HasFile(q, u, n) => t = u)
  BY DEF Owned
<1>1. ~Lost(p, n)
  BY DEF Lost
<1> QED
  BY <1>1 DEF Owned

(* A table that only grows leaves every thread its numbers. *)
LEMMA GrowsOwned ==
  ASSUME NEW p, NEW q, p \in Process, q \in Process, Owned(p),
         q.stop = p.stop \/ q.stop = TRUE, q.sockfd = p.sockfd,
         \A t \in Thread, n \in Fd : /\ HasConn(q, t, n) => HasConn(p, t, n)
                                     /\ HasFile(q, t, n) => HasFile(p, t, n),
         Grows(p.fds, q.fds)
  PROVE  Owned(q)
<1>1. p.stop \in BOOLEAN /\ q.stop \in BOOLEAN
  BY DEF Process
<1>2. ASSUME NEW t \in Thread, NEW n \in Fd, HasConn(q, t, n) \/ HasFile(q, t, n)
      PROVE  q.fds[n] = p.fds[n] \/ Lost(q, n)
  <2>1. CASE Lost(p, n)
    BY <1>1, <2>1 DEF Lost
  <2>2. CASE ~Lost(p, n)
    <3>1. p.fds[n] = "connection" \/ p.fds[n] = "file"
      BY <1>2, <2>2 DEF Owned
    <3> QED
      BY <3>1, NullAssumption DEF Grows, Object
  <2> QED
    BY <2>1, <2>2
<1> QED
  BY <1>1, <1>2, OwnedLess

(* The socket outlives what opens a descriptor. *)
LEMMA GrowsSocket ==
  ASSUME NEW p, NEW q, p \in Process, q \in Process, SocketOK(p), Grows(p.fds, q.fds),
         q.sockfd = p.sockfd,
         q.pc \notin {"down", "socket"} /\ q.stop = FALSE =>
           p.pc \notin {"down", "socket"} /\ p.stop = FALSE
  PROVE  SocketOK(q)
<1>1. p.sockfd \in Fd /\ NULL # "socket"
  BY NullAssumption DEF Process, Object
<1> QED
  BY <1>1 DEF SocketOK, Grows

(* A thread that closes a number of its own closes nobody else's: not the  *)
(* socket, and no connection or file of another thread.                    *)
LEMMA ShrinksKeeps ==
  ASSUME NEW p, NEW q, p \in Process, q \in Process, Owned(p), SocketOK(p),
         NEW t \in Thread, NEW m \in Fd, HasConn(p, t, m) \/ HasFile(p, t, m),
         ~HasConn(q, t, m) \/ ~HasConn(p, t, m), ~HasFile(q, t, m),
         q.stop = p.stop, q.sockfd = p.sockfd, q.pc = p.pc,
         \A u \in Thread, n \in Fd : /\ HasConn(q, u, n) => HasConn(p, u, n)
                                     /\ HasFile(q, u, n) => HasFile(p, u, n),
         Shrinks(p.fds, q.fds, {m})
  PROVE  Owned(q) /\ SocketOK(q)
<1>1. p.stop \in BOOLEAN /\ q.stop \in BOOLEAN /\ p.sockfd \in Fd
  BY DEF Process
<1>2. ASSUME NEW u \in Thread, NEW n \in Fd, HasConn(q, u, n) \/ HasFile(q, u, n)
      PROVE  q.fds[n] = p.fds[n] \/ Lost(q, n)
  <2> SUFFICES ASSUME n = m, ~Lost(p, m) PROVE FALSE
    BY DEF Shrinks, Lost
  <2>1. CASE HasConn(p, t, m)
    BY <1>2, <2>1 DEF Owned
  <2>2. CASE HasFile(p, t, m)
    <3>1. ~HasConn(p, u, m) /\ ~HasConn(p, t, m)
      BY <2>2 DEF Owned
    <3> QED
      BY <1>2, <2>2, <3>1 DEF Owned
  <2> QED
    BY <2>1, <2>2
<1>3. Owned(q)
  BY <1>1, <1>2, OwnedLess
<1>4. SocketOK(q)
  <2>1. ASSUME p.stop = FALSE, p.sockfd = m, p.fds[m] = "socket"
        PROVE  FALSE
    <3>1. ~Lost(p, m)
      BY <2>1 DEF Lost
    <3> QED
      BY <2>1, <3>1 DEF Owned
  <2>2. NULL # "socket"
    BY NullAssumption DEF Object
  <2> QED
    BY <1>1, <2>1, <2>2 DEF SocketOK, Shrinks
<1> QED
  BY <1>3, <1>4

(* Settled changes nothing but the state of the socket. *)
LEMMA SettledKeeps ==
  ASSUME NEW p, ProcOK(p)
  PROVE  ProcOK(Settled(p)) /\ Settled(p).socket \in {p.socket, "none"}
<1> DEFINE q == Settled(p)
<1>1. p \in Process
  BY DEF ProcOK
<1>2. /\ q \in Process /\ q.socket \in {p.socket, "none"}
      /\ q.pc = p.pc /\ q.fds = p.fds /\ q.sockfd = p.sockfd /\ q.stop = p.stop
      /\ q.thread = p.thread /\ q.option = p.option
  BY <1>1 DEF Settled, Process
<1> HIDE DEF q
<1>3. SocketOK(q)
  BY <1>2 DEF ProcOK, SocketOK
<1>4. Owned(q)
  BY <1>2 DEF ProcOK, Owned, HasConn, HasFile, Lost
<1>5. ProcOK(q)
  BY <1>2, <1>3, <1>4 DEF ProcOK, StopOK
<1> QED
  BY <1>2, <1>5 DEF q

(* A process that is right, and no new listener, in place of another. *)
LEMMA StepKeeps ==
  ASSUME StartInv, NEW s \in Server, NEW p, ProcOK(p), proc' = [proc EXCEPT ![s] = p],
         p.socket = "listening" => proc[s].socket = "listening"
  PROVE  StartInv'
<1>1. proc' \in [Server -> Process] /\ proc'[s] = p /\ \A t \in Server \ {s} : proc'[t] = proc[t]
  BY DEF StartInv, ProcOK
<1>2. \A t \in Server : ProcOK(proc'[t])
  BY <1>1 DEF StartInv
<1>3. OneListens'
  BY <1>1 DEF StartInv, OneListens, Listening
<1> QED
  BY <1>1, <1>2, <1>3 DEF StartInv

(* The same, with Settled around it. *)
LEMMA SettledStep ==
  ASSUME StartInv, NEW s \in Server, NEW p, ProcOK(p), proc' = [proc EXCEPT ![s] = Settled(p)],
         p.socket = "listening" => proc[s].socket = "listening"
  PROVE  StartInv'
<1>1. ProcOK(Settled(p)) /\ Settled(p).socket \in {p.socket, "none"}
  BY SettledKeeps
<1> QED
  BY <1>1, StepKeeps

(* A process that ends closes all it has. *)
LEMMA ExitKeeps ==
  ASSUME StartInv, NEW s \in Server, NEW reason \in {"failure", "port", "stopped"},
         Exit(s, reason)
  PROVE  StartInv'
<1> DEFINE p == [NoProcess EXCEPT !.starts = proc[s].starts, !.why = reason, !.stop = proc[s].stop]
<1>1. proc[s].starts \in Nat /\ proc[s].stop \in BOOLEAN
  BY DEF StartInv, Process
<1>2. /\ NoFds \in Table /\ \A n \in Fd : NoFds[n] # "socket"
      /\ 0 \in Fd /\ [t \in Thread |-> NoThread] \in [Thread -> ThreadRecord]
  BY OpenMaxAssumption, NullAssumption DEF NoFds, Table, Fd, Object, NoThread, ThreadRecord
<1>3. p \in Process
  BY <1>1, <1>2 DEF NoProcess, Process, Early
<1>4. /\ p.pc = "down" /\ p.socket = "none" /\ p.fds = NoFds
      /\ \A t \in Thread : p.thread[t].at = "none"
  BY DEF NoProcess, NoThread
<1>5. proc' = [proc EXCEPT ![s] = p]
  BY DEF Exit
<1> HIDE DEF p
<1>6. ProcOK(p)
  BY <1>2, <1>3, <1>4, NobodyOwns DEF ProcOK, StopOK, SocketOK
<1> QED
  BY <1>4, <1>5, <1>6, StepKeeps
-----------------------------------------------------------------------------
(* The way to the accept loop, on which there are no threads. *)
LEMMA StartKeeps ==
  ASSUME StartInv, NEW s \in Server, NEW flag \in BOOLEAN, Start(s, flag)
  PROVE  StartInv'
<1> DEFINE p == [NoProcess EXCEPT !.pc = "socket", !.starts = proc[s].starts + 1,
                                  !.daemonize_flag = flag, !.fds = Standard]
<1>1. proc[s].starts + 1 \in Nat
  BY DEF StartInv, Process
<1>2. 0 \in Fd /\ [t \in Thread |-> NoThread] \in [Thread -> ThreadRecord]
  BY OpenMaxAssumption DEF Fd, NoThread, ThreadRecord
<1>3. p \in Process
  BY <1>1, <1>2, FirstSocket DEF NoProcess, Process, Early
<1>4. /\ p.pc = "socket" /\ p.fds = Standard /\ p.socket = "none"
      /\ \A t \in Thread : p.thread[t].at = "none"
  BY DEF NoProcess, NoThread
<1>5. proc' = [proc EXCEPT ![s] = p]
  BY DEF Start, Becomes
<1> HIDE DEF p
<1>6. ProcOK(p)
  BY <1>3, <1>4, FirstSocket, NobodyOwns DEF ProcOK, StopOK, SocketOK
<1> QED
  BY <1>4, <1>5, <1>6, StepKeeps

(* socket() finds the standard descriptors open and takes a number behind  *)
(* them.                                                                   *)
LEMMA SocketKeeps ==
  ASSUME StartInv, NEW s \in Server, Socket(s)
  PROVE  StartInv'
<1> DEFINE p == [proc[s] EXCEPT !.pc = "setsockopt", !.fds = Opened(@, "socket"),
                                !.sockfd = Lowest(proc[s].fds), !.socket = "unbound"]
<1>1. /\ ProcOK(proc[s]) /\ proc[s] \in Process /\ proc[s].fds = Standard /\ proc[s].pc = "socket"
      /\ \A t \in Thread : proc[s].thread[t].at = "none"
  BY DEF StartInv, ProcOK, Socket, At, Early
<1>2. "socket" \in Object
  BY DEF Object
<1>3. /\ Opened(Standard, "socket") \in Table
      /\ Opened(Standard, "socket")[Lowest(Standard)] = "socket"
  BY <1>2, FirstSocket, OpenedGrows
<1>4. \A m \in Fd : Opened(Standard, "socket")[m] = "socket" => m = Lowest(Standard)
  BY FirstSocket DEF Opened, Table
<1>5. p \in Process
  BY <1>1, <1>3, FirstSocket DEF Process, Early
<1>6. /\ p.pc = "setsockopt" /\ p.fds = Opened(Standard, "socket") /\ p.socket = "unbound"
      /\ p.sockfd = Lowest(Standard) /\ p.thread = proc[s].thread
  BY <1>1 DEF Process
<1>7. proc' = [proc EXCEPT ![s] = p]
  BY DEF Socket, Becomes
<1> HIDE DEF p
<1>8. SocketOK(p)
  BY <1>3, <1>4, <1>6, FirstSocket DEF SocketOK
<1>9. ProcOK(p)
  BY <1>1, <1>5, <1>6, <1>8, NobodyOwns DEF ProcOK, StopOK
<1> QED
  BY <1>6, <1>7, <1>9, StepKeeps

(* setsockopt only sets the option. *)
LEMMA SetsockoptKeeps ==
  ASSUME StartInv, NEW s \in Server, Setsockopt(s)
  PROVE  StartInv'
<1> DEFINE p == [proc[s] EXCEPT !.pc = "bind", !.option = "reuseaddr"]
<1>1. /\ ProcOK(proc[s]) /\ proc[s] \in Process /\ proc[s].pc = "setsockopt"
      /\ \A t \in Thread : proc[s].thread[t].at = "none"
  BY DEF StartInv, ProcOK, Setsockopt, At, Early
<1>2. p \in Process
  BY <1>1 DEF Process, Early
<1>3. /\ p.pc = "bind" /\ p.option = "reuseaddr" /\ p.fds = proc[s].fds
      /\ p.sockfd = proc[s].sockfd /\ p.socket = proc[s].socket /\ p.stop = proc[s].stop
      /\ p.thread = proc[s].thread
  BY <1>1 DEF Process
<1>4. proc' = [proc EXCEPT ![s] = p]
  BY DEF Setsockopt, Becomes
<1> HIDE DEF p
<1>5. ProcOK(p)
  BY <1>1, <1>2, <1>3, NobodyOwns DEF ProcOK, StopOK, SocketOK
<1> QED
  BY <1>3, <1>4, <1>5, StepKeeps

(* bind makes no listener. *)
LEMMA BindKeeps ==
  ASSUME StartInv, NEW s \in Server, Bind(s)
  PROVE  StartInv'
<1> DEFINE next == IF proc[s].daemonize_flag THEN "daemonize" ELSE "listen"
           p == [proc[s] EXCEPT !.socket = "bound", !.pc = next]
<1>1. /\ ProcOK(proc[s]) /\ proc[s] \in Process /\ proc[s].pc = "bind"
      /\ \A t \in Thread : proc[s].thread[t].at = "none"
  BY DEF StartInv, ProcOK, Bind, At, Early
<1>2. next \in {"daemonize", "listen"}
  OBVIOUS
<1>3. proc' = [proc EXCEPT ![s] = p]
  BY DEF Bind, Becomes
<1> HIDE DEF next
<1>4. p \in Process
  BY <1>1, <1>2 DEF Process, Early
<1>5. /\ p.pc = next /\ p.option = proc[s].option /\ p.fds = proc[s].fds
      /\ p.sockfd = proc[s].sockfd /\ p.socket = "bound" /\ p.stop = proc[s].stop
      /\ p.thread = proc[s].thread
  BY <1>1 DEF Process
<1> HIDE DEF p
<1>6. ProcOK(p)
  BY <1>1, <1>2, <1>4, <1>5, NobodyOwns DEF ProcOK, StopOK, SocketOK
<1> QED
  BY <1>3, <1>5, <1>6, StepKeeps

(* daemonize closes the numbers below 3, and the socket is above them. *)
LEMMA daemonizeKeeps ==
  ASSUME StartInv, NEW s \in Server, daemonize(s)
  PROVE  StartInv'
<1> DEFINE closed == Closed(proc[s].fds, 0 .. 2)
           fds == Logged(closed)
           p == [proc[s] EXCEPT !.pc = "listen", !.fds = fds]
<1>1. /\ ProcOK(proc[s]) /\ proc[s] \in Process /\ proc[s].pc = "daemonize"
      /\ \A t \in Thread : proc[s].thread[t].at = "none"
  BY DEF StartInv, ProcOK, daemonize, At, Early
<1>2. proc[s].fds \in Table /\ proc[s].sockfd \in Fd /\ proc[s].option = "reuseaddr"
  BY <1>1 DEF ProcOK, Process
<1>3. Shrinks(proc[s].fds, closed, 0 .. 2)
  BY <1>2, ClosedShrinks
<1>4. Grows(closed, fds)
  BY <1>3, LoggedGrows DEF Shrinks
<1>5. proc' = [proc EXCEPT ![s] = p]
  BY DEF daemonize, Becomes
<1> HIDE DEF fds, closed
<1>6. p \in Process
  BY <1>1, <1>4 DEF Process, Grows, Early
<1>7. /\ p.pc = "listen" /\ p.option = proc[s].option /\ p.fds = fds
      /\ p.sockfd = proc[s].sockfd /\ p.socket = proc[s].socket /\ p.stop = proc[s].stop
      /\ p.thread = proc[s].thread
  BY <1>1 DEF Process
<1> HIDE DEF p
<1>8. SocketOK(p)
  <2>1. NULL # "socket"
    BY NullAssumption DEF Object
  <2>2. \A m \in Fd : fds[m] = "socket" => m = proc[s].sockfd
    BY <1>1, <1>3, <1>4, <2>1 DEF ProcOK, SocketOK, Shrinks, Grows
  <2>3. ASSUME proc[s].stop = FALSE PROVE proc[s].sockfd >= 3 /\ fds[proc[s].sockfd] = "socket"
    <3>1. proc[s].sockfd >= 3 /\ proc[s].fds[proc[s].sockfd] = "socket"
      BY <1>1, <2>3 DEF ProcOK, SocketOK
    <3>2. proc[s].sockfd \notin 0 .. 2
      BY <1>2, <3>1, OpenMaxAssumption DEF Fd
    <3> QED
      BY <1>2, <1>3, <1>4, <2>1, <3>1, <3>2 DEF Shrinks, Grows
  <2> QED
    BY <1>7, <2>2, <2>3 DEF SocketOK
<1>9. ProcOK(p)
  BY <1>1, <1>2, <1>6, <1>7, <1>8, NobodyOwns DEF ProcOK, StopOK
<1> QED
  BY <1>5, <1>7, <1>9, StepKeeps

(* Everybody who gets so far has SO_REUSEADDR, which is not enough to      *)
(* listen beside another.                                                  *)
LEMMA ListenKeeps ==
  ASSUME StartInv, NEW s \in Server, Listen(s)
  PROVE  StartInv'
<1> DEFINE p == [proc[s] EXCEPT !.pc = "loop", !.socket = "listening", !.fds = Logged(@)]
<1>1. /\ ProcOK(proc[s]) /\ proc[s] \in Process /\ proc[s].pc = "listen"
      /\ \A t \in Thread : proc[s].thread[t].at = "none"
  BY DEF StartInv, ProcOK, Listen, At, Early
<1>2. proc[s].fds \in Table /\ proc[s].option = "reuseaddr"
  BY <1>1 DEF ProcOK, Process
<1>3. Grows(proc[s].fds, Logged(proc[s].fds))
  BY <1>2, LoggedGrows
<1>4. p \in Process
  BY <1>1, <1>3 DEF Process, Grows
<1>5. /\ p.pc = "loop" /\ p.fds = Logged(proc[s].fds) /\ p.sockfd = proc[s].sockfd
      /\ p.stop = proc[s].stop /\ p.thread = proc[s].thread
  BY <1>1 DEF Process
<1>6. proc' = [proc EXCEPT ![s] = p]
  BY DEF Listen, Becomes
<1> HIDE DEF p
<1>7. SocketOK(p)
  BY <1>1, <1>3, <1>4, <1>5, GrowsSocket DEF ProcOK
<1>8. ProcOK(p)
  BY <1>1, <1>4, <1>5, <1>7, NobodyOwns DEF ProcOK, StopOK, Early
<1>9. /\ proc' \in [Server -> Process] /\ proc'[s] = p
      /\ \A t \in Server \ {s} : proc'[t] = proc[t]
  BY <1>4, <1>6 DEF StartInv
<1>10. \A t \in Server \ {s} : proc[t].socket # "listening"
  <2>1. \A t \in Server \ {s} : {proc[s].option, proc[t].option} # {"reuseport"}
    BY <1>2
  <2>2. ~ListenConflict(s)
    BY DEF Listen, CanListen
  <2> QED
    BY <2>1, <2>2 DEF ListenConflict, Listening
<1>11. OneListens'
  BY <1>9, <1>10 DEF OneListens, Listening
<1>12. \A t \in Server : ProcOK(proc'[t])
  BY <1>8, <1>9 DEF StartInv
<1> QED
  BY <1>9, <1>11, <1>12 DEF StartInv
-----------------------------------------------------------------------------
(* The accept loop.  A step that moves main and at most opens descriptors: *)
(* every thread keeps its numbers.                                         *)
LEMMA MovesKeeps ==
  ASSUME NEW p, NEW q, ProcOK(p), q \in Process, p.pc # "down", q.pc \notin Early,
         q.sockfd = p.sockfd, q.thread = p.thread, Grows(p.fds, q.fds),
         q.stop = TRUE \/ (q.stop = p.stop /\ p.pc # "socket" /\ q.pc \notin {"close", "exit"})
  PROVE  ProcOK(q)
<1>1. p \in Process /\ p.stop \in BOOLEAN
  BY DEF ProcOK, Process
<1>2. \A t \in Thread, n \in Fd : /\ HasConn(q, t, n) => HasConn(p, t, n)
                                  /\ HasFile(q, t, n) => HasFile(p, t, n)
  BY DEF HasConn, HasFile
<1>3. Owned(q)
  BY <1>1, <1>2, GrowsOwned DEF ProcOK
<1>4. SocketOK(q)
  BY <1>1, GrowsSocket DEF ProcOK
<1> QED
  BY <1>1, <1>3, <1>4 DEF ProcOK, Early, StopOK

(* Loop and CallAccept only move main. *)
LEMMA LoopKeeps ==
  ASSUME StartInv, NEW s \in Server, Loop(s) \/ CallAccept(s)
  PROVE  StartInv'
<1>1. PICK next \in {"close", "accept", "blocked"} :
        /\ proc' = [proc EXCEPT ![s] = [proc[s] EXCEPT !.pc = next]]
        /\ next = "close" => proc[s].stop
  BY DEF Loop, CallAccept, Becomes
<1> DEFINE p == [proc[s] EXCEPT !.pc = next]
<1>2. ProcOK(proc[s]) /\ proc[s] \in Process /\ proc[s].pc \in {"loop", "accept"}
  BY DEF StartInv, ProcOK, Loop, CallAccept, At
<1>3. p \in Process
  BY <1>2 DEF Process
<1>4. /\ p.pc = next /\ p.fds = proc[s].fds /\ p.sockfd = proc[s].sockfd
      /\ p.socket = proc[s].socket /\ p.stop = proc[s].stop /\ p.thread = proc[s].thread
  BY <1>2 DEF Process
<1> HIDE DEF p
<1>5. Grows(proc[s].fds, p.fds)
  BY <1>2, <1>4 DEF Grows, Process
<1>6. ProcOK(p)
  BY <1>1, <1>2, <1>3, <1>4, <1>5, MovesKeeps DEF Early, Process
<1> QED
  BY <1>1, <1>4, <1>6, StepKeeps DEF p

(* accept fails. *)
LEMMA AcceptFailsKeeps ==
  ASSUME StartInv, NEW s \in Server, AcceptFails(s)
  PROVE  StartInv'
<1> DEFINE p == [proc[s] EXCEPT !.pc = "loop"]
<1>1. ProcOK(proc[s]) /\ proc[s] \in Process /\ proc[s].pc \in {"accept", "blocked"}
  BY DEF StartInv, ProcOK, AcceptFails, At
<1>2. p \in Process
  BY <1>1 DEF Process
<1>3. /\ p.pc = "loop" /\ p.fds = proc[s].fds /\ p.sockfd = proc[s].sockfd
      /\ p.socket = proc[s].socket /\ p.stop = proc[s].stop /\ p.thread = proc[s].thread
  BY <1>1 DEF Process
<1>4. proc' = [proc EXCEPT ![s] = Settled(p)]
  BY DEF AcceptFails, Becomes
<1> HIDE DEF p
<1>5. Grows(proc[s].fds, p.fds)
  BY <1>1, <1>3 DEF Grows, Process
<1>6. ProcOK(p)
  BY <1>1, <1>2, <1>3, <1>5, MovesKeeps DEF Early
<1> QED
  BY <1>3, <1>4, <1>6, SettledStep

(* A connection that gets no thread. *)
LEMMA CreateFailsKeeps ==
  ASSUME StartInv, NEW s \in Server, CreateFails(s)
  PROVE  StartInv'
<1> DEFINE p == [proc[s] EXCEPT !.pc = "loop", !.fds = Opened(@, "connection")]
<1>1. /\ ProcOK(proc[s]) /\ proc[s] \in Process /\ proc[s].pc = "blocked"
      /\ FreeFds(proc[s].fds) # {} /\ proc[s].fds \in Table
  BY DEF StartInv, ProcOK, CreateFails, Accepted, At, Process
<1>2. "connection" \in Object /\ "connection" # "socket"
  BY DEF Object
<1>3. Grows(proc[s].fds, Opened(proc[s].fds, "connection"))
  BY <1>1, <1>2, OpenedGrows
<1>4. p \in Process
  BY <1>1, <1>3 DEF Process, Grows
<1>5. /\ p.pc = "loop" /\ p.fds = Opened(proc[s].fds, "connection")
      /\ p.sockfd = proc[s].sockfd /\ p.socket = proc[s].socket /\ p.stop = proc[s].stop
      /\ p.thread = proc[s].thread
  BY <1>1 DEF Process
<1>6. proc' = [proc EXCEPT ![s] = Settled(p)]
  BY DEF CreateFails, Accepted
<1> HIDE DEF p
<1>7. ProcOK(p)
  BY <1>1, <1>3, <1>4, <1>5, MovesKeeps DEF Early
<1> QED
  BY <1>5, <1>6, <1>7, SettledStep

(* The number of a new connection was free, so nobody had it, unless it is *)
(* sockfd after a signal.                                                  *)
LEMMA AcceptKeeps ==
  ASSUME StartInv, NEW s \in Server, NEW t \in Thread, Accept(s, t)
  PROVE  StartInv'
<1> DEFINE n == Lowest(proc[s].fds)
           r == [NoThread EXCEPT !.at = "run", !.new_fd = n]
           p0 == [proc[s] EXCEPT !.thread[t] = r]
           p == [p0 EXCEPT !.pc = "loop", !.fds = Opened(@, "connection")]
<1>1. /\ ProcOK(proc[s]) /\ proc[s] \in Process /\ proc[s].pc = "blocked"
      /\ FreeFds(proc[s].fds) # {} /\ proc[s].fds \in Table
  BY DEF StartInv, ProcOK, Accept, Accepted, At, Process
<1>2. "connection" \in Object /\ "connection" # "socket"
  BY DEF Object
<1>3. /\ Grows(proc[s].fds, Opened(proc[s].fds, "connection"))
      /\ Opened(proc[s].fds, "connection")[n] = "connection"
  BY <1>1, <1>2, OpenedGrows
<1>4. n \in Fd /\ proc[s].fds[n] = NULL /\ 0 \in Fd
  BY <1>1, LowestFree, OpenMaxAssumption DEF Fd
<1>5. proc' = [proc EXCEPT ![s] = Settled(p)]
  BY DEF Accept, Accepted
<1> HIDE DEF n
<1>6. r \in ThreadRecord /\ r.at = "run" /\ r.new_fd = n
  BY <1>4 DEF NoThread, ThreadRecord
<1> HIDE DEF r
<1>7. /\ p \in Process
      /\ p.pc = "loop" /\ p.fds = Opened(proc[s].fds, "connection")
      /\ p.sockfd = proc[s].sockfd /\ p.socket = proc[s].socket /\ p.stop = proc[s].stop
      /\ p.thread = [proc[s].thread EXCEPT ![t] = r]
  BY <1>1, <1>3, <1>6 DEF Process, Grows
<1> HIDE DEF p, p0
<1>8. \A u \in Thread \ {t} : p.thread[u] = proc[s].thread[u]
  BY <1>1, <1>7 DEF Process
<1>9. p.thread[t] = r
  BY <1>1, <1>7 DEF Process
<1>10. Owned(p)
  <2> SUFFICES ASSUME NEW u \in Thread, NEW v \in Thread, NEW m \in Fd, ~Lost(p, m)
               PROVE  /\ HasConn(p, u, m) => p.fds[m] = "connection" /\ (HasConn(p, v, m) => u = v)
                      /\ HasFile(p, u, m) => p.fds[m] = "file" /\ (HasFile(p, v, m) => u = v)
    BY DEF Owned
  <2>1. ~Lost(proc[s], m)
    BY <1>7 DEF Lost
  <2>2. ~HasFile(p, t, m) /\ (HasConn(p, t, m) => m = n)
    BY <1>6, <1>9 DEF HasConn, HasFile
  <2>3. \A w \in Thread \ {t} : /\ HasConn(p, w, m) <=> HasConn(proc[s], w, m)
                                /\ HasFile(p, w, m) <=> HasFile(proc[s], w, m)
    BY <1>8 DEF HasConn, HasFile
  <2>4. \A w, x \in Thread : /\ HasConn(proc[s], w, m) => /\ proc[s].fds[m] = "connection"
                                                          /\ HasConn(proc[s], x, m) => w = x
                             /\ HasFile(proc[s], w, m) => /\ proc[s].fds[m] = "file"
                                                          /\ HasFile(proc[s], x, m) => w = x
    BY <1>1, <2>1 DEF ProcOK, Owned
  <2>5. m = n => \A w \in Thread \ {t} : ~HasConn(p, w, m) /\ ~HasFile(p, w, m)
    BY <1>4, <2>3, <2>4, NullAssumption DEF Object
  <2>6. m # n => p.fds[m] = proc[s].fds[m] \/ proc[s].fds[m] = NULL
    BY <1>3, <1>7 DEF Grows
  <2>7. CASE m = n
    BY <1>3, <1>7, <2>2, <2>5, <2>7
  <2>8. CASE m # n
    BY <2>2, <2>3, <2>4, <2>6, <2>8, NullAssumption DEF Object
  <2> QED
    BY <2>7, <2>8
<1>11. SocketOK(p)
  BY <1>1, <1>3, <1>7, GrowsSocket DEF ProcOK
<1>12. StopOK(p)
  BY <1>1, <1>6, <1>7, <1>8, <1>9 DEF ProcOK, StopOK
<1>13. ProcOK(p)
  BY <1>7, <1>10, <1>11, <1>12 DEF ProcOK, Early
<1> QED
  BY <1>5, <1>7, <1>13, SettledStep
-----------------------------------------------------------------------------
(* Threads.  There are some only once main has come to its loop. *)
LEMMA ThreadRuns ==
  ASSUME StartInv, NEW s \in Server, NEW t \in Thread, proc[s].thread[t].at # "none"
  PROVE  /\ ProcOK(proc[s]) /\ proc[s] \in Process /\ proc[s].pc \notin Early
         /\ proc[s].fds \in Table /\ proc[s].sockfd \in Fd
         /\ proc[s].thread \in [Thread -> ThreadRecord] /\ proc[s].thread[t] \in ThreadRecord
BY DEF StartInv, ProcOK, Process

(* A file takes a free number, as a connection does. *)
LEMMA OpenFileKeeps ==
  ASSUME StartInv, NEW s \in Server, NEW t \in Thread, OpenFile(s, t)
  PROVE  StartInv'
<1> DEFINE n == Lowest(proc[s].fds)
           r == [proc[s].thread[t] EXCEPT !.at = "file", !.file_fd = n]
           fds == Opened(proc[s].fds, "file")
           p == [proc[s] EXCEPT !.fds = fds, !.thread = [proc[s].thread EXCEPT ![t] = r]]
<1>1. proc[s].thread[t].at = "run" /\ FreeFds(proc[s].fds) # {}
  BY DEF OpenFile
<1>2. /\ ProcOK(proc[s]) /\ proc[s] \in Process /\ proc[s].pc \notin Early
      /\ proc[s].fds \in Table /\ proc[s].thread \in [Thread -> ThreadRecord]
      /\ proc[s].thread[t] \in ThreadRecord
  BY <1>1, ThreadRuns
<1>3. "file" \in Object /\ "file" # "socket"
  BY DEF Object
<1>4. Grows(proc[s].fds, fds) /\ fds[n] = "file"
  BY <1>1, <1>2, <1>3, OpenedGrows
<1>5. n \in Fd /\ proc[s].fds[n] = NULL
  BY <1>1, <1>2, LowestFree
<1>6. proc' = [proc EXCEPT ![s] = p]
  BY <1>2 DEF OpenFile, Becomes, Process, ThreadRecord
<1> HIDE DEF n, fds
<1>7. /\ r \in ThreadRecord /\ r.at = "file" /\ r.file_fd = n
      /\ r.new_fd = proc[s].thread[t].new_fd
  BY <1>2, <1>5 DEF ThreadRecord
<1> HIDE DEF r
<1>8. /\ p \in Process /\ p.pc = proc[s].pc /\ p.fds = fds /\ p.sockfd = proc[s].sockfd
      /\ p.socket = proc[s].socket /\ p.stop = proc[s].stop
      /\ p.thread = [proc[s].thread EXCEPT ![t] = r]
  BY <1>2, <1>4, <1>7 DEF Process, Grows
<1> HIDE DEF p
<1>9. p.thread[t] = r /\ \A u \in Thread \ {t} : p.thread[u] = proc[s].thread[u]
  BY <1>2, <1>8
<1>10. Owned(p)
  <2> SUFFICES ASSUME NEW u \in Thread, NEW v \in Thread, NEW m \in Fd, ~Lost(p, m)
               PROVE  /\ HasConn(p, u, m) => p.fds[m] = "connection" /\ (HasConn(p, v, m) => u = v)
                      /\ HasFile(p, u, m) => p.fds[m] = "file" /\ (HasFile(p, v, m) => u = v)
    BY DEF Owned
  <2>1. ~Lost(proc[s], m)
    BY <1>8 DEF Lost
  <2>2. HasFile(p, t, m) => m = n
    BY <1>7, <1>9 DEF HasFile
  <2>3. /\ \A w \in Thread : HasConn(p, w, m) <=> HasConn(proc[s], w, m)
        /\ \A w \in Thread \ {t} : HasFile(p, w, m) <=> HasFile(proc[s], w, m)
    BY <1>1, <1>7, <1>9 DEF HasConn, HasFile
  <2>4. \A w, x \in Thread : /\ HasConn(proc[s], w, m) => /\ proc[s].fds[m] = "connection"
                                                          /\ HasConn(proc[s], x, m) => w = x
                             /\ HasFile(proc[s], w, m) => /\ proc[s].fds[m] = "file"
                                                          /\ HasFile(proc[s], x, m) => w = x
    BY <1>2, <2>1 DEF ProcOK, Owned
  <2>5. m = n => /\ \A w \in Thread : ~HasConn(p, w, m)
                 /\ \A w \in Thread \ {t} : ~HasFile(p, w, m)
    BY <1>5, <2>3, <2>4, NullAssumption DEF Object
  <2>6. p.fds[m] = proc[s].fds[m] \/ proc[s].fds[m] = NULL
    BY <1>4, <1>8 DEF Grows
  <2>7. CASE m = n
    BY <1>4, <1>8, <2>5, <2>7
  <2>8. CASE m # n
    BY <2>2, <2>3, <2>4, <2>6, <2>8, NullAssumption DEF Object
  <2> QED
    BY <2>7, <2>8
<1>11. SocketOK(p)
  BY <1>2, <1>4, <1>8, GrowsSocket DEF ProcOK
<1>12. StopOK(p)
  BY <1>2, <1>7, <1>8, <1>9 DEF ProcOK, StopOK
<1>13. ProcOK(p)
  BY <1>2, <1>8, <1>10, <1>11, <1>12 DEF ProcOK, Early
<1> QED
  BY <1>6, <1>8, <1>13, StepKeeps

(* A thread closes a number of its own and goes on as r, without it. *)
LEMMA CloseOwnKeeps ==
  ASSUME StartInv, NEW s \in Server, NEW t \in Thread, NEW m, NEW r \in ThreadRecord,
         m \in Fd, HasConn(proc[s], t, m) \/ HasFile(proc[s], t, m),
         \/ r.at = "none"
         \/ r.at = "run" /\ HasFile(proc[s], t, m) /\ r.new_fd = proc[s].thread[t].new_fd,
         proc' = [proc EXCEPT ![s] = Settled([proc[s] EXCEPT
                    !.fds = Closed(proc[s].fds, {m}),
                    !.thread = [proc[s].thread EXCEPT ![t] = r]])]
  PROVE  StartInv'
<1> DEFINE fds == Closed(proc[s].fds, {m})
           p == [proc[s] EXCEPT !.fds = fds, !.thread = [proc[s].thread EXCEPT ![t] = r]]
<1>1. proc[s].thread[t].at \in {"run", "file"}
  BY DEF HasConn, HasFile
<1>2. /\ ProcOK(proc[s]) /\ proc[s] \in Process /\ proc[s].pc \notin Early
      /\ proc[s].fds \in Table /\ proc[s].thread \in [Thread -> ThreadRecord]
  BY <1>1, ThreadRuns
<1>3. Shrinks(proc[s].fds, fds, {m})
  BY <1>2, ClosedShrinks
<1> HIDE DEF fds
<1>4. /\ p \in Process /\ p.pc = proc[s].pc /\ p.fds = fds /\ p.sockfd = proc[s].sockfd
      /\ p.socket = proc[s].socket /\ p.stop = proc[s].stop
      /\ p.thread = [proc[s].thread EXCEPT ![t] = r]
  BY <1>2, <1>3 DEF Process, Shrinks
<1>5. proc' = [proc EXCEPT ![s] = Settled(p)]
  BY DEF fds
<1> HIDE DEF p
<1>6. p.thread[t] = r /\ \A u \in Thread \ {t} : p.thread[u] = proc[s].thread[u]
  BY <1>2, <1>4
<1>7. \A u \in Thread, n \in Fd : /\ HasConn(p, u, n) => HasConn(proc[s], u, n)
                                  /\ HasFile(p, u, n) => HasFile(proc[s], u, n)
  BY <1>1, <1>6 DEF HasConn, HasFile
<1>8. ~HasFile(p, t, m)
  BY <1>6 DEF HasFile
<1>9. StopOK(p)
  BY <1>2, <1>4, <1>6 DEF ProcOK, StopOK
<1>10. CASE r.at = "none" \/ ~HasConn(proc[s], t, m)
  <2>1. ~HasConn(p, t, m) \/ ~HasConn(proc[s], t, m)
    BY <1>6, <1>10 DEF HasConn
  <2>2. Owned(p) /\ SocketOK(p)
    BY <1>2, <1>3, <1>4, <1>7, <1>8, <2>1, ShrinksKeeps DEF ProcOK
  <2>3. ProcOK(p)
    BY <1>2, <1>4, <1>9, <2>2 DEF ProcOK, Early
  <2> QED
    BY <1>4, <1>5, <2>3, SettledStep
<1>11. CASE HasConn(proc[s], t, m) /\ HasFile(proc[s], t, m)
  <2>1. Lost(proc[s], m)
    BY <1>2, <1>11 DEF ProcOK, Owned
  <2>2. proc[s].stop = TRUE /\ Lost(p, m)
    BY <1>2, <1>4, <2>1 DEF Lost, Process
  <2>3. \A u \in Thread, n \in Fd : HasConn(p, u, n) \/ HasFile(p, u, n) =>
                                     p.fds[n] = proc[s].fds[n] \/ Lost(p, n)
    BY <1>3, <1>4, <2>2 DEF Shrinks
  <2>4. proc[s].stop \in BOOLEAN /\ p.stop \in BOOLEAN
    BY <1>2, <1>4 DEF Process
  <2>5. Owned(p)
    BY <1>2, <1>4, <1>7, <2>3, <2>4, OwnedLess DEF ProcOK
  <2>6. SocketOK(p)
    BY <1>2, <1>3, <1>4, <2>2, NullAssumption DEF ProcOK, SocketOK, Shrinks, Object
  <2>7. ProcOK(p)
    BY <1>2, <1>4, <1>9, <2>5, <2>6 DEF ProcOK, Early
  <2> QED
    BY <1>4, <1>5, <2>7, SettledStep
<1> QED
  BY <1>10, <1>11

(* The three ways on from an open file or connection that close it. *)
LEMMA CloseKeeps ==
  ASSUME StartInv, NEW s \in Server, NEW t \in Thread,
         CloseFile(s, t) \/ CloseConn(s, t) \/ SeekFails(s, t)
  PROVE  StartInv'
<1>1. proc[s].thread[t].at \in {"run", "file"}
  BY DEF CloseFile, CloseConn, SeekFails
<1>2. proc[s].thread[t] \in ThreadRecord /\ 0 \in Fd /\ NoThread.at = "none"
  BY <1>1, ThreadRuns, OpenMaxAssumption DEF Fd, NoThread
<1>3. NoThread \in ThreadRecord
  BY <1>2 DEF NoThread, ThreadRecord
<1>4. proc[s].thread[t].new_fd \in Fd /\ proc[s].thread[t].file_fd \in Fd
  BY <1>2 DEF ThreadRecord
<1>5. CASE CloseFile(s, t)
  <2> DEFINE r == [proc[s].thread[t] EXCEPT !.at = "run", !.file_fd = 0]
  <2>1. r \in ThreadRecord /\ r.at = "run" /\ r.new_fd = proc[s].thread[t].new_fd
    BY <1>2 DEF ThreadRecord
  <2>2. HasFile(proc[s], t, proc[s].thread[t].file_fd)
    BY <1>5 DEF CloseFile, HasFile
  <2>3. proc' = [proc EXCEPT ![s] = Settled([proc[s] EXCEPT
                    !.fds = Closed(proc[s].fds, {proc[s].thread[t].file_fd}),
                    !.thread = [proc[s].thread EXCEPT ![t] = r]])]
    BY <1>5 DEF CloseFile, Becomes
  <2> HIDE DEF r
  <2> QED
    BY <1>4, <2>1, <2>2, <2>3, CloseOwnKeeps
<1>6. CASE CloseConn(s, t)
  <2>1. HasConn(proc[s], t, proc[s].thread[t].new_fd)
    BY <1>1 DEF HasConn
  <2>2. proc' = [proc EXCEPT ![s] = Settled([proc[s] EXCEPT
                    !.fds = Closed(proc[s].fds, {proc[s].thread[t].new_fd}),
                    !.thread = [proc[s].thread EXCEPT ![t] = NoThread]])]
    BY <1>6 DEF CloseConn, StartInv
  <2> QED
    BY <1>2, <1>3, <1>4, <2>1, <2>2, CloseOwnKeeps
<1>7. CASE SeekFails(s, t)
  <2>1. HasFile(proc[s], t, proc[s].thread[t].file_fd)
    BY <1>7 DEF SeekFails, HasFile
  <2>2. proc' = [proc EXCEPT ![s] = Settled([proc[s] EXCEPT
                    !.fds = Closed(proc[s].fds, {proc[s].thread[t].file_fd}),
                    !.thread = [proc[s].thread EXCEPT ![t] = NoThread]])]
    BY <1>7 DEF SeekFails, Becomes
  <2> QED
    BY <1>2, <1>3, <1>4, <2>1, <2>2, CloseOwnKeeps
<1> QED
  BY <1>5, <1>6, <1>7
-----------------------------------------------------------------------------
(* Signals. *)
LEMMA SignalKeeps ==
  ASSUME StartInv, NEW s \in Server, handle_signal(s)
  PROVE  StartInv'
<1> DEFINE p == [proc[s] EXCEPT !.fds = Logged(@), !.stop = TRUE, !.pc = "close"]
<1>1. ProcOK(proc[s]) /\ proc[s] \in Process /\ proc[s].pc # "down" /\ proc[s].fds \in Table
  BY DEF StartInv, ProcOK, handle_signal, At, Process
<1>2. Grows(proc[s].fds, Logged(proc[s].fds))
  BY <1>1, LoggedGrows
<1>3. /\ p \in Process /\ p.pc = "close" /\ p.fds = Logged(proc[s].fds)
      /\ p.sockfd = proc[s].sockfd /\ p.socket = proc[s].socket /\ p.stop = TRUE
      /\ p.thread = proc[s].thread
  BY <1>1, <1>2 DEF Process, Grows
<1>4. proc' = [proc EXCEPT ![s] = Settled(p)]
  BY DEF handle_signal, Becomes
<1> HIDE DEF p
<1>5. ProcOK(p)
  BY <1>1, <1>2, <1>3, MovesKeeps DEF Early
<1> QED
  BY <1>3, <1>4, <1>5, SettledStep

(* The interrupted thread uses its numbers no more. *)
LEMMA ThreadSignalKeeps ==
  ASSUME StartInv, NEW s \in Server, NEW t \in Thread, handle_signal_thread(s, t)
  PROVE  StartInv'
<1> DEFINE r == [proc[s].thread[t] EXCEPT !.at = "close"]
           p == [proc[s] EXCEPT !.fds = Logged(@), !.stop = TRUE,
                                !.thread = [proc[s].thread EXCEPT ![t] = r]]
<1>1. /\ ProcOK(proc[s]) /\ proc[s] \in Process /\ proc[s].pc \notin Early
      /\ proc[s].fds \in Table /\ proc[s].thread \in [Thread -> ThreadRecord]
      /\ proc[s].thread[t] \in ThreadRecord
  BY ThreadRuns DEF handle_signal_thread
<1>2. Grows(proc[s].fds, Logged(proc[s].fds))
  BY <1>1, LoggedGrows
<1>3. r \in ThreadRecord /\ r.at = "close"
  BY <1>1 DEF ThreadRecord
<1>4. proc' = [proc EXCEPT ![s] = p]
  BY DEF handle_signal_thread, Becomes
<1> HIDE DEF r
<1>5. /\ p \in Process /\ p.pc = proc[s].pc /\ p.fds = Logged(proc[s].fds)
      /\ p.sockfd = proc[s].sockfd /\ p.socket = proc[s].socket /\ p.stop = TRUE
      /\ p.thread = [proc[s].thread EXCEPT ![t] = r]
  BY <1>1, <1>2, <1>3 DEF Process, Grows
<1> HIDE DEF p
<1>6. p.thread[t] = r /\ \A u \in Thread \ {t} : p.thread[u] = proc[s].thread[u]
  BY <1>1, <1>5
<1>7. \A u \in Thread, n \in Fd : /\ HasConn(p, u, n) => HasConn(proc[s], u, n)
                                  /\ HasFile(p, u, n) => HasFile(proc[s], u, n)
  BY <1>3, <1>6 DEF HasConn, HasFile
<1>8. Owned(p)
  BY <1>1, <1>2, <1>5, <1>7, GrowsOwned DEF ProcOK
<1>9. SocketOK(p)
  BY <1>1, <1>2, <1>5, GrowsSocket DEF ProcOK
<1>10. ProcOK(p)
  BY <1>1, <1>5, <1>8, <1>9 DEF ProcOK, Early, StopOK
<1> QED
  BY <1>4, <1>5, <1>10, StepKeeps

(* close(sockfd) after a signal may hit what has the number by then, and   *)
(* nothing else.                                                           *)
LEMMA CloseSockfdOwned ==
  ASSUME NEW p, NEW q, ProcOK(p), q \in Process, p.stop = TRUE, q.stop = TRUE,
         q.pc \notin Early, q.sockfd = p.sockfd, Shrinks(p.fds, q.fds, {p.sockfd}),
         \A u \in Thread, n \in Fd : /\ HasConn(q, u, n) => HasConn(p, u, n)
                                     /\ HasFile(q, u, n) => HasFile(p, u, n)
  PROVE  ProcOK(q)
<1>1. Owned(q)
  <2>1. \A u \in Thread, n \in Fd : q.fds[n] = p.fds[n] \/ Lost(q, n)
    BY DEF Shrinks, Lost
  <2> QED
    BY <2>1, OwnedLess DEF ProcOK
<1>2. SocketOK(q)
  BY NullAssumption DEF ProcOK, SocketOK, Shrinks, Object
<1> QED
  BY <1>1, <1>2 DEF ProcOK, Early, StopOK

(* In main: by the handler, or behind the loop. *)
LEMMA CloseSockfdKeeps ==
  ASSUME StartInv, NEW s \in Server, CloseSockfd(s)
  PROVE  StartInv'
<1> DEFINE fds == Closed(proc[s].fds, {proc[s].sockfd})
           p == [proc[s] EXCEPT !.fds = fds, !.pc = "exit"]
<1>1. /\ ProcOK(proc[s]) /\ proc[s] \in Process /\ proc[s].stop = TRUE
      /\ proc[s].fds \in Table
  BY DEF StartInv, ProcOK, StopOK, CloseSockfd, At, Process
<1>2. Shrinks(proc[s].fds, fds, {proc[s].sockfd})
  BY <1>1, ClosedShrinks
<1>3. proc' = [proc EXCEPT ![s] = Settled(p)]
  BY DEF CloseSockfd, Becomes
<1> HIDE DEF fds
<1>4. /\ p \in Process /\ p.pc = "exit" /\ p.fds = fds /\ p.sockfd = proc[s].sockfd
      /\ p.socket = proc[s].socket /\ p.stop = proc[s].stop /\ p.thread = proc[s].thread
  BY <1>1, <1>2 DEF Process, Shrinks
<1> HIDE DEF p
<1>5. \A u \in Thread, n \in Fd : /\ HasConn(p, u, n) => HasConn(proc[s], u, n)
                                  /\ HasFile(p, u, n) => HasFile(proc[s], u, n)
  BY <1>4 DEF HasConn, HasFile
<1>6. ProcOK(p)
  BY <1>1, <1>2, <1>4, <1>5, CloseSockfdOwned DEF Early
<1> QED
  BY <1>3, <1>4, <1>6, SettledStep

(* In a thread: by the handler. *)
LEMMA ThreadCloseSockfdKeeps ==
  ASSUME StartInv, NEW s \in Server, NEW t \in Thread, CloseSockfd_thread(s, t)
  PROVE  StartInv'
<1> DEFINE fds == Closed(proc[s].fds, {proc[s].sockfd})
           r == [proc[s].thread[t] EXCEPT !.at = "exit"]
           p == [proc[s] EXCEPT !.fds = fds, !.thread = [proc[s].thread EXCEPT ![t] = r]]
<1>1. /\ ProcOK(proc[s]) /\ proc[s] \in Process /\ proc[s].pc \notin Early
      /\ proc[s].fds \in Table /\ proc[s].thread \in [Thread -> ThreadRecord]
      /\ proc[s].thread[t] \in ThreadRecord
  BY ThreadRuns DEF CloseSockfd_thread
<1>2. proc[s].stop = TRUE
  BY <1>1 DEF ProcOK, StopOK, CloseSockfd_thread
<1>3. Shrinks(proc[s].fds, fds, {proc[s].sockfd})
  BY <1>1, ClosedShrinks
<1>4. r \in ThreadRecord /\ r.at = "exit"
  BY <1>1 DEF ThreadRecord
<1>5. proc' = [proc EXCEPT ![s] = Settled(p)]
  BY DEF CloseSockfd_thread, Becomes
<1> HIDE DEF fds, r
<1>6. /\ p \in Process /\ p.pc = proc[s].pc /\ p.fds = fds /\ p.sockfd = proc[s].sockfd
      /\ p.socket = proc[s].socket /\ p.stop = proc[s].stop
      /\ p.thread = [proc[s].thread EXCEPT ![t] = r]
  BY <1>1, <1>3, <1>4 DEF Process, Shrinks
<1> HIDE DEF p
<1>7. p.thread[t] = r /\ \A u \in Thread \ {t} : p.thread[u] = proc[s].thread[u]
  BY <1>1, <1>6
<1>8. \A u \in Thread, n \in Fd : /\ HasConn(p, u, n) => HasConn(proc[s], u, n)
                                  /\ HasFile(p, u, n) => HasFile(proc[s], u, n)
  BY <1>4, <1>7 DEF HasConn, HasFile
<1>9. ProcOK(p)
  BY <1>1, <1>2, <1>3, <1>6, <1>8, CloseSockfdOwned
<1> QED
  BY <1>5, <1>6, <1>9, SettledStep
-----------------------------------------------------------------------------
(* No process has been started at the beginning. *)
LEMMA StartInvInit == Init => StartInv
<1> SUFFICES ASSUME Init PROVE StartInv
  OBVIOUS
<1>1. /\ NoFds \in Table /\ \A n \in Fd : NoFds[n] # "socket"
      /\ 0 \in Fd /\ [t \in Thread |-> NoThread] \in [Thread -> ThreadRecord]
  BY OpenMaxAssumption, NullAssumption DEF NoFds, Table, Fd, Object, NoThread, ThreadRecord
<1>2. NoProcess \in Process
  BY <1>1 DEF NoProcess, Process, Early
<1>3. /\ NoProcess.pc = "down" /\ NoProcess.socket = "none" /\ NoProcess.fds = NoFds
      /\ \A t \in Thread : NoProcess.thread[t].at = "none"
  BY DEF NoProcess, NoThread
<1>4. ProcOK(NoProcess)
  BY <1>1, <1>2, <1>3, NobodyOwns DEF ProcOK, StopOK, SocketOK
<1>5. \A s \in Server : proc[s] = NoProcess
  BY DEF Init
<1>6. proc \in [Server -> Process]
  BY <1>2 DEF Init
<1> QED
  BY <1>3, <1>4, <1>5, <1>6 DEF StartInv, OneListens, Listening

(* Every step of every process keeps the invariant. *)
LEMMA StartInvStep == StartInv /\ [Next]_vars => StartInv'
<1> SUFFICES ASSUME StartInv, [Next]_vars PROVE StartInv'
  OBVIOUS
<1>1. ASSUME NEW s \in Server, Main(s)
      PROVE  StartInv'
  <2>1. CASE Socket(s)
    BY <2>1, SocketKeeps
  <2>2. CASE Setsockopt(s)
    BY <2>2, SetsockoptKeeps
  <2>3. CASE Bind(s)
    BY <2>3, BindKeeps
  <2>4. CASE BindFails(s)
    BY <2>4, ExitKeeps DEF BindFails
  <2>5. CASE daemonize(s)
    BY <2>5, daemonizeKeeps
  <2>6. CASE Listen(s)
    BY <2>6, ListenKeeps
  <2>7. CASE ListenFails(s)
    BY <2>7, ExitKeeps DEF ListenFails
  <2>8. CASE CallFails(s)
    BY <2>8, ExitKeeps DEF CallFails
  <2> QED
    BY <1>1, <2>1, <2>2, <2>3, <2>4, <2>5, <2>6, <2>7, <2>8 DEF Main
<1>2. ASSUME NEW s \in Server, Serve(s)
      PROVE  StartInv'
  BY <1>2, LoopKeeps, CreateFailsKeeps, AcceptFailsKeeps DEF Serve
<1>3. ASSUME NEW s \in Server, Stops(s)
      PROVE  StartInv'
  <2>1. CASE ProcessEnds(s)
    BY <2>1, ExitKeeps DEF ProcessEnds
  <2> QED
    BY <1>3, <2>1, SignalKeeps, CloseSockfdKeeps DEF Stops
<1>4. ASSUME NEW s \in Server, NEW t \in Thread,
             \/ Accept(s, t) \/ ThreadStep(s, t)
             \/ handle_signal_thread(s, t) \/ CloseSockfd_thread(s, t)
      PROVE  StartInv'
  BY <1>4, AcceptKeeps, OpenFileKeeps, CloseKeeps, ThreadSignalKeeps, ThreadCloseSockfdKeeps
     DEF ThreadStep
<1>5. ASSUME NEW s \in Server, NEW flag \in BOOLEAN, Start(s, flag)
      PROVE  StartInv'
  BY <1>5, StartKeeps
<1>6. CASE LingerEnds \/ UNCHANGED vars
  BY <1>6 DEF LingerEnds, vars, StartInv, OneListens, Listening
<1> QED
  BY <1>1, <1>2, <1>3, <1>4, <1>5, <1>6 DEF Next

(* The inductive invariant holds: of every process what ProcOK says, and   *)
(* one listener.                                                           *)
LEMMA StartTypes == Spec => []StartInv
BY StartInvInit, StartInvStep, PTL DEF Spec

(* sockfd names the process's socket until a signal comes, and nothing     *)
(* else ever does, whatever daemonize closes and whatever numbers log,     *)
(* connections and files take: the socket is opened behind the three       *)
(* standard descriptors, and no thread closes a number that is not its own.*)
THEOREM SocketStays == Spec => []SocketKept
<1>1. StartInv => SocketKept
  BY DEF StartInv, ProcOK, Process, SocketOK, SocketKept
<1> QED
  BY <1>1, StartTypes, PTL

(* However many servers are started at once, one listens: each of them has *)
(* set SO_REUSEADDR by the time it calls listen.                           *)
THEOREM OneListener == Spec => []OneListens
<1>1. StartInv => OneListens
  BY DEF StartInv
<1> QED
  BY <1>1, StartTypes, PTL

(* However accept, open, close, failing calls and signals interleave, a    *)
(* thread's number names its own connection or file.  The second close of  *)
(* sockfd, by main or another handler, can hurt only who was given that    *)
(* number after the first.                                                 *)
THEOREM NumbersStay == Spec => []NumbersOwned
<1>1. ASSUME StartInv, NEW s \in Server, NEW t \in Thread, NEW u \in Thread
      PROVE  LET p == proc[s]
                 a == p.thread[t]
                 b == p.thread[u]
             IN  /\ a.at \in {"run", "file"} /\ ~Lost(p, a.new_fd) =>
                      /\ p.fds[a.new_fd] = "connection"
                      /\ b.at \in {"run", "file"} /\ b.new_fd = a.new_fd => t = u
                 /\ a.at = "file" /\ ~Lost(p, a.file_fd) =>
                      /\ p.fds[a.file_fd] = "file"
                      /\ b.at = "file" /\ b.file_fd = a.file_fd => t = u
  <2>1. proc[s] \in Process /\ Owned(proc[s])
    BY <1>1 DEF StartInv, ProcOK
  <2>2. proc[s].thread[t].new_fd \in Fd /\ proc[s].thread[t].file_fd \in Fd
    BY <2>1 DEF Process, ThreadRecord
  <2> QED
    BY <2>1, <2>2 DEF Owned, HasConn, HasFile
<1>2. StartInv => NumbersOwned
  BY <1>1 DEF NumbersOwned
<1> QED
  BY <1>2, StartTypes, PTL
=============================================================================
