------------------------------ MODULE Startup ------------------------------
(***************************************************************************)
(* A process of server/aesdsocket.c and the numbers of its descriptors:    *)
(* main up to the accept loop, daemonize, the loop and its threads, the    *)
(* handler of signals, which closes sockfd while the others run on, and    *)
(* the start script, which may start a server while another one starts,    *)
(* serves or has just ended.  What is served is in AesdSocket; here a      *)
(* connection or a file is a descriptor.                                   *)
(***************************************************************************)
EXTENDS Descriptors

CONSTANTS Server,     \* processes that run aesdsocket, one after the other
          Thread,     \* bound: the threads a process has at one time
          Faults,     \* whether calls may fail for reasons other than the port
          MaxStarts,  \* bound: how often each is started
          MaxClients  \* bound: the connections that are accepted in all

ASSUME StartupAssumption == Faults \in BOOLEAN /\ MaxStarts \in Nat /\ MaxClients \in Nat

VARIABLES proc,     \* each process: its place in main, descriptors, socket, threads
          timewait, \* a closed connection lingers on the port
          clients   \* how many connections were accepted, for MaxClients

vars == <<proc, timewait, clients>>

(* new_fd and file_fd of threadfunc: at "run" it has new_fd open, at       *)
(* "file" the device or file as well; "close" and "exit" are in the        *)
(* handler, which does not return.                                         *)
NoThread == [at |-> "none", new_fd |-> 0, file_fd |-> 0]

(* sockfd is a global variable and 0 before it is set.  why is history: by *)
(* which of its ways out the process ended.                                *)
NoProcess == [pc |-> "down", starts |-> 0, daemonize_flag |-> FALSE, fds |-> NoFds,
              sockfd |-> 0, option |-> "none", socket |-> "none", stop |-> FALSE,
              thread |-> [t \in Thread |-> NoThread], why |-> "none"]

Init == proc = [s \in Server |-> NoProcess] /\ timewait = FALSE /\ clients = 0

At(s, where) == proc[s].pc = where
Becomes(s, p) == proc' = [proc EXCEPT ![s] = p] /\ UNCHANGED <<timewait, clients>>

(* "start" of the script, or a start by hand, which may be without -d. *)
Start(s, flag) ==
  /\ At(s, "down") /\ proc[s].starts < MaxStarts
  /\ Becomes(s, [NoProcess EXCEPT !.pc = "socket", !.starts = proc[s].starts + 1,
                                  !.daemonize_flag = flag, !.fds = Standard])
-----------------------------------------------------------------------------
Listening(s) == proc[s].socket = "listening"

(* Linux lets sockets share a port while none of them listens, if all set  *)
(* SO_REUSEADDR; with SO_REUSEPORT all of them may listen.                 *)
ListenConflict(s) ==
  \E t \in Server \ {s} : Listening(t) /\ {proc[s].option, proc[t].option} # {"reuseport"}

BindConflict(s) ==
  \/ timewait /\ proc[s].option = "none"
  \/ ListenConflict(s)
  \/ \E t \in Server \ {s} : proc[t].socket = "bound" /\ proc[s].option # proc[t].option
-----------------------------------------------------------------------------
(* The end of a process: its descriptors are closed, and the connections   *)
(* among them linger.                                                      *)
Exit(s, reason) ==
  /\ proc' = [proc EXCEPT ![s] = [NoProcess EXCEPT !.starts = proc[s].starts, !.why = reason,
                                                   !.stop = proc[s].stop]]
  /\ timewait' = (timewait \/ \E n \in Fd : proc[s].fds[n] = "connection")
  /\ UNCHANGED clients

(* getaddrinfo, socket, setsockopt, a fork, setsid, or bind or listen for  *)
(* a reason other than the port: exit(EXIT_FAILURE).                       *)
CallFails(s) ==
  /\ Faults
  /\ proc[s].pc \in {"socket", "setsockopt", "bind", "daemonize", "listen"}
  /\ Exit(s, "failure")

(* getaddrinfo and socket. *)
Socket(s) ==
  /\ At(s, "socket")
  /\ Becomes(s, [proc[s] EXCEPT !.pc = "setsockopt", !.fds = Opened(@, "socket"),
                                !.sockfd = Lowest(proc[s].fds), !.socket = "unbound"])

(* MUTANT: no option is set. *)
SetsockoptNot(s) == At(s, "setsockopt") /\ Becomes(s, [proc[s] EXCEPT !.pc = "bind"])

(* MUTANT: SO_REUSEPORT. *)
SetsockoptPort(s) ==
  At(s, "setsockopt") /\ Becomes(s, [proc[s] EXCEPT !.pc = "bind", !.option = "reuseport"])

Setsockopt(s) ==
  At(s, "setsockopt") /\ Becomes(s, [proc[s] EXCEPT !.pc = "bind", !.option = "reuseaddr"])

Bind(s) ==
  /\ At(s, "bind") /\ ~BindConflict(s)
  /\ Becomes(s, [proc[s] EXCEPT !.socket = "bound",
                                !.pc = IF proc[s].daemonize_flag THEN "daemonize" ELSE "listen"])

BindFails(s) == At(s, "bind") /\ BindConflict(s) /\ Exit(s, "port")

(* MUTANT: every descriptor is closed, as the old server does. *)
daemonizeClosesAll(s) ==
  /\ At(s, "daemonize")
  /\ Becomes(s, [proc[s] EXCEPT !.pc = "listen",
                   !.fds = Logged([n \in Fd |-> IF n < 3 THEN "null" ELSE NULL])])

(* The parents exit with success; the last child goes on with the          *)
(* descriptors but 0, 1 and 2, and the log takes the number 0.             *)
daemonize(s) ==
  /\ At(s, "daemonize")
  /\ Becomes(s, [proc[s] EXCEPT !.pc = "listen", !.fds = Logged(Closed(@, 0 .. 2))])

(* listen can work on sockfd. *)
CanListen(s) == proc[s].fds[proc[s].sockfd] = "socket" /\ ~ListenConflict(s)

Listen(s) ==
  /\ At(s, "listen") /\ CanListen(s)
  /\ Becomes(s, [proc[s] EXCEPT !.pc = "loop", !.socket = "listening", !.fds = Logged(@)])

ListenFails(s) == At(s, "listen") /\ ~CanListen(s) /\ Exit(s, "port")
-----------------------------------------------------------------------------
(* A socket is gone when no number names it, unless somebody waits in      *)
(* accept on it.                                                           *)
Settled(p) ==
  [p EXCEPT !.socket = IF p.pc = "blocked" \/ \E n \in Fd : p.fds[n] = "socket" THEN @ ELSE "none"]

(* The loop looks at stop, then calls accept on whatever sockfd names.     *)
Loop(s) ==
  /\ At(s, "loop")
  /\ Becomes(s, [proc[s] EXCEPT !.pc = IF proc[s].stop THEN "close" ELSE "accept"])

CallAccept(s) ==
  /\ At(s, "accept") /\ proc[s].fds[proc[s].sockfd] = "socket"
  /\ Becomes(s, [proc[s] EXCEPT !.pc = "blocked"])

(* accept returns a connection. *)
Accepted(s, p) ==
  /\ At(s, "blocked") /\ FreeFds(proc[s].fds) # {} /\ clients < MaxClients
  /\ proc' = [proc EXCEPT ![s] = Settled([p EXCEPT !.pc = "loop", !.fds = Opened(@, "connection")])]
  /\ clients' = clients + 1
  /\ UNCHANGED timewait

(* A thread is given the connection. *)
Accept(s, t) ==
  /\ proc[s].thread[t] = NoThread
  /\ Accepted(s, [proc[s] EXCEPT !.thread[t] =
                    [NoThread EXCEPT !.at = "run", !.new_fd = Lowest(proc[s].fds)]])

(* pthread_create fails, and the connection is never closed. *)
CreateFails(s) == Faults /\ Accepted(s, proc[s])

(* accept fails, at once if sockfd is closed or names something else.      *)
AcceptFails(s) ==
  /\ \/ At(s, "accept") /\ proc[s].fds[proc[s].sockfd] # "socket"
     \/ At(s, "blocked") /\ (Faults \/ FreeFds(proc[s].fds) = {})
  /\ Becomes(s, Settled([proc[s] EXCEPT !.pc = "loop"]))
-----------------------------------------------------------------------------
(* threadfunc opens the device or the file and closes it, once or twice,   *)
(* and closes its connection; the server may be the first to close it.     *)
OpenFile(s, t) ==
  /\ proc[s].thread[t].at = "run" /\ FreeFds(proc[s].fds) # {}
  /\ Becomes(s, [proc[s] EXCEPT !.fds = Opened(@, "file"),
                    !.thread[t] = [@ EXCEPT !.at = "file", !.file_fd = Lowest(proc[s].fds)]])

CloseFile(s, t) ==
  /\ proc[s].thread[t].at = "file"
  /\ Becomes(s, Settled([proc[s] EXCEPT !.fds = Closed(@, {proc[s].thread[t].file_fd}),
                    !.thread[t] = [@ EXCEPT !.at = "run", !.file_fd = 0]]))

CloseConn(s, t) ==
  /\ proc[s].thread[t].at = "run"
  /\ proc' = [proc EXCEPT ![s] = Settled([proc[s] EXCEPT
                                !.fds = Closed(@, {proc[s].thread[t].new_fd}),
                                !.thread[t] = NoThread])]
  /\ timewait' \in {timewait, TRUE}
  /\ UNCHANGED clients

(* MUTANT: without its return the path of the failed ioctl runs on into    *)
(* the close behind it, with file_fd closed already.                       *)
SeekFailsRunsOn(s, t) ==
  /\ proc[s].thread[t].at = "file"
  /\ Becomes(s, Settled([proc[s] EXCEPT !.fds = Closed(@, {proc[s].thread[t].file_fd})]))

(* The ioctl fails: the thread closes the device and ends, and nobody      *)
(* closes its connection any more.                                         *)
SeekFails(s, t) ==
  /\ proc[s].thread[t].at = "file"
  /\ Becomes(s, Settled([proc[s] EXCEPT !.fds = Closed(@, {proc[s].thread[t].file_fd}),
                                        !.thread[t] = NoThread]))
-----------------------------------------------------------------------------
(* SIGINT or SIGTERM, which interrupts main wherever it is, in the handler *)
(* too, or a thread.  The rest of the process runs on.                     *)
handle_signal(s) ==
  /\ ~At(s, "down")
  /\ Becomes(s, Settled([proc[s] EXCEPT !.fds = Logged(@), !.stop = TRUE, !.pc = "close"]))

handle_signal_thread(s, t) ==
  /\ proc[s].thread[t].at # "none"
  /\ Becomes(s, [proc[s] EXCEPT !.fds = Logged(@), !.stop = TRUE,
                                !.thread[t] = [@ EXCEPT !.at = "close"]])

(* close(sockfd), in the handler and, when main saw stop, behind its loop: *)
(* the second to come closes whatever has the number by then.              *)
CloseSockfd(s) ==
  /\ At(s, "close")
  /\ Becomes(s, Settled([proc[s] EXCEPT !.fds = Closed(@, {proc[s].sockfd}), !.pc = "exit"]))

CloseSockfd_thread(s, t) ==
  /\ proc[s].thread[t].at = "close"
  /\ Becomes(s, Settled([proc[s] EXCEPT !.fds = Closed(@, {proc[s].sockfd}),
                                        !.thread[t] = [@ EXCEPT !.at = "exit"]]))

(* closelog and exit, or the return of main.                               *)
ProcessEnds(s) ==
  /\ At(s, "exit") \/ \E t \in Thread : proc[s].thread[t].at = "exit"
  /\ Exit(s, "stopped")

LingerEnds == timewait /\ timewait' = FALSE /\ UNCHANGED <<proc, clients>>
-----------------------------------------------------------------------------
Main(s) == \/ Socket(s) \/ Setsockopt(s) \/ Bind(s) \/ BindFails(s)
           \/ daemonize(s) \/ Listen(s) \/ ListenFails(s) \/ CallFails(s)

Serve(s) == Loop(s) \/ CallAccept(s) \/ CreateFails(s) \/ AcceptFails(s)

ThreadStep(s, t) == OpenFile(s, t) \/ CloseFile(s, t) \/ CloseConn(s, t) \/ SeekFails(s, t)

Stops(s) == handle_signal(s) \/ CloseSockfd(s) \/ ProcessEnds(s)

Next == \/ \E s \in Server :
             \/ Main(s) \/ Serve(s) \/ Stops(s)
             \/ \E t \in Thread : \/ Accept(s, t) \/ ThreadStep(s, t)
                                  \/ handle_signal_thread(s, t) \/ CloseSockfd_thread(s, t)
             \/ \E flag \in BOOLEAN : Start(s, flag)
        \/ LingerEnds

Spec == Init /\ [][Next]_vars

(* A process that starts keeps running. *)
FairSpec == Spec /\ \A s \in Server : WF_vars(Main(s))
-----------------------------------------------------------------------------
(* From socket() on, sockfd names the process's own socket, through        *)
(* daemonize and whatever numbers log, connections and files take: it is   *)
(* what listen, accept and close work on.  After a signal it may name      *)
(* something else, but then no number names the socket.                    *)
SocketKept ==
  \A s \in Server : proc[s].pc \notin {"down", "socket"} =>
    \A n \in Fd : /\ proc[s].fds[n] = "socket" => n = proc[s].sockfd
                  /\ n = proc[s].sockfd /\ ~proc[s].stop => proc[s].fds[n] = "socket"

(* Two servers never listen on the port, though two that start at once may *)
(* both pass bind, and one may wait in accept on a socket it has closed.   *)
OneListens == \A s, t \in Server : Listening(s) /\ Listening(t) => s = t

(* What the second close(sockfd) may hit. *)
Lost(p, n) == p.stop /\ n = p.sockfd

(* The number a thread keeps for its connection or file names one of the   *)
(* kind, and no other thread has the number for it: nobody reads, writes   *)
(* or closes what is another's.  sockfd alone is closed by several, the    *)
(* handler and main: who gets that number after a signal may lose it.      *)
NumbersOwned ==
  \A s \in Server : \A t, u \in Thread :
    LET p == proc[s]
        a == p.thread[t]
        b == p.thread[u]
    IN  /\ a.at \in {"run", "file"} /\ ~Lost(p, a.new_fd) =>
             /\ p.fds[a.new_fd] = "connection"
             /\ b.at \in {"run", "file"} /\ b.new_fd = a.new_fd => t = u
        /\ a.at = "file" /\ ~Lost(p, a.file_fd) =>
             /\ p.fds[a.file_fd] = "file"
             /\ b.at = "file" /\ b.file_fd = a.file_fd => t = u

(* A server that is started serves, unless one of its calls fails, it gets *)
(* a signal, or another one serves already: in particular at once after    *)
(* another has ended, with its connections still lingering, and when two   *)
(* start at the same time one of them does.                                *)
StartServes ==
  \A s \in Server : At(s, "socket") ~> \/ \E t \in Server : Listening(t)
                                      \/ proc[s].why = "failure" \/ proc[s].stop
=============================================================================
