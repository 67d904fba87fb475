--------------------------- MODULE AesdSocketOld ---------------------------
(***************************************************************************)
(* server/aesdsocket_old.c, the server before threads and driver: one      *)
(* process that serves one client at a time and keeps all messages in      *)
(* /var/tmp/aesdsocketdata.  Bytes are the client that sent them, and      *)
(* NEWLINE.                                                                *)
(***************************************************************************)
EXTENDS Descriptors, Sequences, FiniteSets

CONSTANTS Client,
          NEWLINE, DATA,
          Scripts,      \* what a client may do: [tokens, closes, reads]
          Faults,       \* the failures of the environment that may happen
          MaxStarts     \* bound: how often the server is started

ASSUME FaultsAssumption == Faults \subseteq {"start", "open", "write", "reset", "signal"}

(* A client is told from what else a descriptor names or a file contains.  *)
ASSUME ClientAssumption == Client \cap (Object \cup {NULL, NEWLINE}) = {}

(* No file is not an empty file. *)
ASSUME FileAssumption == NULL \notin Seq(Client \cup {NEWLINE})

ASSUME ScriptsAssumption ==
  \A s \in Scripts : /\ s.tokens \in Seq({DATA, NEWLINE})
                     /\ s.closes \in BOOLEAN /\ s.reads \in BOOLEAN

VARIABLES main,     \* the process: its place in main, descriptors and variables
          file,     \* the content of FILE_PATH, NULL when there is none
          conn,     \* each connection, as the client sees it
          stream,   \* bytes sent by the client and not received yet
          script,   \* what the client does: the tokens it sends, DATA for its own bytes,
                    \* whether it shuts its side after them, and whether it reads the answer
          sent,     \* bytes sent to the client
          timewait, \* a closed connection lingers on the port
          cut,      \* history: <<client, start>> that ended without a newline
          lost      \* history: clients some of whose bytes could not be written

history == <<cut, lost>>
clients == <<conn, stream, script, sent>>
vars == <<main, file, clients, timewait, history>>

(* The process when it starts for the nth time. *)
Started(n, flag) ==
  [pc |-> "bind", start |-> n, daemonize_flag |-> flag, fds |-> Standard,
   sockfd |-> 0, new_fd |-> NULL, file_fd |-> NULL]

Init == /\ \E flag \in BOOLEAN : main = Started(1, flag)
        /\ file = NULL
        /\ conn = [c \in Client |-> "queued"]
        /\ script \in [Client -> Scripts]
        /\ stream = [c \in Client |->
             [i \in 1 .. Len(script[c].tokens) |->
                IF script[c].tokens[i] = DATA THEN c ELSE script[c].tokens[i]]]
        /\ sent = [c \in Client |-> <<>>]
        /\ timewait = FALSE /\ cut = {} /\ lost = {}
-----------------------------------------------------------------------------
(* The end of the process, and of its connections. *)
Exit ==
  /\ main' = [main EXCEPT !.pc = "down", !.fds = NoFds]
  /\ conn' = [c \in Client |-> IF conn[c] = "open" THEN "closed" ELSE conn[c]]
  /\ timewait' = (timewait \/ \E c \in Client : conn[c] = "open")
  /\ UNCHANGED <<stream, script, sent, history>>

(* socket and bind.  Without SO_REUSEADDR the port is not to be had while  *)
(* a connection lingers on it.                                             *)
Bind ==
  /\ main.pc = "bind" /\ ~timewait
  /\ main' = [main EXCEPT !.fds = Opened(@, "socket"), !.sockfd = Lowest(main.fds),
                          !.pc = IF main.daemonize_flag THEN "daemonize" ELSE "listen"]
  /\ UNCHANGED <<file, clients, timewait, history>>

(* The parent exits; the child closes every descriptor, sockfd too, and    *)
(* opens /dev/null three times.                                            *)
daemonize ==
  /\ main.pc = "daemonize"
  /\ main' = [main EXCEPT !.fds = Logged([n \in Fd |-> IF n < 3 THEN "null" ELSE NULL]),
                          !.pc = "listen"]
  /\ UNCHANGED <<file, clients, timewait, history>>

Listen ==
  /\ main.pc = "listen" /\ main.fds[main.sockfd] = "socket"
  /\ main' = [main EXCEPT !.fds = Logged(@), !.pc = "accept"]
  /\ UNCHANGED <<file, clients, timewait, history>>

(* The port is taken, sockfd names something else by now, or socket, bind, *)
(* listen or a call of daemonize fails: exit(EXIT_FAILURE).                *)
StartFails ==
  /\ \/ main.pc = "bind" /\ timewait
     \/ main.pc = "listen" /\ main.fds[main.sockfd] # "socket"
     \/ main.pc \in {"bind", "daemonize", "listen"} /\ "start" \in Faults
  /\ Exit
  /\ UNCHANGED file
-----------------------------------------------------------------------------
(* accept fails while no number is free, and is called again. *)
Accept(c) ==
  /\ main.pc = "accept" /\ FreeFds(main.fds) # {}
  /\ conn[c] = "queued"
  /\ conn' = [conn EXCEPT ![c] = "open"]
  /\ main' = [main EXCEPT !.fds = Opened(@, c), !.new_fd = Lowest(main.fds), !.pc = "open"]
  /\ UNCHANGED <<file, stream, script, sent, timewait, history>>

(* The client whose connection new_fd names, if any. *)
Current == {c \in Client : main.fds[main.new_fd] = c}

(* What a client sees when its connection ends; the port lingers when the  *)
(* server is the first to close.                                           *)
Hangup(how) ==
  /\ conn' = [c \in Client |-> IF c \in Current THEN how ELSE conn[c]]
  /\ timewait' = (timewait \/ \E c \in Current : ~script[c].closes)
  /\ UNCHANGED <<stream, script, sent>>

Open ==
  /\ main.pc = "open" /\ FreeFds(main.fds) # {}
  /\ main' = [main EXCEPT !.fds = Opened(@, "file"), !.file_fd = Lowest(main.fds), !.pc = "recv"]
  /\ file' = IF file = NULL THEN <<>> ELSE file
  /\ UNCHANGED <<clients, timewait, history>>

(* The file cannot be opened: this client goes away. *)
OpenFails ==
  /\ main.pc = "open"
  /\ FreeFds(main.fds) = {} \/ "open" \in Faults
  /\ Hangup(IF FreeFds(main.fds) = {} THEN "refused" ELSE "failed")
  /\ main' = [main EXCEPT !.fds = Closed(@, {main.new_fd}), !.file_fd = NULL, !.pc = "accept"]
  /\ UNCHANGED <<file, history>>

(* MUTANT: every piece is taken for a message. *)
AnyPart(buffer) == buffer # <<>>

HasNewline(buffer) == \E i \in 1 .. Len(buffer) : buffer[i] = NEWLINE

(* A piece is written as it comes, whether that succeeds or not. *)
Recv(c) ==
  /\ main.pc = "recv" /\ c \in Current
  /\ \E n \in 1 .. Len(stream[c]) :
       LET buffer == SubSeq(stream[c], 1, n)
       IN  /\ stream' = [stream EXCEPT ![c] = SubSeq(@, n + 1, Len(@))]
           /\ \/ file' = file \o buffer /\ lost' = lost
              \/ "write" \in Faults /\ file' = file /\ lost' = lost \cup {c}
           /\ main' = [main EXCEPT !.pc = IF HasNewline(buffer) THEN "reopen" ELSE "recv"]
  /\ UNCHANGED <<conn, script, sent, timewait, cut>>

(* recv returns 0: the client has shut its side, or -1: new_fd is closed.  *)
RecvEnds ==
  /\ main.pc = "recv"
  /\ \A c \in Current : stream[c] = <<>> /\ script[c].closes
  /\ cut' = cut \cup (Current \X {main.start})
  /\ main' = [main EXCEPT !.pc = "close"]
  /\ UNCHANGED <<file, clients, timewait, lost>>

Reopen ==
  LET fds == Closed(main.fds, {main.file_fd})
  IN  /\ main.pc = "reopen"
      /\ main' = [main EXCEPT !.fds = Opened(fds, "file"), !.file_fd = Lowest(fds), !.pc = "read"]
      /\ UNCHANGED <<file, clients, timewait, history>>

(* The connection is closed, and the receiving loop goes on with it. *)
ReopenFails ==
  /\ "open" \in Faults
  /\ main.pc = "reopen"
  /\ Hangup("failed")
  /\ main' = [main EXCEPT !.fds = Closed(@, {main.file_fd, main.new_fd}),
                          !.file_fd = NULL, !.pc = "recv"]
  /\ UNCHANGED <<file, history>>

(* MUTANT: the receiving loop is not left after the answer. *)
AnsweredNoBreak == [main EXCEPT !.fds = Closed(@, {main.file_fd}), !.pc = "recv"]

(* MUTANT: the file stays open after the answer. *)
AnsweredOpen == [main EXCEPT !.pc = "close"]

(* close(file_fd) and break. *)
Answered == [main EXCEPT !.fds = Closed(@, {main.file_fd}), !.pc = "close"]

(* send waits while the client does not read and the socket is full. *)
SendWaits == /\ main.pc = "read" /\ file # <<>>
             /\ \E c \in Current : ~script[c].reads

(* The whole file is sent: nobody writes to it meanwhile.  The step is     *)
(* taken when the last send returns, which fairness does not promise while *)
(* SendWaits.                                                              *)
ReadSend(c) ==
  /\ main.pc = "read" /\ c \in Current
  /\ sent' = [sent EXCEPT ![c] = @ \o file]
  /\ main' = Answered
  /\ UNCHANGED <<file, conn, stream, script, timewait, history>>

(* close(new_fd) at the end of the loop, for the second time after a       *)
(* failing reopen.                                                         *)
Close ==
  /\ main.pc = "close"
  /\ Hangup("closed")
  /\ main' = [main EXCEPT !.fds = Closed(@, {main.new_fd}), !.pc = "accept"]
  /\ UNCHANGED <<file, history>>
-----------------------------------------------------------------------------
handle_signal == "signal" \in Faults /\ main.pc # "down" /\ Exit /\ file' = NULL

(* send to a client that has reset its connection: SIGPIPE, not handled.   *)
SendFails ==
  "reset" \in Faults /\ main.pc = "read" /\ file # <<>> /\ Exit /\ UNCHANGED file

Restart ==
  /\ main.pc = "down" /\ main.start < MaxStarts
  /\ \E flag \in BOOLEAN : main' = Started(main.start + 1, flag)
  /\ UNCHANGED <<file, clients, timewait, history>>

LingerEnds == timewait /\ timewait' = FALSE /\ UNCHANGED <<main, file, clients, history>>
-----------------------------------------------------------------------------
Main == \/ Bind \/ daemonize \/ Listen \/ StartFails
        \/ \E c \in Client : Accept(c) \/ Recv(c) \/ ReadSend(c)
        \/ Open \/ OpenFails \/ RecvEnds \/ Reopen \/ ReopenFails \/ Close \/ SendFails

Next == Main \/ handle_signal \/ Restart \/ LingerEnds

Spec == Init /\ [][Next]_vars

(* The process runs, and what a client has sent arrives; nothing says that *)
(* a send to a client that does not read ever returns.                     *)
FairSpec == Spec /\ WF_vars(~SendWaits /\ Main)
-----------------------------------------------------------------------------
(* Nobody's bytes are put on the line of another client, restarts and      *)
(* pieces of any size included, but for those of a client that ended its   *)
(* connection before its newline or whose bytes could not be written.  It  *)
(* is about clients that send one line: what a piece has behind a newline  *)
(* is written with it and stays an unfinished line.                        *)
LinesWhole ==
  file # NULL =>
    \A i \in 1 .. Len(file) - 1 :
      LET c == file[i]
      IN  {c, file[i + 1]} \subseteq Client /\ c # file[i + 1]
            => c \in lost \/ \E n \in 1 .. main.start : <<c, n>> \in cut

(* How many clients of this process were cut off. *)
CutOff == Cardinality(cut \cap (Client \X {main.start}))

(* What the process has open between two clients: the file once for every  *)
(* client that was cut off, which the code forgets to close, and not one   *)
(* connection or file more, on whichever path the last client left.        *)
OnlyCutLeaks ==
  main.pc = "accept" =>
    /\ Cardinality({n \in Fd : main.fds[n] = "file"}) = CutOff
    /\ \A n \in Fd : main.fds[n] \notin Client

(* Every client is served in the end, unless the server is down, a client  *)
(* keeps it waiting in the middle of a message or for ever in send, or the *)
(* files left open by clients that were cut off have used up the           *)
(* descriptors, which takes at least OPEN_MAX - 6 of them.                 *)
EveryoneServed ==
  \/ <>[]SendWaits
  \/ \A c \in Client :
       conn[c] = "queued" ~>
         \/ conn[c] \in {"closed", "failed"} \/ main.pc = "down"
         \/ main.pc = "recv" /\ \E d \in Current : stream[d] = <<>> /\ sent[d] = <<>>
         \/ CutOff >= OPEN_MAX - 6
=============================================================================
