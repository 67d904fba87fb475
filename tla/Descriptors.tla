---------------------------- MODULE Descriptors ----------------------------
(***************************************************************************)
(* The descriptor table of a process, as the kernel keeps it: a function   *)
(* from descriptor numbers to the object each names, or NULL.  The servers *)
(* keep numbers in variables; what a number names is in the table.         *)
(***************************************************************************)
EXTENDS Naturals

CONSTANTS NULL,     \* a free number
          OPEN_MAX  \* how many descriptors a process may have

(* The three standard descriptors, a socket, the log, a connection and a   *)
(* file are open at once.                                                  *)
ASSUME OpenMaxAssumption == OPEN_MAX \in Nat /\ OPEN_MAX >= 7

(* What a number may name. *)
Object == {"tty", "null", "socket", "log", "connection", "file"}
ASSUME NullAssumption == NULL \notin Object

Fd == 0 .. OPEN_MAX - 1

(* What a process is started with, and what it has once it is gone. *)
Standard == [n \in Fd |-> IF n < 3 THEN "tty" ELSE NULL]
NoFds == [n \in Fd |-> NULL]

FreeFds(fds) == {n \in Fd : fds[n] = NULL}

(* open, socket and accept return the lowest free number. *)
Lowest(fds) == CHOOSE n \in FreeFds(fds) : \A m \in FreeFds(fds) : n <= m

Opened(fds, object) == [fds EXCEPT ![Lowest(fds)] = object]

(* close of a number that names nothing does nothing. *)
Closed(fds, numbers) == [n \in Fd |-> IF n \in numbers THEN NULL ELSE fds[n]]

(* The first call of syslog opens the log, if there is room for it. *)
Logged(fds) ==
  IF FreeFds(fds) = {} \/ \E n \in Fd : fds[n] = "log" THEN fds ELSE Opened(fds, "log")
=============================================================================
