---------------------------- MODULE SystemCalls ----------------------------
(***************************************************************************)
(* examples/systemcalls/systemcalls.c: do_system, do_exec and              *)
(* do_exec_redirect, called by threads of one process, which share its     *)
(* descriptors.  A forked child gets a copy of all of them and runs beside *)
(* its parent.  A command is a path that is absolute, is not, or is        *)
(* missing; what it does once it runs is up to it.                         *)
(***************************************************************************)
CONSTANT Caller   \* threads, each making one call

VARIABLES fn,       \* the function called, none before the call
          callpc,   \* where the call is
          fds,      \* callers whose outputfile is open in the process
          child,    \* where the call's child is
          childfds, \* callers whose outputfile the child has open
          stdout,   \* what the child's standard output is
          status,   \* how the child ended
          ran,      \* the command was executed
          ret       \* the value returned

callVars == <<fn, callpc, fds, child, childfds, stdout, status, ran, ret>>
kids == <<child, childfds, stdout, status, ran>>

Ends == {"exit_0", "exit_1", "signal"}

CallInit == /\ fn = [c \in Caller |-> "none"]
            /\ callpc = [c \in Caller |-> "call"]
            /\ fds = {}
            /\ child = [c \in Caller |-> "none"]
            /\ childfds = [c \in Caller |-> {}]
            /\ stdout = [c \in Caller |-> "inherited"]
            /\ status = [c \in Caller |-> "none"]
            /\ ran = [c \in Caller |-> FALSE]
            /\ ret = [c \in Caller |-> FALSE]

Return(c, value) ==
  /\ callpc' = [callpc EXCEPT ![c] = "return"]
  /\ ret' = [ret EXCEPT ![c] = value]

Call(c, name) ==
  /\ callpc[c] = "call"
  /\ fn' = [fn EXCEPT ![c] = name]

(* WIFEXITED(status) && WEXITSTATUS(status) == 0 *)
Succeeded(how) == how = "exit_0"
-----------------------------------------------------------------------------
(* do_system: a null command, an error of system(), or how the shell       *)
(* ended.  system() itself is the C library's.                             *)
do_system(c) ==
  /\ Call(c, "do_system")
  /\ \/ /\ Return(c, FALSE)
        /\ UNCHANGED kids
     \/ \E how \in Ends :
          /\ Return(c, Succeeded(how))
          /\ status' = [status EXCEPT ![c] = how]
          /\ ran' = [ran EXCEPT ![c] = TRUE]
          /\ child' = [child EXCEPT ![c] = "reaped"]
          /\ UNCHANGED <<childfds, stdout>>
  /\ UNCHANGED fds

(* do_exec up to fork: refuses a missing or relative command. *)
do_exec(c, command) ==
  /\ Call(c, "do_exec")
  /\ \/ command # "absolute" /\ Return(c, FALSE)
     \/ /\ command = "absolute"
        /\ callpc' = [callpc EXCEPT ![c] = "fork"]
        /\ UNCHANGED ret
  /\ UNCHANGED <<fds, kids>>

(* do_exec_redirect up to fork, of one argument or more: open may fail.    *)
do_exec_redirect(c, command) ==
  /\ command # "missing"
  /\ Call(c, "do_exec_redirect")
  /\ \/ Return(c, FALSE) /\ UNCHANGED fds
     \/ /\ command = "absolute"
        /\ callpc' = [callpc EXCEPT ![c] = "fork"]
        /\ fds' = fds \cup {c}
        /\ UNCHANGED ret
  /\ UNCHANGED kids

Redirects(c) == fn[c] = "do_exec_redirect"

(* fork: the child has every descriptor the process has at this moment.    *)
Fork(c) ==
  /\ callpc[c] = "fork"
  /\ callpc' = [callpc EXCEPT ![c] = IF Redirects(c) THEN "close" ELSE "waitpid"]
  /\ child' = [child EXCEPT ![c] = IF Redirects(c) THEN "dup2" ELSE "execv"]
  /\ childfds' = [childfds EXCEPT ![c] = fds]
  /\ UNCHANGED <<fn, fds, stdout, status, ran, ret>>

(* fork fails: both functions return at once. *)
ForkFails(c) ==
  /\ callpc[c] = "fork"
  /\ Return(c, FALSE)
  /\ UNCHANGED <<fn, fds, kids>>

(* MUTANT: the parent keeps its descriptor. *)
CloseNot(c) ==
  /\ callpc[c] = "close"
  /\ callpc' = [callpc EXCEPT ![c] = "waitpid"]
  /\ UNCHANGED <<fn, fds, kids, ret>>

Close(c) ==
  /\ callpc[c] = "close"
  /\ fds' = fds \ {c}
  /\ callpc' = [callpc EXCEPT ![c] = "waitpid"]
  /\ UNCHANGED <<fn, kids, ret>>

Waitpid(c) ==
  /\ callpc[c] = "waitpid"
  /\ child[c] = "zombie"
  /\ child' = [child EXCEPT ![c] = "reaped"]
  /\ Return(c, Succeeded(status[c]))
  /\ UNCHANGED <<fn, fds, childfds, stdout, status, ran>>

(* waitpid is interrupted by a signal: the call ends, its child goes on.   *)
WaitpidFails(c) ==
  /\ callpc[c] = "waitpid"
  /\ Return(c, FALSE)
  /\ UNCHANGED <<fn, fds, kids>>
-----------------------------------------------------------------------------
(* The child, up to and after execv; its descriptors go when it ends. *)
ChildEnds(c, how) ==
  /\ child' = [child EXCEPT ![c] = "zombie"]
  /\ status' = [status EXCEPT ![c] = how]
  /\ childfds' = [childfds EXCEPT ![c] = {}]
  /\ UNCHANGED <<fn, callpc, fds, stdout, ran, ret>>

Dup2(c) ==
  /\ child[c] = "dup2"
  /\ child' = [child EXCEPT ![c] = "close"]
  /\ stdout' = [stdout EXCEPT ![c] = "outputfile"]
  /\ UNCHANGED <<fn, callpc, fds, childfds, status, ran, ret>>

(* MUTANT: the child goes on to execv when it could not redirect. *)
Dup2FailsGoesOn(c) ==
  /\ child[c] = "dup2"
  /\ child' = [child EXCEPT ![c] = "close"]
  /\ UNCHANGED <<fn, callpc, fds, childfds, stdout, status, ran, ret>>

Dup2Fails(c) ==
  /\ child[c] = "dup2"
  /\ ChildEnds(c, "exit_1")

ChildClose(c) ==
  /\ child[c] = "close"
  /\ child' = [child EXCEPT ![c] = "execv"]
  /\ childfds' = [childfds EXCEPT ![c] = @ \ {c}]
  /\ UNCHANGED <<fn, callpc, fds, stdout, status, ran, ret>>

Execv(c) ==
  /\ child[c] = "execv"
  /\ child' = [child EXCEPT ![c] = "command"]
  /\ ran' = [ran EXCEPT ![c] = TRUE]
  /\ UNCHANGED <<fn, callpc, fds, childfds, stdout, status, ret>>

(* MUTANT: the child does not exit, and runs on in the caller's code. *)
ExecvFailsGoesOn(c) ==
  /\ child[c] = "execv"
  /\ child' = [child EXCEPT ![c] = "caller"]
  /\ UNCHANGED <<fn, callpc, fds, childfds, stdout, status, ran, ret>>

(* execv returns: exit(EXIT_FAILURE). *)
ExecvFails(c) ==
  /\ child[c] = "execv"
  /\ ChildEnds(c, "exit_1")

(* The command ends as it likes. *)
CommandEnds(c) ==
  /\ child[c] = "command"
  /\ \E how \in Ends : ChildEnds(c, how)
-----------------------------------------------------------------------------
Parent(c) == Fork(c) \/ ForkFails(c) \/ Close(c) \/ Waitpid(c)

Child(c) == Dup2(c) \/ Dup2Fails(c) \/ ChildClose(c) \/ Execv(c) \/ ExecvFails(c) \/ CommandEnds(c)

CallNext == \E c \in Caller :
              \/ do_system(c)
              \/ \E command \in {"missing", "relative", "absolute"} :
                   do_exec(c, command) \/ do_exec_redirect(c, command)
              \/ Parent(c) \/ WaitpidFails(c) \/ Child(c)

CallSpec == CallInit /\ [][CallNext]_callVars

(* Parent and child are scheduled, and commands end. *)
FairCallSpec == CallSpec /\ \A c \in Caller : WF_callVars(Parent(c)) /\ WF_callVars(Child(c))
-----------------------------------------------------------------------------
(* A call that returns true did execute the command, which ended with      *)
(* status 0, has been waited for, and wrote to outputfile when it should.  *)
TrueMeansDone ==
  \A c \in Caller : ret[c] =>
     /\ ran[c] /\ status[c] = "exit_0" /\ child[c] = "reaped"
     /\ Redirects(c) => stdout[c] = "outputfile"

(* When a call that has forked returns, its outputfile is closed in the    *)
(* process and, once the command runs, in the child.                       *)
DescriptorsClosed ==
  \A c \in Caller : /\ callpc[c] = "return" /\ child[c] # "none" => c \notin fds
                    /\ child[c] \in {"execv", "command"} => c \notin childfds[c]

(* Every call returns, whatever fails, as long as commands end. *)
CallsReturn == \A c \in Caller : callpc[c] # "call" ~> callpc[c] = "return"
=============================================================================
