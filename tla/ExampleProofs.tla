--------------------------- MODULE ExampleProofs ---------------------------
(***************************************************************************)
(* The examples are right for every number of threads, whatever fails.     *)
(* First the thread example, however starters, threads and joiners         *)
(* interleave; then the system call examples.                              *)
(***************************************************************************)
EXTENDS Threading, SystemCalls, TLAPS

TypeOK ==
  /\ start \in [Thread -> {"malloc", "pthread_create", "threadID", "return_true",
                           "return_false", "joined"}]
  /\ pc \in [Thread -> {"none", "lock", "unlock", "success", "return", "exit"}]
  /\ data \in [Thread -> ThreadData \cup {Free}]
  /\ mutex \in Thread \cup {NULL}
  /\ result \in [Thread -> BOOLEAN]

(* There is a thread exactly once pthread_create has succeeded. *)
Created ==
  \A t \in Thread : pc[t] # "none" <=> start[t] \in {"threadID", "return_true", "joined"}

(* thread_data is allocated from malloc to the join that frees it, or for  *)
(* good when the thread returned NULL.                                     *)
Allocated ==
  \A t \in Thread :
    data[t] # Free <=> \/ start[t] \in {"pthread_create", "threadID", "return_true"}
                       \/ start[t] = "joined" /\ ~result[t]

(* Who joins waits for the end of the thread. *)
JoinedEnded == \A t \in Thread : start[t] = "joined" => pc[t] = "exit"

(* The owner of the mutex is about to release it, or has failed to. *)
Owner == \A t \in Thread : mutex = t => pc[t] = "unlock" \/ (pc[t] = "exit" /\ ~result[t])

(* Who has set the flag returns thread_data, and nobody else does. *)
FlagReturned ==
  \A t \in Thread : /\ data[t] # Free /\ data[t].thread_complete_success = TRUE =>
                         pc[t] = "return" \/ (pc[t] = "exit" /\ result[t])
                    /\ result[t] => pc[t] = "exit"

IInv == TypeOK /\ Created /\ Allocated /\ JoinedEnded /\ Owner /\ FlagReturned
-----------------------------------------------------------------------------
(* Nothing is allocated and no thread runs at the start. *)
LEMMA InitIInv == Init => IInv
BY ThreadingAssumption
   DEF Init, IInv, TypeOK, Created, Allocated, JoinedEnded, Owner, FlagReturned

(* The parts of thread_data a step stores are of their types. *)
LEMMA DataStep ==
  ASSUME NEW d \in ThreadData, NEW t \in Thread
  PROVE  /\ d # Free
         /\ [d EXCEPT !.threadID = t] \in ThreadData
         /\ [d EXCEPT !.threadID = t].thread_complete_success = d.thread_complete_success
         /\ [d EXCEPT !.thread_complete_success = TRUE] \in ThreadData
BY FreeAssumption DEF ThreadData

(* What malloc and the lines behind it make of thread_data. *)
LEMMA NewData ==
  ASSUME NEW d, d = [threadID |-> NULL, thread_complete_success |-> FALSE]
  PROVE  d \in ThreadData /\ d # Free /\ d.thread_complete_success = FALSE
<1>1. d \in ThreadData
  BY DEF ThreadData
<1> QED
  BY <1>1, FreeAssumption

(* Every step of starter, thread or joiner preserves the invariant. *)
LEMMA NextIInv == IInv /\ [Next]_vars => IInv'
<1> SUFFICES ASSUME IInv, [Next]_vars PROVE IInv'
  OBVIOUS
<1> USE DEF IInv, TypeOK, Created, Allocated, JoinedEnded, Owner, FlagReturned
<1> USE ThreadingAssumption
<1>1. CASE UNCHANGED vars
  BY <1>1 DEF vars
<1>2. ASSUME NEW t \in Thread, Malloc(t) PROVE IInv'
  <2> DEFINE d == [threadID |-> NULL, thread_complete_success |-> FALSE]
  <2>1. d \in ThreadData /\ d # Free /\ d.thread_complete_success = FALSE
    BY NewData
  <2>2. /\ data' = [data EXCEPT ![t] = d]
        /\ start[t] = "malloc" /\ start' = [start EXCEPT ![t] = "pthread_create"]
        /\ UNCHANGED <<pc, mutex, result>>
    BY <1>2 DEF Malloc, Goto
  <2> HIDE DEF d
  <2>4. TypeOK'
    BY <2>1, <2>2
  <2>5. Created' /\ Allocated' /\ JoinedEnded' /\ Owner'
    BY <2>1, <2>2
  <2>6. FlagReturned'
    BY <2>1, <2>2
  <2> QED
    BY <2>4, <2>5, <2>6
<1>3. ASSUME NEW t \in Thread, MallocFails(t) PROVE IInv'
  BY <1>3 DEF MallocFails, Goto
<1>4. ASSUME NEW t \in Thread, Create(t) PROVE IInv'
  BY <1>4 DEF Create, Goto
<1>5. ASSUME NEW t \in Thread, CreateFails(t) PROVE IInv'
  BY <1>5 DEF CreateFails, Goto
<1>6. ASSUME NEW t \in Thread, StoreID(t) PROVE IInv'
  <2> DEFINE d == [data[t] EXCEPT !.threadID = t]
  <2>1. data[t] \in ThreadData
    BY <1>6 DEF StoreID
  <2>2. /\ d \in ThreadData /\ d # Free
        /\ d.thread_complete_success = data[t].thread_complete_success
    BY <2>1, DataStep
  <2>3. /\ data' = [data EXCEPT ![t] = d]
        /\ start[t] = "threadID" /\ start' = [start EXCEPT ![t] = "return_true"]
        /\ UNCHANGED <<pc, mutex, result>>
    BY <1>6, <2>1, DataStep DEF StoreID, Goto
  <2> HIDE DEF d
  <2>4. TypeOK'
    BY <2>1, <2>2, <2>3
  <2>5. Created' /\ Allocated' /\ JoinedEnded' /\ Owner'
    BY <2>1, <2>2, <2>3
  <2>6. FlagReturned'
    BY <2>1, <2>2, <2>3
  <2> QED
    BY <2>4, <2>5, <2>6
<1>7. ASSUME NEW t \in Thread, Lock(t) PROVE IInv'
  BY <1>7 DEF Lock
<1>8. ASSUME NEW t \in Thread, LockFails(t) PROVE IInv'
  BY <1>8 DEF LockFails, Exit
<1>9. ASSUME NEW t \in Thread, Unlock(t) PROVE IInv'
  BY <1>9 DEF Unlock
<1>10. ASSUME NEW t \in Thread, UnlockFails(t) PROVE IInv'
  BY <1>10 DEF UnlockFails, Exit
<1>11. ASSUME NEW t \in Thread, Complete(t) PROVE IInv'
  <2> DEFINE d == [data[t] EXCEPT !.thread_complete_success = TRUE]
  <2>1. data[t] \in ThreadData
    BY <1>11 DEF Complete
  <2>2. d \in ThreadData /\ d # Free
    BY <2>1, DataStep
  <2>3. /\ data' = [data EXCEPT ![t] = d]
        /\ pc[t] = "success" /\ pc' = [pc EXCEPT ![t] = "return"]
        /\ UNCHANGED <<start, mutex, result>>
    BY <1>11 DEF Complete
  <2> HIDE DEF d
  <2>4. TypeOK'
    BY <2>1, <2>2, <2>3
  <2>5. Created' /\ Allocated' /\ JoinedEnded' /\ Owner'
    BY <2>1, <2>2, <2>3
  <2>6. FlagReturned'
    BY <2>1, <2>2, <2>3
  <2> QED
    BY <2>4, <2>5, <2>6
<1>12. ASSUME NEW t \in Thread, Join(t) PROVE IInv'
  BY <1>12 DEF Join, Goto
<1>13. ASSUME NEW t \in Thread, ReturnData(t) PROVE IInv'
  BY <1>13 DEF ReturnData, Exit
<1> QED
  BY <1>1, <1>2, <1>3, <1>4, <1>5, <1>6, <1>7, <1>8, <1>9, <1>10, <1>11, <1>12, <1>13
     DEF Next, Starter, threadfunc, Runs

(* Every reachable state satisfies the invariant. *)
LEMMA IInvAlways == Spec => []IInv
BY InitIInv, NextIInv, PTL DEF Spec

(* However the starter is delayed, it stores threadID into memory nobody   *)
(* has freed, and so does the thread that writes its success flag and      *)
(* returns.                                                                *)
THEOREM DataSafe == Spec => []DataOutlivesWriters
<1>1. IInv => DataOutlivesWriters
  BY DEF IInv, TypeOK, Created, Allocated, JoinedEnded, FlagReturned, DataOutlivesWriters
<1> QED
  BY <1>1, IInvAlways, PTL

(* thread_complete_success is set only in data of a thread that no longer  *)
(* owns the mutex and has handed, or is about to hand, its data to the     *)
(* joiner.                                                                 *)
THEOREM SuccessTrue == Spec => []SuccessIsTrue
<1>1. IInv => SuccessIsTrue
  BY DEF IInv, TypeOK, Owner, FlagReturned, SuccessIsTrue
<1> QED
  BY <1>1, IInvAlways, PTL
-----------------------------------------------------------------------------
CallTypeOK ==
  /\ fn \in [Caller -> {"none", "do_system", "do_exec", "do_exec_redirect"}]
  /\ callpc \in [Caller -> {"call", "fork", "close", "waitpid", "return"}]
  /\ fds \in SUBSET Caller
  /\ child \in [Caller -> {"none", "dup2", "close", "execv", "command", "zombie", "reaped"}]
  /\ childfds \in [Caller -> SUBSET Caller]
  /\ stdout \in [Caller -> {"inherited", "outputfile"}]
  /\ status \in [Caller -> {"none", "exit_0", "exit_1", "signal"}]
  /\ ran \in [Caller -> BOOLEAN]
  /\ ret \in [Caller -> BOOLEAN]

(* There is no child before fork, and a result only after the return. *)
Order(c) == /\ callpc[c] \in {"call", "fork"} => child[c] = "none"
            /\ ret[c] => callpc[c] = "return"

(* outputfile is open from its open up to close, for good when fork fails. *)
Opened(c) == c \in fds => /\ Redirects(c)
                          /\ callpc[c] \in {"fork", "close", "return"}
                          /\ callpc[c] = "return" => child[c] = "none"

(* The child of do_exec_redirect has its output redirected before it       *)
(* closes outputfile, and has it closed before it executes the command.    *)
Redirected(c) ==
  /\ child[c] \in {"dup2", "close"} => Redirects(c)
  /\ child[c] \in {"close", "execv", "command"} => (Redirects(c) => stdout[c] = "outputfile")
  /\ child[c] \in {"execv", "command"} => c \notin childfds[c]

(* A child that has ended with status 0 has executed the command: all that *)
(* it does before ends with status 1.                                      *)
EndsWell(c) ==
  /\ child[c] = "command" => ran[c]
  /\ child[c] = "zombie" /\ status[c] = "exit_0" =>
       ran[c] /\ (Redirects(c) => stdout[c] = "outputfile")

(* What true stands for. *)
Done(c) == ret[c] => /\ ran[c] /\ status[c] = "exit_0" /\ child[c] = "reaped"
                     /\ Redirects(c) => stdout[c] = "outputfile"

CallInv(c) == Order(c) /\ Opened(c) /\ Redirected(c) /\ EndsWell(c) /\ Done(c)

CallIInv == CallTypeOK /\ \A c \in Caller : CallInv(c)
-----------------------------------------------------------------------------
(* No call has been made. *)
LEMMA InitCalls == CallInit => CallIInv
BY DEF CallInit, CallIInv, CallTypeOK, CallInv, Order, Opened, Redirected, EndsWell, Done

(* A step leaves the calls of other threads as they are. *)
Same(d) == /\ fn'[d] = fn[d] /\ callpc'[d] = callpc[d] /\ ret'[d] = ret[d]
           /\ child'[d] = child[d] /\ childfds'[d] = childfds[d] /\ stdout'[d] = stdout[d]
           /\ status'[d] = status[d] /\ ran'[d] = ran[d]
           /\ d \in fds' <=> d \in fds

(* So it is enough to look at the call that makes the step. *)
LEMMA CallStep ==
  ASSUME CallIInv, CallTypeOK', NEW c \in Caller, CallInv(c)',
         \A d \in Caller \ {c} : Same(d)
  PROVE  CallIInv'
<1>1. ASSUME NEW d \in Caller \ {c} PROVE CallInv(d)'
  BY <1>1 DEF CallIInv, Same, CallInv, Order, Opened, Redirected, EndsWell, Done,
     Redirects
<1> QED
  BY <1>1 DEF CallIInv

(* A call enters its function and returns, or goes on to fork. *)
LEMMA EntryTypes ==
  ASSUME CallTypeOK, NEW c \in Caller,
         \/ do_system(c)
         \/ \E command \in {"missing", "relative", "absolute"} :
              do_exec(c, command) \/ do_exec_redirect(c, command)
  PROVE  CallTypeOK'
<1> USE DEF CallTypeOK
<1>1. ASSUME NEW name \in {"do_system", "do_exec", "do_exec_redirect"}, Call(c, name)
      PROVE  fn' \in [Caller -> {"none", "do_system", "do_exec", "do_exec_redirect"}]
  BY <1>1 DEF Call
<1>2. ASSUME NEW b \in BOOLEAN, Return(c, b)
      PROVE  /\ callpc' \in [Caller -> {"call", "fork", "close", "waitpid", "return"}]
             /\ ret' \in [Caller -> BOOLEAN]
  BY <1>2 DEF Return
<1>3. ASSUME callpc' = [callpc EXCEPT ![c] = "fork"]
      PROVE  callpc' \in [Caller -> {"call", "fork", "close", "waitpid", "return"}]
  BY <1>3
<1>4. CASE do_system(c)
  <2>1. Call(c, "do_system") /\ UNCHANGED fds
    BY <1>4 DEF do_system
  <2>2. CASE Return(c, FALSE) /\ UNCHANGED kids
    BY <1>1, <1>2, <2>1, <2>2 DEF kids
  <2>3. ASSUME NEW how \in Ends, Return(c, Succeeded(how)),
               status' = [status EXCEPT ![c] = how],
               ran' = [ran EXCEPT ![c] = TRUE],
               child' = [child EXCEPT ![c] = "reaped"],
               UNCHANGED <<childfds, stdout>>
        PROVE  CallTypeOK'
    <3>1. Succeeded(how) \in BOOLEAN
      BY DEF Succeeded
    <3>2. /\ status' \in [Caller -> {"none", "exit_0", "exit_1", "signal"}]
          /\ ran' \in [Caller -> BOOLEAN]
          /\ child' \in [Caller -> {"none", "dup2", "close", "execv", "command", "zombie",
                                    "reaped"}]
      BY <2>3 DEF Ends
    <3> QED
      BY <1>1, <1>2, <2>1, <2>3, <3>1, <3>2
  <2> QED
    BY <1>4, <2>2, <2>3 DEF do_system
<1>5. ASSUME NEW command, do_exec(c, command) PROVE CallTypeOK'
  <2>1. Call(c, "do_exec") /\ UNCHANGED <<fds, kids>>
    BY <1>5 DEF do_exec
  <2>2. Return(c, FALSE) \/ (callpc' = [callpc EXCEPT ![c] = "fork"] /\ ret' = ret)
    BY <1>5 DEF do_exec
  <2>3. /\ callpc' \in [Caller -> {"call", "fork", "close", "waitpid", "return"}]
        /\ ret' \in [Caller -> BOOLEAN]
    <3>1. CASE Return(c, FALSE)
      BY <1>2, <3>1
    <3>2. CASE callpc' = [callpc EXCEPT ![c] = "fork"] /\ ret' = ret
      BY <1>3, <3>2
    <3> QED
      BY <2>2, <3>1, <3>2
  <2> QED
    BY <1>1, <2>1, <2>3 DEF kids
<1>6. ASSUME NEW command, do_exec_redirect(c, command) PROVE CallTypeOK'
  <2>1. Call(c, "do_exec_redirect") /\ UNCHANGED kids
    BY <1>6 DEF do_exec_redirect
  <2>2. Return(c, FALSE) \/ (callpc' = [callpc EXCEPT ![c] = "fork"] /\ ret' = ret)
    BY <1>6 DEF do_exec_redirect
  <2>3. fds' = fds \/ fds' = fds \cup {c}
    BY <1>6 DEF do_exec_redirect
  <2>4. fds' \in SUBSET Caller
    BY <2>3
  <2>5. /\ callpc' \in [Caller -> {"call", "fork", "close", "waitpid", "return"}]
        /\ ret' \in [Caller -> BOOLEAN]
    <3>1. CASE Return(c, FALSE)
      BY <1>2, <3>1
    <3>2. CASE callpc' = [callpc EXCEPT ![c] = "fork"] /\ ret' = ret
      BY <1>3, <3>2
    <3> QED
      BY <2>2, <3>1, <3>2
  <2> QED
    BY <1>1, <2>1, <2>5, <2>4 DEF kids
<1> QED
  BY <1>4, <1>5, <1>6

(* A call, up to its return or to fork. *)
LEMMA EntryIInv ==
  ASSUME CallIInv, NEW c \in Caller,
         \/ do_system(c)
         \/ \E command \in {"missing", "relative", "absolute"} :
              do_exec(c, command) \/ do_exec_redirect(c, command)
  PROVE  CallIInv'
<1>1. CallTypeOK'
  BY EntryTypes DEF CallIInv
<1> USE DEF CallIInv, CallTypeOK, CallInv, Order, Opened, Redirected, EndsWell, Done,
       Redirects, Same
<1>2. \A d \in Caller \ {c} : Same(d)
  BY DEF do_system, do_exec, do_exec_redirect, Call, Return,
     kids
<1>3. CallInv(c)'
  BY DEF do_system, do_exec, do_exec_redirect, Call, Return,
     kids, Succeeded
<1> QED
  BY <1>1, <1>2, <1>3, CallStep

(* The parent, from fork to its return. *)
LEMMA ParentIInv ==
  ASSUME CallIInv, NEW c \in Caller, Parent(c) \/ WaitpidFails(c)
  PROVE  CallIInv'
<1> USE DEF CallIInv, CallTypeOK, CallInv, Order, Opened, Redirected, EndsWell, Done,
       Redirects, Same
<1> USE DEF Parent, Fork, ForkFails, Close, Waitpid,
       WaitpidFails, Return, kids, Succeeded
<1>1. CallTypeOK'
  <2>1. CASE Fork(c)
    BY <2>1
  <2>2. CASE ForkFails(c)
    BY <2>2
  <2>3. CASE Close(c)
    BY <2>3
  <2>4. CASE Waitpid(c)
    BY <2>4
  <2>5. CASE WaitpidFails(c)
    BY <2>5
  <2> QED
    BY <2>1, <2>2, <2>3, <2>4, <2>5
<1>2. \A d \in Caller \ {c} : Same(d)
  OBVIOUS
<1>3. CallInv(c)'
  OBVIOUS
<1> QED
  BY <1>1, <1>2, <1>3, CallStep

(* The child, from fork to its end, also when nobody waits for it. *)
LEMMA ChildIInv ==
  ASSUME CallIInv, NEW c \in Caller, Child(c)
  PROVE  CallIInv'
<1> USE DEF CallIInv, CallTypeOK, CallInv, Order, Opened, Redirected, EndsWell, Done,
       Redirects, Same
<1> USE DEF Child, Dup2, Dup2Fails, ChildClose, Execv,
       ExecvFails, CommandEnds, ChildEnds, Ends
<1>1. CallTypeOK'
  <2>1. CASE Dup2(c)
    BY <2>1
  <2>2. CASE Dup2Fails(c)
    BY <2>2
  <2>3. CASE ChildClose(c)
    BY <2>3
  <2>4. CASE Execv(c)
    BY <2>4
  <2>5. CASE ExecvFails(c)
    BY <2>5
  <2>6. CASE CommandEnds(c)
    BY <2>6
  <2> QED
    BY <2>1, <2>2, <2>3, <2>4, <2>5, <2>6
<1>2. \A d \in Caller \ {c} : Same(d)
  OBVIOUS
<1>3. CallInv(c)'
  OBVIOUS
<1> QED
  BY <1>1, <1>2, <1>3, CallStep

(* Every step of a caller or of its child preserves the invariant. *)
LEMMA NextCalls == CallIInv /\ [CallNext]_callVars => CallIInv'
<1> SUFFICES ASSUME CallIInv, [CallNext]_callVars PROVE CallIInv'
  OBVIOUS
<1>1. CASE UNCHANGED callVars
  BY <1>1 DEF callVars, CallIInv, CallTypeOK, CallInv, Order, Opened, Redirected,
     EndsWell, Done, Redirects
<1>2. CASE CallNext
  BY <1>2, EntryIInv, ParentIInv, ChildIInv DEF CallNext
<1> QED
  BY <1>1, <1>2

(* Every reachable state satisfies the invariant. *)
LEMMA CallsAlways == CallSpec => []CallIInv
BY InitCalls, NextCalls, PTL DEF CallSpec

(* do_system, do_exec and do_exec_redirect return true only for a command  *)
(* that was executed, ended with status 0 and was waited for.              *)
THEOREM TrueIsDone == CallSpec => []TrueMeansDone
<1>1. CallIInv => TrueMeansDone
  BY DEF CallIInv, CallInv, Done, TrueMeansDone
<1> QED
  BY <1>1, CallsAlways, PTL

(* outputfile is closed in the process when a call that forked returns,    *)
(* and in the child when the command runs, although descriptors are shared *)
(* by all threads and inherited by every child.                            *)
THEOREM FilesClosed == CallSpec => []DescriptorsClosed
<1>1. CallIInv => DescriptorsClosed
  BY DEF CallIInv, CallInv, Opened, Redirected, DescriptorsClosed
<1> QED
  BY <1>1, CallsAlways, PTL
=============================================================================
