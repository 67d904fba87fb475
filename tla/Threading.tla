----------------------------- MODULE Threading -----------------------------
(***************************************************************************)
(* examples/threading/threading.c: threads that obtain a mutex, hold it    *)
(* and release it, and the thread_data through which the starter, the      *)
(* thread and the joiner talk.  The waits are left out: a thread may stay  *)
(* between two steps for any time.                                         *)
(***************************************************************************)
CONSTANTS Thread,         \* calls of start_thread_obtaining_mutex, a thread each
          NULL,           \* the null pointer
          Free            \* thread_data that is not allocated

ASSUME ThreadingAssumption == NULL \notin Thread

(* struct thread_data; the mutex pointer and the waits are left out. *)
ThreadData == [threadID : Thread \cup {NULL}, thread_complete_success : BOOLEAN]

ASSUME FreeAssumption == Free \notin ThreadData

VARIABLES start,   \* where the starter is in start_thread_obtaining_mutex(t)
          pc,      \* where thread t is in threadfunc
          data,    \* the thread_data of t
          mutex,   \* its owner, or NULL
          result   \* what thread t returned: TRUE for its thread_data, FALSE for NULL

vars == <<start, pc, data, mutex, result>>

Init == /\ start = [t \in Thread |-> "malloc"]
        /\ pc = [t \in Thread |-> "none"]
        /\ data = [t \in Thread |-> Free]
        /\ mutex = NULL
        /\ result = [t \in Thread |-> FALSE]

Goto(t, where) == start' = [start EXCEPT ![t] = where]
-----------------------------------------------------------------------------
(* start_thread_obtaining_mutex: thread_data is allocated and filled in. *)
Malloc(t) ==
  /\ start[t] = "malloc"
  /\ data' = [data EXCEPT ![t] = [threadID |-> NULL, thread_complete_success |-> FALSE]]
  /\ Goto(t, "pthread_create")
  /\ UNCHANGED <<pc, mutex, result>>

MallocFails(t) ==
  /\ start[t] = "malloc"
  /\ Goto(t, "return_false")
  /\ UNCHANGED <<pc, data, mutex, result>>

(* From here on the thread runs beside its starter. *)
Create(t) ==
  /\ start[t] = "pthread_create"
  /\ pc' = [pc EXCEPT ![t] = "lock"]
  /\ Goto(t, "threadID")
  /\ UNCHANGED <<data, mutex, result>>

CreateFails(t) ==
  /\ start[t] = "pthread_create"
  /\ data' = [data EXCEPT ![t] = Free]
  /\ Goto(t, "return_false")
  /\ UNCHANGED <<pc, mutex, result>>

(* thread_struct->threadID = *thread, into memory the thread has as well. *)
StoreID(t) ==
  /\ start[t] = "threadID"
  /\ data' = [data EXCEPT ![t] = IF data[t] = Free THEN Free ELSE [data[t] EXCEPT !.threadID = t]]
  /\ Goto(t, "return_true")
  /\ UNCHANGED <<pc, mutex, result>>
-----------------------------------------------------------------------------
(* threadfunc. *)
Exit(t, success) ==
  /\ pc' = [pc EXCEPT ![t] = "exit"]
  /\ result' = [result EXCEPT ![t] = success]
  /\ UNCHANGED start

Lock(t) ==
  /\ pc[t] = "lock"
  /\ mutex = NULL
  /\ mutex' = t
  /\ pc' = [pc EXCEPT ![t] = "unlock"]
  /\ UNCHANGED <<start, data, result>>

(* MUTANT: a thread that cannot lock frees its thread_data itself. *)
LockFailsFrees(t) ==
  /\ pc[t] = "lock"
  /\ Exit(t, FALSE)
  /\ data' = [data EXCEPT ![t] = Free]
  /\ UNCHANGED mutex

LockFails(t) ==
  /\ pc[t] = "lock"
  /\ Exit(t, FALSE)
  /\ UNCHANGED <<data, mutex>>

(* MUTANT: the mutex is not released. *)
UnlockNot(t) ==
  /\ pc[t] = "unlock"
  /\ pc' = [pc EXCEPT ![t] = "success"]
  /\ UNCHANGED <<start, data, mutex, result>>

Unlock(t) ==
  /\ pc[t] = "unlock"
  /\ mutex' = NULL
  /\ pc' = [pc EXCEPT ![t] = "success"]
  /\ UNCHANGED <<start, data, result>>

(* The flag is set when others may already hold the mutex. *)
Complete(t) ==
  /\ pc[t] = "success"
  /\ data' = [data EXCEPT ![t].thread_complete_success = TRUE]
  /\ pc' = [pc EXCEPT ![t] = "return"]
  /\ UNCHANGED <<start, mutex, result>>

ReturnData(t) ==
  /\ pc[t] = "return"
  /\ Exit(t, TRUE)
  /\ UNCHANGED <<data, mutex>>

(* MUTANT: success is noted before the result of unlock is looked at. *)
UnlockFailsSuccess(t) ==
  /\ pc[t] = "unlock"
  /\ data' = [data EXCEPT ![t].thread_complete_success = TRUE]
  /\ Exit(t, FALSE)
  /\ UNCHANGED mutex

UnlockFails(t) ==
  /\ pc[t] = "unlock"
  /\ Exit(t, FALSE)
  /\ UNCHANGED <<data, mutex>>

(* The caller's pthread_join, which frees the thread_data it is given.     *)
Join(t) ==
  /\ start[t] = "return_true"
  /\ pc[t] = "exit"
  /\ data' = [data EXCEPT ![t] = IF result[t] THEN Free ELSE @]
  /\ Goto(t, "joined")
  /\ UNCHANGED <<pc, mutex, result>>
-----------------------------------------------------------------------------
Starter(t) == Malloc(t) \/ MallocFails(t) \/ Create(t) \/ CreateFails(t) \/ StoreID(t) \/ Join(t)

(* The steps of a thread to which nothing goes wrong while it waits. *)
Runs(t) == Lock(t) \/ Unlock(t) \/ UnlockFails(t) \/ Complete(t) \/ ReturnData(t)

threadfunc(t) == Runs(t) \/ LockFails(t)

Next == \E t \in Thread : Starter(t) \/ threadfunc(t)

Spec == Init /\ [][Next]_vars

(* Every thread is scheduled.  Each locks once, so nothing more is needed  *)
(* of the mutex: in the end the others are done with it.  That lock fails  *)
(* is never counted on.                                                    *)
FairSpec == Spec /\ \A t \in Thread : WF_vars(Starter(t)) /\ WF_vars(Runs(t))
-----------------------------------------------------------------------------
(* thread_data outlives everyone who writes to it or hands it on: the      *)
(* thread, and the starter that stores the thread's ID when the thread may *)
(* be long gone.                                                           *)
DataOutlivesWriters ==
  \A t \in Thread :
    start[t] = "threadID" \/ pc[t] \in {"lock", "unlock", "success", "return"} => data[t] # Free

(* thread_complete_success tells the truth to who looks at it at any time, *)
(* not only after a join: the thread has released the mutex, and all that  *)
(* is left for it is to hand its thread_data to the joiner.                *)
SuccessIsTrue ==
  \A t \in Thread : data[t] # Free => (data[t].thread_complete_success =>
                     mutex # t /\ (pc[t] = "return" \/ (pc[t] = "exit" /\ result[t])))

(* Every thread that starts obtains the mutex, or fails to, ends and is    *)
(* joined, unless somebody has ended without being able to release it.     *)
ThreadsEnd ==
  \A t \in Thread : pc[t] = "lock" ~> \/ start[t] = "joined"
                                      \/ mutex # NULL /\ pc[mutex] = "exit" /\ ~result[mutex]
=============================================================================
