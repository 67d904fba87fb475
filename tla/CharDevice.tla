----------------------------- MODULE CharDevice -----------------------------
(***************************************************************************)
(* What /dev/aesdchar promises its users: writes are joined, in the order  *)
(* they take effect, into commands; a command is complete as soon as the   *)
(* joined bytes hold a newline, and the device keeps the last Capacity     *)
(* complete commands.  No locks, no memory, no ring.                       *)
(***************************************************************************)
EXTENDS Naturals, Sequences, SequencesExt

CONSTANTS Capacity,  \* the number of commands kept
          Byte,      \* the bytes of commands
          NEWLINE,   \* the byte that completes a command
          Chunks     \* what a single write may carry

VARIABLES log,       \* the commands kept, oldest first, each a sequence of bytes
          pending    \* the bytes of the command being put together

vars == <<log, pending>>

Complete(bytes) == \E i \in 1 .. Len(bytes) : bytes[i] = NEWLINE

(* The last Capacity commands once c follows those of s. *)
Pushed(s, c) == IF Len(s) < Capacity THEN Append(s, c) ELSE Append(Tail(s), c)

(* The device's content, as a reader sees it. *)
Content(s) == FlattenSeq(s)

Init == log = <<>> /\ pending = <<>>

(* A write that the device accepts as a whole. *)
Write(chunk) ==
  LET bytes == pending \o chunk
  IN  IF Complete(bytes)
      THEN log' = Pushed(log, bytes) /\ pending' = <<>>
      ELSE log' = log /\ pending' = bytes

(* A write that reports -ENOMEM after its bytes have joined the command:   *)
(* they stay, and a later write completes the command with them.           *)
WriteNoMemory(chunk) ==
  /\ Complete(pending \o chunk)
  /\ pending' = pending \o chunk
  /\ log' = log

(* A write that reports -EFAULT: the whole pending command is given up,    *)
(* the bytes of earlier successful writes with it.                         *)
WriteFault == pending' = <<>> /\ log' = log

(* The module is unloaded and loaded again. *)
Reset == log' = <<>> /\ pending' = <<>>

Next == \/ \E chunk \in Chunks : Write(chunk) \/ WriteNoMemory(chunk)
        \/ WriteFault
        \/ Reset

Spec == Init /\ [][Next]_vars
=============================================================================
