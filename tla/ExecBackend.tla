----------------------------- MODULE ExecBackend -----------------------------
(***************************************************************************)
(* What a caller of Exec or ExecStream may rely on, whichever backend runs *)
(* the command (interface ExecBackend): a call returns once, the output it *)
(* collects is what its own command printed, in the order of each output   *)
(* and without repetition, and the exit code is that command's.  Output    *)
(* may be lost, a call may fail at any time, and nothing is promised about *)
(* when.                                                                   *)
(***************************************************************************)
EXTENDS Integers, Sequences

CONSTANTS
  Calls,      \* calls of Exec and ExecStream
  Outputs,    \* the outputs of a command
  NoResult    \* the result of a call that has returned no exit code

VARIABLES
  status,     \* how far each call is
  printed,    \* printed[c][o]: the chunks the command of c printed to o
  received,   \* received[c][o]: the chunks of o the call collected
  exit,       \* exit[c]: the command's exit status
  result      \* the exit code the call returned

vars == <<status, printed, received, exit, result>>

Init ==
  /\ status = [c \in Calls |-> "idle"]
  /\ printed = [c \in Calls |-> [o \in Outputs |-> 0]]
  /\ received = [c \in Calls |-> [o \in Outputs |-> <<>>]]
  /\ exit \in [Calls -> Int]
  /\ result = [c \in Calls |-> NoResult]

Begin(c) ==
  /\ status[c] = "idle"
  /\ status' = [status EXCEPT ![c] = "running"]
  /\ UNCHANGED <<printed, received, exit, result>>

(* The command runs on even when its call has returned. *)
Prints(c, o) ==
  /\ status[c] # "idle"
  /\ printed' = [printed EXCEPT ![c][o] = @ + 1]
  /\ UNCHANGED <<status, received, exit, result>>

End(c) ==
  /\ status[c] # "exited"
  /\ exit'[c] \in Int
  /\ exit' = [exit EXCEPT ![c] = exit'[c]]
  /\ UNCHANGED <<status, printed, received, result>>

Newest(q) == IF q = <<>> THEN 0 ELSE q[Len(q)]

Receive(c, o) ==
  /\ status[c] = "running"
  /\ \E n \in Newest(received[c][o]) + 1 .. printed[c][o] :
       received' = [received EXCEPT ![c][o] = Append(@, n)]
  /\ UNCHANGED <<status, printed, exit, result>>

Return(c) ==
  /\ status[c] = "running"
  /\ status' = [status EXCEPT ![c] = "exited"]
  /\ result' = [result EXCEPT ![c] = exit[c]]
  /\ UNCHANGED <<printed, received, exit>>

Fail(c) ==
  /\ status[c] = "running"
  /\ status' = [status EXCEPT ![c] = "failed"]
  /\ UNCHANGED <<printed, received, exit, result>>

Next ==
  \E c \in Calls :
    \/ Begin(c) \/ End(c) \/ Return(c) \/ Fail(c)
    \/ \E o \in Outputs : Prints(c, o) \/ Receive(c, o)

Spec == Init /\ [][Next]_vars
=============================================================================
