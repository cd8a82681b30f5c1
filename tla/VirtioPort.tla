------------------------------ MODULE VirtioPort ------------------------------
(***************************************************************************)
(* The virtio-serial port "virtio-port" between klitka-daemon and sandboxd:*)
(* a Unix socket on the daemon's side, /dev/virtio-ports on the guest's,   *)
(* QEMU in between.  It is one reliable FIFO of frames in each direction,  *)
(* until the daemon closes its socket or QEMU dies.                        *)
(*                                                                         *)
(* A frame keeps what the two ends tell apart.  Commands, arguments,       *)
(* environments and bytes are left out; the n-th chunk a process prints is *)
(* the number n.                                                           *)
(***************************************************************************)
EXTENDS Naturals, Sequences

CONSTANTS
  IdSpace,  \* number of request ids; 2^32 in the code (uint32)
  MaxOut,   \* bound: chunks one process prints
  Codes     \* exit codes a process may end with

ASSUME PortAssumption ==
  /\ IdSpace \in Nat \ {0}
  /\ MaxOut \in Nat
  /\ Codes \subseteq Nat /\ Codes # {}

VARIABLES
  toGuest,   \* frames written by the daemon, not yet read by sandboxd
  toHost,    \* frames written by sandboxd, not yet read by the daemon
  connOpen,  \* the daemon has not closed its end
  guestUp    \* QEMU, hence sandboxd, is running

portVars == <<toGuest, toHost, connOpen, guestUp>>

Ids == 0 .. IdSpace - 1

\* What the daemon sends.
ExecRequest(id, stdin, pty) ==
  [t |-> "exec_request", id |-> id, stdin |-> stdin, pty |-> pty]
StdinData(id, eof) == [t |-> "stdin_data", id |-> id, eof |-> eof]
PtyResize(id) == [t |-> "pty_resize", id |-> id]

\* What sandboxd sends.
ExecOutput(id, n) == [t |-> "exec_output", id |-> id, n |-> n]
ExecResponse(id, code) == [t |-> "exec_response", id |-> id, code |-> code]
ErrorFrame(id) == [t |-> "error", id |-> id]

HostFrame ==
  [t : {"exec_request"}, id : Ids, stdin : BOOLEAN, pty : BOOLEAN]
    \cup [t : {"stdin_data"}, id : Ids, eof : BOOLEAN]
    \cup [t : {"pty_resize"}, id : Ids]
GuestFrame ==
  [t : {"exec_output"}, id : Ids, n : 1 .. MaxOut]
    \cup [t : {"exec_response"}, id : Ids, code : Codes]
    \cup [t : {"error"}, id : Ids]

PortTypeOK ==
  /\ toGuest \in Seq(HostFrame)
  /\ toHost \in Seq(GuestFrame)
  /\ connOpen \in BOOLEAN
  /\ guestUp \in BOOLEAN

PortInit ==
  /\ toGuest = <<>>
  /\ toHost = <<>>
  /\ connOpen = TRUE
  /\ guestUp = TRUE

-----------------------------------------------------------------------------
(* conn.Write of a whole frame: it succeeds while both ends of the socket  *)
(* are there, and fails (EPIPE, use of closed connection) otherwise.       *)
CanWrite == connOpen /\ guestUp

\* sendMessage, under sendMu.  Callers that ignore the error write or do not.
HostWrite(frame) ==
  toGuest' = IF CanWrite THEN Append(toGuest, frame) ELSE toGuest

\* writeFrame and FrameWriter: once the daemon is gone the bytes go nowhere.
GuestWrite(frame) ==
  toHost' = IF connOpen THEN Append(toHost, frame) ELSE toHost

(* QEMU exits or is killed.  What the daemon had sent is lost with it; of  *)
(* what the guest had sent, the part already in the socket can be read.    *)
GuestDies ==
  /\ guestUp
  /\ guestUp' = FALSE
  /\ toGuest' = <<>>
  /\ \E k \in 0 .. Len(toHost) : toHost' = SubSeq(toHost, 1, k)
  /\ UNCHANGED connOpen
=============================================================================
