----------------------------- MODULE Transport -----------------------------
(***************************************************************************)
(* The sockets between the feature runner and the step runners, as the     *)
(* code uses them: every step runner connects a DEALER to the address the  *)
(* feature runner's socket is bound to, and the feature runner prefixes a  *)
(* request with the identity of the step runner it is for, as a ROUTER     *)
(* needs it.  ZeroMQ and CZMQ are libraries: this module is the part of    *)
(* their behaviour that reaches the code.                                  *)
(*   - A request is read frame by frame (zstr_recv), so the way to a step  *)
(*     runner is a queue of frames.                                        *)
(*   - A reply is read as a whole message (zsock_recv), so the way back is *)
(*     a queue of messages; the frames the caller's picture asks for and   *)
(*     the message lacks come back as NULL.                                *)
(*   - Queues of different step runners are independent.                   *)
(*   - A request to an identity that is not connected is dropped.          *)
(***************************************************************************)
EXTENDS Naturals, Sequences

CONSTANTS
  Runners,   \* the step runner processes
  NULL       \* the null pointer

VARIABLES
  requests,   \* requests[r]: the frames r has not read yet
  replies,    \* replies[r]: the messages of r the feature runner has not read
  peers       \* the step runners that are connected

transportVars == <<requests, replies, peers>>

TransportInit ==
  /\ requests = [r \in Runners |-> <<>>]
  /\ replies = [r \in Runners |-> <<>>]
  /\ peers = {}

(* The feature runner sends a request of several frames to step runner r. *)
Send(r, frames) ==
  /\ requests' = IF r \in peers THEN [requests EXCEPT ![r] = @ \o frames]
                                ELSE requests
  /\ UNCHANGED <<replies, peers>>

(* The feature runner reads the next reply of step runner r. *)
Receive(r) ==
  /\ replies[r] # <<>>
  /\ replies' = [replies EXCEPT ![r] = Tail(@)]
  /\ UNCHANGED <<requests, peers>>

(* Slip: a frame of the next request is read too. *)
ReadAndAnswer_TakesFrame(r, n, reply) ==
  /\ requests' = [requests EXCEPT ![r] = SubSeq(@, n + 2, Len(@))]
  /\ replies' = [replies EXCEPT ![r] = Append(@, reply)]
  /\ UNCHANGED peers

(* Slip: the answer is sent twice. *)
ReadAndAnswer_Twice(r, n, reply) ==
  /\ requests' = [requests EXCEPT ![r] = SubSeq(@, n + 1, Len(@))]
  /\ replies' = [replies EXCEPT ![r] = @ \o <<reply, reply>>]
  /\ UNCHANGED peers

(* Step runner r reads n frames of a request and answers it. *)
ReadAndAnswer(r, n, reply) ==
  /\ requests' = [requests EXCEPT ![r] = SubSeq(@, n + 1, Len(@))]
  /\ replies' = [replies EXCEPT ![r] = Append(@, reply)]
  /\ UNCHANGED peers

(* Step runner r connects, and sends a first message. *)
ConnectAndGreet(r, greeting) ==
  /\ peers' = peers \cup {r}
  /\ replies' = [replies EXCEPT ![r] = Append(@, greeting)]
  /\ UNCHANGED requests

(***************************************************************************)
(* The socket of step runner r is closed, by zsock_destroy or by the death *)
(* of its process.  What it has not read is gone, and of what it has sent  *)
(* any suffix may be lost: CZMQ sockets do not linger.                     *)
(***************************************************************************)
Disconnect(r) ==
  /\ peers' = peers \ {r}
  /\ requests' = [requests EXCEPT ![r] = <<>>]
  /\ \E n \in 0..Len(replies[r]) :
       replies' = [replies EXCEPT ![r] = SubSeq(@, 1, n)]
=============================================================================
