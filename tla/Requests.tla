------------------------------ MODULE Requests ------------------------------
(***************************************************************************)
(* The HTTP requests under way in one process: the server runs every       *)
(* handler (backend/fingent/app.py) in a thread of its own, so that the    *)
(* steps of several handlers interleave.  A request is a record with the   *)
(* operation op, the step pc it has come to, and what it has read so far.  *)
(***************************************************************************)
EXTENDS Integers, FiniteSets, Sequences

CONSTANTS
  Threads,
  MaxRequests,   \* bound: requests accepted in all
  NoRequest

ASSUME RequestsAssumption == MaxRequests \in Nat /\ IsFiniteSet(Threads)

VARIABLES
  requests,   \* the request of each thread
  accepted    \* how many there have been; the number of the latest

Accept(t, request) ==
  /\ requests[t] = NoRequest /\ accepted < MaxRequests
  /\ requests' = [requests EXCEPT ![t] = request]
  /\ accepted' = accepted + 1

At(t, op, pc) == requests[t] # NoRequest /\ requests[t].op = op /\ requests[t].pc = pc

Reach(t, pc) == requests' = [requests EXCEPT ![t].pc = pc] /\ UNCHANGED accepted

Respond(t) == requests' = [requests EXCEPT ![t] = NoRequest] /\ UNCHANGED accepted

=============================================================================
