-------------------------- MODULE RequestContract --------------------------
(***************************************************************************)
(* What the gateway owes to a client's request, whatever its kind and      *)
(* whatever the upstreams do: it holds an upstream key only while it is    *)
(* open, it turns to another key only as long as there is nothing of an    *)
(* answer for the client (at most a status line and comments are out), it  *)
(* is charged at most once and only for an answer, and nothing happens to  *)
(* it any more once it is closed, with no key held.                        *)
(***************************************************************************)
CONSTANTS Requests

VARIABLES
  phase,   \* request -> "trying", "greeted" (the client has a status line and
           \* comments), "answering" (there is an answer for it) or "closed"
  holding, \* requests that hold a key
  billed   \* requests that have been charged

contractVars == <<phase, holding, billed>>

ContractInit ==
  /\ phase = [r \in Requests |-> "trying"]
  /\ holding = {}
  /\ billed = {}

Unanswered == {"trying", "greeted"}

Acquire(r) ==
  /\ phase[r] \in Unanswered /\ r \notin holding
  /\ holding' = holding \cup {r}
  /\ UNCHANGED <<phase, billed>>

\* Only the upstream that is asked right now is waited for with comments.
Greet(r) ==
  /\ phase[r] = "trying" /\ r \in holding
  /\ phase' = [phase EXCEPT ![r] = "greeted"]
  /\ UNCHANGED <<holding, billed>>

Answer(r) ==
  /\ phase[r] \in Unanswered
  /\ phase' = [phase EXCEPT ![r] = "answering"]
  /\ UNCHANGED <<holding, billed>>

Release(r) ==
  /\ r \in holding
  /\ holding' = holding \ {r}
  /\ UNCHANGED <<phase, billed>>

Bill(r) ==
  /\ phase[r] = "answering" /\ r \notin holding /\ r \notin billed
  /\ billed' = billed \cup {r}
  /\ UNCHANGED <<phase, holding>>

Close(r) ==
  /\ phase[r] # "closed"
  /\ phase' = [phase EXCEPT ![r] = "closed"]
  /\ holding' = holding \ {r}
  /\ UNCHANGED billed

ContractNext ==
  \E r \in Requests : Acquire(r) \/ Greet(r) \/ Answer(r) \/ Release(r) \/ Bill(r) \/ Close(r)

ContractSpec == ContractInit /\ [][ContractNext]_contractVars
=============================================================================
