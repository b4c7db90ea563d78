--------------------------- MODULE StoreContract ---------------------------
(***************************************************************************)
(* What the document store owes to the code above it: an update changes    *)
(* all its parts at once and nothing else, each update works on the one    *)
(* acknowledged before it, and a restart finds what was acknowledged,      *)
(* part by part, unless an update that was never acknowledged has replaced *)
(* that part.                                                              *)
(***************************************************************************)
EXTENDS Naturals

CONSTANTS
  Parts,    \* the parts of the document
  Changes,  \* the sets of parts an update may change
  Lost      \* versions a part may fall back to behind the back of an update

VARIABLES
  committed,  \* part -> version: the document every reader is given
  attempts    \* updates begun since then: the parts they change, their version

contractVars == <<committed, attempts>>

ContractInit ==
  /\ committed = [p \in Parts |-> 0]
  /\ attempts = {}

\* The versions of part p that a restart may come upon.
Recoverable(p) ==
  {committed[p]}
    \cup {a.version : a \in {b \in attempts : p \in b.parts}}
    \cup (IF attempts = {} THEN {} ELSE Lost)

Attempt ==
  /\ \E a \in attempts' :
       /\ a \in [parts : Changes, version : Nat]
       /\ attempts' = attempts \cup {a}
  /\ UNCHANGED committed

Commit ==
  \E a \in attempts :
    /\ committed' = [p \in Parts |-> IF p \in a.parts THEN a.version ELSE committed[p]]
    /\ attempts' = {}

Recover ==
  /\ committed' \in [Parts -> Nat]
  /\ \A p \in Parts : committed'[p] \in Recoverable(p)
  /\ attempts' = {}

ContractNext == Attempt \/ Commit \/ Recover

ContractSpec == ContractInit /\ [][ContractNext]_contractVars
=============================================================================
