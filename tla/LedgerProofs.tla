----------------------------- MODULE LedgerProofs -----------------------------
(***************************************************************************)
(* What MasterKeys guarantees for any number of keys, requests, tokens and *)
(* quotas, with and without Redis: tokens are unique, and the quota used   *)
(* of a key is what its own answers cost, although a request charges under *)
(* an id it remembers from before its answer.                              *)
(*                                                                         *)
(* And what RedisScheduler guarantees of the slots counted in Redis, for   *)
(* any number of keys, callers and threads: they are held by requests, and *)
(* where faults have left some behind they are few and have a deadline.    *)
(***************************************************************************)
EXTENDS MasterKeys, RedisScheduler, FiniteSetTheorems, TLAPS

\* The part of the type invariant that the ledger rests on.
LedgerType ==
  /\ keys \in [Ids -> MasterKey \cup {NoKey}]
  /\ nextId \in Nat /\ created \in Nat
  /\ pc \in [Requests -> Steps]
  /\ copy \in [Requests -> KeyCopy \cup {NoKey}]
  /\ cost \in [Requests -> Nat]
  /\ spent \in [Ids -> Nat]

\* Only anonymous requests work without a copy of a key.
CopiesPresent ==
  \A r \in Requests : pc[r] \notin {"idle", "working"} => copy[r] # NoKey

\* An id that has been given is never given again: under the id of a copy
\* there is the same key or none.
IdsNeverReturn ==
  /\ \A i \in Present : i < nextId
  /\ \A r \in Requests : copy[r] # NoKey =>
       /\ copy[r].id < nextId
       /\ copy[r].id \in Present => keys[copy[r].id].serial = copy[r].serial

SerialsDiffer ==
  /\ \A i \in Present : keys[i].serial <= created
  /\ \A i, j \in Present : i # j => keys[i].serial # keys[j].serial

FreshSerialsUnspent == \A s \in Ids : s > created => spent[s] = 0

LedgerInv ==
  /\ LedgerType /\ CopiesPresent /\ IdsNeverReturn
  /\ SerialsDiffer /\ FreshSerialsUnspent
  /\ TokensAreUnique /\ ChargesReachTheirKey

-----------------------------------------------------------------------------
(* Steps of requests that leave the store alone.                           *)

Matches(c) ==
  /\ c.id < nextId
  /\ c.id \in Present => keys[c.id].serial = c.serial

\* It is enough that no request works without a copy and that new copies are
\* taken from the store.
LEMMA StoreUntouched ==
  ASSUME LedgerInv,
         UNCHANGED <<keys, nextId, created, spent>>,
         pc' \in [Requests -> Steps],
         copy' \in [Requests -> KeyCopy \cup {NoKey}],
         cost' \in [Requests -> Nat],
         CopiesPresent',
         \A r \in Requests : copy'[r] # NoKey => copy'[r] = copy[r] \/ Matches(copy'[r])
  PROVE  LedgerInv'
<1>1. LedgerType'
  BY DEF LedgerInv, LedgerType
<1>2. IdsNeverReturn'
  BY DEF LedgerInv, IdsNeverReturn, Matches, Present
<1>3. SerialsDiffer' /\ FreshSerialsUnspent' /\ TokensAreUnique' /\ ChargesReachTheirKey'
  BY DEF LedgerInv, SerialsDiffer, FreshSerialsUnspent, TokensAreUnique,
         ChargesReachTheirKey, Present, Free
<1> QED
  BY <1>1, <1>2, <1>3 DEF LedgerInv

\* A request moves on from one step to the next one and keeps its copy.
LEMMA MovingOn ==
  ASSUME LedgerInv, NEW r \in Requests, NEW to \in Steps,
         pc[r] = "working" => copy[r] # NoKey, pc[r] # "idle",
         pc' = [pc EXCEPT ![r] = to],
         UNCHANGED <<keys, nextId, created, spent, copy, cost>>
  PROVE  LedgerInv'
<1>1. pc' \in [Requests -> Steps] /\ copy' \in [Requests -> KeyCopy \cup {NoKey}]
      /\ cost' \in [Requests -> Nat]
  BY DEF LedgerInv, LedgerType
<1>2. CopiesPresent'
  BY DEF LedgerInv, LedgerType, CopiesPresent
<1> QED
  BY <1>1, <1>2, StoreUntouched

LEMMA Ending ==
  ASSUME LedgerInv, NEW r \in Requests, End(r),
         UNCHANGED <<keys, nextId, created, spent>>
  PROVE  LedgerInv'
<1>1. pc' \in [Requests -> Steps] /\ copy' \in [Requests -> KeyCopy \cup {NoKey}]
      /\ cost' \in [Requests -> Nat]
  BY DEF LedgerInv, LedgerType, End, Steps
<1>2. CopiesPresent'
  BY DEF LedgerInv, LedgerType, CopiesPresent, End
<1>3. \A q \in Requests : copy'[q] # NoKey => copy'[q] = copy[q]
  BY DEF LedgerInv, LedgerType, End
<1> QED
  BY <1>1, <1>2, <1>3, StoreUntouched

LEMMA Arriving ==
  ASSUME LedgerInv, NEW r \in Requests, Arrive(r)
  PROVE  LedgerInv'
<1>1. UNCHANGED <<keys, nextId, created, spent>>
  BY DEF Arrive, storeVars
<1>2. cost' \in [Requests -> Nat]
  BY MasterKeysAssumption DEF Arrive, LedgerInv, LedgerType
<1>3. CASE copy' = [copy EXCEPT ![r] = NoKey] /\ Step(r, "idle", "working")
  <2>1. pc' \in [Requests -> Steps] /\ copy' \in [Requests -> KeyCopy \cup {NoKey}]
    BY <1>3 DEF LedgerInv, LedgerType, Step, Steps
  <2>2. CopiesPresent'
    BY <1>3 DEF LedgerInv, LedgerType, CopiesPresent, Step
  <2>3. \A q \in Requests : copy'[q] # NoKey => copy'[q] = copy[q]
    BY <1>3 DEF LedgerInv, LedgerType
  <2> QED
    BY <1>1, <1>2, <2>1, <2>2, <2>3, StoreUntouched
<1>4. ASSUME NEW i \in Active,
             copy' = [copy EXCEPT ![r] =
               [id |-> i, quota |-> keys[i].quota, used |-> keys[i].used,
                serial |-> keys[i].serial]],
             Step(r, "idle", IF WithRedis THEN "rpm" ELSE "quota")
      PROVE  LedgerInv'
  <2> DEFINE c == [id |-> i, quota |-> keys[i].quota, used |-> keys[i].used,
                   serial |-> keys[i].serial]
  <2>1. i \in Present /\ i \in Ids /\ keys[i] \in MasterKey
    BY DEF Active, Present, LedgerInv, LedgerType
  <2>2. c \in KeyCopy
    BY <2>1 DEF MasterKey, KeyCopy
  <2>3. c # NoKey
    BY <2>2, MasterKeysAssumption
  <2>4. Matches(c)
    BY <2>1 DEF Matches, LedgerInv, IdsNeverReturn
  <2>5. copy' = [copy EXCEPT ![r] = c]
    BY <1>4
  <2> HIDE DEF c
  <2>6. pc' \in [Requests -> Steps]
    BY <1>4 DEF LedgerInv, LedgerType, Step, Steps
  <2>7. copy' \in [Requests -> KeyCopy \cup {NoKey}]
    BY <2>2, <2>5 DEF LedgerInv, LedgerType
  <2>8. CopiesPresent'
    BY <1>4, <2>3, <2>5 DEF LedgerInv, LedgerType, CopiesPresent, Step
  <2>9. \A q \in Requests : copy'[q] # NoKey => copy'[q] = copy[q] \/ Matches(copy'[q])
    BY <2>4, <2>5 DEF LedgerInv, LedgerType
  <2> QED
    BY <1>1, <1>2, <2>6, <2>7, <2>8, <2>9, StoreUntouched
<1> QED
  BY <1>3, <1>4 DEF Arrive

-----------------------------------------------------------------------------
(* Administration.                                                         *)

\* A new key has an id and a serial that nothing has had before.
LEMMA Adding ==
  ASSUME LedgerInv, AddMasterKey
  PROVE  LedgerInv'
<1> PICK token \in Tokens, quota \in Quotas, status \in Statuses :
      /\ Free(token, nextId)
      /\ keys' = [keys EXCEPT ![nextId] =
           [token |-> token, quota |-> quota, used |-> 0, status |-> status,
            serial |-> created + 1]]
  BY DEF AddMasterKey, FreshId
<1> DEFINE k == [token |-> token, quota |-> quota, used |-> 0, status |-> status,
                 serial |-> created + 1]
<1>1. /\ nextId \in Ids /\ nextId \in Nat /\ created \in Nat /\ created + 1 \in Ids
      /\ nextId' = nextId + 1 /\ created' = created + 1
      /\ UNCHANGED <<pc, copy, cost, spent>>
  BY MasterKeysAssumption DEF AddMasterKey, FreshId, LedgerInv, LedgerType, Ids, requestVars
<1>2. k \in MasterKey /\ k # NoKey
  BY <1>1, MasterKeysAssumption DEF MasterKey
<1>3. k.token = token /\ k.used = 0 /\ k.serial = created + 1
  OBVIOUS
<1>4. keys' = [keys EXCEPT ![nextId] = k]
  OBVIOUS
<1> HIDE DEF k
<1>5. keys' \in [Ids -> MasterKey \cup {NoKey}]
  BY <1>2, <1>4 DEF LedgerInv, LedgerType
<1>6. nextId \notin Present
  BY <1>1 DEF LedgerInv, IdsNeverReturn
<1>7. keys'[nextId] = k /\ \A i \in Ids : i # nextId => keys'[i] = keys[i]
  BY <1>1, <1>4 DEF LedgerInv, LedgerType
<1>8. Present' = Present \cup {nextId}
  BY <1>1, <1>2, <1>7 DEF Present
<1>9. \A i \in Present : i \in Ids /\ i # nextId /\ keys'[i] = keys[i] /\ keys[i] \in MasterKey
  BY <1>6, <1>7 DEF Present, LedgerInv, LedgerType
<1>10. LedgerType' /\ CopiesPresent'
  BY <1>1, <1>5 DEF LedgerInv, LedgerType, CopiesPresent
<1>11. IdsNeverReturn'
  <2>1. \A i \in Present' : i < nextId'
    BY <1>1, <1>8 DEF LedgerInv, IdsNeverReturn, Present, Ids
  <2>2. ASSUME NEW r \in Requests, copy'[r] # NoKey
        PROVE  /\ copy'[r].id < nextId'
               /\ copy'[r].id \in Present' => keys'[copy'[r].id].serial = copy'[r].serial
    <3>1. copy[r] \in KeyCopy /\ copy[r].id < nextId
      BY <1>1, <2>2 DEF LedgerInv, LedgerType, IdsNeverReturn
    <3>2. copy[r].id \in Ids
      BY <3>1 DEF KeyCopy
    <3> QED
      BY <1>1, <1>7, <1>8, <2>2, <3>1, <3>2 DEF LedgerInv, IdsNeverReturn, Ids
  <2> QED
    BY <2>1, <2>2 DEF IdsNeverReturn
<1>12. SerialsDiffer'
  BY <1>1, <1>3, <1>7, <1>8, <1>9 DEF LedgerInv, SerialsDiffer, MasterKey, Ids
<1>13. FreshSerialsUnspent'
  BY <1>1 DEF LedgerInv, FreshSerialsUnspent, Ids
<1>14. TokensAreUnique'
  BY <1>3, <1>7, <1>8, <1>9 DEF LedgerInv, TokensAreUnique, Free
<1>15. ChargesReachTheirKey'
  BY <1>1, <1>3, <1>7, <1>8, <1>9
     DEF LedgerInv, ChargesReachTheirKey, FreshSerialsUnspent, Ids
<1> QED
  BY <1>10, <1>11, <1>12, <1>13, <1>14, <1>15 DEF LedgerInv

\* An edit keeps what is not its own: the serial and the quota used.
LEMMA Editing ==
  ASSUME LedgerInv, NEW i \in Present, NEW token \in Tokens, NEW quota \in Quotas,
         NEW status \in Statuses, Free(token, i), Mutated(i, token, quota, status)
  PROVE  LedgerInv'
<1>1. i \in Ids /\ keys[i] \in MasterKey
  BY DEF Present, LedgerInv, LedgerType
<1> DEFINE k == [keys[i] EXCEPT !.token = token, !.quota = quota, !.status = status]
<1>2. k \in MasterKey /\ k.token = token /\ k.used = keys[i].used /\ k.serial = keys[i].serial
  BY <1>1 DEF MasterKey
<1>3. keys' = [keys EXCEPT ![i] = k] /\ UNCHANGED <<nextId, created, pc, copy, cost, spent>>
  BY <1>1 DEF Mutated, requestVars, LedgerInv, LedgerType
<1> HIDE DEF k
<1>4. k # NoKey
  BY <1>2, MasterKeysAssumption
<1>5. keys'[i] = k /\ \A j \in Ids : j # i => keys'[j] = keys[j]
  BY <1>1, <1>3 DEF LedgerInv, LedgerType
<1>6. Present' = Present
  BY <1>1, <1>4, <1>5 DEF Present
<1>7. \A j \in Present : j \in Ids /\ keys'[j].used = keys[j].used
                         /\ keys'[j].serial = keys[j].serial
  BY <1>2, <1>5 DEF Present
<1>8. LedgerType' /\ CopiesPresent'
  BY <1>2, <1>3 DEF LedgerInv, LedgerType, CopiesPresent
<1>9. IdsNeverReturn'
  BY <1>3, <1>6, <1>7 DEF LedgerInv, IdsNeverReturn
<1>10. SerialsDiffer' /\ FreshSerialsUnspent' /\ ChargesReachTheirKey'
  BY <1>3, <1>6, <1>7
     DEF LedgerInv, SerialsDiffer, FreshSerialsUnspent, ChargesReachTheirKey
<1>11. TokensAreUnique'
  BY <1>2, <1>5, <1>6, <1>7 DEF LedgerInv, TokensAreUnique, Free
<1> QED
  BY <1>8, <1>9, <1>10, <1>11 DEF LedgerInv

LEMMA Deleting ==
  ASSUME LedgerInv, DeleteMasterKey
  PROVE  LedgerInv'
<1> PICK i \in Present :
      /\ keys' = [keys EXCEPT ![i] = NoKey]
      /\ spent' = [spent EXCEPT ![keys[i].serial] = 0]
  BY DEF DeleteMasterKey
<1>1. UNCHANGED <<nextId, created, pc, copy, cost>>
  BY DEF DeleteMasterKey, requestVars
<1>2. i \in Ids /\ keys[i] \in MasterKey /\ keys[i].serial \in Ids
  BY DEF Present, LedgerInv, LedgerType, MasterKey
<1>3. keys'[i] = NoKey /\ \A j \in Ids : j # i => keys'[j] = keys[j]
  BY <1>2 DEF LedgerInv, LedgerType
<1>4. Present' = Present \ {i}
  BY <1>2, <1>3 DEF Present
<1>5. \A j \in Present : j \in Ids /\ keys[j] \in MasterKey /\ keys[j].serial \in Ids
                         /\ (j # i => keys'[j] = keys[j])
  BY <1>3 DEF Present, LedgerInv, LedgerType, MasterKey
<1>6. LedgerType' /\ CopiesPresent'
  BY <1>1 DEF LedgerInv, LedgerType, CopiesPresent
<1>7. IdsNeverReturn'
  BY <1>1, <1>4, <1>5 DEF LedgerInv, IdsNeverReturn
<1>8. SerialsDiffer' /\ TokensAreUnique'
  BY <1>1, <1>4, <1>5 DEF LedgerInv, SerialsDiffer, TokensAreUnique, Free
<1>9. FreshSerialsUnspent'
  BY <1>1, <1>2 DEF LedgerInv, LedgerType, FreshSerialsUnspent
<1>10. ChargesReachTheirKey'
  BY <1>2, <1>4, <1>5
     DEF LedgerInv, LedgerType, ChargesReachTheirKey, SerialsDiffer
<1> QED
  BY <1>6, <1>7, <1>8, <1>9, <1>10 DEF LedgerInv

-----------------------------------------------------------------------------
(* The charge.                                                             *)

\* The key found under the id of the copy is the key that was copied.
LEMMA Charging ==
  ASSUME LedgerInv, NEW r \in Requests, pc[r] = "charge",
         copy[r].id \in Present, Charge(r), End(r), UNCHANGED <<nextId, created>>
  PROVE  LedgerInv'
<1> DEFINE i == copy[r].id
<1>1. copy[r] # NoKey /\ copy[r] \in KeyCopy
  BY DEF LedgerInv, LedgerType, CopiesPresent
<1>2. i \in Ids /\ keys[i] \in MasterKey /\ keys[i].serial = copy[r].serial
      /\ copy[r].serial \in Ids /\ cost[r] \in Nat
  BY <1>1 DEF KeyCopy, Present, LedgerInv, LedgerType, IdsNeverReturn
<1> DEFINE k == [keys[i] EXCEPT !.used = @ + cost[r]]
<1>3. k \in MasterKey /\ k.token = keys[i].token /\ k.serial = keys[i].serial
      /\ k.used = keys[i].used + cost[r]
  BY <1>2 DEF MasterKey
<1>4. /\ keys' = [keys EXCEPT ![i] = k]
      /\ spent' = [spent EXCEPT ![copy[r].serial] = @ + cost[r]]
  BY <1>2 DEF Charge, LedgerInv, LedgerType
<1> HIDE DEF k, i
<1>5. k # NoKey
  BY <1>3, MasterKeysAssumption
<1>6. keys'[i] = k /\ \A j \in Ids : j # i => keys'[j] = keys[j]
  BY <1>2, <1>4 DEF LedgerInv, LedgerType
<1>7. Present' = Present
  BY <1>2, <1>5, <1>6 DEF Present, i
<1>8. \A j \in Present :
        /\ j \in Ids /\ keys[j] \in MasterKey /\ keys[j].serial \in Ids
        /\ keys'[j].token = keys[j].token /\ keys'[j].serial = keys[j].serial
  BY <1>3, <1>6 DEF Present, LedgerInv, LedgerType, MasterKey
<1>9. LedgerType'
  BY <1>2, <1>3, <1>4 DEF LedgerInv, LedgerType, End, Steps
<1>10. CopiesPresent'
  BY DEF LedgerInv, LedgerType, CopiesPresent, End
<1>11. \A q \in Requests : copy'[q] # NoKey => copy'[q] = copy[q]
  BY DEF LedgerInv, LedgerType, End
<1>12. IdsNeverReturn'
  BY <1>7, <1>8, <1>11 DEF LedgerInv, IdsNeverReturn
<1>13. SerialsDiffer' /\ TokensAreUnique'
  BY <1>7, <1>8 DEF LedgerInv, SerialsDiffer, TokensAreUnique, Free
<1>14. FreshSerialsUnspent'
  BY <1>2, <1>4 DEF LedgerInv, LedgerType, FreshSerialsUnspent, SerialsDiffer, i, Ids
<1>15. ChargesReachTheirKey'
  <2> SUFFICES ASSUME NEW j \in Present PROVE keys'[j].used = spent'[keys'[j].serial]
    BY <1>7 DEF ChargesReachTheirKey
  <2>1. CASE j = i
    BY <1>2, <1>3, <1>4, <1>6, <2>1 DEF LedgerInv, LedgerType, ChargesReachTheirKey
  <2>2. CASE j # i
    <3>1. i \in Present
      BY DEF i
    <3>2. keys[j].serial # keys[i].serial
      BY <2>2, <3>1 DEF LedgerInv, SerialsDiffer
    <3> QED
      BY <1>2, <1>4, <1>6, <1>8, <2>2, <3>2 DEF LedgerInv, LedgerType, ChargesReachTheirKey
  <2> QED
    BY <2>1, <2>2
<1> QED
  BY <1>9, <1>10, <1>12, <1>13, <1>14, <1>15 DEF LedgerInv

-----------------------------------------------------------------------------
(* The invariant and the theorems.                                         *)

LEMMA LedgerInitially == Init => LedgerInv
<1> SUFFICES ASSUME Init PROVE LedgerInv
  OBVIOUS
<1>1. \A i \in Ids : keys[i] = NoKey
  BY DEF Init
<1>2. Present = {}
  BY <1>1 DEF Present
<1>3. LedgerType
  BY DEF Init, LedgerType, Steps
<1>4. CopiesPresent /\ IdsNeverReturn
  BY <1>2 DEF Init, CopiesPresent, IdsNeverReturn
<1>5. SerialsDiffer /\ TokensAreUnique /\ ChargesReachTheirKey
  BY <1>2 DEF SerialsDiffer, TokensAreUnique, ChargesReachTheirKey
<1>6. FreshSerialsUnspent
  BY DEF Init, FreshSerialsUnspent
<1> QED
  BY <1>3, <1>4, <1>5, <1>6 DEF LedgerInv

LEMMA Requesting ==
  ASSUME LedgerInv, NEW r \in Requests, RequestStep(r)
  PROVE  LedgerInv'
<1>0. Recording \subseteq Steps /\ {"rpm", "tpm", "quota", "working", "charge"} \subseteq Steps
  BY DEF Recording, Steps
<1>1. CASE Arrive(r)
  BY <1>1, Arriving
<1>2. ASSUME NEW passes \in BOOLEAN, NEW from \in {"rpm", "tpm", "quota"}, NEW to \in Steps,
             Check(r, passes, from, to), UNCHANGED <<keys, nextId, created, spent>>
      PROVE  LedgerInv'
  BY <1>2, MovingOn, Ending DEF Check, Go, Step
<1>3. CASE CheckRpm(r)
  BY <1>0, <1>2, <1>3 DEF CheckRpm, Check, storeVars
<1>4. CASE CheckTpm(r)
  BY <1>0, <1>2, <1>4 DEF CheckTpm, Check, storeVars
<1>5. CASE CheckQuota(r)
  BY <1>0, <1>2, <1>5 DEF CheckQuota, Check, storeVars
<1>6. CASE GiveUp(r)
  BY <1>6, Ending DEF GiveUp, storeVars
<1>7. CASE Answered(r)
  <2>1. CASE copy[r] = NoKey /\ End(r)
    BY <1>7, <2>1, Ending DEF Answered, storeVars
  <2>2. CASE copy[r] # NoKey /\ Step(r, "working", IF WithRedis THEN "incr" ELSE "charge")
             /\ UNCHANGED <<copy, cost>>
    <3>1. UNCHANGED <<keys, nextId, created, spent>>
      BY <1>7 DEF Answered, storeVars
    <3>2. (IF WithRedis THEN "incr" ELSE "charge") \in Steps
      BY <1>0 DEF Recording
    <3> QED
      BY <2>2, <3>1, <3>2, MovingOn DEF Step
  <2> QED
    BY <1>7, <2>1, <2>2 DEF Answered
<1>8. ASSUME NEW from \in Recording, NEW to \in Steps, Step(r, from, to),
             UNCHANGED <<keys, nextId, created, spent, copy, cost>>
      PROVE  LedgerInv'
  BY <1>8, MovingOn DEF Step, Recording
<1>9. CASE IncrRpm(r)
  BY <1>0, <1>8, <1>9 DEF IncrRpm, Go, Recording, storeVars
<1>10. CASE ExpireRpm(r)
  BY <1>0, <1>8, <1>10 DEF ExpireRpm, Go, Recording, storeVars
<1>11. CASE IncrByTpm(r)
  BY <1>0, <1>8, <1>11 DEF IncrByTpm, Go, Recording, storeVars
<1>12. CASE ExpireTpm(r)
  BY <1>0, <1>8, <1>12 DEF ExpireTpm, Recording, storeVars
<1>13. CASE IncrementQuota(r)
  BY <1>13, Charging, Ending DEF IncrementQuota
<1> QED
  BY <1>1, <1>3, <1>4, <1>5, <1>6, <1>7, <1>9, <1>10, <1>11, <1>12, <1>13 DEF RequestStep

\* Redis decides about requests, not about the ledger.
LEMMA RedisApart ==
  ASSUME LedgerInv, UNCHANGED <<keys, nextId, created, spent, pc, copy, cost>>
  PROVE  LedgerInv'
<1>1. pc' \in [Requests -> Steps] /\ copy' \in [Requests -> KeyCopy \cup {NoKey}]
      /\ cost' \in [Requests -> Nat] /\ CopiesPresent'
  BY DEF LedgerInv, LedgerType, CopiesPresent
<1> QED
  BY <1>1, StoreUntouched

LEMMA LedgerKept == LedgerInv /\ [Next]_vars => LedgerInv'
<1> SUFFICES ASSUME LedgerInv, [Next]_vars PROVE LedgerInv'
  OBVIOUS
<1>1. CASE AddMasterKey
  BY <1>1, Adding
<1>2. CASE UpdateMasterKey
  BY <1>2, Editing DEF UpdateMasterKey
<1>3. CASE UpdateMasterKeyStatus
  <2> PICK i \in Present, status \in Statuses :
        Mutated(i, keys[i].token, keys[i].quota, status)
    BY <1>3 DEF UpdateMasterKeyStatus
  <2>1. keys[i].token \in Tokens /\ keys[i].quota \in Quotas
    BY DEF Present, LedgerInv, LedgerType, MasterKey
  <2>2. Free(keys[i].token, i)
    BY DEF LedgerInv, TokensAreUnique
  <2> QED
    BY <2>1, <2>2, Editing
<1>4. CASE RotateMasterKey
  <2> PICK i \in Present, token \in Tokens :
        Free(token, i) /\ Mutated(i, token, keys[i].quota, keys[i].status)
    BY <1>4 DEF RotateMasterKey
  <2>1. keys[i].quota \in Quotas /\ keys[i].status \in Statuses
    BY DEF Present, LedgerInv, LedgerType, MasterKey
  <2> QED
    BY <2>1, Editing
<1>5. CASE DeleteMasterKey
  BY <1>5, Deleting
<1>6. CASE MinuteTurns
  BY <1>6, RedisApart DEF MinuteTurns, storeVars
<1>7. CASE RunsOut
  BY <1>7, RedisApart DEF RunsOut, storeVars, requestVars
<1>8. CASE \E r \in Requests : RequestStep(r)
  BY <1>8, Requesting
<1>9. CASE UNCHANGED vars
  BY <1>9, RedisApart DEF vars, storeVars, requestVars
<1> QED
  BY <1>1, <1>2, <1>3, <1>4, <1>5, <1>6, <1>7, <1>8, <1>9 DEF Next

\* No two master keys ever have the same value, whatever is created, edited,
\* rotated or enabled again (admin_master_keys.go 65-111, 114-191, 209-262).
THEOREM MasterKeyTokensUnique == Spec => []TokensAreUnique
<1>1. LedgerInv => TokensAreUnique
  BY DEF LedgerInv
<1> QED
  BY <1>1, LedgerInitially, LedgerKept, PTL DEF Spec

\* A charge never goes to another key than the one the request came with,
\* and none is lost among concurrent ones (status.go 73-88): ids are never
\* given twice and the charge is made on the key the store has then.
THEOREM MasterKeyChargesReachTheirKey == Spec => []ChargesReachTheirKey
<1>1. LedgerInv => ChargesReachTheirKey
  BY DEF LedgerInv
<1> QED
  BY <1>1, LedgerInitially, LedgerKept, PTL DEF Spec

-----------------------------------------------------------------------------
(* How far limits are overrun: the arithmetic.                             *)

MaxCost == Max(Costs)

\* n has been counted and the requests of F, which were let through, are still
\* to be: the one let through last saw that there was room for itself, all the
\* others may come on top of it.
Within(n, F, limit, price, most) ==
  /\ \A r \in F : price[r] <= limit
  /\ \/ n + Cardinality(F) * most <= limit + Others * most
     \/ \E r \in F : n + price[r] + (Cardinality(F) - 1) * most <= limit + Others * most

Prices(most) == [Requests -> 0 .. most]

LEMMA MaxCostIsLargest == MaxCost \in Nat /\ Costs \cup {0} \subseteq 0 .. MaxCost
<1>1. PICK m \in Costs : \A c \in Costs : c <= m
  BY MasterKeysAssumption
<1>2. Costs \subseteq Nat
  BY MasterKeysAssumption
<1>3. \A y \in Costs : m >= y
  BY <1>1, <1>2
<1>4. MaxCost \in Costs /\ \A y \in Costs : MaxCost >= y
  BY <1>3 DEF MaxCost, Max
<1> QED
  BY <1>2, <1>4

LEMMA HigherIsLargest ==
  ASSUME NEW a \in Nat \cup {Unlimited}, NEW b \in Nat \cup {Unlimited}
  PROVE  /\ Higher(a, b) \in Nat \cup {Unlimited}
         /\ Higher(a, b) # Unlimited =>
              /\ a # Unlimited /\ b # Unlimited
              /\ a <= Higher(a, b) /\ b <= Higher(a, b)
<1>1. CASE Unlimited \in {a, b}
  BY <1>1 DEF Higher
<1>2. CASE Unlimited \notin {a, b}
  <2>1. a \in Nat /\ b \in Nat
    BY <1>2
  <2>2. \E x \in {a, b} : \A y \in {a, b} : x >= y
    BY <2>1
  <2>3. Max({a, b}) \in {a, b} /\ \A y \in {a, b} : Max({a, b}) >= y
    BY <2>2 DEF Max
  <2> QED
    BY <1>2, <2>1, <2>3 DEF Higher
<1> QED
  BY <1>1, <1>2

LEMMA Multiples ==
  \A a, b \in Int, m \in Nat :
    /\ a * m \in Int
    /\ (a + 1) * m = a * m + m
    /\ a <= b => a * m <= b * m
<1> SUFFICES ASSUME NEW a \in Int, NEW b \in Int, NEW m \in Nat
             PROVE  /\ a * m \in Int /\ (a + 1) * m = a * m + m
                    /\ a <= b => a * m <= b * m
  OBVIOUS
<1>1. a <= b => (b - a) * m >= 0
  BY SMT
<1>2. b * m = a * m + (b - a) * m
  BY SMT
<1> QED
  BY <1>1, <1>2, SMT

LEMMA RequestSets ==
  /\ Others \in Nat
  /\ \A F \in SUBSET Requests :
       /\ IsFiniteSet(F) /\ Cardinality(F) \in Nat /\ Cardinality(F) <= Others + 1
       /\ \A r \in F : Cardinality(F \ {r}) = Cardinality(F) - 1
       /\ \A G \in SUBSET F : Cardinality(G) <= Cardinality(F)
<1>1. IsFiniteSet(Requests) /\ Cardinality(Requests) \in Nat /\ Cardinality(Requests) # 0
  BY MasterKeysAssumption, FS_CardinalityType, FS_EmptySet
<1>2. ASSUME NEW F \in SUBSET Requests
      PROVE  /\ IsFiniteSet(F) /\ Cardinality(F) \in Nat
             /\ Cardinality(F) <= Cardinality(Requests)
             /\ \A r \in F : Cardinality(F \ {r}) = Cardinality(F) - 1
             /\ \A G \in SUBSET F : Cardinality(G) <= Cardinality(F)
  BY <1>1, FS_Subset, FS_CardinalityType, FS_RemoveElement
<1> QED
  BY <1>1, <1>2 DEF Others

\* Less has been counted, the limit is higher, or requests have left.
LEMMA Relaxed ==
  ASSUME NEW n \in Nat, NEW k \in 0 .. n, NEW limit \in Nat, NEW higher \in Nat,
         limit <= higher, NEW most \in Nat,
         NEW F \in SUBSET Requests, NEW G \in SUBSET F,
         NEW price \in Prices(most), NEW after \in Prices(most),
         \A r \in G : after[r] = price[r],
         Within(n, F, limit, price, most)
  PROVE  Within(k, G, higher, after, most)
<1> DEFINE cF == Cardinality(F)
           cG == Cardinality(G)
<1>1. Others \in Nat /\ cF \in Nat /\ cG \in Nat /\ cG <= cF /\ Others * most \in Int
  <2>1. Others \in Nat /\ cF \in Nat /\ cG \in Nat /\ cG <= cF
    BY RequestSets
  <2> QED
    BY <2>1, Multiples
<1>2. \A r \in F : price[r] \in 0 .. most
  BY DEF Prices
<1>3. \A r \in G : after[r] <= higher
  BY <1>2 DEF Within
<1>4. CASE n + cF * most <= limit + Others * most
  <2>1. cG * most <= cF * most /\ cG * most \in Int /\ cF * most \in Int
    BY <1>1, Multiples
  <2>2. k + cG * most <= higher + Others * most
    BY <1>1, <1>4, <2>1
  <2> QED
    BY <1>3, <2>2 DEF Within
<1>5. ASSUME NEW r \in F, n + price[r] + (cF - 1) * most <= limit + Others * most
      PROVE  Within(k, G, higher, after, most)
  <2>1. CASE r \in G
    <3>1. (cG - 1) * most <= (cF - 1) * most /\ (cG - 1) * most \in Int /\ (cF - 1) * most \in Int
      BY <1>1, Multiples
    <3>2. k + after[r] + (cG - 1) * most <= higher + Others * most
      BY <1>1, <1>2, <1>5, <2>1, <3>1
    <3> QED
      BY <1>3, <2>1, <3>2 DEF Within
  <2>2. CASE r \notin G
    <3>1. G \in SUBSET (F \ {r}) /\ F \ {r} \in SUBSET Requests
      BY <2>2
    <3>2. cG <= cF - 1
      BY <3>1, RequestSets
    <3>3. cG * most <= (cF - 1) * most /\ cG * most \in Int /\ (cF - 1) * most \in Int
      BY <1>1, <3>2, Multiples
    <3>4. k + cG * most <= higher + Others * most
      BY <1>1, <1>2, <1>5, <3>3
    <3> QED
      BY <1>3, <3>4 DEF Within
  <2> QED
    BY <2>1, <2>2
<1> QED
  BY <1>4, <1>5 DEF Within

\* One more request is let through, and saw that there was room for it.
LEMMA Joined ==
  ASSUME NEW n \in Nat, NEW limit \in Nat, NEW most \in Nat,
         NEW F \in SUBSET Requests, NEW G \in SUBSET Requests, NEW r \in Requests,
         G \subseteq F \cup {r},
         NEW price \in Prices(most), NEW after \in Prices(most),
         \A q \in G \ {r} : after[q] = price[q],
         n + after[r] <= limit,
         Within(n, F, limit, price, most)
  PROVE  Within(n, G, limit, after, most)
<1>1. \A q \in Requests : after[q] \in 0 .. most
  BY DEF Prices
<1>2. CASE r \in G
  <2>1. \A q \in G : after[q] <= limit
    BY <1>1 DEF Within
  <2>2. /\ Others \in Nat /\ Cardinality(G) \in Nat /\ Cardinality(G) - 1 <= Others
    BY RequestSets
  <2>3. /\ (Cardinality(G) - 1) * most <= Others * most
        /\ (Cardinality(G) - 1) * most \in Int /\ Others * most \in Int
    BY <2>2, Multiples
  <2>4. n + after[r] + (Cardinality(G) - 1) * most <= limit + Others * most
    BY <1>1, <2>3
  <2> QED
    BY <1>2, <2>1, <2>4 DEF Within
<1>3. CASE r \notin G
  BY <1>3, Relaxed
<1> QED
  BY <1>2, <1>3

\* One of those that were let through is counted and leaves.
LEMMA Paid ==
  ASSUME NEW n \in Nat, NEW limit \in Nat, NEW most \in Nat,
         NEW F \in SUBSET Requests, NEW r \in F, NEW G \in SUBSET (F \ {r}),
         NEW price \in Prices(most), NEW after \in Prices(most),
         \A q \in G : after[q] = price[q],
         Within(n, F, limit, price, most)
  PROVE  Within(n + price[r], G, limit, after, most)
<1> DEFINE cF == Cardinality(F)
           cG == Cardinality(G)
           bound == limit + Others * most
<1>1. Others \in Nat /\ cF \in Nat /\ cG \in Nat /\ cG <= cF - 1
  <2>1. F \ {r} \in SUBSET Requests /\ Cardinality(F \ {r}) = cF - 1
    BY RequestSets
  <2> QED
    BY <2>1, RequestSets
<1>2. \A q \in F : price[q] \in 0 .. most
  BY DEF Prices
<1>3. \A q \in G : after[q] <= limit
  BY DEF Within
<1>4. bound \in Int
  BY <1>1, Multiples
<1>5. cF * most = (cF - 1) * most + most /\ (cF - 1) * most \in Int
  BY <1>1, Multiples
<1>6. cG * most <= (cF - 1) * most /\ cG * most \in Int
  BY <1>1, Multiples
<1>7. CASE n + cF * most <= bound
  <2>1. n + price[r] + cG * most <= bound
    BY <1>2, <1>4, <1>5, <1>6, <1>7
  <2> QED
    BY <1>3, <2>1 DEF Within
<1>8. ASSUME NEW q \in F, n + price[q] + (cF - 1) * most <= bound
      PROVE  Within(n + price[r], G, limit, after, most)
  <2>1. CASE q = r
    <3>1. n + price[r] + cG * most <= bound
      BY <1>2, <1>4, <1>5, <1>6, <1>8, <2>1
    <3> QED
      BY <1>3, <3>1 DEF Within
  <2>2. CASE q # r /\ q \in G
    <3>1. cG * most = (cG - 1) * most + most /\ (cG - 1) * most \in Int
      BY <1>1, Multiples
    <3>2. n + price[r] + after[q] + (cG - 1) * most <= bound
      BY <1>2, <1>4, <1>5, <1>6, <1>8, <2>2, <3>1
    <3> QED
      BY <1>3, <2>2, <3>2 DEF Within
  <2>3. CASE q # r /\ q \notin G
    <3>1. F \ {r} \in SUBSET Requests /\ q \in F \ {r} /\ Cardinality(F \ {r}) = cF - 1
      BY <2>3, RequestSets
    <3>2. (F \ {r}) \ {q} \in SUBSET Requests /\ Cardinality((F \ {r}) \ {q}) = cF - 2
      BY <1>1, <3>1, RequestSets
    <3>3. G \in SUBSET ((F \ {r}) \ {q})
      BY <2>3
    <3>4. cG <= cF - 2
      BY <3>2, <3>3, RequestSets
    <3>5. cG * most <= (cF - 2) * most /\ (cF - 2) * most \in Int
      BY <1>1, <3>4, Multiples
    <3>6. (cF - 1) * most = (cF - 2) * most + most
      BY <1>1, Multiples
    <3>7. n + price[r] + cG * most <= bound
      BY <1>2, <1>4, <1>5, <1>6, <1>8, <3>5, <3>6
    <3> QED
      BY <1>3, <3>7 DEF Within
  <2> QED
    BY <2>1, <2>2, <2>3
<1> QED
  BY <1>7, <1>8 DEF Within

LEMMA Bounded ==
  ASSUME NEW n \in Nat, NEW limit \in Nat, NEW most \in Nat,
         NEW F \in SUBSET Requests, NEW price \in Prices(most),
         Within(n, F, limit, price, most)
  PROVE  n <= limit + Others * most
<1>1. Others \in Nat /\ Cardinality(F) \in Nat
  BY RequestSets
<1>2. Cardinality(F) * most >= 0 /\ Others * most \in Int /\ Cardinality(F) * most \in Int
  BY <1>1, Multiples, SMT
<1>3. CASE n + Cardinality(F) * most <= limit + Others * most
  BY <1>2, <1>3
<1>4. ASSUME NEW r \in F, n + price[r] + (Cardinality(F) - 1) * most <= limit + Others * most
      PROVE  n <= limit + Others * most
  <2>1. Cardinality(F) >= 1
    BY <1>1, FS_EmptySet, RequestSets
  <2>2. (Cardinality(F) - 1) * most >= 0 /\ (Cardinality(F) - 1) * most \in Int
    BY <1>1, <2>1, SMT
  <2>3. price[r] \in Nat
    BY DEF Prices
  <2> QED
    BY <1>2, <1>4, <2>2, <2>3
<1> QED
  BY <1>3, <1>4 DEF Within

LEMMA NothingYet ==
  ASSUME NEW limit \in Nat, NEW most \in Nat, NEW price \in Prices(most)
  PROVE  Within(0, {}, limit, price, most)
<1>1. Cardinality({}) = 0 /\ Others \in Nat
  BY FS_EmptySet, RequestSets
<1>2. Others * most >= 0 /\ Others * most \in Int /\ 0 * most = 0
  BY <1>1, SMT
<1> QED
  BY <1>1, <1>2 DEF Within

-----------------------------------------------------------------------------
(* How far limits are overrun: the invariant.                              *)

Of(r, i) == copy[r] # NoKey /\ copy[r].id = i

\* The requests that may still raise a counter of key i, or its quota used:
\* they passed the check for it.
PastRpm == {"tpm", "quota", "working", "incr"}
PastTpm == {"quota", "working", "incr", "expire rpm", "incrby"}
ToCount(i) == {r \in Requests : WithRedis /\ Of(r, i) /\ pc[r] \in PastRpm}
ToAdd(i) == {r \in Requests : WithRedis /\ Of(r, i) /\ pc[r] \in PastTpm}
\* The quota is checked against the copy, so the check is decided on arrival.
ToCharge(i) == {r \in Requests : Of(r, i) /\ QuotaLeft(r)}

OneEach == [r \in Requests |-> 1]

RpmWithin ==
  Rpm > 0 => \A i \in Ids : Within(counter[<<i, "rpm">>], ToCount(i), Rpm, OneEach, 1)
TpmWithin ==
  Tpm > 0 => \A i \in Ids : Within(counter[<<i, "tpm">>], ToAdd(i), Tpm, cost, MaxCost)

Ceiling(i) == ceiling[keys[i].serial]
QuotaWithin ==
  \A i \in Present : Ceiling(i) # Unlimited =>
    /\ keys[i].quota # Unlimited /\ keys[i].quota <= Ceiling(i)
    /\ Within(keys[i].used, ToCharge(i), Ceiling(i), cost, MaxCost)

OverrunType ==
  /\ ceiling \in [Ids -> Nat \cup {Unlimited}]
  /\ counter \in [Ids \X Kinds -> Nat]
  /\ cost \in [Requests -> Costs \cup {0}]

IdleIsForgotten == \A r \in Requests : pc[r] = "idle" => copy[r] = NoKey

\* Without Redis no counter is looked at or raised.
RedisOnlyIfConfigured ==
  \A r \in Requests : pc[r] \in {"rpm", "tpm"} \cup Recording => WithRedis

PastQuota == {"working", "charge"} \cup Recording
QuotaIsChecked ==
  \A r \in Requests : pc[r] \in PastQuota /\ copy[r] # NoKey => QuotaLeft(r)

OverrunInv ==
  /\ OverrunType /\ IdleIsForgotten /\ RedisOnlyIfConfigured /\ QuotaIsChecked
  /\ RpmWithin /\ TpmWithin /\ QuotaWithin

LEMMA OverrunFacts ==
  ASSUME LedgerType, OverrunType
  PROVE  /\ cost \in Prices(MaxCost) /\ OneEach \in Prices(1) /\ MaxCost \in Nat
         /\ \A i \in Ids : /\ counter[<<i, "rpm">>] \in Nat /\ counter[<<i, "tpm">>] \in Nat
                           /\ ToCount(i) \in SUBSET Requests
                           /\ ToAdd(i) \in SUBSET Requests
                           /\ ToCharge(i) \in SUBSET Requests
         /\ \A i \in Present : /\ i \in Ids /\ keys[i] \in MasterKey
                               /\ keys[i].used \in Nat /\ keys[i].serial \in Ids
                               /\ keys[i].quota \in Nat \cup {Unlimited}
                               /\ Ceiling(i) \in Nat \cup {Unlimited}
<1>1. cost \in Prices(MaxCost) /\ MaxCost \in Nat
  BY MaxCostIsLargest DEF OverrunType, Prices
<1>2. OneEach \in Prices(1)
  BY DEF OneEach, Prices
<1>3. ASSUME NEW i \in Ids
      PROVE  /\ counter[<<i, "rpm">>] \in Nat /\ counter[<<i, "tpm">>] \in Nat
             /\ ToCount(i) \in SUBSET Requests
             /\ ToAdd(i) \in SUBSET Requests
             /\ ToCharge(i) \in SUBSET Requests
  BY DEF OverrunType, Kinds, ToCount, ToAdd, ToCharge
<1>4. ASSUME NEW i \in Present
      PROVE  /\ i \in Ids /\ keys[i] \in MasterKey
             /\ keys[i].used \in Nat /\ keys[i].serial \in Ids
             /\ keys[i].quota \in Nat \cup {Unlimited}
             /\ Ceiling(i) \in Nat \cup {Unlimited}
  <2>1. i \in Ids /\ keys[i] \in MasterKey
    BY DEF Present, LedgerType
  <2>2. keys[i].used \in Nat /\ keys[i].serial \in Ids /\ keys[i].quota \in Quotas
    BY <2>1 DEF MasterKey
  <2> QED
    BY <2>1, <2>2, MasterKeysAssumption DEF Ceiling, OverrunType
<1> QED
  BY <1>1, <1>2, <1>3, <1>4

LEMMA Unmoved == \A n \in Nat : \A k : k = n => k <= n
OBVIOUS

LEMMA CountersStay ==
  ASSUME LedgerType, OverrunType, counter' = counter
  PROVE  \A i \in Ids : /\ counter'[<<i, "rpm">>] <= counter[<<i, "rpm">>]
                        /\ counter'[<<i, "tpm">>] <= counter[<<i, "tpm">>]
<1> SUFFICES ASSUME NEW i \in Ids
             PROVE  /\ counter[<<i, "rpm">>] <= counter[<<i, "rpm">>]
                    /\ counter[<<i, "tpm">>] <= counter[<<i, "tpm">>]
  OBVIOUS
<1>1. counter[<<i, "rpm">>] \in Nat /\ counter[<<i, "tpm">>] \in Nat
  BY OverrunFacts
<1> QED
  BY <1>1

\* A bound holds on when its counter and its requests do not grow.
LEMMA RpmFrame ==
  ASSUME LedgerType, OverrunType, LedgerType', OverrunType', RpmWithin,
         \A i \in Ids : /\ counter'[<<i, "rpm">>] <= counter[<<i, "rpm">>]
                        /\ ToCount(i)' \subseteq ToCount(i)
  PROVE  RpmWithin'
<1> SUFFICES ASSUME Rpm > 0, NEW i \in Ids
             PROVE  Within(counter'[<<i, "rpm">>], ToCount(i)', Rpm, OneEach, 1)
  BY DEF RpmWithin, OneEach, Within, Others
<1>1. Within(counter[<<i, "rpm">>], ToCount(i), Rpm, OneEach, 1)
  BY DEF RpmWithin
<1>2. counter[<<i, "rpm">>] \in Nat /\ ToCount(i) \in SUBSET Requests /\ OneEach \in Prices(1)
  BY OverrunFacts
<1>3. counter'[<<i, "rpm">>] \in 0 .. counter[<<i, "rpm">>]
  BY <1>2 DEF OverrunType, Kinds
<1>4. ToCount(i)' \in SUBSET ToCount(i) /\ Rpm \in Nat
  BY MasterKeysAssumption
<1> QED
  BY <1>1, <1>2, <1>3, <1>4, Relaxed

LEMMA TpmFrame ==
  ASSUME LedgerType, OverrunType, LedgerType', OverrunType', TpmWithin,
         \A i \in Ids : /\ counter'[<<i, "tpm">>] <= counter[<<i, "tpm">>]
                        /\ ToAdd(i)' \subseteq ToAdd(i)
                        /\ \A r \in ToAdd(i)' : cost'[r] = cost[r]
  PROVE  TpmWithin'
<1> SUFFICES ASSUME Tpm > 0, NEW i \in Ids
             PROVE  Within(counter'[<<i, "tpm">>], ToAdd(i)', Tpm, cost', MaxCost)
  BY DEF TpmWithin, MaxCost, Within, Others
<1>1. Within(counter[<<i, "tpm">>], ToAdd(i), Tpm, cost, MaxCost)
  BY DEF TpmWithin
<1>2. counter[<<i, "tpm">>] \in Nat /\ ToAdd(i) \in SUBSET Requests
      /\ cost \in Prices(MaxCost) /\ MaxCost \in Nat
  BY OverrunFacts
<1>3. counter'[<<i, "tpm">>] \in 0 .. counter[<<i, "tpm">>]
  BY <1>2 DEF OverrunType, Kinds
<1>4. ToAdd(i)' \in SUBSET ToAdd(i) /\ Tpm \in Nat
  BY MasterKeysAssumption
<1>5. cost' \in Prices(MaxCost)
  BY MaxCostIsLargest DEF OverrunType, Prices
<1> QED
  BY <1>1, <1>2, <1>3, <1>4, <1>5, Relaxed

\* For the quota, a ceiling may rise too.
LEMMA QuotaFrame ==
  ASSUME LedgerType, OverrunType, LedgerType', OverrunType', QuotaWithin,
         \A i \in Present' :
           /\ i \in Present /\ keys'[i].used = keys[i].used
           /\ Ceiling(i)' # Unlimited =>
                /\ Ceiling(i) # Unlimited /\ Ceiling(i) <= Ceiling(i)'
                /\ keys'[i].quota # Unlimited /\ keys'[i].quota <= Ceiling(i)'
           /\ ToCharge(i)' \subseteq ToCharge(i)
           /\ \A r \in ToCharge(i)' : cost'[r] = cost[r]
  PROVE  QuotaWithin'
<1> SUFFICES ASSUME NEW i \in Present', Ceiling(i)' # Unlimited
             PROVE  Within(keys'[i].used, ToCharge(i)', Ceiling(i)', cost', MaxCost)
  BY DEF QuotaWithin, MaxCost, Within, Others
<1>1. i \in Present /\ Ceiling(i) # Unlimited
  OBVIOUS
<1>2. Within(keys[i].used, ToCharge(i), Ceiling(i), cost, MaxCost)
  BY <1>1 DEF QuotaWithin
<1>3. keys[i].used \in Nat /\ Ceiling(i) \in Nat /\ ToCharge(i) \in SUBSET Requests
      /\ cost \in Prices(MaxCost) /\ MaxCost \in Nat
  BY <1>1, OverrunFacts
<1>4. cost' \in Prices(MaxCost)
  BY MaxCostIsLargest DEF OverrunType, Prices
<1>5. keys'[i].serial \in Ids
  BY DEF Present, LedgerType, MasterKey
<1>6. Ceiling(i)' \in Nat /\ Ceiling(i) <= Ceiling(i)'
  BY <1>5 DEF Ceiling, OverrunType
<1>7. ToCharge(i)' \in SUBSET ToCharge(i) /\ keys'[i].used \in 0 .. keys[i].used
  BY <1>1, <1>3
<1> QED
  BY <1>2, <1>3, <1>4, <1>6, <1>7, Relaxed

-----------------------------------------------------------------------------
(* How far limits are overrun: steps of requests.                          *)

Control == OverrunType /\ IdleIsForgotten /\ RedisOnlyIfConfigured /\ QuotaIsChecked

\* A request goes on, with its copy.
Advances(r, to) ==
  /\ pc' = [pc EXCEPT ![r] = to] /\ UNCHANGED <<keys, ceiling, copy, cost>>
  /\ pc[r] # "idle" /\ to \in Steps \ {"idle"}
  /\ to \in {"rpm", "tpm"} \cup Recording => WithRedis
  /\ to \in PastQuota /\ copy[r] # NoKey => QuotaLeft(r)

LEMMA AdvanceControl ==
  ASSUME LedgerInv, OverrunInv, NEW r \in Requests, NEW to, Advances(r, to),
         counter' \in [Ids \X Kinds -> Nat]
  PROVE  Control'
<1>1. OverrunType'
  BY DEF OverrunInv, OverrunType, Advances
<1>2. pc \in [Requests -> Steps]
  BY DEF LedgerInv, LedgerType
<1>3. IdleIsForgotten' /\ RedisOnlyIfConfigured'
  BY <1>2 DEF OverrunInv, IdleIsForgotten, RedisOnlyIfConfigured, Advances
<1>4. QuotaIsChecked'
  BY <1>2 DEF OverrunInv, QuotaIsChecked, Advances, QuotaLeft
<1> QED
  BY <1>1, <1>3, <1>4 DEF Control

\* The sets that an advancing request neither enters nor leaves for another.
LEMMA AdvanceSets ==
  ASSUME LedgerInv, OverrunInv, NEW r \in Requests, NEW to, Advances(r, to),
         NEW i \in Ids
  PROVE  /\ ToCharge(i)' = ToCharge(i)
         /\ ToCount(i)' \ {r} = ToCount(i) \ {r}
         /\ ToAdd(i)' \ {r} = ToAdd(i) \ {r}
         /\ r \in ToCount(i)' <=> WithRedis /\ Of(r, i) /\ to \in PastRpm
         /\ r \in ToAdd(i)' <=> WithRedis /\ Of(r, i) /\ to \in PastTpm
<1>1. pc \in [Requests -> Steps]
  BY DEF LedgerInv, LedgerType
<1>2. \A q \in Requests : pc'[q] = IF q = r THEN to ELSE pc[q]
  BY <1>1 DEF Advances
<1>3. \A q \in Requests : Of(q, i)' = Of(q, i)
  BY DEF Of, Advances
<1>4. ToCharge(i)' = ToCharge(i)
  BY DEF ToCharge, Of, QuotaLeft, Advances
<1> QED
  BY <1>2, <1>3, <1>4 DEF ToCount, ToAdd

LEMMA AdvanceQuota ==
  ASSUME LedgerInv, LedgerInv', OverrunInv, NEW r \in Requests, NEW to, Advances(r, to),
         Control'
  PROVE  QuotaWithin'
<1>1. Present' = Present /\ UNCHANGED <<keys, ceiling, cost>>
  BY DEF Present, Advances
<1>2. ASSUME NEW i \in Present
      PROVE  /\ Ceiling(i)' = Ceiling(i) /\ ToCharge(i)' = ToCharge(i)
             /\ Ceiling(i) # Unlimited => /\ Ceiling(i) <= Ceiling(i)
                                          /\ keys[i].quota # Unlimited
                                          /\ keys[i].quota <= Ceiling(i)
  <2>1. i \in Ids /\ Ceiling(i) \in Nat \cup {Unlimited}
    BY OverrunFacts DEF LedgerInv, OverrunInv
  <2>2. ToCharge(i)' = ToCharge(i)
    BY <2>1, AdvanceSets
  <2>3. Ceiling(i)' = Ceiling(i)
    BY <1>1 DEF Ceiling
  <2> QED
    BY <2>1, <2>2, <2>3 DEF OverrunInv, QuotaWithin, Unlimited
<1> QED
  BY <1>1, <1>2, QuotaFrame DEF LedgerInv, OverrunInv, Control

\* A step that no counter and no check depends on.
LEMMA Advanced ==
  ASSUME LedgerInv, LedgerInv', OverrunInv, NEW r \in Requests, NEW to, Advances(r, to),
         UNCHANGED counter,
         to \in PastRpm => pc[r] \in PastRpm, to \in PastTpm => pc[r] \in PastTpm
  PROVE  OverrunInv'
<1>1. Control'
  BY AdvanceControl DEF OverrunInv, OverrunType
<1>2. QuotaWithin'
  BY <1>1, AdvanceQuota
<1>3. ASSUME NEW i \in Ids PROVE ToCount(i)' \subseteq ToCount(i) /\ ToAdd(i)' \subseteq ToAdd(i)
  <2>1. r \in ToCount(i)' => r \in ToCount(i)
    BY AdvanceSets DEF ToCount
  <2>2. r \in ToAdd(i)' => r \in ToAdd(i)
    BY AdvanceSets DEF ToAdd
  <2> QED
    BY <2>1, <2>2, AdvanceSets
<1>4. \A i \in Ids : /\ counter'[<<i, "rpm">>] <= counter[<<i, "rpm">>]
                     /\ counter'[<<i, "tpm">>] <= counter[<<i, "tpm">>]
  BY CountersStay DEF LedgerInv, OverrunInv
<1>5. RpmWithin'
  BY <1>1, <1>3, <1>4, RpmFrame DEF LedgerInv, OverrunInv, Control
<1>6. TpmWithin'
  BY <1>1, <1>3, <1>4, TpmFrame DEF LedgerInv, OverrunInv, Control, Advances
<1> QED
  BY <1>1, <1>2, <1>5, <1>6 DEF OverrunInv, Control

\* A request ends and is forgotten.
LEMMA Ended ==
  ASSUME LedgerInv, LedgerInv', OverrunInv, NEW r \in Requests, End(r),
         UNCHANGED <<counter, ceiling>>
  PROVE  /\ Control' /\ RpmWithin' /\ TpmWithin'
         /\ \A i \in Ids : /\ ToCharge(i)' = ToCharge(i) \ {r}
                           /\ \A q \in ToCharge(i)' : cost'[q] = cost[q]
<1>1. pc \in [Requests -> Steps] /\ copy \in [Requests -> KeyCopy \cup {NoKey}]
      /\ cost \in [Requests -> Costs \cup {0}]
  BY DEF LedgerInv, LedgerType, OverrunInv, OverrunType
<1>2. pc'[r] = "idle" /\ copy'[r] = NoKey /\ cost' \in [Requests -> Costs \cup {0}]
  BY <1>1 DEF End
<1>3. \A q \in Requests : q # r => pc'[q] = pc[q] /\ copy'[q] = copy[q] /\ cost'[q] = cost[q]
  BY <1>1 DEF End
<1>4. Control'
  <2>1. OverrunType'
    BY <1>2 DEF OverrunInv, OverrunType
  <2>2. IdleIsForgotten' /\ RedisOnlyIfConfigured'
    BY <1>2, <1>3 DEF OverrunInv, IdleIsForgotten, RedisOnlyIfConfigured, Recording
  <2>3. QuotaIsChecked'
    BY <1>2, <1>3 DEF OverrunInv, QuotaIsChecked, QuotaLeft
  <2> QED
    BY <2>1, <2>2, <2>3 DEF Control
<1>5. ASSUME NEW i \in Ids
      PROVE  /\ ToCount(i)' = ToCount(i) \ {r} /\ ToAdd(i)' = ToAdd(i) \ {r}
             /\ ToCharge(i)' = ToCharge(i) \ {r}
  <2>1. ~ Of(r, i)'
    BY <1>2 DEF Of
  <2>2. \A q \in Requests \ {r} : /\ Of(q, i)' = Of(q, i) /\ pc'[q] = pc[q]
                                  /\ QuotaLeft(q)' = QuotaLeft(q)
    BY <1>3 DEF Of, QuotaLeft
  <2>3. ToCount(i)' = ToCount(i) \ {r} /\ ToAdd(i)' = ToAdd(i) \ {r}
    BY <2>1, <2>2 DEF ToCount, ToAdd
  <2>4. ToCharge(i)' = ToCharge(i) \ {r}
    BY <2>1, <2>2 DEF ToCharge
  <2> QED
    BY <2>3, <2>4
<1>6. \A i \in Ids : /\ counter'[<<i, "rpm">>] <= counter[<<i, "rpm">>]
                     /\ counter'[<<i, "tpm">>] <= counter[<<i, "tpm">>]
  BY CountersStay DEF LedgerInv, OverrunInv
<1>7. ASSUME NEW i \in Ids
      PROVE  \A q \in ToAdd(i)' \cup ToCharge(i)' : cost'[q] = cost[q]
  <2>1. ToAdd(i) \in SUBSET Requests /\ ToCharge(i) \in SUBSET Requests
    BY DEF ToAdd, ToCharge
  <2> QED
    BY <1>3, <1>5, <2>1
<1>8. RpmWithin'
  BY <1>4, <1>5, <1>6, RpmFrame DEF LedgerInv, OverrunInv, Control
<1>9. TpmWithin'
  BY <1>4, <1>5, <1>6, <1>7, TpmFrame DEF LedgerInv, OverrunInv, Control
<1> QED
  BY <1>4, <1>5, <1>7, <1>8, <1>9

LEMMA EndedQuota ==
  ASSUME LedgerInv, LedgerInv', OverrunInv, NEW r \in Requests, End(r),
         UNCHANGED <<counter, ceiling, keys>>
  PROVE  OverrunInv'
<1>1. Control' /\ RpmWithin' /\ TpmWithin' /\ Present' = Present
  BY Ended DEF Present
<1>2. ASSUME NEW i \in Present
      PROVE  /\ Ceiling(i)' = Ceiling(i) /\ ToCharge(i)' \subseteq ToCharge(i)
             /\ \A q \in ToCharge(i)' : cost'[q] = cost[q]
             /\ Ceiling(i) # Unlimited => /\ Ceiling(i) <= Ceiling(i)
                                          /\ keys[i].quota # Unlimited
                                          /\ keys[i].quota <= Ceiling(i)
  <2>1. i \in Ids /\ Ceiling(i) \in Nat \cup {Unlimited}
    BY OverrunFacts DEF LedgerInv, OverrunInv
  <2>2. ToCharge(i)' \subseteq ToCharge(i) /\ \A q \in ToCharge(i)' : cost'[q] = cost[q]
    BY <2>1, Ended
  <2>3. Ceiling(i)' = Ceiling(i)
    BY DEF Ceiling
  <2> QED
    BY <2>1, <2>2, <2>3 DEF OverrunInv, QuotaWithin, Unlimited
<1>3. QuotaWithin'
  BY <1>1, <1>2, QuotaFrame DEF LedgerInv, OverrunInv, Control
<1> QED
  BY <1>1, <1>3 DEF OverrunInv, Control

\* A request comes in.  It cannot have been waiting to be counted: it was idle.
LEMMA ArrivedElsewhere ==
  ASSUME LedgerInv, OverrunInv, NEW r \in Requests, Arrive(r)
  PROVE  /\ pc'[r] # "idle" /\ copy[r] = NoKey
         /\ UNCHANGED <<keys, ceiling, counter>>
         /\ cost' \in [Requests -> Costs \cup {0}]
         /\ \A q \in Requests \ {r} :
              pc'[q] = pc[q] /\ copy'[q] = copy[q] /\ cost'[q] = cost[q]
         /\ pc'[r] \in {"rpm"} \cup Recording => WithRedis
         /\ pc'[r] \in PastRpm \cup PastTpm \cup PastQuota =>
              copy'[r] = NoKey \/ (~ WithRedis /\ pc'[r] = "quota")
<1>1. pc \in [Requests -> Steps] /\ copy \in [Requests -> KeyCopy \cup {NoKey}]
      /\ cost \in [Requests -> Costs \cup {0}]
  BY DEF LedgerInv, LedgerType, OverrunInv, OverrunType
<1>2. pc[r] = "idle" /\ copy[r] = NoKey
  BY DEF Arrive, Step, OverrunInv, IdleIsForgotten
<1>3. cost' \in [Requests -> Costs \cup {0}] /\ UNCHANGED <<keys, ceiling, counter>>
  BY <1>1 DEF Arrive, storeVars, redisVars
<1>4. \A q \in Requests \ {r} :
        pc'[q] = pc[q] /\ copy'[q] = copy[q] /\ cost'[q] = cost[q]
  BY <1>1 DEF Arrive, Step
<1>5. \/ copy'[r] = NoKey /\ pc'[r] = "working"
      \/ pc'[r] = IF WithRedis THEN "rpm" ELSE "quota"
  BY <1>1 DEF Arrive, Step
<1> QED
  BY <1>2, <1>3, <1>4, <1>5 DEF PastRpm, PastTpm, PastQuota, Recording

LEMMA Arrived ==
  ASSUME LedgerInv, LedgerInv', OverrunInv, NEW r \in Requests, Arrive(r)
  PROVE  OverrunInv'
<1>1. Control'
  <2>1. OverrunType'
    BY ArrivedElsewhere DEF OverrunInv, OverrunType
  <2>2. IdleIsForgotten' /\ RedisOnlyIfConfigured'
    <3>1. pc'[r] # "tpm"
      BY DEF Arrive, Step, LedgerInv, LedgerType
    <3> QED
      BY <3>1, ArrivedElsewhere
         DEF OverrunInv, IdleIsForgotten, RedisOnlyIfConfigured, Recording
  <2>3. QuotaIsChecked'
    BY ArrivedElsewhere DEF OverrunInv, QuotaIsChecked, QuotaLeft, PastQuota, Recording
  <2> QED
    BY <2>1, <2>2, <2>3 DEF Control
<1>2. ASSUME NEW i \in Ids
      PROVE  /\ ToCount(i)' \subseteq ToCount(i) \ {r} /\ ToAdd(i)' \subseteq ToAdd(i) \ {r}
             /\ ToCharge(i)' \subseteq ToCharge(i) \cup {r} /\ r \notin ToCharge(i)
  <2>1. \A q \in Requests \ {r} : /\ Of(q, i)' = Of(q, i) /\ pc'[q] = pc[q]
                                  /\ QuotaLeft(q)' = QuotaLeft(q)
    BY ArrivedElsewhere DEF Of, QuotaLeft
  <2>2. r \notin ToCount(i)' /\ r \notin ToAdd(i)'
    BY ArrivedElsewhere DEF ToCount, ToAdd, Of
  <2>3. r \notin ToCharge(i)
    BY ArrivedElsewhere DEF ToCharge, Of
  <2>4. ToCount(i)' \subseteq ToCount(i) /\ ToAdd(i)' \subseteq ToAdd(i)
    BY <2>1, <2>2 DEF ToCount, ToAdd
  <2>5. ToCharge(i)' \subseteq ToCharge(i) \cup {r}
    BY <2>1 DEF ToCharge
  <2> QED
    BY <2>2, <2>3, <2>4, <2>5
<1>3. counter' = counter /\ UNCHANGED <<keys, ceiling>> /\ Present' = Present
  BY ArrivedElsewhere DEF Present
<1>4. \A i \in Ids : /\ counter'[<<i, "rpm">>] <= counter[<<i, "rpm">>]
                     /\ counter'[<<i, "tpm">>] <= counter[<<i, "tpm">>]
  BY <1>3, CountersStay DEF LedgerInv, OverrunInv
<1>5. RpmWithin'
  BY <1>1, <1>2, <1>4, RpmFrame DEF LedgerInv, OverrunInv, Control
<1>6. TpmWithin'
  <2>1. ASSUME NEW i \in Ids, NEW q \in ToAdd(i)' PROVE cost'[q] = cost[q]
    BY <1>2, ArrivedElsewhere DEF ToAdd
  <2> QED
    BY <1>1, <1>2, <1>4, <2>1, TpmFrame DEF LedgerInv, OverrunInv, Control
<1>7. QuotaWithin'
  <2> SUFFICES ASSUME NEW i \in Present, Ceiling(i)' # Unlimited
               PROVE  /\ keys'[i].quota # Unlimited /\ keys'[i].quota <= Ceiling(i)'
                      /\ Within(keys'[i].used, ToCharge(i)', Ceiling(i)', cost', MaxCost)
    BY <1>3 DEF QuotaWithin, MaxCost, Within, Others
  <2>1. Ceiling(i)' = Ceiling(i) /\ keys'[i] = keys[i]
    BY <1>3 DEF Ceiling
  <2>2. /\ keys[i].quota # Unlimited /\ keys[i].quota <= Ceiling(i)
        /\ Within(keys[i].used, ToCharge(i), Ceiling(i), cost, MaxCost)
    BY <2>1 DEF OverrunInv, QuotaWithin
  <2>3. /\ i \in Ids /\ keys[i].used \in Nat /\ Ceiling(i) \in Nat /\ keys[i].quota \in Nat
        /\ cost \in Prices(MaxCost) /\ MaxCost \in Nat
    BY <2>1, <2>2, OverrunFacts DEF LedgerInv, OverrunInv
  <2>4. cost' \in Prices(MaxCost)
    BY <1>1, MaxCostIsLargest DEF Control, OverrunType, Prices
  <2>5. ToCharge(i) \in SUBSET Requests /\ ToCharge(i)' \in SUBSET Requests
    BY DEF ToCharge
  <2>6. \A q \in ToCharge(i)' \ {r} : cost'[q] = cost[q]
    BY <2>5, ArrivedElsewhere
  <2>7. CASE r \notin ToCharge(i)'
    <3>1. ToCharge(i)' \in SUBSET ToCharge(i) /\ keys[i].used \in 0 .. keys[i].used
      BY <1>2, <2>3, <2>7
    <3>2. Within(keys[i].used, ToCharge(i)', Ceiling(i), cost', MaxCost)
      BY <2>2, <2>3, <2>4, <2>5, <2>6, <2>7, <3>1, Relaxed
    <3> QED
      BY <2>1, <2>2, <3>2
  <2>8. CASE r \in ToCharge(i)'
    <3>1. Of(r, i)' /\ QuotaLeft(r)'
      BY <2>8 DEF ToCharge
    <3>2. copy'[r].quota = keys[i].quota /\ copy'[r].used = keys[i].used
      BY <3>1 DEF Arrive, Of, LedgerInv, LedgerType
    <3>3. keys[i].used + cost'[r] <= Ceiling(i)
      BY <2>2, <2>3, <2>4, <3>1, <3>2 DEF QuotaLeft, Prices
    <3>4. ToCharge(i)' \subseteq ToCharge(i) \cup {r}
      BY <1>2, <2>3
    <3>5. Within(keys[i].used, ToCharge(i)', Ceiling(i), cost', MaxCost)
      BY <2>2, <2>3, <2>4, <2>5, <2>6, <3>3, <3>4, Joined
    <3> QED
      BY <2>1, <2>2, <3>5
  <2> QED
    BY <2>7, <2>8
<1> QED
  BY <1>1, <1>5, <1>6, <1>7 DEF OverrunInv, Control

\* The request that passes the check of a counter joins those that will raise it.
LEMMA RpmChecked ==
  ASSUME LedgerInv, LedgerInv', OverrunInv, NEW r \in Requests,
         Advances(r, "tpm"), pc[r] = "rpm", RpmLeft(r), counter' = counter
  PROVE  OverrunInv'
<1>1. Control'
  BY AdvanceControl DEF OverrunInv, OverrunType
<1>2. QuotaWithin'
  BY <1>1, AdvanceQuota
<1>3. \A i \in Ids : /\ counter'[<<i, "rpm">>] <= counter[<<i, "rpm">>]
                     /\ counter'[<<i, "tpm">>] <= counter[<<i, "tpm">>]
  BY CountersStay DEF LedgerInv, OverrunInv
<1>4. ASSUME NEW i \in Ids
      PROVE  ToAdd(i)' \subseteq ToAdd(i) /\ ToCount(i)' \subseteq ToCount(i) \cup {r}
  <2>1. r \in ToAdd(i)' => "tpm" \in PastTpm
    BY AdvanceSets
  <2>2. "tpm" \notin PastTpm
    BY DEF PastTpm
  <2> QED
    BY <2>1, <2>2, AdvanceSets
<1>5. TpmWithin'
  BY <1>1, <1>3, <1>4, TpmFrame DEF LedgerInv, OverrunInv, Control, Advances
<1>6. RpmWithin'
  <2> SUFFICES ASSUME Rpm > 0, NEW i \in Ids
               PROVE  Within(counter[<<i, "rpm">>], ToCount(i)', Rpm, OneEach, 1)
    BY DEF RpmWithin, OneEach, Within, Others
  <2>1. counter[<<i, "rpm">>] \in Nat /\ OneEach \in Prices(1) /\ Rpm \in Nat
        /\ ToCount(i) \in SUBSET Requests
    BY OverrunFacts, MasterKeysAssumption DEF LedgerInv, OverrunInv
  <2>2. Within(counter[<<i, "rpm">>], ToCount(i), Rpm, OneEach, 1)
    BY DEF OverrunInv, RpmWithin
  <2>3. ToCount(i)' \in SUBSET Requests /\ ToCount(i)' \subseteq ToCount(i) \cup {r}
    BY <1>4, <2>1
  <2>4. CASE Of(r, i)
    <3>1. counter[<<i, "rpm">>] + OneEach[r] <= Rpm
      BY <2>1, <2>4 DEF Of, RpmLeft, OneEach
    <3> QED
      BY <2>1, <2>2, <2>3, <3>1, Joined
  <2>5. CASE ~ Of(r, i)
    <3>1. ToCount(i)' \in SUBSET ToCount(i) /\ counter[<<i, "rpm">>] \in 0 .. counter[<<i, "rpm">>]
      BY <2>1, <2>3, <2>5, AdvanceSets
    <3> QED
      BY <2>1, <2>2, <3>1, Relaxed
  <2> QED
    BY <2>4, <2>5
<1> QED
  BY <1>1, <1>2, <1>5, <1>6 DEF OverrunInv, Control

LEMMA TpmChecked ==
  ASSUME LedgerInv, LedgerInv', OverrunInv, NEW r \in Requests,
         Advances(r, "quota"), pc[r] = "tpm", TpmLeft(r), counter' = counter
  PROVE  OverrunInv'
<1>1. Control'
  BY AdvanceControl DEF OverrunInv, OverrunType
<1>2. QuotaWithin'
  BY <1>1, AdvanceQuota
<1>3. \A i \in Ids : /\ counter'[<<i, "rpm">>] <= counter[<<i, "rpm">>]
                     /\ counter'[<<i, "tpm">>] <= counter[<<i, "tpm">>]
  BY CountersStay DEF LedgerInv, OverrunInv
<1>4. ASSUME NEW i \in Ids
      PROVE  ToCount(i)' \subseteq ToCount(i) /\ ToAdd(i)' \subseteq ToAdd(i) \cup {r}
  <2>1. r \in ToCount(i)' => r \in ToCount(i)
    BY AdvanceSets DEF ToCount, PastRpm
  <2> QED
    BY <2>1, AdvanceSets
<1>5. RpmWithin'
  BY <1>1, <1>3, <1>4, RpmFrame DEF LedgerInv, OverrunInv, Control
<1>6. TpmWithin'
  <2> SUFFICES ASSUME Tpm > 0, NEW i \in Ids
               PROVE  Within(counter[<<i, "tpm">>], ToAdd(i)', Tpm, cost, MaxCost)
    BY DEF TpmWithin, MaxCost, Within, Others, Advances
  <2>1. counter[<<i, "tpm">>] \in Nat /\ cost \in Prices(MaxCost) /\ MaxCost \in Nat
        /\ Tpm \in Nat /\ ToAdd(i) \in SUBSET Requests
    BY OverrunFacts, MasterKeysAssumption DEF LedgerInv, OverrunInv
  <2>2. Within(counter[<<i, "tpm">>], ToAdd(i), Tpm, cost, MaxCost)
    BY DEF OverrunInv, TpmWithin
  <2>3. ToAdd(i)' \in SUBSET Requests /\ ToAdd(i)' \subseteq ToAdd(i) \cup {r}
    BY <1>4, <2>1
  <2>4. CASE Of(r, i)
    <3>1. counter[<<i, "tpm">>] + cost[r] <= Tpm
      BY <2>4 DEF Of, TpmLeft
    <3> QED
      BY <2>1, <2>2, <2>3, <3>1, Joined
  <2>5. CASE ~ Of(r, i)
    <3>1. ToAdd(i)' \in SUBSET ToAdd(i) /\ counter[<<i, "tpm">>] \in 0 .. counter[<<i, "tpm">>]
      BY <2>1, <2>3, <2>5, AdvanceSets
    <3> QED
      BY <2>1, <2>2, <3>1, Relaxed
  <2> QED
    BY <2>4, <2>5
<1> QED
  BY <1>1, <1>2, <1>5, <1>6 DEF OverrunInv, Control

\* The request that raises a counter is one of those counted on to do so.
LEMMA Raised ==
  ASSUME LedgerInv, OverrunInv, NEW r \in Requests, NEW kind \in Kinds, NEW n \in Nat,
         pc[r] \in Recording, Count(r, kind, n)
  PROVE  /\ WithRedis /\ copy[r] # NoKey /\ copy[r].id \in Ids
         /\ counter' \in [Ids \X Kinds -> Nat]
         /\ \A i \in Ids : Of(r, i) => counter'[<<i, kind>>] = counter[<<i, kind>>] + n
         /\ \A i \in Ids, k \in Kinds :
              ~ Of(r, i) \/ k # kind => counter'[<<i, k>>] = counter[<<i, k>>]
<1>1. WithRedis
  BY DEF OverrunInv, RedisOnlyIfConfigured
<1>2. copy[r] # NoKey
  BY DEF LedgerInv, CopiesPresent, Recording
<1>3. copy[r] \in KeyCopy
  BY <1>2 DEF LedgerInv, LedgerType
<1>4. copy[r].id \in Ids
  BY <1>3 DEF KeyCopy
<1>5. counter \in [Ids \X Kinds -> Nat]
  BY DEF OverrunInv, OverrunType
<1> DEFINE x == <<copy[r].id, kind>>
<1>6. x \in Ids \X Kinds /\ counter' = [counter EXCEPT ![x] = counter[x] + n]
  BY <1>4 DEF Count
<1>7. counter[x] \in Nat /\ counter[x] + n \in Nat
  BY <1>5, <1>6
<1>8. ASSUME NEW i \in Ids, NEW k \in Kinds
      PROVE  counter'[<<i, k>>] =
               IF Of(r, i) /\ k = kind THEN counter[<<i, k>>] + n ELSE counter[<<i, k>>]
  <2>1. <<i, k>> = x <=> Of(r, i) /\ k = kind
    BY <1>2 DEF Of
  <2>2. <<i, k>> \in Ids \X Kinds
    OBVIOUS
  <2> HIDE DEF x
  <2>3. counter'[<<i, k>>] = IF <<i, k>> = x THEN counter[<<i, k>>] + n ELSE counter[<<i, k>>]
    BY <1>5, <1>6, <2>2
  <2> QED
    BY <2>1, <2>3
<1> HIDE DEF x
<1>9. counter' \in [Ids \X Kinds -> Nat]
  BY <1>5, <1>6, <1>7
<1> QED
  BY <1>1, <1>2, <1>4, <1>8, <1>9

LEMMA RpmRaised ==
  ASSUME LedgerInv, LedgerInv', OverrunInv, NEW r \in Requests, NEW next,
         Advances(r, next), next \notin PastRpm, pc[r] = "incr", Count(r, "rpm", 1)
  PROVE  OverrunInv'
<1>1. "rpm" \in Kinds /\ "tpm" \in Kinds /\ pc[r] \in Recording /\ 1 \in Nat
  BY DEF Kinds, Recording
<1>2. /\ WithRedis /\ counter' \in [Ids \X Kinds -> Nat]
      /\ \A i \in Ids : Of(r, i) => counter'[<<i, "rpm">>] = counter[<<i, "rpm">>] + 1
      /\ \A i \in Ids, k \in Kinds :
           ~ Of(r, i) \/ k # "rpm" => counter'[<<i, k>>] = counter[<<i, k>>]
  BY <1>1, Raised, Zenon
<1>3. Control'
  BY <1>2, AdvanceControl
<1>4. QuotaWithin'
  BY <1>3, AdvanceQuota
<1>5. ASSUME NEW i \in Ids
      PROVE  /\ ToCount(i)' = ToCount(i) \ {r}
             /\ ToAdd(i)' \subseteq ToAdd(i)
             /\ counter'[<<i, "tpm">>] <= counter[<<i, "tpm">>]
  <2>2. r \in ToAdd(i)' => r \in ToAdd(i)
    BY AdvanceSets DEF ToAdd, PastTpm
  <2>3. counter[<<i, "tpm">>] \in Nat /\ counter'[<<i, "tpm">>] = counter[<<i, "tpm">>]
    BY <1>1, <1>2, OverrunFacts DEF LedgerInv, OverrunInv
  <2>4. counter'[<<i, "tpm">>] <= counter[<<i, "tpm">>]
    BY <2>3, Unmoved, Zenon
  <2>5. r \notin ToCount(i)'
    BY AdvanceSets
  <2>6. ToCount(i)' = ToCount(i) \ {r} /\ ToAdd(i)' \subseteq ToAdd(i)
    BY <2>2, <2>5, AdvanceSets
  <2> QED
    BY <2>4, <2>6, Zenon
<1>6. TpmWithin'
  BY <1>3, <1>5, TpmFrame DEF LedgerInv, OverrunInv, Control, Advances
<1>7. RpmWithin'
  <2> SUFFICES ASSUME Rpm > 0, NEW i \in Ids
               PROVE  Within(counter'[<<i, "rpm">>], ToCount(i)', Rpm, OneEach, 1)
    BY DEF RpmWithin, OneEach, Within, Others
  <2>1. counter[<<i, "rpm">>] \in Nat /\ OneEach \in Prices(1) /\ Rpm \in Nat
        /\ ToCount(i) \in SUBSET Requests /\ OneEach[r] = 1
    BY OverrunFacts, MasterKeysAssumption DEF LedgerInv, OverrunInv, OneEach
  <2>2. Within(counter[<<i, "rpm">>], ToCount(i), Rpm, OneEach, 1)
    BY DEF OverrunInv, RpmWithin
  <2>3. CASE Of(r, i)
    <3>1. r \in ToCount(i)
      BY <1>2, <2>3 DEF ToCount, PastRpm
    <3>2. ToCount(i)' \in SUBSET (ToCount(i) \ {r})
      BY <1>5
    <3>3. counter'[<<i, "rpm">>] = counter[<<i, "rpm">>] + 1
      BY <1>2, <2>3, Zenon
    <3>4. Within(counter[<<i, "rpm">>] + OneEach[r], ToCount(i)', Rpm, OneEach, 1)
      BY <2>1, <2>2, <3>1, <3>2, Paid
    <3> QED
      BY <2>1, <3>3, <3>4, Zenon
  <2>4. CASE ~ Of(r, i)
    <3>1. ToCount(i)' \in SUBSET ToCount(i)
      BY <1>5
    <3>2. counter'[<<i, "rpm">>] = counter[<<i, "rpm">>]
      BY <1>1, <1>2, <2>4
    <3>3. counter[<<i, "rpm">>] \in 0 .. counter[<<i, "rpm">>]
      BY <2>1
    <3>4. Within(counter[<<i, "rpm">>], ToCount(i)', Rpm, OneEach, 1)
      BY <2>1, <2>2, <3>1, <3>3, Relaxed
    <3> QED
      BY <3>2, <3>4, Zenon
  <2> QED
    BY <2>3, <2>4
<1> QED
  BY <1>3, <1>4, <1>6, <1>7 DEF OverrunInv, Control

LEMMA TpmRaised ==
  ASSUME LedgerInv, LedgerInv', OverrunInv, NEW r \in Requests, NEW next,
         Advances(r, next), next \notin PastRpm \cup PastTpm, pc[r] = "incrby", Count(r, "tpm", cost[r])
  PROVE  OverrunInv'
<1>1. "rpm" \in Kinds /\ "tpm" \in Kinds /\ pc[r] \in Recording /\ cost[r] \in Nat
  BY DEF Kinds, Recording, LedgerInv, LedgerType
<1>2. /\ WithRedis /\ counter' \in [Ids \X Kinds -> Nat]
      /\ \A i \in Ids : Of(r, i) => counter'[<<i, "tpm">>] = counter[<<i, "tpm">>] + cost[r]
      /\ \A i \in Ids, k \in Kinds :
           ~ Of(r, i) \/ k # "tpm" => counter'[<<i, k>>] = counter[<<i, k>>]
  BY <1>1, Raised, Zenon
<1>3. Control'
  BY <1>2, AdvanceControl
<1>4. QuotaWithin'
  BY <1>3, AdvanceQuota
<1>5. ASSUME NEW i \in Ids
      PROVE  /\ ToAdd(i)' = ToAdd(i) \ {r}
             /\ ToCount(i)' \subseteq ToCount(i)
             /\ counter'[<<i, "rpm">>] <= counter[<<i, "rpm">>]
  <2>2. r \notin ToCount(i)' /\ r \notin ToAdd(i)'
    BY AdvanceSets
  <2>3. counter[<<i, "rpm">>] \in Nat /\ counter'[<<i, "rpm">>] = counter[<<i, "rpm">>]
    BY <1>1, <1>2, OverrunFacts DEF LedgerInv, OverrunInv
  <2>4. counter'[<<i, "rpm">>] <= counter[<<i, "rpm">>]
    BY <2>3, Unmoved, Zenon
  <2>5. ToAdd(i)' = ToAdd(i) \ {r} /\ ToCount(i)' \subseteq ToCount(i)
    BY <2>2, AdvanceSets
  <2> QED
    BY <2>4, <2>5, Zenon
<1>6. RpmWithin'
  BY <1>3, <1>5, RpmFrame DEF LedgerInv, OverrunInv, Control
<1>7. TpmWithin'
  <2> SUFFICES ASSUME Tpm > 0, NEW i \in Ids
               PROVE  Within(counter'[<<i, "tpm">>], ToAdd(i)', Tpm, cost, MaxCost)
    BY DEF TpmWithin, MaxCost, Within, Others, Advances
  <2>1. counter[<<i, "tpm">>] \in Nat /\ cost \in Prices(MaxCost) /\ MaxCost \in Nat
        /\ Tpm \in Nat /\ ToAdd(i) \in SUBSET Requests
    BY OverrunFacts, MasterKeysAssumption DEF LedgerInv, OverrunInv
  <2>2. Within(counter[<<i, "tpm">>], ToAdd(i), Tpm, cost, MaxCost)
    BY DEF OverrunInv, TpmWithin
  <2>3. CASE Of(r, i)
    <3>1. r \in ToAdd(i)
      BY <1>2, <2>3 DEF ToAdd, PastTpm
    <3>2. ToAdd(i)' \in SUBSET (ToAdd(i) \ {r})
      BY <1>5
    <3>3. counter'[<<i, "tpm">>] = counter[<<i, "tpm">>] + cost[r]
      BY <1>2, <2>3, Zenon
    <3>4. Within(counter[<<i, "tpm">>] + cost[r], ToAdd(i)', Tpm, cost, MaxCost)
      BY <2>1, <2>2, <3>1, <3>2, Paid
    <3> QED
      BY <3>3, <3>4, Zenon
  <2>4. CASE ~ Of(r, i)
    <3>1. ToAdd(i)' \in SUBSET ToAdd(i)
      BY <1>5
    <3>2. counter'[<<i, "tpm">>] = counter[<<i, "tpm">>]
      BY <1>1, <1>2, <2>4
    <3>3. counter[<<i, "tpm">>] \in 0 .. counter[<<i, "tpm">>]
      BY <2>1
    <3>4. Within(counter[<<i, "tpm">>], ToAdd(i)', Tpm, cost, MaxCost)
      BY <2>1, <2>2, <3>1, <3>3, Relaxed
    <3> QED
      BY <3>2, <3>4, Zenon
  <2> QED
    BY <2>3, <2>4
<1> QED
  BY <1>3, <1>4, <1>6, <1>7 DEF OverrunInv, Control

\* The charge was counted on too: its request passed the check of the quota.
LEMMA Charged ==
  ASSUME LedgerInv, LedgerInv', OverrunInv, NEW r \in Requests, pc[r] = "charge",
         copy[r].id \in Present, Charge(r), End(r), UNCHANGED <<counter, ceiling>>
  PROVE  OverrunInv'
<1> DEFINE i == copy[r].id
<1>1. copy[r] # NoKey
  BY DEF LedgerInv, CopiesPresent
<1>2. /\ i \in Ids /\ i \in Present /\ keys[i] \in MasterKey /\ keys[i].used \in Nat
      /\ Ceiling(i) \in Nat \cup {Unlimited}
      /\ cost \in Prices(MaxCost) /\ MaxCost \in Nat /\ cost[r] \in Nat
  BY OverrunFacts DEF LedgerInv, LedgerType, OverrunInv
<1> DEFINE k == [keys[i] EXCEPT !.used = @ + cost[r]]
<1>3. k \in MasterKey /\ k.quota = keys[i].quota /\ k.serial = keys[i].serial
      /\ k.used = keys[i].used + cost[r]
  BY <1>2 DEF MasterKey
<1>4. keys' = [keys EXCEPT ![i] = k]
  BY <1>2 DEF Charge, LedgerInv, LedgerType
<1>5. r \in ToCharge(i)
  BY <1>1 DEF OverrunInv, QuotaIsChecked, PastQuota, ToCharge, Of
<1> HIDE DEF k, i
<1>6. k # NoKey
  BY <1>3, MasterKeysAssumption
<1>7. keys'[i] = k /\ \A j \in Ids : j # i => keys'[j] = keys[j]
  BY <1>2, <1>4 DEF LedgerInv, LedgerType
<1>8. Present' = Present
  BY <1>2, <1>6, <1>7 DEF Present
<1>9. Control' /\ RpmWithin' /\ TpmWithin'
  BY Ended
<1>10. cost' \in Prices(MaxCost)
  BY <1>9, MaxCostIsLargest DEF Control, OverrunType, Prices
<1>11. QuotaWithin'
  <2> SUFFICES ASSUME NEW j \in Present, Ceiling(j)' # Unlimited
               PROVE  /\ keys'[j].quota # Unlimited /\ keys'[j].quota <= Ceiling(j)'
                      /\ Within(keys'[j].used, ToCharge(j)', Ceiling(j)', cost', MaxCost)
    BY <1>8 DEF QuotaWithin, MaxCost, Within, Others
  <2>1. j \in Ids /\ keys[j].used \in Nat /\ Ceiling(j) \in Nat \cup {Unlimited}
        /\ ToCharge(j) \in SUBSET Requests
    BY OverrunFacts DEF LedgerInv, OverrunInv, Present
  <2>2. keys'[j].serial = keys[j].serial /\ keys'[j].quota = keys[j].quota
    BY <1>3, <1>7, <2>1
  <2>3. Ceiling(j)' = Ceiling(j)
    BY <2>2 DEF Ceiling
  <2>4. /\ keys[j].quota # Unlimited /\ keys[j].quota <= Ceiling(j)
        /\ Within(keys[j].used, ToCharge(j), Ceiling(j), cost, MaxCost)
    BY <2>3 DEF OverrunInv, QuotaWithin
  <2>5. ToCharge(j)' = ToCharge(j) \ {r} /\ \A q \in ToCharge(j)' : cost'[q] = cost[q]
    BY <2>1, Ended
  <2>6. Ceiling(j) \in Nat
    BY <2>1, <2>3
  <2>7. CASE j = i
    <3>1. ToCharge(j)' \in SUBSET (ToCharge(j) \ {r}) /\ r \in ToCharge(j)
      BY <1>5, <2>5, <2>7
    <3>2. Within(keys[j].used + cost[r], ToCharge(j)', Ceiling(j), cost', MaxCost)
      BY <1>2, <1>10, <2>1, <2>4, <2>5, <2>6, <3>1, Paid
    <3>3. keys'[j].used = keys[j].used + cost[r]
      BY <1>3, <1>7, <2>7
    <3> QED
      BY <2>2, <2>3, <2>4, <3>2, <3>3
  <2>8. CASE j # i
    <3>1. ToCharge(j)' \in SUBSET ToCharge(j) /\ keys[j].used \in 0 .. keys[j].used
      BY <2>1, <2>5
    <3>2. Within(keys[j].used, ToCharge(j)', Ceiling(j), cost', MaxCost)
      BY <1>2, <1>10, <2>1, <2>4, <2>5, <2>6, <3>1, Relaxed
    <3>3. keys'[j].used = keys[j].used
      BY <1>7, <2>1, <2>8
    <3> QED
      BY <2>2, <2>3, <2>4, <3>2, <3>3
  <2> QED
    BY <2>7, <2>8
<1> QED
  BY <1>9, <1>11 DEF OverrunInv, Control

LEMMA RequestOverrun ==
  ASSUME LedgerInv, LedgerInv', OverrunInv, NEW r \in Requests, RequestStep(r)
  PROVE  OverrunInv'
<1>1. CASE Arrive(r)
  BY <1>1, Arrived
<1>2. CASE End(r) /\ UNCHANGED <<keys, ceiling, counter>>
  BY <1>2, EndedQuota
<1>3. ASSUME NEW from \in Steps \ {"idle"}, NEW to \in Steps \ {"idle"}, Step(r, from, to),
             UNCHANGED <<keys, ceiling, copy, cost>>,
             to \in {"rpm", "tpm"} \cup Recording => WithRedis,
             to \in PastQuota /\ copy[r] # NoKey => QuotaLeft(r)
      PROVE  Advances(r, to)
  BY <1>3 DEF Advances, Step
<1>4. /\ Recording \subseteq Steps \ {"idle"}
      /\ {"rpm", "tpm", "quota", "working", "charge"} \subseteq Steps \ {"idle"}
  BY DEF Recording, Steps
<1>5. pc[r] \in PastQuota /\ copy[r] # NoKey => QuotaLeft(r)
  BY DEF OverrunInv, QuotaIsChecked
<1>6. pc[r] \in {"rpm", "tpm"} \cup Recording => WithRedis
  BY DEF OverrunInv, RedisOnlyIfConfigured
<1>7. CASE CheckRpm(r)
  <2>1. CASE RpmLeft(r) /\ Go(r, "rpm", "tpm")
    <3>1. Advances(r, "tpm") /\ pc[r] = "rpm" /\ counter' = counter
      BY <1>3, <1>4, <1>6, <1>7, <2>1
         DEF CheckRpm, Go, Step, storeVars, redisVars, PastQuota, Recording
    <3> QED
      BY <2>1, <3>1, RpmChecked
  <2> QED
    BY <1>2, <1>7, <2>1 DEF CheckRpm, Check, storeVars, redisVars
<1>8. CASE CheckTpm(r)
  <2>1. CASE TpmLeft(r) /\ Go(r, "tpm", "quota")
    <3>1. Advances(r, "quota") /\ pc[r] = "tpm" /\ counter' = counter
      BY <1>3, <1>4, <1>8, <2>1
         DEF CheckTpm, Go, Step, storeVars, redisVars, PastQuota, Recording
    <3> QED
      BY <2>1, <3>1, TpmChecked
  <2> QED
    BY <1>2, <1>8, <2>1 DEF CheckTpm, Check, storeVars, redisVars
<1>9. CASE CheckQuota(r)
  <2>1. CASE QuotaLeft(r) /\ Go(r, "quota", "working")
    <3>1. Advances(r, "working") /\ pc[r] = "quota" /\ counter' = counter
      BY <1>3, <1>4, <1>9, <2>1
         DEF CheckQuota, Go, Step, storeVars, redisVars, Recording
    <3> QED
      BY <3>1, Advanced DEF PastRpm, PastTpm
  <2> QED
    BY <1>2, <1>9, <2>1 DEF CheckQuota, Check, storeVars, redisVars
<1>10. CASE GiveUp(r)
  BY <1>2, <1>10 DEF GiveUp, storeVars, redisVars
<1>11. CASE Answered(r)
  <2>1. CASE copy[r] # NoKey /\ Step(r, "working", IF WithRedis THEN "incr" ELSE "charge")
             /\ UNCHANGED <<copy, cost, late>>
    <3> DEFINE next == IF WithRedis THEN "incr" ELSE "charge"
    <3>1. next \in Steps \ {"idle"} /\ (next \in {"rpm", "tpm"} \cup Recording => WithRedis)
      BY DEF Steps, Recording
    <3>2. Step(r, "working", next) /\ UNCHANGED <<keys, ceiling, counter>>
          /\ (next \in PastRpm \cup PastTpm => next = "incr")
      BY <1>11, <2>1 DEF Answered, storeVars, redisVars, PastRpm, PastTpm
    <3> HIDE DEF next
    <3>3. pc[r] = "working" /\ QuotaLeft(r)
      BY <1>5, <2>1, <3>2 DEF Step, PastQuota
    <3>4. Advances(r, next)
      BY <1>3, <1>4, <2>1, <3>1, <3>2, <3>3
    <3> QED
      BY <3>2, <3>3, <3>4, Advanced DEF PastRpm, PastTpm
  <2> QED
    BY <1>2, <1>11, <2>1 DEF Answered, storeVars, redisVars
<1>12. ASSUME NEW from \in Recording, NEW to \in Recording \cup {"charge"}, Step(r, from, to),
              UNCHANGED <<keys, ceiling, copy, cost>>
       PROVE  Advances(r, to)
  <2>1. pc[r] = from /\ copy[r] # NoKey
    BY <1>12 DEF Step, LedgerInv, CopiesPresent, Recording
  <2> QED
    BY <1>3, <1>4, <1>5, <1>6, <1>12, <2>1 DEF PastQuota, Recording
<1>13. CASE IncrRpm(r)
  <2>1. Advances(r, "expire rpm") /\ pc[r] = "incr" /\ Count(r, "rpm", 1)
    BY <1>12, <1>13 DEF IncrRpm, Go, Step, storeVars, Recording
  <2> QED
    BY <2>1, RpmRaised DEF PastRpm
<1>14. CASE ExpireRpm(r)
  <2>1. Advances(r, "incrby") /\ pc[r] = "expire rpm" /\ counter' = counter
    BY <1>12, <1>14 DEF ExpireRpm, Go, Step, storeVars, Recording
  <2> QED
    BY <2>1, Advanced DEF PastRpm, PastTpm
<1>15. CASE IncrByTpm(r)
  <2>1. Advances(r, "expire tpm") /\ pc[r] = "incrby" /\ Count(r, "tpm", cost[r])
    BY <1>12, <1>15 DEF IncrByTpm, Go, Step, storeVars, Recording
  <2> QED
    BY <2>1, TpmRaised DEF PastRpm, PastTpm
<1>16. CASE ExpireTpm(r)
  <2>1. Advances(r, "charge") /\ pc[r] = "expire tpm" /\ counter' = counter
    BY <1>12, <1>16 DEF ExpireTpm, Step, storeVars, Recording
  <2> QED
    BY <2>1, Advanced DEF PastRpm, PastTpm
<1>17. CASE IncrementQuota(r)
  BY <1>2, <1>17, Charged DEF IncrementQuota, redisVars
<1> QED
  BY <1>1, <1>7, <1>8, <1>9, <1>10, <1>11, <1>13, <1>14, <1>15, <1>16, <1>17 DEF RequestStep

-----------------------------------------------------------------------------
(* How far limits are overrun: administration, and the turn of the minute. *)

\* What leaves the requests alone leaves their sets alone.
LEMMA RequestsStay ==
  ASSUME LedgerInv, LedgerInv', OverrunInv, UNCHANGED <<pc, copy, cost>>,
         ceiling' \in [Ids -> Nat \cup {Unlimited}], counter' \in [Ids \X Kinds -> Nat],
         \A i \in Ids : /\ counter'[<<i, "rpm">>] <= counter[<<i, "rpm">>]
                        /\ counter'[<<i, "tpm">>] <= counter[<<i, "tpm">>]
  PROVE  /\ Control' /\ RpmWithin' /\ TpmWithin'
         /\ \A i \in Ids : ToCharge(i)' = ToCharge(i)
<1>1. Control'
  BY DEF Control, OverrunInv, OverrunType, IdleIsForgotten, RedisOnlyIfConfigured,
         QuotaIsChecked, QuotaLeft
<1>2. \A i \in Ids : /\ ToCount(i)' = ToCount(i) /\ ToAdd(i)' = ToAdd(i)
                     /\ ToCharge(i)' = ToCharge(i)
  BY DEF ToCount, ToAdd, ToCharge, Of, QuotaLeft
<1>3. RpmWithin'
  BY <1>1, <1>2, RpmFrame DEF LedgerInv, OverrunInv, Control
<1>4. TpmWithin'
  BY <1>1, <1>2, TpmFrame DEF LedgerInv, OverrunInv, Control
<1> QED
  BY <1>1, <1>2, <1>3, <1>4

\* Counters that Redis drops only make room.
LEMMA Dropped ==
  ASSUME LedgerInv, LedgerInv', OverrunInv, NEW S,
         counter' = [x \in DOMAIN counter |-> IF x \in S THEN 0 ELSE counter[x]],
         UNCHANGED <<pc, copy, cost, keys, ceiling>>
  PROVE  OverrunInv'
<1>1. counter \in [Ids \X Kinds -> Nat] /\ ceiling \in [Ids -> Nat \cup {Unlimited}]
  BY DEF OverrunInv, OverrunType
<1>2. counter' = [x \in Ids \X Kinds |-> IF x \in S THEN 0 ELSE counter[x]]
  BY <1>1
<1>3. \A x \in Ids \X Kinds : counter'[x] \in Nat /\ counter'[x] <= counter[x]
  BY <1>1, <1>2
<1>4. counter' \in [Ids \X Kinds -> Nat]
  BY <1>1, <1>2
<1>5. ASSUME NEW i \in Ids
      PROVE  /\ counter'[<<i, "rpm">>] <= counter[<<i, "rpm">>]
             /\ counter'[<<i, "tpm">>] <= counter[<<i, "tpm">>]
  <2>1. <<i, "rpm">> \in Ids \X Kinds /\ <<i, "tpm">> \in Ids \X Kinds
    BY DEF Kinds
  <2> QED
    BY <1>3, <2>1, Zenon
<1>6. /\ Control' /\ RpmWithin' /\ TpmWithin' /\ Present' = Present
      /\ \A i \in Ids : ToCharge(i)' = ToCharge(i)
  BY <1>1, <1>4, <1>5, RequestsStay DEF Present
<1>7. ASSUME NEW i \in Present
      PROVE  /\ Ceiling(i)' = Ceiling(i) /\ ToCharge(i)' = ToCharge(i)
             /\ Ceiling(i) # Unlimited => /\ Ceiling(i) <= Ceiling(i)
                                          /\ keys[i].quota # Unlimited
                                          /\ keys[i].quota <= Ceiling(i)
  <2>1. i \in Ids /\ Ceiling(i) \in Nat \cup {Unlimited}
    BY OverrunFacts DEF LedgerInv, OverrunInv
  <2>2. Ceiling(i)' = Ceiling(i)
    BY DEF Ceiling
  <2> QED
    BY <1>6, <2>1, <2>2 DEF OverrunInv, QuotaWithin, Unlimited
<1>8. QuotaWithin'
  BY <1>6, <1>7, QuotaFrame DEF LedgerInv, OverrunInv, Control
<1> QED
  BY <1>6, <1>8 DEF OverrunInv, Control

LEMMA AddedOverrun ==
  ASSUME LedgerInv, LedgerInv', OverrunInv, AddMasterKey
  PROVE  OverrunInv'
<1> PICK token \in Tokens, quota \in Quotas, status \in Statuses :
      /\ keys' = [keys EXCEPT ![nextId] =
           [token |-> token, quota |-> quota, used |-> 0, status |-> status,
            serial |-> created + 1]]
      /\ ceiling' = [ceiling EXCEPT ![created + 1] = quota]
  BY DEF AddMasterKey, FreshId
<1> DEFINE k == [token |-> token, quota |-> quota, used |-> 0, status |-> status,
                 serial |-> created + 1]
<1>1. /\ nextId \in Ids /\ created \in Nat /\ created + 1 \in Ids
      /\ UNCHANGED <<pc, copy, cost, counter>>
      /\ quota \in Nat \cup {Unlimited}
  BY MasterKeysAssumption
     DEF AddMasterKey, FreshId, LedgerInv, LedgerType, Ids, requestVars, redisVars
<1>2. k.quota = quota /\ k.used = 0 /\ k.serial = created + 1 /\ keys' = [keys EXCEPT ![nextId] = k]
  OBVIOUS
<1> HIDE DEF k
<1>3. nextId \notin Present /\ keys'[nextId] = k
      /\ \A i \in Ids : i # nextId => keys'[i] = keys[i]
  BY <1>1, <1>2 DEF LedgerInv, LedgerType, IdsNeverReturn
<1>4. \A i \in Present' : i \in Ids /\ (i # nextId => i \in Present)
  BY <1>3 DEF Present
<1>5. ceiling \in [Ids -> Nat \cup {Unlimited}] /\ counter \in [Ids \X Kinds -> Nat]
  BY DEF OverrunInv, OverrunType
<1>6. ceiling' \in [Ids -> Nat \cup {Unlimited}] /\ ceiling'[created + 1] = quota
      /\ \A s \in Ids : s # created + 1 => ceiling'[s] = ceiling[s]
  BY <1>1, <1>5
<1>7. \A i \in Ids : /\ counter'[<<i, "rpm">>] <= counter[<<i, "rpm">>]
                     /\ counter'[<<i, "tpm">>] <= counter[<<i, "tpm">>]
  BY <1>1, CountersStay DEF LedgerInv, OverrunInv
<1>8. /\ Control' /\ RpmWithin' /\ TpmWithin' /\ \A i \in Ids : ToCharge(i)' = ToCharge(i)
  BY <1>1, <1>5, <1>6, <1>7, RequestsStay
<1>9. QuotaWithin'
  <2> SUFFICES ASSUME NEW i \in Present', Ceiling(i)' # Unlimited
               PROVE  /\ keys'[i].quota # Unlimited /\ keys'[i].quota <= Ceiling(i)'
                      /\ Within(keys'[i].used, ToCharge(i)', Ceiling(i)', cost, MaxCost)
    BY <1>1 DEF QuotaWithin, MaxCost, Within, Others
  <2>1. i \in Ids /\ ToCharge(i)' = ToCharge(i)
    BY <1>4, <1>8
  <2>2. CASE i = nextId
    <3>1. keys'[i].quota = quota /\ keys'[i].used = 0 /\ Ceiling(i)' = quota
      BY <1>2, <1>3, <1>6, <2>2 DEF Ceiling
    <3>2. ToCharge(i) = {}
      BY <2>2 DEF ToCharge, Of, LedgerInv, LedgerType, IdsNeverReturn, KeyCopy, Ids
    <3>3. quota \in Nat
      BY <1>1, <3>1
    <3>4. Within(0, {}, quota, cost, MaxCost)
      BY <3>3, OverrunFacts, NothingYet DEF LedgerInv, OverrunInv
    <3> QED
      BY <2>1, <3>1, <3>2, <3>3, <3>4
  <2>3. CASE i # nextId
    <3>1. i \in Present /\ keys'[i] = keys[i]
      BY <1>3, <1>4, <2>1, <2>3
    <3>2. keys[i].serial \in Ids /\ keys[i].serial # created + 1
      BY <1>1, <3>1, OverrunFacts DEF LedgerInv, OverrunInv, SerialsDiffer, Ids
    <3>3. Ceiling(i)' = Ceiling(i)
      BY <1>6, <3>1, <3>2 DEF Ceiling
    <3> QED
      BY <2>1, <3>1, <3>3 DEF OverrunInv, QuotaWithin
  <2> QED
    BY <2>2, <2>3
<1> QED
  BY <1>8, <1>9 DEF OverrunInv, Control

\* A new quota never lowers the ceiling of its key.
LEMMA EditedOverrun ==
  ASSUME LedgerInv, LedgerInv', OverrunInv, NEW i \in Present, NEW token \in Tokens,
         NEW quota \in Quotas, NEW status \in Statuses, Mutated(i, token, quota, status)
  PROVE  OverrunInv'
<1>1. i \in Ids /\ keys[i] \in MasterKey /\ keys[i].serial \in Ids
      /\ Ceiling(i) \in Nat \cup {Unlimited}
  BY OverrunFacts DEF LedgerInv, OverrunInv
<1> DEFINE k == [keys[i] EXCEPT !.token = token, !.quota = quota, !.status = status]
           high == Higher(Ceiling(i), quota)
<1>2. k \in MasterKey /\ k.quota = quota /\ k.used = keys[i].used /\ k.serial = keys[i].serial
  BY <1>1 DEF MasterKey
<1>3. keys' = [keys EXCEPT ![i] = k] /\ UNCHANGED <<pc, copy, cost, counter>>
      /\ ceiling' = [ceiling EXCEPT ![keys[i].serial] = high]
  BY <1>1 DEF Mutated, requestVars, redisVars, LedgerInv, LedgerType, Ceiling
<1>4. quota \in Nat \cup {Unlimited}
  BY MasterKeysAssumption
<1>5. /\ high \in Nat \cup {Unlimited}
      /\ high # Unlimited => /\ Ceiling(i) # Unlimited /\ quota # Unlimited
                             /\ Ceiling(i) <= high /\ quota <= high
  BY <1>1, <1>4, HigherIsLargest
<1> HIDE DEF k, high
<1>6. k # NoKey
  BY <1>2, MasterKeysAssumption
<1>7. keys'[i] = k /\ \A j \in Ids : j # i => keys'[j] = keys[j]
  BY <1>1, <1>3 DEF LedgerInv, LedgerType
<1>8. Present' = Present
  BY <1>1, <1>6, <1>7 DEF Present
<1>9. ceiling \in [Ids -> Nat \cup {Unlimited}] /\ counter \in [Ids \X Kinds -> Nat]
  BY DEF OverrunInv, OverrunType
<1>10. ceiling' \in [Ids -> Nat \cup {Unlimited}] /\ ceiling'[keys[i].serial] = high
       /\ \A s \in Ids : s # keys[i].serial => ceiling'[s] = ceiling[s]
  BY <1>1, <1>3, <1>5, <1>9
<1>11. \A j \in Ids : /\ counter'[<<j, "rpm">>] <= counter[<<j, "rpm">>]
                      /\ counter'[<<j, "tpm">>] <= counter[<<j, "tpm">>]
  BY <1>3, CountersStay DEF LedgerInv, OverrunInv
<1>12. /\ Control' /\ RpmWithin' /\ TpmWithin' /\ \A j \in Ids : ToCharge(j)' = ToCharge(j)
  BY <1>3, <1>9, <1>10, <1>11, RequestsStay
<1>13. ASSUME NEW j \in Present
       PROVE  /\ keys'[j].used = keys[j].used /\ ToCharge(j)' = ToCharge(j)
              /\ Ceiling(j)' # Unlimited =>
                   /\ Ceiling(j) # Unlimited /\ Ceiling(j) <= Ceiling(j)'
                   /\ keys'[j].quota # Unlimited /\ keys'[j].quota <= Ceiling(j)'
  <2>1. j \in Ids /\ keys[j].serial \in Ids /\ Ceiling(j) \in Nat \cup {Unlimited}
    BY OverrunFacts DEF LedgerInv, OverrunInv
  <2>2. CASE j = i
    <3>1. keys'[j] = k /\ Ceiling(j)' = high
      BY <1>2, <1>7, <1>10, <2>2 DEF Ceiling
    <3> QED
      BY <1>2, <1>5, <1>12, <2>1, <2>2, <3>1
  <2>3. CASE j # i
    <3>1. keys'[j] = keys[j] /\ keys[j].serial # keys[i].serial
      BY <1>7, <2>1, <2>3 DEF LedgerInv, SerialsDiffer
    <3>2. Ceiling(j)' = Ceiling(j)
      BY <1>10, <2>1, <3>1 DEF Ceiling
    <3> QED
      BY <1>12, <2>1, <3>1, <3>2 DEF OverrunInv, QuotaWithin, Unlimited
  <2> QED
    BY <2>2, <2>3
<1>14. QuotaWithin'
  BY <1>3, <1>8, <1>12, <1>13, QuotaFrame DEF LedgerInv, OverrunInv, Control
<1> QED
  BY <1>12, <1>14 DEF OverrunInv, Control

LEMMA DeletedOverrun ==
  ASSUME LedgerInv, LedgerInv', OverrunInv, DeleteMasterKey
  PROVE  OverrunInv'
<1> PICK i \in Present :
      /\ keys' = [keys EXCEPT ![i] = NoKey]
      /\ ceiling' = [ceiling EXCEPT ![keys[i].serial] = 0]
  BY DEF DeleteMasterKey
<1>1. i \in Ids /\ keys[i].serial \in Ids /\ UNCHANGED <<pc, copy, cost, counter>>
  BY OverrunFacts DEF LedgerInv, OverrunInv, DeleteMasterKey, requestVars, redisVars
<1>2. keys'[i] = NoKey /\ \A j \in Ids : j # i => keys'[j] = keys[j]
  BY <1>1 DEF LedgerInv, LedgerType
<1>3. Present' = Present \ {i}
  BY <1>1, <1>2 DEF Present
<1>4. ceiling \in [Ids -> Nat \cup {Unlimited}] /\ counter \in [Ids \X Kinds -> Nat]
  BY DEF OverrunInv, OverrunType
<1>5. ceiling' \in [Ids -> Nat \cup {Unlimited}]
      /\ \A s \in Ids : s # keys[i].serial => ceiling'[s] = ceiling[s]
  BY <1>1, <1>4
<1>6. \A j \in Ids : /\ counter'[<<j, "rpm">>] <= counter[<<j, "rpm">>]
                     /\ counter'[<<j, "tpm">>] <= counter[<<j, "tpm">>]
  BY <1>1, CountersStay DEF LedgerInv, OverrunInv
<1>7. /\ Control' /\ RpmWithin' /\ TpmWithin' /\ \A j \in Ids : ToCharge(j)' = ToCharge(j)
  BY <1>1, <1>4, <1>5, <1>6, RequestsStay
<1>8. ASSUME NEW j \in Present \ {i}
      PROVE  /\ keys'[j] = keys[j] /\ ToCharge(j)' = ToCharge(j) /\ Ceiling(j)' = Ceiling(j)
             /\ Ceiling(j) # Unlimited => /\ Ceiling(j) <= Ceiling(j)
                                          /\ keys[j].quota # Unlimited
                                          /\ keys[j].quota <= Ceiling(j)
  <2>1. j \in Ids /\ keys[j].serial \in Ids /\ Ceiling(j) \in Nat \cup {Unlimited}
    BY OverrunFacts DEF LedgerInv, OverrunInv
  <2>2. keys'[j] = keys[j] /\ keys[j].serial # keys[i].serial
    BY <1>2, <2>1 DEF LedgerInv, SerialsDiffer
  <2>3. Ceiling(j)' = Ceiling(j)
    BY <1>5, <2>1, <2>2 DEF Ceiling
  <2> QED
    BY <1>7, <2>1, <2>2, <2>3 DEF OverrunInv, QuotaWithin, Unlimited
<1>9. QuotaWithin'
  BY <1>1, <1>3, <1>7, <1>8, QuotaFrame DEF LedgerInv, OverrunInv, Control
<1> QED
  BY <1>7, <1>9 DEF OverrunInv, Control

-----------------------------------------------------------------------------
(* How far limits are overrun: the theorem.                                *)

LEMMA OverrunInitially == Init => OverrunInv
<1> SUFFICES ASSUME Init PROVE OverrunInv
  OBVIOUS
<1>1. Control
  BY DEF Init, Control, OverrunType, IdleIsForgotten, RedisOnlyIfConfigured,
         QuotaIsChecked, PastQuota, Recording
<1>2. \A i \in Ids : ToCount(i) = {} /\ ToAdd(i) = {}
  BY DEF Init, ToCount, ToAdd, Of
<1>3. \A i \in Ids : counter[<<i, "rpm">>] = 0 /\ counter[<<i, "tpm">>] = 0
  BY DEF Init, Kinds
<1>4. LedgerType
  BY LedgerInitially DEF LedgerInv
<1>5. cost \in Prices(MaxCost) /\ OneEach \in Prices(1) /\ MaxCost \in Nat
      /\ Rpm \in Nat /\ Tpm \in Nat
  BY <1>1, <1>4, OverrunFacts, MasterKeysAssumption DEF Control
<1>6. Within(0, {}, Rpm, OneEach, 1) /\ Within(0, {}, Tpm, cost, MaxCost)
  BY <1>5, NothingYet
<1>7. RpmWithin /\ TpmWithin
  BY <1>2, <1>3, <1>6, Zenon DEF RpmWithin, TpmWithin
<1>8. Present = {}
  BY DEF Init, Present
<1>9. QuotaWithin
  BY <1>8 DEF QuotaWithin
<1> QED
  BY <1>1, <1>7, <1>9 DEF OverrunInv, Control

LEMMA OverrunKept == LedgerInv /\ OverrunInv /\ [Next]_vars => OverrunInv'
<1> SUFFICES ASSUME LedgerInv, OverrunInv, [Next]_vars PROVE OverrunInv'
  OBVIOUS
<1>0. LedgerInv'
  BY LedgerKept
<1>1. CASE AddMasterKey
  BY <1>0, <1>1, AddedOverrun
<1>2. CASE UpdateMasterKey
  BY <1>0, <1>2, EditedOverrun DEF UpdateMasterKey
<1>3. ASSUME NEW i \in Present
      PROVE  keys[i].token \in Tokens /\ keys[i].quota \in Quotas /\ keys[i].status \in Statuses
  BY DEF Present, LedgerInv, LedgerType, MasterKey
<1>4. CASE UpdateMasterKeyStatus
  BY <1>0, <1>3, <1>4, EditedOverrun DEF UpdateMasterKeyStatus
<1>5. CASE RotateMasterKey
  BY <1>0, <1>3, <1>5, EditedOverrun DEF RotateMasterKey
<1>6. CASE DeleteMasterKey
  BY <1>0, <1>6, DeletedOverrun
<1>7. CASE MinuteTurns
  <2> PICK S : Drop(S)
    BY <1>7 DEF MinuteTurns
  <2> QED
    BY <1>0, <1>7, Dropped DEF MinuteTurns, storeVars, Drop
<1>8. CASE RunsOut
  <2> PICK S : Drop(S)
    BY <1>8 DEF RunsOut
  <2> QED
    BY <1>0, <1>8, Dropped DEF RunsOut, storeVars, requestVars, Drop
<1>9. CASE \E r \in Requests : RequestStep(r)
  BY <1>0, <1>9, RequestOverrun
<1>10. CASE UNCHANGED vars
  <2> DEFINE none == {}
  <2>1. counter' = [x \in DOMAIN counter |-> IF x \in none THEN 0 ELSE counter[x]]
    BY <1>10 DEF vars, redisVars, OverrunInv, OverrunType
  <2> HIDE DEF none
  <2>2. UNCHANGED <<pc, copy, cost, keys, ceiling>>
    BY <1>10 DEF vars, storeVars, requestVars
  <2> QED
    BY <1>0, <2>1, <2>2, Dropped
<1> QED
  BY <1>1, <1>2, <1>4, <1>5, <1>6, <1>7, <1>8, <1>9, <1>10 DEF Next

LEMMA OverrunFollows == LedgerInv /\ OverrunInv => OverrunIsBounded
<1> SUFFICES ASSUME LedgerInv, OverrunInv, NEW i \in Present
             PROVE  /\ Ceiling(i) # Unlimited =>
                         keys[i].used <= Ceiling(i) + Others * MaxCost
                    /\ Rpm > 0 => counter[<<i, "rpm">>] <= Rpm + Others
                    /\ Tpm > 0 => counter[<<i, "tpm">>] <= Tpm + Others * MaxCost
  BY Zenon DEF OverrunIsBounded, Ceiling, MaxCost
<1>1. /\ i \in Ids /\ keys[i].used \in Nat /\ Ceiling(i) \in Nat \cup {Unlimited}
      /\ counter[<<i, "rpm">>] \in Nat /\ counter[<<i, "tpm">>] \in Nat
      /\ ToCount(i) \in SUBSET Requests /\ ToAdd(i) \in SUBSET Requests
      /\ ToCharge(i) \in SUBSET Requests
      /\ cost \in Prices(MaxCost) /\ OneEach \in Prices(1) /\ MaxCost \in Nat
  BY OverrunFacts DEF LedgerInv, OverrunInv
<1>2. Rpm \in Nat /\ Tpm \in Nat /\ 1 \in Nat
  BY MasterKeysAssumption
<1>3. ASSUME Ceiling(i) # Unlimited PROVE keys[i].used <= Ceiling(i) + Others * MaxCost
  <2>1. Within(keys[i].used, ToCharge(i), Ceiling(i), cost, MaxCost)
    BY <1>3 DEF OverrunInv, QuotaWithin
  <2> QED
    BY <1>1, <1>3, <2>1, Bounded
<1>4. ASSUME Rpm > 0 PROVE counter[<<i, "rpm">>] <= Rpm + Others
  <2>1. Within(counter[<<i, "rpm">>], ToCount(i), Rpm, OneEach, 1)
    BY <1>1, <1>4 DEF OverrunInv, RpmWithin
  <2>2. counter[<<i, "rpm">>] <= Rpm + Others * 1
    BY <1>1, <1>2, <2>1, Bounded, Zenon
  <2>3. Others * 1 = Others
    BY RequestSets
  <2> QED
    BY <2>2, <2>3
<1>5. ASSUME Tpm > 0 PROVE counter[<<i, "tpm">>] <= Tpm + Others * MaxCost
  <2>1. Within(counter[<<i, "tpm">>], ToAdd(i), Tpm, cost, MaxCost)
    BY <1>1, <1>5 DEF OverrunInv, TpmWithin
  <2> QED
    BY <1>1, <1>2, <2>1, Bounded
<1> QED
  BY <1>3, <1>4, <1>5

\* However many requests are open, whatever they cost and whatever
\* administrators do to quotas meanwhile, a limit is overrun by no more than
\* the other open requests can add (usage.go 21-75, status.go 73-88): every
\* check sees what was charged before its own request came in.
THEOREM LimitsAreNearlyKept == Spec => []OverrunIsBounded
<1> QED
  BY LedgerInitially, LedgerKept, OverrunInitially, OverrunKept, OverrunFollows, PTL DEF Spec

-----------------------------------------------------------------------------
(* The slot counters of RedisScheduler.                                     *)

\* The part of the type invariant that the counters rest on.
SlotsType ==
  /\ slots \in [Keys -> Nat] /\ lease \in [Keys -> 0 .. LockTtl]
  /\ holds \in [Callers -> Keys \cup {NoSlot}]
  /\ faults \in 0 .. MaxFaults

SlotsInv == SlotsType /\ CountersAreBounded /\ CountedSlotsAreHeld

LEMMA HoldersCounted ==
  ASSUME NEW k
  PROVE  IsFiniteSet(Holders(k)) /\ Cardinality(Holders(k)) \in Nat
<1>1. IsFiniteSet(Holders(k))
  BY FS_Subset, RedisAssumption DEF Holders
<1> QED
  BY <1>1, FS_CardinalityType

\* The holders of a key after one caller has taken or given back a key.
LEMMA OneTakes ==
  ASSUME SlotsType, NEW c \in Callers, NEW k \in Keys, holds[c] = NoSlot,
         holds' = [holds EXCEPT ![c] = k], NEW j \in Keys
  PROVE  Cardinality(Holders(j)') =
           Cardinality(Holders(j)) + (IF j = k THEN 1 ELSE 0)
<1>1. NoSlot \notin Keys
  BY RedisAssumption
<1>2. Holders(j)' = IF j = k THEN Holders(j) \cup {c} ELSE Holders(j)
  BY <1>1 DEF Holders, SlotsType
<1>3. c \notin Holders(j)
  BY <1>1 DEF Holders
<1>4. IsFiniteSet(Holders(j)) /\ Cardinality(Holders(j)) \in Nat
  BY HoldersCounted
<1>5. CASE j = k
  BY <1>2, <1>3, <1>4, <1>5, FS_AddElement
<1>6. CASE j # k
  BY <1>2, <1>4, <1>6
<1> QED
  BY <1>5, <1>6

LEMMA OneGivesBack ==
  ASSUME SlotsType, NEW c \in Callers, holds[c] # NoSlot,
         holds' = [holds EXCEPT ![c] = NoSlot], NEW j \in Keys
  PROVE  Cardinality(Holders(j)) =
           Cardinality(Holders(j)') + (IF j = holds[c] THEN 1 ELSE 0)
<1>1. NoSlot \notin Keys
  BY RedisAssumption
<1>2. Holders(j) = IF j = holds[c] THEN Holders(j)' \cup {c} ELSE Holders(j)'
  BY <1>1 DEF Holders, SlotsType
<1>3. c \notin Holders(j)'
  BY <1>1 DEF Holders, SlotsType
<1>4. IsFiniteSet(Holders(j)') /\ Cardinality(Holders(j)') \in Nat
  <2>1. IsFiniteSet(Holders(j)')
    BY FS_Subset, RedisAssumption DEF Holders
  <2> QED
    BY <2>1, FS_CardinalityType
<1>5. CASE j = holds[c]
  BY <1>2, <1>3, <1>4, <1>5, FS_AddElement
<1>6. CASE j # holds[c]
  BY <1>2, <1>4, <1>6
<1> QED
  BY <1>5, <1>6

\* Counters and deadlines only fall, each counter before its deadline, and nobody
\* takes or gives back a key.
CountersFall ==
  \A k \in Keys :
    /\ slots'[k] \in 0 .. slots[k] /\ lease'[k] \in 0 .. LockTtl
    /\ slots'[k] > 0 => lease'[k] > 0

LEMMA FallingKeeps ==
  ASSUME SlotsInv, UNCHANGED holds, faults' \in 0 .. faults, CountersFall,
         slots' \in [Keys -> Nat], lease' \in [Keys -> 0 .. LockTtl]
  PROVE  SlotsInv'
<1>1. SlotsType'
  BY RedisAssumption DEF SlotsInv, SlotsType
<1>2. CountersAreBounded'
  BY RedisAssumption DEF SlotsInv, SlotsType, CountersAreBounded, CountersFall
<1>3. CountedSlotsAreHeld'
  <2> SUFFICES ASSUME faults' = MaxFaults, NEW k \in Keys
               PROVE  slots'[k] \in 0 .. Cardinality(Holders(k)')
    BY DEF CountedSlotsAreHeld
  <2>1. faults = MaxFaults
    BY RedisAssumption DEF SlotsInv, SlotsType
  <2>2. Holders(k)' = Holders(k)
    BY DEF Holders
  <2>3. slots[k] \in 0 .. Cardinality(Holders(k)) /\ slots'[k] \in 0 .. slots[k]
    BY <2>1 DEF SlotsInv, CountedSlotsAreHeld, CountersFall
  <2> QED
    BY <2>2, <2>3, HoldersCounted DEF SlotsInv, SlotsType
<1> QED
  BY <1>1, <1>2, <1>3 DEF SlotsInv

LEMMA SlotsUntouched ==
  ASSUME SlotsInv, UNCHANGED <<slots, lease, holds>>, faults' \in 0 .. faults
  PROVE  SlotsInv'
<1>1. CountersFall
  BY DEF SlotsInv, SlotsType, CountersAreBounded, CountersFall
<1> QED
  BY <1>1, FallingKeeps DEF SlotsInv, SlotsType

\* The scripts that acquire, whether their reply arrives or not.
LEMMA AcquireKeeps ==
  ASSUME SlotsInv, NEW c \in Callers, NEW k \in Keys, holds[c] = NoSlot, slots[k] < Limit,
         Acquire(c, k)
  PROVE  SlotsInv'
<1>1. /\ slots' \in [Keys -> Nat] /\ lease' \in [Keys -> 0 .. LockTtl]
      /\ \A j \in Keys : slots'[j] = slots[j] + (IF j = k THEN 1 ELSE 0)
      /\ \A j \in Keys : lease'[j] = IF j = k THEN LockTtl ELSE lease[j]
  BY RedisAssumption DEF Acquire, TakeSlot, SlotsInv, SlotsType
<1>2. \/ holds' = [holds EXCEPT ![c] = k] /\ faults' = faults
      \/ holds' = holds /\ faults > 0 /\ faults' = faults - 1
  BY DEF Acquire
<1>3. SlotsType'
  BY <1>1, <1>2, RedisAssumption DEF SlotsInv, SlotsType
<1>4. CountersAreBounded'
  BY <1>1, RedisAssumption DEF SlotsInv, SlotsType, CountersAreBounded
<1>5. CountedSlotsAreHeld'
  <2> SUFFICES ASSUME faults' = MaxFaults, NEW j \in Keys
               PROVE  slots'[j] \in 0 .. Cardinality(Holders(j)')
    BY DEF CountedSlotsAreHeld
  <2>1. holds' = [holds EXCEPT ![c] = k] /\ faults = MaxFaults
    BY <1>2, RedisAssumption DEF SlotsInv, SlotsType
  <2>2. slots[j] \in 0 .. Cardinality(Holders(j))
    BY <2>1 DEF SlotsInv, CountedSlotsAreHeld
  <2>3. Cardinality(Holders(j)') = Cardinality(Holders(j)) + (IF j = k THEN 1 ELSE 0)
    BY <2>1, OneTakes DEF SlotsInv
  <2> QED
    BY <1>1, <2>2, <2>3, HoldersCounted
<1> QED
  BY <1>3, <1>4, <1>5 DEF SlotsInv

\* A release: the counter is given back only if it is not zero.
LEMMA ReleaseKeeps ==
  ASSUME SlotsInv, NEW c \in Callers, ReleaseKey(c)
  PROVE  SlotsInv'
<1>1. /\ holds[c] \in Keys /\ holds[c] # NoSlot
      /\ holds' = [holds EXCEPT ![c] = NoSlot] /\ lease' = lease
  BY DEF ReleaseKey, LuaReleaseKey, SlotsInv, SlotsType
<1>2. \/ /\ faults' = faults
         /\ slots' = [slots EXCEPT ![holds[c]] = IF @ > 0 THEN @ - 1 ELSE @]
      \/ faults > 0 /\ faults' = faults - 1 /\ slots' = slots
  BY DEF ReleaseKey, LuaReleaseKey
<1>3. /\ slots' \in [Keys -> Nat]
      /\ \A j \in Keys : slots'[j] \in 0 .. slots[j]
  BY <1>1, <1>2 DEF SlotsInv, SlotsType
<1>4. SlotsType'
  BY <1>1, <1>2, <1>3, RedisAssumption DEF SlotsInv, SlotsType
<1>5. CountersAreBounded'
  BY <1>1, <1>3, RedisAssumption DEF SlotsInv, SlotsType, CountersAreBounded
<1>6. CountedSlotsAreHeld'
  <2> SUFFICES ASSUME faults' = MaxFaults, NEW j \in Keys
               PROVE  slots'[j] \in 0 .. Cardinality(Holders(j)')
    BY DEF CountedSlotsAreHeld
  <2>1. /\ faults = MaxFaults
        /\ slots' = [slots EXCEPT ![holds[c]] = IF @ > 0 THEN @ - 1 ELSE @]
    BY <1>2, RedisAssumption DEF SlotsInv, SlotsType
  <2>2. slots[j] \in 0 .. Cardinality(Holders(j)) /\ slots[j] \in Nat
    BY <2>1 DEF SlotsInv, CountedSlotsAreHeld, SlotsType
  <2>3. Cardinality(Holders(j)) = Cardinality(Holders(j)') + (IF j = holds[c] THEN 1 ELSE 0)
    BY <1>1, OneGivesBack DEF SlotsInv
  <2>4. slots'[j] = IF j = holds[c] /\ slots[j] > 0 THEN slots[j] - 1 ELSE slots[j]
    BY <1>1, <2>1 DEF SlotsInv, SlotsType
  <2>5. Cardinality(Holders(j)') \in Nat
    <3>1. IsFiniteSet(Holders(j)')
      BY FS_Subset, RedisAssumption DEF Holders
    <3> QED
      BY <3>1, FS_CardinalityType
  <2> QED
    BY <2>2, <2>3, <2>4, <2>5
<1> QED
  BY <1>4, <1>5, <1>6 DEF SlotsInv

\* DEL removes counters of the keys that were in the pool when they were listed.
LEMMA ResetKeeps ==
  ASSUME SlotsInv, NEW t, ResetDel(t)
  PROVE  SlotsInv'
<1> DEFINE Kept(k) == k \notin job[t].listed
<1>1. /\ \A k \in Keys : slots'[k] = IF Kept(k) THEN slots[k] ELSE 0
      /\ \A k \in Keys : lease'[k] = IF Kept(k) THEN lease[k] ELSE 0
      /\ DOMAIN slots' = Keys /\ slots' = [k \in Keys |-> slots'[k]]
      /\ DOMAIN lease' = Keys /\ lease' = [k \in Keys |-> lease'[k]]
      /\ holds' = holds /\ faults' = faults
  BY DEF ResetDel, processVars, bounds
<1> HIDE DEF Kept
<1>2. slots' \in [Keys -> Nat] /\ lease' \in [Keys -> 0 .. LockTtl]
  BY <1>1, RedisAssumption DEF SlotsInv, SlotsType
<1>3. CountersFall
  BY <1>1, <1>2, RedisAssumption DEF SlotsInv, SlotsType, CountersAreBounded, CountersFall
<1> QED
  BY <1>1, <1>2, <1>3, FallingKeeps DEF SlotsInv, SlotsType

\* A second passes.
LEMMA LeaseKeeps ==
  ASSUME SlotsInv, LeaseTick
  PROVE  SlotsInv'
<1>1. /\ \A k \in Keys : lease'[k] = IF lease[k] > 0 THEN lease[k] - 1 ELSE 0
      /\ \A k \in Keys : slots'[k] = IF lease'[k] > 0 THEN slots[k] ELSE 0
      /\ slots' = [k \in Keys |-> slots'[k]] /\ lease' = [k \in Keys |-> lease'[k]]
      /\ holds' = holds /\ faults' = faults
  BY DEF LeaseTick, processVars, bounds
<1>2. slots' \in [Keys -> Nat] /\ lease' \in [Keys -> 0 .. LockTtl]
  BY <1>1, RedisAssumption DEF SlotsInv, SlotsType
<1>3. CountersFall
  BY <1>1, <1>2, RedisAssumption DEF SlotsInv, SlotsType, CountersAreBounded, CountersFall
<1> QED
  BY <1>1, <1>2, <1>3, FallingKeeps DEF SlotsInv, SlotsType

\* Nothing is counted, and nothing held, after a crash; what was counted stays.
LEMMA CrashKeeps ==
  ASSUME SlotsInv, Crash
  PROVE  SlotsInv'
<1>1. /\ slots' = slots /\ lease' = lease /\ faults > 0 /\ faults' = faults - 1
      /\ holds' \in [Callers -> Keys \cup {NoSlot}]
  BY DEF Crash, keyVars
<1>2. SlotsType' /\ faults' # MaxFaults
  BY <1>1, RedisAssumption DEF SlotsInv, SlotsType
<1> QED
  BY <1>1, <1>2 DEF SlotsInv, CountersAreBounded, CountedSlotsAreHeld

LEMMA SlotsInitially == RedisInit => SlotsInv
<1> SUFFICES ASSUME RedisInit PROVE SlotsInv
  OBVIOUS
<1>1. SlotsType
  BY RedisAssumption DEF RedisInit, SlotsType
<1>2. \A k \in Keys : slots[k] = 0
  BY DEF RedisInit
<1> QED
  BY <1>1, <1>2, HoldersCounted, RedisAssumption
     DEF SlotsInv, CountersAreBounded, CountedSlotsAreHeld

LEMMA SlotsKept ==
  ASSUME SlotsInv, [RedisNext]_schedulerVars
  PROVE  SlotsInv'
<1>0. faults \in Nat
  BY RedisAssumption DEF SlotsInv, SlotsType
<1>1. ASSUME NEW c \in Callers, NEW m, LuaAcquireKey(c, m)
      PROVE  SlotsInv'
  BY <1>1, AcquireKeeps DEF LuaAcquireKey, Eligible, InPool
<1>2. ASSUME NEW c \in Callers, NEW k \in Keys, NEW m, LuaTryAcquireSpecificKey(c, k, m)
      PROVE  SlotsInv'
  BY <1>2, AcquireKeeps DEF LuaTryAcquireSpecificKey, Eligible, InPool
<1>3. ASSUME NEW c \in Callers,
             MarkDead(c) \/ MarkCooling(c) \/ (\E m \in Models : MarkModelCooling(c, m))
      PROVE  SlotsInv'
  BY <1>0, <1>3, SlotsUntouched
     DEF MarkDead, MarkCooling, MarkModelCooling, Cool, processVars, bounds
<1>4. ASSUME NEW t, LoadStep(t) PROVE SlotsInv'
  <2>1. ASSUME LoadRead(t) \/ ResetRange(t) \/ LoadDone(t) PROVE SlotsInv'
    BY <1>0, <2>1, SlotsUntouched DEF LoadRead, ResetRange, LoadDone, keyVars, processVars, bounds
  <2>2. ASSUME AddKeyScore(t) \/ \E k \in Keys : AddKeyBase(t, k) PROVE SlotsInv'
    <3>1. UNCHANGED <<slots, lease, holds, faults>>
      BY <2>2 DEF AddKeyScore, AddKeyBase, processVars, bounds
    <3> QED
      BY <1>0, <3>1, SlotsUntouched
  <2> QED
    BY <1>4, <2>1, <2>2, ResetKeeps DEF LoadStep
<1>5. ASSUME RefresherTick \/ SetHealthMultiplier \/ \E k \in Keys : ScoreLookup(k)
      PROVE  SlotsInv'
  <2>1. UNCHANGED <<slots, lease, holds, faults>>
    BY <1>5 DEF RefresherTick, SetHealthMultiplier, ScoreLookup, ScoreBase, ScoreWrite,
                keyVars, processVars, bounds
  <2> QED
    BY <1>0, <2>1, SlotsUntouched
<1>6. ASSUME NEW k, NEW w, AdminChange(k, w) PROVE SlotsInv'
  BY <1>0, <1>6, SlotsUntouched DEF AdminChange, keyVars
<1>7. ASSUME NEW t, CommandFails(t) PROVE SlotsInv'
  BY <1>0, <1>7, SlotsUntouched DEF CommandFails, keyVars
<1>8. ASSUME NEW e, CoolingExpires(e) PROVE SlotsInv'
  BY <1>0, <1>8, SlotsUntouched DEF CoolingExpires, processVars, bounds
<1>9. CASE UNCHANGED schedulerVars
  BY <1>0, <1>9, SlotsUntouched DEF schedulerVars, keyVars, processVars, bounds
<1> QED
  BY <1>1, <1>2, <1>3, <1>4, <1>5, <1>6, <1>7, <1>8, <1>9,
     ReleaseKeeps, LeaseKeeps, CrashKeeps DEF RedisNext

\* As long as no reply is lost and the process lives, a slot that Redis counts is held
\* by a request, through reloads that delete counters and counters that expire under
\* long requests (redis.go 68-82, 518-556).
THEOREM RedisSlotsAreHeld == RedisSpec => []CountedSlotsAreHeld
<1>1. SlotsInv /\ [RedisNext]_schedulerVars => SlotsInv'
  BY SlotsKept
<1>2. SlotsInv => CountedSlotsAreHeld
  BY DEF SlotsInv
<1> QED
  BY <1>1, <1>2, SlotsInitially, PTL DEF RedisSpec

\* Over crashes and lost replies, every counter stays within the limit and has a deadline
\* (redis.go 45-71, 75-82).
THEOREM RedisCountersStayBounded == RedisSpec => []CountersAreBounded
<1>1. SlotsInv /\ [RedisNext]_schedulerVars => SlotsInv'
  BY SlotsKept
<1>2. SlotsInv => CountersAreBounded
  BY DEF SlotsInv
<1> QED
  BY <1>1, <1>2, SlotsInitially, PTL DEF RedisSpec
=============================================================================
