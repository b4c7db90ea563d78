----------------------------- MODULE MasterKeys -----------------------------
(***************************************************************************)
(* The keys that clients present, and what they may spend: authentication  *)
(* (auth.go), the check before a request and the record after its answer   *)
(* (usage.go, proxy.go incrementQuota), and the administration of the keys *)
(* (admin_master_keys.go).  A request works on a copy of its key, taken    *)
(* when it came in; limits per minute are counted in Redis, the quota in   *)
(* the store, one after the other.  An update of the store is one step     *)
(* (StoreFiles shows why).                                                 *)
(*                                                                         *)
(* The limits per minute are the same for all keys here; a key's quota,    *)
(* status and token change.  Expiry in Redis has a deadline in whole       *)
(* minutes: one that was computed before the minute turned and set after   *)
(* it runs out soon.                                                       *)
(***************************************************************************)
EXTENDS Integers, FiniteSets, FiniteSetsExt

CONSTANTS
  Requests,    \* requests that are open at once
  Tokens,      \* values that keys can have
  NoKey,       \* no master key: anonymous, or none such
  Quotas,      \* quotas that administrators set, Unlimited included
  Costs,       \* estimated tokens of a request
  Rpm, Tpm,    \* limits per minute, 0 for none
  WithRedis,   \* a Redis client is configured
  MaxKeys,     \* bound on the keys ever created
  MaxAnswers   \* bound on the answers given

Unlimited == -1
Ids == 1 .. MaxKeys
Kinds == {"rpm", "tpm"}
Statuses == {"Active", "Disabled"}

MasterKey ==
  [token : Tokens, quota : Quotas, used : Nat, status : Statuses, serial : Ids]
KeyCopy == [id : Ids, quota : Quotas, used : Nat, serial : Ids]

ASSUME MasterKeysAssumption ==
  /\ NoKey \notin MasterKey /\ NoKey \notin KeyCopy
  /\ IsFiniteSet(Requests) /\ Requests # {}
  /\ Quotas \subseteq Nat \cup {Unlimited}
  /\ Costs \subseteq Nat \ {0}
  /\ \E m \in Costs : \A c \in Costs : c <= m
  /\ Rpm \in Nat /\ Tpm \in Nat
  /\ WithRedis \in BOOLEAN
  /\ MaxKeys \in Nat /\ MaxAnswers \in Nat

VARIABLES
  keys,      \* id -> [token, quota, used, status, serial], or NoKey
  nextId,    \* NextMKID
  counter,   \* <<id, kind>> -> count in Redis, 0 when there is no such key
  deadline,  \* <<id, kind>> -> when Redis drops it: "never", "minute", "soon"
  pc,        \* request -> its next step
  copy,      \* request -> [id, quota, used, serial], its copy of the key, or NoKey
  cost,      \* request -> its estimated tokens
  late,      \* requests whose deadline, computed by Record, has passed
  answers,   \* number of answers given
  created,   \* not in the code: keys created so far
  spent,     \* not in the code: serial -> cost of the answers charged to it
  ceiling    \* not in the code: serial -> the highest quota it has had

storeVars == <<keys, nextId, created, ceiling>>
redisVars == <<counter, deadline>>
requestVars == <<pc, copy, cost, late, answers>>
vars == <<storeVars, redisVars, requestVars, spent>>

Init ==
  /\ keys = [i \in Ids |-> NoKey] /\ nextId = 1 /\ created = 0
  /\ ceiling = [s \in Ids |-> 0]
  /\ counter = [x \in Ids \X Kinds |-> 0]
  /\ deadline = [x \in Ids \X Kinds |-> "never"]
  /\ pc = [r \in Requests |-> "idle"]
  /\ copy = [r \in Requests |-> NoKey]
  /\ cost = [r \in Requests |-> 0]
  /\ late = {}
  /\ answers = 0
  /\ spent = [s \in Ids |-> 0]

Present == {i \in Ids : keys[i] # NoKey}
Active == {i \in Present : keys[i].status = "Active"}

-----------------------------------------------------------------------------
(* Administration: each operation is one UpdateStore.                      *)

FreeAmongActive(token, i) == \A j \in Active \ {i} : keys[j].token # token
\* No other key has this value.
Free(token, i) == \A j \in Present \ {i} : keys[j].token # token

LargestIdPlusOne == IF Present = {} THEN 1 ELSE Max(Present) + 1
\* store.NextMKID, never given twice
FreshId == nextId

Higher(a, b) == IF Unlimited \in {a, b} THEN Unlimited ELSE Max({a, b})

AddMasterKey ==
  /\ created < MaxKeys /\ FreshId \in Ids
  /\ \E token \in Tokens, quota \in Quotas, status \in Statuses :
       /\ Free(token, FreshId)
       /\ keys' = [keys EXCEPT ![FreshId] =
            [token |-> token, quota |-> quota, used |-> 0, status |-> status,
             serial |-> created + 1]]
       /\ ceiling' = [ceiling EXCEPT ![created + 1] = quota]
  /\ nextId' = nextId + 1
  /\ created' = created + 1
  /\ UNCHANGED <<redisVars, requestVars, spent>>

\* mutateMasterKey: the key is looked up under the lock, and none of its other
\* fields changes.
Mutated(i, token, quota, status) ==
  /\ keys' = [keys EXCEPT ![i].token = token, ![i].quota = quota, ![i].status = status]
  /\ ceiling' = [ceiling EXCEPT ![keys[i].serial] = Higher(@, quota)]
  /\ UNCHANGED <<nextId, created, redisVars, requestVars, spent>>

UpdateMasterKey ==
  \E i \in Present, token \in Tokens, quota \in Quotas, status \in Statuses :
    Free(token, i) /\ Mutated(i, token, quota, status)

UpdateMasterKeyStatus ==
  \E i \in Present, status \in Statuses :
    Mutated(i, keys[i].token, keys[i].quota, status)

\* A generated value, generated again while another key has it.
RotateMasterKey ==
  \E i \in Present, token \in Tokens :
    Free(token, i) /\ Mutated(i, token, keys[i].quota, keys[i].status)

\* (The history of a key that is gone is dropped.)
DeleteMasterKey ==
  /\ \E i \in Present :
       /\ keys' = [keys EXCEPT ![i] = NoKey]
       /\ ceiling' = [ceiling EXCEPT ![keys[i].serial] = 0]
       /\ spent' = [spent EXCEPT ![keys[i].serial] = 0]
  /\ UNCHANGED <<nextId, created, redisVars, requestVars>>

-----------------------------------------------------------------------------
(* Redis.                                                                  *)

Drop(S) ==
  /\ counter' = [x \in DOMAIN counter |-> IF x \in S THEN 0 ELSE counter[x]]
  /\ deadline' = [x \in DOMAIN deadline |-> IF x \in S THEN "never" ELSE deadline[x]]

Recording == {"incr", "expire rpm", "incrby", "expire tpm"}

MinuteTurns ==
  /\ late' = {r \in Requests : pc[r] \in Recording}
  /\ Drop({x \in DOMAIN deadline : deadline[x] # "never"})
  /\ UNCHANGED <<storeVars, pc, copy, cost, answers, spent>>

RunsOut ==
  /\ \E x \in DOMAIN deadline : deadline[x] = "soon" /\ Drop({x})
  /\ UNCHANGED <<storeVars, requestVars, spent>>

-----------------------------------------------------------------------------
(* A request.                                                              *)

Step(r, from, to) == pc[r] = from /\ pc' = [pc EXCEPT ![r] = to]

\* The request is over, and forgotten.
End(r) ==
  /\ pc' = [pc EXCEPT ![r] = "idle"]
  /\ copy' = [copy EXCEPT ![r] = NoKey]
  /\ cost' = [cost EXCEPT ![r] = 0]
  /\ late' = late \ {r}

Go(r, from, to) == Step(r, from, to) /\ UNCHANGED <<copy, cost, late>>

\* MasterAuthMiddleware: with anonymous access (administrators switch it at
\* any time) or without active keys everyone is let in, without a master key.
Arrive(r) ==
  /\ \E c \in Costs : cost' = [cost EXCEPT ![r] = c]
  /\ \E anonymousAccess \in BOOLEAN :
       \/ /\ anonymousAccess \/ Active = {}
          /\ copy' = [copy EXCEPT ![r] = NoKey]
          /\ Step(r, "idle", "working")
       \/ /\ ~ anonymousAccess
          /\ \E i \in Active :
               /\ keys[i].quota # Unlimited => keys[i].used < keys[i].quota
               /\ copy' = [copy EXCEPT ![r] =
                    [id |-> i, quota |-> keys[i].quota, used |-> keys[i].used,
                     serial |-> keys[i].serial]]
               /\ Step(r, "idle", IF WithRedis THEN "rpm" ELSE "quota")
  /\ UNCHANGED <<storeVars, redisVars, late, answers, spent>>

RpmLeftUnchecked(r) == TRUE
RpmLeft(r) == Rpm > 0 => counter[<<copy[r].id, "rpm">>] < Rpm
TpmLeft(r) == Tpm > 0 => counter[<<copy[r].id, "tpm">>] + cost[r] <= Tpm
QuotaLeft(r) == copy[r].quota # Unlimited => copy[r].used + cost[r] <= copy[r].quota

Check(r, passes, from, to) ==
  /\ pc[r] = from
  /\ \/ passes /\ Go(r, from, to)
     \/ ~ passes /\ End(r)

CheckRpm(r) ==
  /\ Check(r, RpmLeft(r), "rpm", "tpm")
  /\ UNCHANGED <<storeVars, redisVars, answers, spent>>

CheckTpm(r) ==
  /\ Check(r, TpmLeft(r), "tpm", "quota")
  /\ UNCHANGED <<storeVars, redisVars, answers, spent>>

CheckQuota(r) ==
  /\ Check(r, QuotaLeft(r), "quota", "working")
  /\ UNCHANGED <<storeVars, redisVars, answers, spent>>

\* No answer, or none that counts; or a call to Redis fails: the request ends
\* and nothing more is recorded, the quota included.
GiveUp(r) ==
  /\ pc[r] \in {"rpm", "tpm", "working"} \cup Recording
  /\ End(r)
  /\ UNCHANGED <<storeVars, redisVars, answers, spent>>

\* An answer that counts.  Record computes the deadline of both counters first.
Answered(r) ==
  /\ answers < MaxAnswers
  /\ answers' = answers + 1
  /\ \/ copy[r] = NoKey /\ pc[r] = "working" /\ End(r)
     \/ /\ copy[r] # NoKey
        /\ Step(r, "working", IF WithRedis THEN "incr" ELSE "charge")
        /\ UNCHANGED <<copy, cost, late>>
  /\ UNCHANGED <<storeVars, redisVars, spent>>

Count(r, kind, n) == counter' = [counter EXCEPT ![<<copy[r].id, kind>>] = @ + n]

Deadline(r, kind) ==
  deadline' = [deadline EXCEPT ![<<copy[r].id, kind>>] =
    IF counter[<<copy[r].id, kind>>] = 0 THEN "never"
    ELSE IF r \in late THEN "soon" ELSE "minute"]

IncrRpm(r) ==
  /\ Go(r, "incr", "expire rpm")
  /\ Count(r, "rpm", 1)
  /\ UNCHANGED <<storeVars, deadline, answers, spent>>

ExpireRpm(r) ==
  /\ Go(r, "expire rpm", "incrby")
  /\ Deadline(r, "rpm")
  /\ UNCHANGED <<storeVars, counter, answers, spent>>

IncrByTpm(r) ==
  /\ Go(r, "incrby", "expire tpm")
  /\ Count(r, "tpm", cost[r])
  /\ UNCHANGED <<storeVars, deadline, answers, spent>>

ExpireTpm(r) ==
  /\ Step(r, "expire tpm", "charge")
  /\ late' = late \ {r}
  /\ Deadline(r, "tpm")
  /\ UNCHANGED <<storeVars, counter, copy, cost, answers, spent>>

\* The store's key is looked up and changed under the store's lock.
Charge(r) ==
  /\ keys' = [keys EXCEPT ![copy[r].id].used = @ + cost[r]]
  /\ spent' = [spent EXCEPT ![copy[r].serial] = @ + cost[r]]

\* incrementMasterKeyQuota: nothing happens when the key is gone, and the
\* error of an update that could not be written is dropped.
IncrementQuota(r) ==
  /\ pc[r] = "charge"
  /\ \/ copy[r].id \in Present /\ Charge(r)
     \/ UNCHANGED <<keys, spent>>
  /\ End(r)
  /\ UNCHANGED <<nextId, created, ceiling, redisVars, answers>>

RequestStep(r) ==
  \/ Arrive(r) \/ CheckRpm(r) \/ CheckTpm(r) \/ CheckQuota(r) \/ GiveUp(r)
  \/ Answered(r) \/ IncrRpm(r) \/ ExpireRpm(r) \/ IncrByTpm(r) \/ ExpireTpm(r)
  \/ IncrementQuota(r)

Next ==
  \/ AddMasterKey \/ UpdateMasterKey \/ UpdateMasterKeyStatus \/ RotateMasterKey
  \/ DeleteMasterKey
  \/ MinuteTurns \/ RunsOut
  \/ \E r \in Requests : RequestStep(r)

Spec == Init /\ [][Next]_vars

-----------------------------------------------------------------------------
(* Properties.                                                             *)

Steps == {"idle", "rpm", "tpm", "quota", "working", "charge"} \cup Recording

\* Type invariant of keys, Redis and requests.
TypeOK ==
  /\ keys \in [Ids -> MasterKey \cup {NoKey}]
  /\ nextId \in Nat /\ created \in 0 .. MaxKeys
  /\ ceiling \in [Ids -> Nat \cup {Unlimited}] /\ spent \in [Ids -> Nat]
  /\ counter \in [Ids \X Kinds -> Nat]
  /\ deadline \in [Ids \X Kinds -> {"never", "minute", "soon"}]
  /\ pc \in [Requests -> Steps]
  /\ copy \in [Requests -> KeyCopy \cup {NoKey}]
  /\ cost \in [Requests -> Costs \cup {0}]
  /\ late \subseteq Requests /\ answers \in 0 .. MaxAnswers

\* Whoever presents a token is known by it: no two keys share one, whatever
\* is created, edited, rotated, disabled and enabled again.
TokensAreUnique == \A i \in Present : Free(keys[i].token, i)

\* The quota used is what the answers given under this very key cost: no
\* charge is lost to another one's, none comes from a deleted key.
ChargesReachTheirKey == \A i \in Present : keys[i].used = spent[keys[i].serial]

\* The check looks at a copy and at counters that other requests have not
\* reached yet, so limits are overrun, but by no more than the requests that
\* can be open next to the last one that was let through.
Others == Cardinality(Requests) - 1
OverrunIsBounded ==
  \A i \in Present :
    /\ ceiling[keys[i].serial] # Unlimited =>
         keys[i].used <= ceiling[keys[i].serial] + Others * Max(Costs)
    /\ Rpm > 0 => counter[<<i, "rpm">>] <= Rpm + Others
    /\ Tpm > 0 => counter[<<i, "tpm">>] <= Tpm + Others * Max(Costs)
=============================================================================
