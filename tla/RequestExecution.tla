-------------------------- MODULE RequestExecution --------------------------
(***************************************************************************)
(* A client's request on its way through the upstream keys: the attempt    *)
(* loops of the six executors, each with its acquisition of a key          *)
(* (preferred by the conversation, else queued), the calls and same-key    *)
(* retries on that key, the stream, the release and the accounting.        *)
(* Requests of one conversation share its key binding; all share the pool. *)
(* Some requests are followed step by step, the others only by what they   *)
(* do to the shared state, which they may do at any time.                  *)
(*                                                                         *)
(* The executors differ in a few decisions only, so they are one set of    *)
(* actions with the kinds that take each decision.  The pool is KeyPool;   *)
(* recovery and reloads, which every request may trigger while it queues,  *)
(* are in KeyLifecycle, the two relays in StreamDrain and CompatStream.    *)
(* Without Redis the usage tracker records nothing and does not fail.      *)
(***************************************************************************)
EXTENDS KeyPool

CONSTANTS
  Requests,         \* callers followed step by step
  RequestKinds,     \* kinds of these requests
  MaxRetries,       \* cfg.MaxRetries: other keys tried
  ExtraAttempts,    \* bound standing for the constant 5 of three executors
  TransportRetries, \* cfg.TransportRetryCount: calls repeated on one key
  SilentFallback    \* cfg.SilentFallbackOnExhaustion

Kinds == {"chat", "sse", "compat", "responses", "embeddings", "models"}

ASSUME ExecutionAssumption ==
  /\ Requests \subseteq Callers
  /\ RequestKinds \subseteq Kinds
  /\ Limits # {}
  /\ {MaxRetries, ExtraAttempts, TransportRetries} \subseteq Nat
  /\ SilentFallback \in BOOLEAN

VARIABLES
  binding,    \* the key the conversation is bound to, or NoKey
  stored,     \* the prompt's answer is in the semantic cache
  req         \* request -> where it stands, and its local variables

execVars == <<poolVars, binding, stored, req>>

-----------------------------------------------------------------------------
(* Where the executors differ.                                             *)

Streaming == {"sse", "compat", "responses"}
Patient == {"chat", "sse", "compat"}  \* check ctx, 5 more attempts, may fall back
Relayed == {"compat", "responses"}    \* streams through relayOpenAIStream
RetriesTerminal == {"sse", "compat"}  \* an upstream error is not the answer

Model(c) ==
  IF req[c].kind = "models" \/ Models = {} THEN NoModel ELSE CHOOSE m \in Models : TRUE

Budget(c) == MaxRetries + 1 + (IF req[c].kind \in Patient THEN ExtraAttempts ELSE 0)

-----------------------------------------------------------------------------
NewRequest(kind) ==
  [kind |-> kind, pc |-> "start",
   attempt |-> 0,         \* attempts completed
   tries |-> 0,           \* calls repeated in this attempt
   preferred |-> NoKey,   \* the binding as read for this attempt
   key |-> NoKey,         \* the key of this attempt
   reused |-> FALSE,      \* reusedPreferredKey
   result |-> "none",     \* what the attempt came to
   cancelled |-> FALSE, cancelledIn |-> 0,
   lateCalls |-> 0,       \* calls begun although ctx was done (history)
   header |-> FALSE,      \* the client has been sent a status line and more
   got |-> "nothing",     \* of an upstream's answer, for the client (history)
   outcome |-> "open", charged |-> FALSE]

ExecInit ==
  /\ now = 1 /\ active = Keys /\ dead = {}
  /\ cooling = [k \in Keys |-> 0]
  /\ modelCooling = [km \in Keys \X Models |-> 0]
  /\ concurrency = [k \in Keys |-> 0]
  /\ holds = [c \in Callers |-> NoKey]
  /\ binding = NoKey
  /\ stored \in BOOLEAN
  /\ req \in [Requests -> {NewRequest(kind) : kind \in RequestKinds}]

At(c, place) == req[c].pc = place
Goto(c, place) == req' = [req EXCEPT ![c].pc = place]
Became(c, r) == req' = [req EXCEPT ![c] = r]

\* The variables of one round of the loop go out of scope with it.
OutOfRound(r) == [r EXCEPT !.tries = 0, !.preferred = NoKey, !.key = NoKey,
                           !.reused = FALSE, !.result = "none"]
Closed(r, outcome) == [OutOfRound(r) EXCEPT !.pc = "closed", !.outcome = outcome]
NextAttempt(r) == [OutOfRound(r) EXCEPT !.pc = "top", !.attempt = @ + 1]

-----------------------------------------------------------------------------
(* The head of the loop.                                                   *)

\* A cached answer needs no key.
CacheHit(c) ==
  /\ At(c, "start") /\ req[c].kind \in {"chat", "sse"} /\ stored
  /\ Became(c, [req[c] EXCEPT !.pc = "charge", !.result = "cached",
                              !.header = TRUE, !.got = "whole"])
  /\ UNCHANGED <<poolVars, binding, stored>>

CacheMiss(c) ==
  /\ At(c, "start")
  /\ req[c].kind \in {"chat", "sse"} => ~stored
  /\ Goto(c, "top")
  /\ UNCHANGED <<poolVars, binding, stored>>

ClientGone(c) ==
  /\ At(c, "top") /\ req[c].attempt < Budget(c)
  /\ req[c].cancelled /\ req[c].kind \in Patient
  /\ Became(c, Closed(req[c], "499"))
  /\ UNCHANGED <<poolVars, binding, stored>>

\* Mutant of BeginAttempt: no look at ctx.
BeginAttemptBlindly(c) ==
  /\ At(c, "top") /\ req[c].attempt < Budget(c)
  /\ Became(c, [req[c] EXCEPT
       !.pc = "preferred", !.preferred = IF req[c].kind = "models" THEN NoKey ELSE binding])
  /\ UNCHANGED <<poolVars, binding, stored>>

\* globalConversationAffinityStore.get, in its own critical section.
BeginAttempt(c) ==
  /\ At(c, "top") /\ req[c].attempt < Budget(c)
  /\ ~(req[c].cancelled /\ req[c].kind \in Patient)
  /\ Became(c, [req[c] EXCEPT
       !.pc = "preferred", !.preferred = IF req[c].kind = "models" THEN NoKey ELSE binding])
  /\ UNCHANGED <<poolVars, binding, stored>>

Exhausted(c) ==
  /\ At(c, "top") /\ req[c].attempt = Budget(c)
  /\ Became(c, Closed(req[c],
       IF req[c].kind \in Patient /\ SilentFallback THEN "fallback" ELSE "exhausted"))
  /\ UNCHANGED <<poolVars, binding, stored>>

-----------------------------------------------------------------------------
(* The key: acquirePreferredKeyWithQueue, then the conversation is bound.  *)

AcquirePreferred(c) ==
  /\ At(c, "preferred")
  /\ IF req[c].preferred = NoKey
     THEN Goto(c, "queue") /\ UNCHANGED poolVars
     ELSE /\ TryAcquireSpecificKey(c, req[c].preferred, Model(c), Limit)
          /\ IF holds'[c] = NoKey
             THEN Goto(c, "queue")
             ELSE Became(c, [req[c] EXCEPT !.pc = "bind", !.reused = TRUE,
                                           !.key = req[c].preferred])
  /\ UNCHANGED <<binding, stored>>

AcquireQueued(c, k) ==
  /\ At(c, "queue")
  /\ AcquireSome(c, k, Model(c), Limit)
  /\ Became(c, [req[c] EXCEPT
       !.pc = IF req[c].kind = "models" THEN "call" ELSE "bind", !.key = k])
  /\ UNCHANGED <<binding, stored>>

QueueTimeout(c) ==
  /\ At(c, "queue")
  /\ AcquireNone(c, Model(c), Limit)
  /\ Became(c, Closed(req[c], "503"))
  /\ UNCHANGED <<binding, stored>>

\* ctx.Err() is one more failed attempt.
QueueCancelled(c) ==
  /\ At(c, "queue") /\ req[c].cancelled
  /\ AcquireNone(c, Model(c), Limit)
  /\ Became(c, NextAttempt(req[c]))
  /\ UNCHANGED <<binding, stored>>

\* clearConversationKeyBinding: only the key that failed is forgotten.
Forget(c) == binding' = IF binding = req[c].key THEN NoKey ELSE binding

\* refreshConversationKeyBinding without force: a get, then a set.
BindUnlessBound(c, bind, write, next) ==
  /\ At(c, bind)
  /\ Goto(c, IF binding = NoKey THEN write ELSE next)
  /\ UNCHANGED <<poolVars, binding, stored>>

BindWrite(c, write, next) ==
  /\ At(c, write)
  /\ binding' = req[c].key
  /\ Goto(c, next)
  /\ UNCHANGED <<poolVars, stored>>

Bind(c) == BindUnlessBound(c, "bind", "bindWrite", "call") \/ BindWrite(c, "bindWrite", "call")

-----------------------------------------------------------------------------
(* The calls on one key: executeUpstreamJSONRequest and openUpstreamStream. *)

\* What of the answer there is for the client when the call returns: a
\* translated stream has yet to produce something, or to prove empty.
Opening(kind) ==
  CASE kind = "sse" -> "part"
    [] kind \in Relayed -> "nothing"
    [] OTHER -> "whole"

EndCall(c, result) ==
  Became(c, [req[c] EXCEPT
    !.pc = CASE result = "ok" /\ req[c].kind = "sse" -> "relay"
             [] result = "ok" /\ req[c].kind \in Relayed -> "rebind"
             [] OTHER -> "release",
    !.result = result,
    !.header = @ \/ (result = "ok" /\ req[c].kind = "sse"),
    !.got = IF result = "ok" THEN Opening(req[c].kind) ELSE @])

StartCall(c) ==
  /\ At(c, "call")
  /\ Became(c, [req[c] EXCEPT !.pc = "calling",
                              !.lateCalls = IF req[c].cancelled THEN @ + 1 ELSE @])
  /\ UNCHANGED <<poolVars, binding, stored>>

\* A call of a request whose ctx is done fails, with an error that is not
\* retried.
CallCancelled(c) ==
  /\ At(c, "calling") /\ req[c].cancelled
  /\ EndCall(c, "terminal")
  /\ UNCHANGED <<poolVars, binding, stored>>

CallSucceeds(c) ==
  /\ At(c, "calling")
  /\ req[c].lateCalls = 0
  /\ EndCall(c, "ok")
  /\ UNCHANGED <<poolVars, binding, stored>>

\* A status below 500 that is neither 401, 403 nor 429, an unknown transport
\* error.  Without a body it is no answer to pass on.
CallRefused(c, result) ==
  /\ At(c, "calling")
  /\ req[c].lateCalls = 0
  /\ result = "bodyless" => req[c].kind \notin Streaming
  /\ EndCall(c, result)
  /\ UNCHANGED <<poolVars, binding, stored>>

\* A timeout, a reset, an empty answer ("transport") or a 5xx: try again on the
\* same key, at last give the key up and forget the binding.
CallFails(c, why) ==
  /\ At(c, "calling")
  /\ req[c].lateCalls = 0
  /\ IF req[c].tries < TransportRetries
     THEN /\ Became(c, [req[c] EXCEPT !.pc = "backoff", !.result = why])
          /\ UNCHANGED binding
     ELSE /\ EndCall(c, "retry")
          /\ Forget(c)
  /\ UNCHANGED <<poolVars, stored>>

\* Mutant of Backoff: the attempt counter of the inner loop stands still.
BackoffUncounted(c) ==
  /\ At(c, "backoff")
  /\ \/ Goto(c, "call")
     \/ /\ req[c].cancelled /\ req[c].result = "transport"
        /\ EndCall(c, "terminal")
  /\ UNCHANGED <<poolVars, binding, stored>>

\* sleepWithContext.  Its break leaves the loop after a transport error, but
\* only the switch after a 5xx.
Backoff(c) ==
  /\ At(c, "backoff")
  /\ \/ Became(c, [req[c] EXCEPT !.pc = "call", !.tries = @ + 1])
     \/ /\ req[c].cancelled /\ req[c].result = "transport"
        /\ EndCall(c, "terminal")
  /\ UNCHANGED <<poolVars, binding, stored>>

\* 429: markCooling, then markModelCooling with everything behind it.
RateLimited(c, d) ==
  /\ At(c, "calling") /\ req[c].lateCalls = 0
  /\ MarkCooling(req[c].key, d)
  /\ Goto(c, "coolModel")
  /\ UNCHANGED <<binding, stored>>

CoolModel(c, d) ==
  /\ At(c, "coolModel")
  /\ IF Model(c) = NoModel THEN UNCHANGED poolVars
     ELSE MarkModelCooling(req[c].key, Model(c), d)
  /\ Forget(c)
  /\ EndCall(c, "retry")
  /\ UNCHANGED stored

\* 401 or 403.
AuthRejected(c) ==
  /\ At(c, "calling") /\ req[c].lateCalls = 0
  /\ MarkDead(req[c].key)
  /\ Forget(c)
  /\ EndCall(c, "retry")
  /\ UNCHANGED stored

UpstreamCall(c) ==
  \/ StartCall(c) \/ CallCancelled(c) \/ CallSucceeds(c)
  \/ \E result \in {"terminal", "bodyless"} : CallRefused(c, result)
  \/ \E why \in {"transport", "5xx"} : CallFails(c, why)
  \/ Backoff(c) \/ AuthRejected(c)
  \/ \E d \in Durations : RateLimited(c, d) \/ CoolModel(c, d)

-----------------------------------------------------------------------------
(* The stream, the release and what follows.                               *)

\* refreshConversationKeyBinding, forced for a key the queue gave out.  The
\* relayed streams do it before the relay, the JSON executors afterwards.
Rebind(c) ==
  LET next == IF req[c].kind \in Relayed THEN "relay" ELSE "charge" IN
  \/ /\ At(c, "rebind") /\ ~req[c].reused
     /\ Goto(c, "rebindWrite")
     /\ UNCHANGED <<poolVars, binding, stored>>
  \/ req[c].reused /\ BindUnlessBound(c, "rebind", "rebindWrite", next)
  \/ BindWrite(c, "rebindWrite", next)

\* While the upstream is silent the relay writes a comment.  It does not wait
\* for the translator: the first one sends the status line as well.
RelayKeepsAlive(c) ==
  /\ At(c, "relay") /\ req[c].kind \in Relayed /\ ~req[c].header
  /\ Became(c, [req[c] EXCEPT !.header = TRUE])
  /\ UNCHANGED <<poolVars, binding, stored>>

\* The translator writes its first event.
RelayStarts(c) ==
  /\ At(c, "relay") /\ req[c].got = "nothing"
  /\ Became(c, [req[c] EXCEPT !.header = TRUE, !.got = "part"])
  /\ UNCHANGED <<poolVars, binding, stored>>

RelayResults == {"ok", "cut", "interrupted", "empty"}

EndRelay(c, result) ==
  Became(c, [req[c] EXCEPT !.pc = "release", !.result = result,
                           !.got = IF result = "ok" THEN "whole" ELSE @])

\* Mutant of RelayEnds: Started() is not asked.
RelayEndsAnyhow(c, result) ==
  /\ At(c, "relay")
  /\ result \in {"ok", "cut"} => req[c].got = "part"
  /\ result \in {"cut", "empty"} => req[c].kind \in Relayed
  /\ EndRelay(c, result)
  /\ UNCHANGED <<poolVars, binding, stored>>

\* The upstream's end ("ok").  A translated stream that goes idle, is reset or
\* loses its client once the translator has started has the last frame written
\* and returns nil as well ("cut"); before that it is empty, to be retried.  A
\* malformed event or a failed write is an error, and so is every early end
\* of a stream that is passed through ("interrupted").
RelayEnds(c, result) ==
  /\ At(c, "relay")
  /\ result \in {"ok", "cut"} => req[c].got = "part"
  /\ result \in {"cut", "empty"} => req[c].kind \in Relayed
  /\ result = "empty" => req[c].got = "nothing"
  /\ EndRelay(c, result)
  /\ UNCHANGED <<poolVars, binding, stored>>

\* Mutant of AfterRelease: the error that is passed on is accounted for too.
AfterReleaseChargesErrors(r) ==
  CASE \/ r.result \in {"retry", "bodyless"}
       \/ r.result = "terminal" /\ r.kind \in RetriesTerminal -> NextAttempt(r)
    [] r.result = "empty" -> [r EXCEPT !.pc = "forget"]
    [] r.result = "interrupted" /\ r.kind \in Relayed -> Closed(r, "interrupted")
    [] r.result = "ok" /\ r.kind = "models" -> Closed(r, "answered")
    [] r.result = "ok" /\ r.kind \in {"chat", "embeddings"} -> [r EXCEPT !.pc = "rebind"]
    [] OTHER -> [r EXCEPT !.pc = "charge"]

\* Where a request goes when its key is given back.
AfterRelease(r) ==
  CASE \/ r.result \in {"retry", "bodyless"}
       \/ r.result = "terminal" /\ r.kind \in RetriesTerminal -> NextAttempt(r)
    [] r.result = "terminal" /\ r.kind \notin RetriesTerminal -> Closed(r, "error")
    [] r.result = "empty" -> [r EXCEPT !.pc = "forget"]
    [] r.result = "interrupted" /\ r.kind \in Relayed -> Closed(r, "interrupted")
    [] r.result = "ok" /\ r.kind = "models" -> Closed(r, "answered")
    [] r.result = "ok" /\ r.kind \in {"chat", "embeddings"} -> [r EXCEPT !.pc = "rebind"]
    [] OTHER -> [r EXCEPT !.pc = "charge"]

Release(c) ==
  /\ At(c, "release")
  /\ ReleaseKey(c)
  /\ Became(c, AfterRelease(req[c]))
  /\ UNCHANGED <<binding, stored>>

ForgetEmpty(c) ==
  /\ At(c, "forget")
  /\ Forget(c)
  /\ Became(c, NextAttempt(req[c]))
  /\ UNCHANGED <<poolVars, stored>>

\* usageTracker.Record and incrementQuota.
Charge(c) ==
  /\ At(c, "charge")
  /\ Became(c, [req[c] EXCEPT !.pc = "finish", !.charged = TRUE])
  /\ UNCHANGED <<poolVars, binding, stored>>

\* A whole answer goes into the cache.
Finish(c) ==
  /\ At(c, "finish")
  /\ stored' = (stored \/ (req[c].result = "ok" /\ req[c].kind \in {"chat", "sse"}))
  /\ Became(c, Closed(req[c],
       IF req[c].result = "interrupted" THEN "interrupted" ELSE "answered"))
  /\ UNCHANGED <<poolVars, binding>>

-----------------------------------------------------------------------------
RequestStep(c) ==
  \/ CacheHit(c) \/ CacheMiss(c)
  \/ ClientGone(c) \/ BeginAttempt(c) \/ Exhausted(c)
  \/ AcquirePreferred(c) \/ QueueTimeout(c) \/ QueueCancelled(c)
  \/ \E k \in Keys : AcquireQueued(c, k)
  \/ Bind(c) \/ UpstreamCall(c) \/ Rebind(c)
  \/ RelayKeepsAlive(c) \/ RelayStarts(c) \/ \E result \in RelayResults : RelayEnds(c, result)
  \/ Release(c) \/ ForgetEmpty(c) \/ Charge(c) \/ Finish(c)

ClientCancels(c) ==
  /\ ~req[c].cancelled /\ ~At(c, "closed")
  /\ Became(c, [req[c] EXCEPT !.cancelled = TRUE, !.cancelledIn = req[c].attempt])
  /\ UNCHANGED <<poolVars, binding, stored>>

(* The other requests: what RequestStep can do to the pool, the binding and *)
(* the cache, in any order.  The two hours of a binding may also be over.   *)
Others == Callers \ Requests

OtherAcquires(c, k) == AcquireSome(c, k, NoModel, Limit) /\ UNCHANGED <<binding, stored, req>>
OtherReleases(c) == ReleaseKey(c) /\ UNCHANGED <<binding, stored, req>>

OtherIsRefused(c) ==
  /\ holds[c] # NoKey
  /\ MarkDead(holds[c])
  /\ UNCHANGED <<binding, stored, req>>

BindingChanges ==
  /\ binding' \in Keys \cup {NoKey} /\ binding' # binding
  /\ UNCHANGED <<poolVars, stored, req>>

OtherStep ==
  \/ \E c \in Others :
       (\E k \in Keys : OtherAcquires(c, k)) \/ OtherReleases(c) \/ OtherIsRefused(c)
  \/ BindingChanges

ClockTick == Tick /\ UNCHANGED <<binding, stored, req>>

ExecNext ==
  \/ \E c \in Requests : RequestStep(c) \/ ClientCancels(c)
  \/ OtherStep \/ ClockTick

\* Calls, streams, backoffs and the queue all have their time limits.
ExecSpec ==
  /\ ExecInit /\ [][ExecNext]_execVars
  /\ \A c \in Requests : WF_execVars(RequestStep(c))

-----------------------------------------------------------------------------
(* Properties.                                                             *)

Places == {"start", "top", "preferred", "queue", "bind", "bindWrite", "call",
           "calling", "coolModel", "backoff", "rebind", "rebindWrite", "relay",
           "release", "forget", "charge", "finish", "closed"}

\* Type invariant, with the two retry budgets.
ExecTypeOK ==
  /\ PoolTypeOK
  /\ binding \in Keys \cup {NoKey} /\ stored \in BOOLEAN
  /\ \A c \in Requests :
       /\ req[c].kind \in Kinds /\ req[c].pc \in Places
       /\ req[c].attempt \in 0 .. Budget(c)
       /\ req[c].tries \in 0 .. TransportRetries
       /\ {req[c].preferred, req[c].key} \subseteq Keys \cup {NoKey}
       /\ {req[c].reused, req[c].cancelled, req[c].header, req[c].charged} \subseteq BOOLEAN
       /\ req[c].got \in {"nothing", "part", "whole"}

Phase(c) ==
  CASE At(c, "closed") -> "closed"
    [] ~At(c, "closed") /\ req[c].got # "nothing" -> "answering"
    [] ~At(c, "closed") /\ req[c].got = "nothing" /\ req[c].header -> "greeted"
    [] OTHER -> "trying"

Contract == INSTANCE RequestContract WITH
  Requests <- Requests,
  phase <- [c \in Requests |-> Phase(c)],
  holding <- {c \in Requests : holds[c] # NoKey},
  billed <- {c \in Requests : req[c].charged}

\* Over every path through attempts, retries, streams and cancellations, each
\* executor keeps the contract: one key at a time, given back before the end,
\* no further key once there is something of an answer for the client (a status
\* line with comments may be out before a retry), at most one charge and only
\* behind an answer (proxy.go 409-871, stream_live_compat.go 102-332,
\* responses.go 220-292, embeddings.go 47-92).
ImplementsContract == Contract!ContractSpec

\* The bill matches what was delivered.  Nothing of an answer costs nothing,
\* whatever was tried, however often; a whole answer is charged (the list of
\* models never is).  Of an answer that broke off, a stream that is passed
\* through is charged, its header being out (proxy.go 673), and a translated
\* one exactly if the relay's verdict is success (stream_live_compat.go
\* 198-206, responses.go 282-288): an error is not charged, an idle timeout, a
\* reset or a lost client behind the first event is (see BrokenIsFree).
DeliveredIsCharged ==
  \A c \in Requests : At(c, "closed") =>
    /\ req[c].got = "nothing" => ~req[c].charged
    /\ req[c].got = "whole" => (req[c].charged <=> req[c].kind # "models")
    /\ req[c].got = "part" =>
         (req[c].charged <=> req[c].kind = "sse" \/ req[c].outcome = "answered")

\* Refuted by TLC: a translated stream that breaks off is not charged, as the
\* comment at stream_live_compat.go 199 has it (it returns with its diagnostics
\* only).  The relay returns nil for idle timeouts, resets and cancellations
\* once the translator has started (444, 457, 504), and 204 charges them.
BrokenIsFree ==
  \A c \in Requests :
    At(c, "closed") /\ req[c].kind \in Relayed /\ req[c].got = "part" => ~req[c].charged

\* A client that goes away costs at most one more upstream call, whichever wait
\* the cancellation meets, and the executors that promise it (proxy.go 425-427, 546-547)
\* start no further attempt and do not disguise it as an empty success, unless
\* it met the last attempt.
CancelStopsRequest ==
  \A c \in Requests :
    /\ req[c].lateCalls <= 1
    /\ req[c].cancelled /\ req[c].kind \in Patient =>
         /\ req[c].attempt <= req[c].cancelledIn + 1
         /\ req[c].outcome = "fallback" => req[c].cancelledIn >= Budget(c) - 1

\* Every request ends, whatever the others do to the keys.
RequestsEnd == <>[](\A c \in Requests : At(c, "closed"))
=============================================================================
