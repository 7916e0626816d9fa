------------------------------- MODULE RateLimit -------------------------------
(***************************************************************************)
(* The sliding window of middleware/rate-limit.middleware.ts for one key:  *)
(* a sorted set in Redis, trimmed, added to and counted by three commands  *)
(* of which other requests see the results in between; in the process, a   *)
(* list that is filtered and added to in one go.  That Redis drops the     *)
(* whole set a window after its last use is left out: everything in it is  *)
(* outside the window by then.                                             *)
(***************************************************************************)
EXTENDS Naturals, FiniteSets

CONSTANTS
  HttpRequests,       \* requests with this key
  windowMs,
  maxRequests,
  skipSuccessfulRequests,
  MaxLimitTime        \* bound: the clock

ASSUME LimitAssumption ==
  IsFiniteSet(HttpRequests) /\ {windowMs, maxRequests, MaxLimitTime} \subseteq Nat

VARIABLES
  wall,           \* Date.now()
  reached,        \* whether Redis can be reached
  members,        \* requests in the sorted set
  memoryStore,    \* requests in the list
  http            \* request -> [at, now, store, prompt]

limitVars == <<wall, reached, members, memoryStore, http>>

Arrived == {r \in HttpRequests : http[r].at # "none"}
InStep(r, place) == http[r].at = place
NextStep(r, place) == http' = [http EXCEPT ![r].at = place]
Decided(r, allowed, store) ==
  http' = [http EXCEPT ![r] = [at |-> IF allowed THEN "allowed" ELSE "refused", now |-> @.now, store |-> store,
                               prompt |-> @.now = wall]]
Recent(rs, now) == {r \in rs : http[r].now + windowMs > now}

\* applyRateLimit takes the time before it waits for the store.
Arrive(r) ==
  /\ InStep(r, "none")
  /\ http' = [http EXCEPT ![r].at = "trim", ![r].now = wall]
  /\ UNCHANGED <<wall, reached, members, memoryStore>>

TrimMembers(r) ==
  /\ InStep(r, "trim") /\ reached
  /\ members' = Recent(members, http[r].now)
  /\ NextStep(r, "add")
  /\ UNCHANGED <<wall, reached, memoryStore>>

\* Mutant: the member is the time alone, the same for two requests at once.
AddTime(r) ==
  /\ InStep(r, "add") /\ reached
  /\ members' = IF \E q \in members : http[q].now = http[r].now THEN members ELSE members \cup {r}
  /\ NextStep(r, "count")
  /\ UNCHANGED <<wall, reached, memoryStore>>

\* The member is unique though the time may not be.
AddMember(r) ==
  /\ InStep(r, "add") /\ reached
  /\ members' = members \cup {r}
  /\ NextStep(r, "count")
  /\ UNCHANGED <<wall, reached, memoryStore>>

CountMembers(r) ==
  /\ InStep(r, "count") /\ reached
  /\ Decided(r, Cardinality(members) <= maxRequests, "redis")
  /\ UNCHANGED <<wall, reached, members, memoryStore>>

\* consumeMemoryLimit, when there is no Redis or a command of it failed.
ConsumeMemoryLimit(r) ==
  LET requests == Recent(memoryStore, http[r].now)
      allowed == Cardinality(requests) < maxRequests IN
  /\ http[r].at \in {"trim", "add", "count"} /\ ~reached
  /\ memoryStore' = requests \cup (IF allowed THEN {r} ELSE {})
  /\ Decided(r, allowed, "memory")
  /\ UNCHANGED <<wall, reached, members>>

\* A request that was let in and succeeded is not to be counted: it is taken out
\* of the store that can be reached now.  The members of the list are times, the
\* first that is equal goes.
GiveBack(r) ==
  /\ skipSuccessfulRequests /\ InStep(r, "allowed")
  /\ IF reached THEN members' = members \ {r} /\ UNCHANGED memoryStore
     ELSE /\ UNCHANGED members
          /\ IF http[r].store = "memory" /\ \E q \in memoryStore : http[q].now = http[r].now
             THEN \E q \in memoryStore : http[q].now = http[r].now /\ memoryStore' = memoryStore \ {q}
             ELSE UNCHANGED memoryStore
  /\ NextStep(r, "given back")
  /\ UNCHANGED <<wall, reached>>

RedisFails == reached /\ reached' = FALSE /\ UNCHANGED <<wall, members, memoryStore, http>>
RedisBack == ~reached /\ reached' = TRUE /\ UNCHANGED <<wall, members, memoryStore, http>>

LimitTick ==
  /\ wall < MaxLimitTime
  /\ wall' = wall + 1
  /\ UNCHANGED <<reached, members, memoryStore, http>>

LimitInit ==
  /\ wall = 0 /\ reached \in BOOLEAN
  /\ members = {} /\ memoryStore = {}
  /\ http = [r \in HttpRequests |-> [at |-> "none", now |-> 0, store |-> "none", prompt |-> FALSE]]

LimitNext ==
  \/ RedisFails \/ RedisBack \/ LimitTick
  \/ \E r \in HttpRequests :
       \/ Arrive(r) \/ TrimMembers(r) \/ AddMember(r) \/ CountMembers(r)
       \/ ConsumeMemoryLimit(r) \/ GiveBack(r)

LimitSpec == LimitInit /\ [][LimitNext]_limitVars

-----------------------------------------------------------------------------
(* Properties. *)

\* No window lets in more than its limit through one store, however the commands
\* of its requests interleave; a request that gets its answer only in a later
\* millisecond than it came in is not bound by it, for the others have trimmed
\* the set by then.  Requests that were given back do not count.
WindowHolds ==
  \A store \in {"redis", "memory"}, end \in 0..MaxLimitTime :
    Cardinality({r \in Arrived : /\ InStep(r, "allowed") /\ http[r].prompt /\ http[r].store = store
                                 /\ http[r].now <= end /\ end < http[r].now + windowMs}) <= maxRequests
=============================================================================
