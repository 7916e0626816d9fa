------------------------------ MODULE SecurityGate ------------------------------
(***************************************************************************)
(* Logins from one address: services/security.service.ts as                *)
(* middleware/security.middleware.ts and controllers/auth.controller.ts    *)
(* call it.  A request is evaluated, consumes from a rate limit, and the   *)
(* outcome of its password is recorded; every access to Redis is awaited.  *)
(* The record and the buckets are all in Redis (`shared') or all in the    *)
(* process.  Time is in units of one rate limit window.                    *)
(***************************************************************************)
EXTENDS Naturals

CONSTANTS
  LoginCalls,                   \* requests served at a time
  FLAGGED_ATTEMPT_THRESHOLD,
  BLOCK_THRESHOLD,
  LOCKOUT_WINDOW,
  FAILED_ATTEMPT_TTL,
  AUTH_WINDOW,
  AuthMax,                      \* flagged -> requests in a window
  MaxGateTime,                  \* bound: the clock
  MaxFailures,                  \* bound: failures counted in a record
  MaxGateCrashes                \* bound: how often the process dies

ASSUME GateAssumption ==
  /\ BLOCK_THRESHOLD \in Nat /\ MaxFailures \in Nat /\ AuthMax \in [BOOLEAN -> Nat]
  /\ {LOCKOUT_WINDOW, FAILED_ATTEMPT_TTL, AUTH_WINDOW, MaxGateTime} \subseteq Nat \ {0}

VARIABLES
  shared,        \* whether Redis is the store
  time,
  record,        \* the address's failed attempts, or NoRecord
  recordEnds,    \* when Redis drops it
  bucket,        \* flagged -> [count, ends]; ends is NoEnd without an expiry
  login,         \* call -> where it is, its bucket and the record it has read
  gateCrashes,
  lockedUntil,   \* end of the last lockout (history)
  lifted,        \* whether something ended it that may (history)
  letIn          \* flagged -> requests let in since its bucket was new (history)

gateVars == <<shared, time, record, recordEnds, bucket, login, gateCrashes, lockedUntil, lifted, letIn>>

NoEnd == 0
NotBlocked == 0
NoRecord == [attempts |-> 0, last |-> 0, blockedUntil |-> NotBlocked]
NewBucket == [count |-> 0, ends |-> NoEnd]
NoLogin == [at |-> "none", flagged |-> FALSE, copy |-> NoRecord]
OnStep(c, place) == login[c].at = place
ToStep(c, place) == login' = [login EXCEPT ![c].at = place]
ToPassword(c) == login' = [login EXCEPT ![c] = [NoLogin EXCEPT !.at = "password"]]
Leaves(c) == login' = [login EXCEPT ![c] = NoLogin]

LockedOut(rec) == rec.blockedUntil > time
\* readStoredFailedAttempt
Stored ==
  IF IF shared THEN recordEnds <= time
               ELSE time > record.last + FAILED_ATTEMPT_TTL /\ ~LockedOut(record)
  THEN NoRecord ELSE record

KeepRecord == UNCHANGED <<record, recordEnds, lockedUntil, lifted>>
KeepBuckets == UNCHANGED <<bucket, letIn>>
KeepClock == UNCHANGED <<shared, time, gateCrashes>>

-----------------------------------------------------------------------------
(* evaluateAuthRequest *)

Evaluate(c) ==
  /\ OnStep(c, "none")
  /\ ~LockedOut(Stored)
  /\ ToStep(c, "assess")
  /\ KeepRecord /\ KeepBuckets /\ KeepClock

\* assessIpReputation reads the record again; the external provider may flag.
Assess(c) ==
  /\ OnStep(c, "assess")
  /\ \E external \in BOOLEAN :
       login' = [login EXCEPT ![c].at = "consume",
         ![c].flagged = \/ external
                        \/ Stored.attempts >= FLAGGED_ATTEMPT_THRESHOLD
                        \/ Stored.blockedUntil # NotBlocked]
  /\ KeepRecord /\ KeepBuckets /\ KeepClock

Live(b) == bucket[b].ends = NoEnd \/ bucket[b].ends > time
Consumed(b) == IF Live(b) THEN bucket[b].count + 1 ELSE 1

Allowed(b) == Consumed(b) <= AuthMax[b]

\* checkAndConsumeRateLimit; in Redis the expiry of a new key is a second
\* command.  The count stops one above the limit, which changes nothing.
Consume(c) ==
  LET b == login[c].flagged
      count == Consumed(b) IN
  /\ OnStep(c, "consume")
  /\ bucket' = [bucket EXCEPT ![b] =
       [count |-> IF count > AuthMax[b] THEN AuthMax[b] + 1 ELSE count,
        ends |-> IF count > 1 THEN @.ends ELSE IF shared THEN NoEnd ELSE time + AUTH_WINDOW]]
  /\ letIn' = [letIn EXCEPT ![b] = (IF count = 1 THEN 0 ELSE @) + (IF Allowed(b) THEN 1 ELSE 0)]
  /\ IF ~Allowed(b) THEN Leaves(c)
     ELSE IF shared /\ count = 1 THEN ToStep(c, "expire") ELSE ToPassword(c)
  /\ KeepRecord /\ KeepClock

SetExpiry(c) ==
  /\ OnStep(c, "expire")
  /\ bucket' = [bucket EXCEPT ![login[c].flagged].ends = time + AUTH_WINDOW]
  /\ ToPassword(c)
  /\ UNCHANGED letIn /\ KeepRecord /\ KeepClock

-----------------------------------------------------------------------------
(* AuthController.login and recordFailedAttempt *)

Password(c) ==
  /\ OnStep(c, "password")
  /\ ToStep(c, "clear") \/ ToStep(c, "record") \/ Leaves(c)
  /\ KeepRecord /\ KeepBuckets /\ KeepClock

ClearFailedAttempts(c) ==
  /\ OnStep(c, "clear")
  /\ record' = NoRecord /\ recordEnds' = NoEnd
  /\ lifted' = TRUE
  /\ Leaves(c)
  /\ UNCHANGED lockedUntil /\ KeepBuckets /\ KeepClock

ReadRecord(c) ==
  /\ OnStep(c, "record") /\ Stored.attempts < MaxFailures
  /\ login' = [login EXCEPT ![c].at = "write", ![c].copy = Stored]
  /\ KeepRecord /\ KeepBuckets /\ KeepClock

\* Mutant: the lockout starts at the threshold only.
LocksOutAt(attempts) == attempts = BLOCK_THRESHOLD

LocksOut(attempts) == attempts >= BLOCK_THRESHOLD

Counted(copy) == copy.attempts + 1

\* Without a lockout the record is forgotten a while after its last attempt;
\* with one, and the address blocked, when the lockout ends.
StoreRecord(rec) ==
  record' = rec /\ recordEnds' = time + FAILED_ATTEMPT_TTL /\ UNCHANGED lockedUntil
PersistBlockState(rec) ==
  LET until == time + LOCKOUT_WINDOW IN
  record' = [rec EXCEPT !.blockedUntil = until] /\ recordEnds' = until /\ lockedUntil' = until

\* The copy with one more attempt replaces whatever is stored by now.
WriteRecord(c) ==
  LET copy == login[c].copy
      counted == [attempts |-> Counted(copy), last |-> time, blockedUntil |-> NotBlocked] IN
  /\ OnStep(c, "write")
  /\ \/ LocksOut(counted.attempts) /\ PersistBlockState(counted) /\ lifted' = FALSE
     \/ /\ ~LocksOut(counted.attempts) /\ StoreRecord(counted)
        /\ lifted' = (lifted \/ copy # Stored)
  /\ Leaves(c)
  /\ KeepBuckets /\ KeepClock

GateTick ==
  /\ time < MaxGateTime
  /\ time' = time + 1
  /\ UNCHANGED <<shared, login, gateCrashes>> /\ KeepRecord /\ KeepBuckets

\* What is in the process is lost with it.
GateCrash ==
  /\ gateCrashes < MaxGateCrashes
  /\ gateCrashes' = gateCrashes + 1
  /\ login' = [c \in LoginCalls |-> NoLogin]
  /\ IF shared THEN KeepRecord /\ KeepBuckets
     ELSE /\ record' = NoRecord /\ lifted' = TRUE
          /\ bucket' = [b \in BOOLEAN |-> NewBucket] /\ letIn' = [b \in BOOLEAN |-> 0]
          /\ UNCHANGED <<recordEnds, lockedUntil>>
  /\ UNCHANGED <<shared, time>>

GateInit ==
  /\ shared \in BOOLEAN /\ time = 1
  /\ record = NoRecord /\ recordEnds = NoEnd
  /\ bucket = [b \in BOOLEAN |-> NewBucket]
  /\ login = [c \in LoginCalls |-> NoLogin]
  /\ gateCrashes = 0
  /\ lockedUntil = 0 /\ lifted = FALSE
  /\ letIn = [b \in BOOLEAN |-> 0]

GateNext ==
  \/ GateTick \/ GateCrash
  \/ \E c \in LoginCalls :
       \/ Evaluate(c) \/ Assess(c) \/ Consume(c) \/ SetExpiry(c)
       \/ Password(c) \/ ClearFailedAttempts(c) \/ ReadRecord(c) \/ WriteRecord(c)

GateSpec == GateInit /\ [][GateNext]_gateVars

-----------------------------------------------------------------------------
(* Properties. *)

GateTypeOK ==
  /\ record.attempts \in 0..MaxFailures
  /\ \A b \in BOOLEAN : bucket[b].count \in 0..(AuthMax[b] + 1)

\* A lockout stands until its end, in Redis as in the process, whatever failures
\* are still being counted: only a login that succeeds, a failure counted from a
\* copy that is out of date, or the loss of the process's memory ends it earlier.
LockoutStands ==
  lockedUntil > time /\ ~lifted => Stored.blockedUntil = lockedUntil

\* Between two beginnings of a bucket no more requests are let in than it holds,
\* though its count and its expiry are set by different commands.
BucketHolds == \A b \in BOOLEAN : letIn[b] <= AuthMax[b]

\* What the gate keeps: lockouts that stand and buckets that hold.
GateInv == GateTypeOK /\ LockoutStands /\ BucketHolds
=============================================================================
