---------------------------- MODULE GatewayProofs ----------------------------
(***************************************************************************)
(* Theorems about the services that stand between a client and the rest:   *)
(* the gate before logins, the rate limit of a key, conversions of one     *)
(* wallet and SEP-24 sessions; for every number of calls in progress, rows *)
(* and crashes.  They share no variable: each part speaks of the           *)
(* specification of one, and the last of all services at once, those of    *)
(* ServiceProofs included.                                                 *)
(***************************************************************************)
EXTENDS MCServices, ServiceProofs

-----------------------------------------------------------------------------
(* The gate before logins: the inductive invariant. *)

FailureRecords == [attempts : 0..MaxFailures, last : Nat, blockedUntil : Nat]
Logins ==
  [at : {"none", "assess", "consume", "expire", "password", "clear", "record", "write"},
   flagged : BOOLEAN, copy : FailureRecords]

GateTypes ==
  /\ shared \in BOOLEAN /\ time \in Nat /\ lifted \in BOOLEAN
  /\ record \in FailureRecords /\ recordEnds \in Nat /\ lockedUntil \in Nat
  /\ login \in [LoginCalls -> Logins]
  /\ bucket \in [BOOLEAN -> [count : Nat, ends : Nat]]
  /\ letIn \in [BOOLEAN -> Nat]

\* While a lockout stands, its record is the one stored, whoever wrote it, and its
\* attempts lock out again: a failure counted from it never stores one that does not.
LockoutIsStored ==
  lockedUntil > time /\ ~lifted =>
    /\ record.blockedUntil = lockedUntil /\ LocksOut(record.attempts)
    /\ shared => recordEnds = lockedUntil

\* The count of a bucket is no less than what it let in.
BucketCounts == \A b \in BOOLEAN : /\ letIn[b] <= bucket[b].count /\ letIn[b] <= AuthMax[b]
                                   /\ bucket[b].count <= AuthMax[b] + 1

\* A failure is only counted from a copy that has room for it.
RoomToCount == \A c \in LoginCalls : OnStep(c, "write") => login[c].copy.attempts < MaxFailures

GateSound == GateTypes /\ LockoutIsStored /\ BucketCounts /\ RoomToCount

LEMMA EmptyRecord ==
  NoRecord \in FailureRecords /\ NoLogin \in Logins /\ NoLogin.at = "none"
<1>1. NoRecord \in FailureRecords
  BY GateAssumption DEF NoRecord, FailureRecords, NotBlocked
<1> QED
  BY <1>1 DEF NoLogin, Logins

LEMMA StoredTyped ==
  ASSUME GateTypes
  PROVE  Stored \in FailureRecords
  BY EmptyRecord DEF GateTypes, Stored

\* What is stored while a lockout stands is its record.
LEMMA StoredStands ==
  ASSUME GateSound, lockedUntil > time, ~lifted
  PROVE  Stored = record
<1>1. /\ time \in Nat /\ lockedUntil \in Nat /\ record.blockedUntil = lockedUntil
      /\ shared => recordEnds = lockedUntil
  BY DEF GateSound, GateTypes, LockoutIsStored
<1> QED
  BY <1>1 DEF Stored, LockedOut

LEMMA GateKeeps ==
  ASSUME GateSound
  PROVE  GateInv
<1>1. GateTypeOK
  <2>1. record.attempts \in 0..MaxFailures
    BY DEF GateSound, GateTypes, FailureRecords
  <2>2. \A b \in BOOLEAN : bucket[b].count \in 0..(AuthMax[b] + 1)
    BY GateAssumption DEF GateSound, GateTypes, BucketCounts
  <2> QED
    BY <2>1, <2>2 DEF GateTypeOK
<1>2. LockoutStands
  BY StoredStands DEF LockoutStands, GateSound, LockoutIsStored
<1> QED
  BY <1>1, <1>2 DEF GateInv, BucketHolds, GateSound, BucketCounts

\* Steps that change a call only.
LEMMA CallSteps ==
  ASSUME GateSound, NEW c \in LoginCalls, NEW new \in Logins,
         login' = [login EXCEPT ![c] = new],
         new.at = "write" => new.copy.attempts < MaxFailures
  PROVE  login' \in [LoginCalls -> Logins] /\ RoomToCount'
<1>1. login \in [LoginCalls -> Logins]
  BY DEF GateSound, GateTypes
<1>2. login' \in [LoginCalls -> Logins]
  BY <1>1
<1>3. ASSUME NEW d \in LoginCalls, login'[d].at = "write"
      PROVE  login'[d].copy.attempts < MaxFailures
  BY <1>1, <1>3 DEF GateSound, RoomToCount, OnStep
<1> QED
  BY <1>2, <1>3 DEF RoomToCount, OnStep

LEMMA LeavesKeeps ==
  ASSUME GateSound, NEW c \in LoginCalls, Leaves(c) \/ ToPassword(c)
  PROVE  login' \in [LoginCalls -> Logins] /\ RoomToCount'
<1> DEFINE waits == [NoLogin EXCEPT !.at = "password"]
<1>1. waits \in Logins /\ waits.at = "password"
  BY EmptyRecord DEF Logins, NoLogin
<1>2. CASE Leaves(c)
  BY <1>2, EmptyRecord, CallSteps DEF Leaves
<1>3. CASE ToPassword(c)
  <2>1. login' = [login EXCEPT ![c] = waits]
    BY <1>3 DEF ToPassword
  <2> HIDE DEF waits
  <2> QED
    BY <1>1, <2>1, CallSteps
<1> QED
  BY <1>2, <1>3

LEMMA ToStepKeeps ==
  ASSUME GateSound, NEW c \in LoginCalls, NEW place, ToStep(c, place),
         place \in {"assess", "consume", "expire", "clear", "record"}
  PROVE  login' \in [LoginCalls -> Logins] /\ RoomToCount'
<1> DEFINE new == [login[c] EXCEPT !.at = place]
<1>1. login[c] \in Logins
  BY DEF GateSound, GateTypes
<1>2. new \in Logins /\ new.at = place
  BY <1>1 DEF Logins
<1>3. login' = [login EXCEPT ![c] = new]
  BY DEF ToStep
<1> HIDE DEF new
<1> QED
  BY <1>2, <1>3, CallSteps

\* Steps that leave the record alone keep the lockout; so does time.
LEMMA RecordStays ==
  ASSUME GateSound, KeepRecord, UNCHANGED shared, time' \in Nat, time' >= time
  PROVE  /\ LockoutIsStored'
         /\ record' \in FailureRecords /\ recordEnds' \in Nat /\ lockedUntil' \in Nat
         /\ lifted' \in BOOLEAN /\ shared' \in BOOLEAN
<1>1. /\ record' = record /\ recordEnds' = recordEnds /\ lockedUntil' = lockedUntil
      /\ lifted' = lifted /\ shared' = shared
  BY DEF KeepRecord
<1>2. GateTypes /\ LockoutIsStored
  BY DEF GateSound
<1>3. lockedUntil > time' => lockedUntil > time
  BY <1>2 DEF GateTypes
<1>4. LockoutIsStored'
  BY <1>1, <1>2, <1>3 DEF LockoutIsStored
<1> QED
  BY <1>1, <1>2, <1>4 DEF GateTypes

LEMMA ConsumeKeeps ==
  ASSUME GateSound, NEW c \in LoginCalls, Consume(c)
  PROVE  GateSound'
<1> DEFINE b == login[c].flagged
           count == Consumed(b)
           new == [count |-> IF count > AuthMax[b] THEN AuthMax[b] + 1 ELSE count,
                   ends |-> IF count > 1 THEN bucket[b].ends
                            ELSE IF shared THEN NoEnd ELSE time + AUTH_WINDOW]
           let == (IF count = 1 THEN 0 ELSE letIn[b]) + (IF Allowed(b) THEN 1 ELSE 0)
<1>1. /\ b \in BOOLEAN /\ bucket[b].count \in Nat /\ bucket[b].ends \in Nat /\ letIn[b] \in Nat
      /\ AuthMax[b] \in Nat /\ AUTH_WINDOW \in Nat /\ time \in Nat
      /\ letIn[b] <= bucket[b].count /\ letIn[b] <= AuthMax[b]
      /\ bucket \in [BOOLEAN -> [count : Nat, ends : Nat]] /\ letIn \in [BOOLEAN -> Nat]
  <2>1. login[c] \in Logins
    BY DEF GateSound, GateTypes
  <2>2. b \in BOOLEAN
    BY <2>1 DEF Logins
  <2> HIDE DEF b
  <2> QED
    BY <2>2, GateAssumption DEF GateSound, GateTypes, BucketCounts
<1>2. bucket' = [bucket EXCEPT ![b] = new] /\ letIn' = [letIn EXCEPT ![b] = let]
      /\ KeepRecord /\ KeepClock
  BY DEF Consume
<1>3. /\ count \in Nat \ {0} /\ (count = 1 \/ count = bucket[b].count + 1)
      /\ (Allowed(b) <=> count <= AuthMax[b])
  <2> HIDE DEF b
  <2> QED
    BY <1>1 DEF Consumed, Allowed
<1> HIDE DEF b, count
<1>4. new \in [count : Nat, ends : Nat] /\ new.count = IF count > AuthMax[b] THEN AuthMax[b] + 1 ELSE count
  BY <1>1, <1>3 DEF NoEnd
<1>5. let \in Nat /\ let <= new.count /\ let <= AuthMax[b] /\ new.count <= AuthMax[b] + 1
  BY <1>1, <1>3, <1>4
<1> HIDE DEF new, let
<1>6. /\ bucket' \in [BOOLEAN -> [count : Nat, ends : Nat]] /\ letIn' \in [BOOLEAN -> Nat]
      /\ BucketCounts'
  <2>1. bucket' \in [BOOLEAN -> [count : Nat, ends : Nat]] /\ letIn' \in [BOOLEAN -> Nat]
    BY <1>1, <1>2, <1>4, <1>5
  <2>2. ASSUME NEW d \in BOOLEAN
        PROVE  /\ letIn'[d] <= bucket'[d].count /\ letIn'[d] <= AuthMax[d]
               /\ bucket'[d].count <= AuthMax[d] + 1
    <3>1. CASE d = b
      BY <1>1, <1>2, <1>5, <3>1
    <3>2. CASE d # b
      <4>1. bucket'[d] = bucket[d] /\ letIn'[d] = letIn[d]
        BY <1>1, <1>2, <3>2
      <4> QED
        BY <4>1 DEF GateSound, BucketCounts
    <3> QED
      BY <3>1, <3>2
  <2> QED
    BY <2>1, <2>2 DEF BucketCounts
<1>7. login' \in [LoginCalls -> Logins] /\ RoomToCount'
  <2>1. Leaves(c) \/ ToPassword(c) \/ ToStep(c, "expire")
    BY DEF Consume
  <2> QED
    BY <2>1, LeavesKeeps, ToStepKeeps
<1>8. time' = time /\ shared' = shared
  BY <1>2 DEF KeepClock
<1>9. time' \in Nat /\ time' >= time
  BY <1>1, <1>8
<1>10. /\ LockoutIsStored' /\ record' \in FailureRecords /\ recordEnds' \in Nat
       /\ lockedUntil' \in Nat /\ lifted' \in BOOLEAN /\ shared' \in BOOLEAN
  BY <1>2, <1>8, <1>9, RecordStays
<1> QED
  BY <1>6, <1>7, <1>9, <1>10 DEF GateSound, GateTypes

LEMMA SetExpiryKeeps ==
  ASSUME GateSound, NEW c \in LoginCalls, SetExpiry(c)
  PROVE  GateSound'
<1> DEFINE b == login[c].flagged
           new == [bucket[b] EXCEPT !.ends = time + AUTH_WINDOW]
<1>1. /\ b \in BOOLEAN /\ time \in Nat /\ AUTH_WINDOW \in Nat
      /\ bucket \in [BOOLEAN -> [count : Nat, ends : Nat]] /\ letIn \in [BOOLEAN -> Nat]
  <2>1. login[c] \in Logins
    BY DEF GateSound, GateTypes
  <2>2. b \in BOOLEAN
    BY <2>1 DEF Logins
  <2> HIDE DEF b
  <2> QED
    BY <2>2, GateAssumption DEF GateSound, GateTypes
<1>2. bucket' = [bucket EXCEPT ![b] = new] /\ letIn' = letIn /\ KeepRecord /\ KeepClock /\ ToPassword(c)
  BY DEF SetExpiry
<1> HIDE DEF b
<1>3. new \in [count : Nat, ends : Nat] /\ new.count = bucket[b].count
  BY <1>1
<1> HIDE DEF new
<1>4. bucket' \in [BOOLEAN -> [count : Nat, ends : Nat]] /\ \A d \in BOOLEAN : bucket'[d].count = bucket[d].count
  BY <1>1, <1>2, <1>3
<1>5. BucketCounts'
  BY <1>2, <1>4 DEF GateSound, BucketCounts
<1>6. login' \in [LoginCalls -> Logins] /\ RoomToCount'
  BY <1>2, LeavesKeeps
<1>7. time' = time /\ shared' = shared
  BY <1>2 DEF KeepClock
<1>8. time' \in Nat /\ time' >= time
  BY <1>1, <1>7
<1>9. /\ LockoutIsStored' /\ record' \in FailureRecords /\ recordEnds' \in Nat
      /\ lockedUntil' \in Nat /\ lifted' \in BOOLEAN /\ shared' \in BOOLEAN
  BY <1>2, <1>7, <1>8, RecordStays
<1> QED
  BY <1>1, <1>2, <1>4, <1>5, <1>6, <1>8, <1>9 DEF GateSound, GateTypes

\* Steps that only read the record, or the clock that goes on.
LEMMA GateReads ==
  ASSUME GateSound, KeepRecord, KeepBuckets, UNCHANGED shared, time' \in Nat, time' >= time,
         login' \in [LoginCalls -> Logins], RoomToCount'
  PROVE  GateSound'
<1>1. /\ LockoutIsStored' /\ record' \in FailureRecords /\ recordEnds' \in Nat
      /\ lockedUntil' \in Nat /\ lifted' \in BOOLEAN /\ shared' \in BOOLEAN
  BY RecordStays
<1>2. BucketCounts' /\ bucket' = bucket /\ letIn' = letIn
  BY DEF KeepBuckets, GateSound, BucketCounts
<1> QED
  BY <1>1, <1>2 DEF GateSound, GateTypes

LEMMA ReadingKeeps ==
  ASSUME GateSound, NEW c \in LoginCalls,
         Evaluate(c) \/ Assess(c) \/ Password(c) \/ ReadRecord(c)
  PROVE  GateSound'
<1>1. KeepRecord /\ KeepBuckets /\ KeepClock
  BY DEF Evaluate, Assess, Password, ReadRecord
<1>2. time \in Nat /\ time' = time /\ shared' = shared /\ login[c] \in Logins
  BY <1>1 DEF KeepClock, GateSound, GateTypes
<1>3. CASE Evaluate(c) \/ Password(c)
  <2>1. Leaves(c) \/ ToStep(c, "assess") \/ ToStep(c, "clear") \/ ToStep(c, "record")
    BY <1>3 DEF Evaluate, Password
  <2>2. login' \in [LoginCalls -> Logins] /\ RoomToCount'
    BY <2>1, LeavesKeeps, ToStepKeeps
  <2> QED
    BY <1>1, <1>2, <2>2, GateReads
<1>4. CASE Assess(c)
  <2>1. PICK f \in BOOLEAN : login' = [login EXCEPT ![c] = [login[c] EXCEPT !.at = "consume", !.flagged = f]]
    <3>1. PICK external \in BOOLEAN :
            login' = [login EXCEPT ![c].at = "consume",
              ![c].flagged = \/ external
                             \/ Stored.attempts >= FLAGGED_ATTEMPT_THRESHOLD
                             \/ Stored.blockedUntil # NotBlocked]
      BY <1>4 DEF Assess
    <3> DEFINE f == \/ external
                    \/ Stored.attempts >= FLAGGED_ATTEMPT_THRESHOLD
                    \/ Stored.blockedUntil # NotBlocked
    <3>2. f \in BOOLEAN
      OBVIOUS
    <3>3. login' = [login EXCEPT ![c].at = "consume", ![c].flagged = f]
      BY <3>1
    <3> HIDE DEF f
    <3>4. login' = [login EXCEPT ![c] = [login[c] EXCEPT !.at = "consume", !.flagged = f]]
      BY <3>3 DEF GateSound, GateTypes
    <3> QED
      BY <3>2, <3>4
  <2> DEFINE new == [login[c] EXCEPT !.at = "consume", !.flagged = f]
  <2>2. new \in Logins /\ new.at = "consume"
    BY <1>2 DEF Logins
  <2>3. login' = [login EXCEPT ![c] = new]
    BY <2>1
  <2> HIDE DEF new
  <2>4. login' \in [LoginCalls -> Logins] /\ RoomToCount'
    BY <2>2, <2>3, CallSteps
  <2> QED
    BY <1>1, <1>2, <2>4, GateReads
<1>5. CASE ReadRecord(c)
  <2> DEFINE new == [login[c] EXCEPT !.at = "write", !.copy = Stored]
  <2>1. Stored \in FailureRecords /\ Stored.attempts < MaxFailures
    BY <1>5, StoredTyped DEF ReadRecord, GateSound
  <2>2. new \in Logins /\ new.copy = Stored
    BY <1>2, <2>1 DEF Logins
  <2>3. login' = [login EXCEPT ![c] = new]
    BY <1>5 DEF ReadRecord, GateSound, GateTypes
  <2> HIDE DEF new
  <2>4. login' \in [LoginCalls -> Logins] /\ RoomToCount'
    BY <2>1, <2>2, <2>3, CallSteps
  <2> QED
    BY <1>1, <1>2, <2>4, GateReads
<1> QED
  BY <1>3, <1>4, <1>5

\* A new record, with the lockout that stands or without one.
LEMMA NewRecord ==
  ASSUME GateSound, KeepBuckets, KeepClock, record' \in FailureRecords, recordEnds' \in Nat,
         lockedUntil' \in Nat, lifted' \in BOOLEAN, LockoutIsStored',
         login' \in [LoginCalls -> Logins], RoomToCount'
  PROVE  GateSound'
<1>1. BucketCounts' /\ bucket' = bucket /\ letIn' = letIn /\ time' = time /\ shared' = shared
  BY DEF KeepBuckets, KeepClock, GateSound, BucketCounts
<1> QED
  BY <1>1 DEF GateSound, GateTypes

LEMMA WriteKeeps ==
  ASSUME GateSound, NEW c \in LoginCalls, ClearFailedAttempts(c) \/ WriteRecord(c)
  PROVE  GateSound'
<1>1. /\ KeepBuckets /\ KeepClock /\ Leaves(c)
      /\ login' \in [LoginCalls -> Logins] /\ RoomToCount'
  <2>1. KeepBuckets /\ KeepClock /\ Leaves(c)
    BY DEF ClearFailedAttempts, WriteRecord
  <2> QED
    BY <2>1, LeavesKeeps
<1>2. /\ time \in Nat /\ time' = time /\ shared' = shared /\ lockedUntil \in Nat /\ lifted \in BOOLEAN
      /\ record \in FailureRecords
      /\ LOCKOUT_WINDOW \in Nat \ {0} /\ FAILED_ATTEMPT_TTL \in Nat /\ BLOCK_THRESHOLD \in Nat
  BY <1>1, GateAssumption DEF KeepClock, GateSound, GateTypes
<1>3. CASE ClearFailedAttempts(c)
  <2>1. record' = NoRecord /\ recordEnds' = 0 /\ lifted' = TRUE /\ lockedUntil' = lockedUntil
    BY <1>3 DEF ClearFailedAttempts, NoEnd
  <2>2. LockoutIsStored'
    BY <2>1 DEF LockoutIsStored
  <2> QED
    BY <1>1, <1>2, <2>1, <2>2, EmptyRecord, NewRecord
<1>4. CASE WriteRecord(c)
  <2> DEFINE copy == login[c].copy
             counted == [attempts |-> Counted(copy), last |-> time, blockedUntil |-> NotBlocked]
             until == time + LOCKOUT_WINDOW
             forget == time + FAILED_ATTEMPT_TTL
             blocked == [counted EXCEPT !.blockedUntil = until]
  <2>1. copy.attempts \in Nat /\ copy.attempts < MaxFailures
    <3>1. login[c] \in Logins /\ OnStep(c, "write")
      BY <1>4 DEF GateSound, GateTypes, WriteRecord
    <3>2. copy \in FailureRecords
      BY <3>1 DEF Logins
    <3> QED
      BY <3>1, <3>2 DEF FailureRecords, GateSound, RoomToCount
  <2>2. /\ counted \in FailureRecords /\ counted.attempts = copy.attempts + 1
        /\ until \in Nat /\ until > time /\ forget \in Nat
    <3>1. copy.attempts + 1 \in 0..MaxFailures
      BY <2>1, GateAssumption
    <3>2. counted \in FailureRecords /\ counted.attempts = copy.attempts + 1
      BY <1>2, <3>1 DEF Counted, NotBlocked, FailureRecords
    <3> QED
      BY <1>2, <3>2
  <2>3. blocked \in FailureRecords /\ blocked.attempts = counted.attempts /\ blocked.blockedUntil = until
    <3> HIDE DEF counted, until
    <3> QED
      BY <2>2 DEF FailureRecords
  <2>4. \/ /\ LocksOut(counted.attempts) /\ record' = blocked /\ recordEnds' = until
           /\ lockedUntil' = until /\ lifted' = FALSE
        \/ /\ ~LocksOut(counted.attempts) /\ record' = counted /\ recordEnds' = forget
           /\ lockedUntil' = lockedUntil /\ lifted' = (lifted \/ copy # Stored)
    BY <1>4 DEF WriteRecord, PersistBlockState, StoreRecord
  <2> HIDE DEF counted, until, blocked, forget
  <2>5. CASE LocksOut(counted.attempts)
    <3>1. LockoutIsStored'
      BY <2>3, <2>4, <2>5 DEF LockoutIsStored, LocksOut
    <3> QED
      BY <1>1, <1>2, <2>2, <2>3, <2>4, <2>5, <3>1, NewRecord
  <2>6. CASE ~LocksOut(counted.attempts)
    <3>1. ASSUME lockedUntil > time, ~(lifted \/ copy # Stored)
          PROVE  FALSE
      <4>1. copy = record
        BY <3>1, StoredStands
      <4>2. LocksOut(record.attempts)
        BY <3>1 DEF GateSound, LockoutIsStored
      <4> QED
        BY <1>2, <2>1, <2>2, <2>6, <4>1, <4>2 DEF LocksOut
    <3>2. LockoutIsStored'
      BY <1>2, <2>4, <2>6, <3>1 DEF LockoutIsStored
    <3>3. lifted' \in BOOLEAN
      BY <2>4, <2>6
    <3> QED
      BY <1>1, <1>2, <2>2, <2>4, <2>6, <3>2, <3>3, NewRecord
  <2> QED
    BY <2>5, <2>6
<1> QED
  BY <1>3, <1>4

LEMMA GateCrashKeeps ==
  ASSUME GateSound, GateCrash
  PROVE  GateSound'
<1>1. login' = [c \in LoginCalls |-> NoLogin] /\ time' = time /\ shared' = shared
  BY DEF GateCrash
<1>2. login' \in [LoginCalls -> Logins] /\ RoomToCount'
  BY <1>1, EmptyRecord DEF RoomToCount, OnStep
<1>3. time' \in Nat /\ time' >= time
  BY <1>1 DEF GateSound, GateTypes
<1>4. CASE shared
  BY <1>1, <1>2, <1>3, <1>4, GateReads DEF GateCrash
<1>5. CASE ~shared
  <2>1. /\ record' = NoRecord /\ lifted' = TRUE
        /\ bucket' = [b \in BOOLEAN |-> NewBucket] /\ letIn' = [b \in BOOLEAN |-> 0]
        /\ recordEnds' = recordEnds /\ lockedUntil' = lockedUntil
    BY <1>5 DEF GateCrash
  <2>2. LockoutIsStored'
    BY <2>1 DEF LockoutIsStored
  <2>3. NewBucket \in [count : Nat, ends : Nat] /\ NewBucket.count = 0
    BY DEF NewBucket, NoEnd
  <2>4. BucketCounts' /\ bucket' \in [BOOLEAN -> [count : Nat, ends : Nat]] /\ letIn' \in [BOOLEAN -> Nat]
    BY <2>1, <2>3, GateAssumption DEF BucketCounts
  <2> QED
    BY <1>1, <1>2, <1>3, <2>1, <2>2, <2>4, EmptyRecord DEF GateSound, GateTypes
<1> QED
  BY <1>4, <1>5

LEMMA GateBegin ==
  ASSUME GateInit
  PROVE  GateSound
<1>1. NewBucket \in [count : Nat, ends : Nat] /\ NewBucket.count = 0
  BY DEF NewBucket, NoEnd
<1>2. GateTypes
  BY <1>1, EmptyRecord DEF GateInit, GateTypes, NoEnd
<1>3. BucketCounts
  BY <1>1, GateAssumption DEF GateInit, BucketCounts
<1>4. LockoutIsStored
  BY DEF GateInit, LockoutIsStored
<1>5. RoomToCount
  BY EmptyRecord DEF GateInit, RoomToCount, OnStep
<1> QED
  BY <1>2, <1>3, <1>4, <1>5 DEF GateSound

LEMMA GateStep ==
  ASSUME GateSound, [GateNext]_gateVars
  PROVE  GateSound'
<1>1. CASE GateTick
  <2>1. /\ time' \in Nat /\ time' >= time /\ shared' = shared /\ login' = login
        /\ KeepRecord /\ KeepBuckets
    BY <1>1 DEF GateTick, GateSound, GateTypes
  <2>2. login' \in [LoginCalls -> Logins] /\ RoomToCount'
    BY <2>1 DEF GateSound, GateTypes, RoomToCount, OnStep
  <2> QED
    BY <2>1, <2>2, GateReads
<1>2. CASE UNCHANGED gateVars
  BY <1>2 DEF gateVars, GateSound, GateTypes, LockoutIsStored, BucketCounts, RoomToCount, OnStep
<1> QED
  BY <1>1, <1>2, GateCrashKeeps, ConsumeKeeps, SetExpiryKeeps, ReadingKeeps, WriteKeeps DEF GateNext

\* A lockout stands until its end and a bucket lets in no more than it holds, however
\* the commands of the logins of an address interleave (recordFailedAttempt,
\* persistBlockState, checkAndConsumeRateLimit).
THEOREM GateHolds == GateSpec => []GateInv
  BY GateBegin, GateStep, GateKeeps, PTL DEF GateSpec

-----------------------------------------------------------------------------
(* The rate limit of a key: the inductive invariant. *)

HttpStates ==
  [at : {"none", "trim", "add", "count", "allowed", "refused", "given back"},
   now : Nat, store : {"none", "redis", "memory"}, prompt : BOOLEAN]

LimitTypes ==
  /\ wall \in Nat /\ reached \in BOOLEAN
  /\ members \subseteq HttpRequests /\ memoryStore \subseteq HttpRequests
  /\ http \in [HttpRequests -> HttpStates]
  /\ \A r \in HttpRequests : http[r].now <= wall

Waiting == {"none", "trim", "add", "count"}
\* Whether a request is outside the window by now.
OutOfWindow(r) == http[r].now + windowMs <= wall

\* What is in the set until the window has passed it: requests added and not given back.
InSet ==
  \A r \in HttpRequests :
    \/ InStep(r, "count")
    \/ InStep(r, "allowed") /\ http[r].store = "redis"
    => r \in members \/ OutOfWindow(r)

\* The list is of times, so a request may take another's place in it: the requests let
\* in and not yet past the window have places of their own, with the same times.
LetInByList == {r \in HttpRequests : InStep(r, "allowed") /\ http[r].store = "memory" /\ ~OutOfWindow(r)}
Places(f) ==
  /\ f \in [LetInByList -> memoryStore]
  /\ \A q, r \in LetInByList : f[q] = f[r] => q = r
  /\ \A r \in LetInByList : http[f[r]].now = http[r].now
InList == \E f : Places(f)
ListIsOld == \A r \in memoryStore : http[r].at \notin Waiting

\* Requests that the window counts through one store.
Counting(store, end) ==
  {r \in Arrived : /\ InStep(r, "allowed") /\ http[r].prompt /\ http[r].store = store
                   /\ http[r].now <= end /\ end < http[r].now + windowMs}

LimitSound == LimitTypes /\ InSet /\ InList /\ ListIsOld /\ WindowHolds

LEMMA CountingFinite ==
  ASSUME LimitTypes, NEW store, NEW end
  PROVE  /\ IsFiniteSet(Counting(store, end)) /\ Cardinality(Counting(store, end)) \in Nat
         /\ Counting(store, end) \subseteq HttpRequests
         /\ maxRequests \in Nat /\ windowMs \in Nat
<1>1. Counting(store, end) \in SUBSET HttpRequests
  BY DEF Counting, Arrived
<1> QED
  BY <1>1, LimitAssumption, FS_Subset, FS_CardinalityType

\* Where no request is let in, nothing more counts.
LEMMA FewerCount ==
  ASSUME LimitSound, LimitTypes',
         \A r \in HttpRequests : InStep(r, "allowed")' => http'[r] = http[r]
  PROVE  WindowHolds'
<1> SUFFICES ASSUME NEW store \in {"redis", "memory"}, NEW end \in 0..MaxLimitTime
             PROVE  Cardinality(Counting(store, end)') <= maxRequests
  BY DEF WindowHolds, Counting
<1>1. Counting(store, end)' \subseteq Counting(store, end)
  BY DEF Counting, Arrived, InStep
<1>2. Cardinality(Counting(store, end)) <= maxRequests
  BY DEF LimitSound, WindowHolds, Counting
<1>3. /\ IsFiniteSet(Counting(store, end)) /\ Cardinality(Counting(store, end)) \in Nat
      /\ maxRequests \in Nat
  BY CountingFinite DEF LimitSound
<1>4. Cardinality(Counting(store, end)') <= Cardinality(Counting(store, end))
  BY <1>1, <1>3, FS_Subset
<1>5. IsFiniteSet(Counting(store, end)') /\ Cardinality(Counting(store, end)') \in Nat
  BY <1>1, <1>3, FS_Subset, FS_CardinalityType
<1> QED
  BY <1>2, <1>3, <1>4, <1>5

\* What a decision writes.
LEMMA DecidedIs ==
  ASSUME LimitTypes, NEW r \in HttpRequests, NEW allowed \in BOOLEAN, NEW store \in {"redis", "memory"},
         Decided(r, allowed, store), UNCHANGED <<wall, reached>>,
         members' \subseteq HttpRequests, memoryStore' \subseteq HttpRequests
  PROVE  /\ LimitTypes'
         /\ http'[r].at = (IF allowed THEN "allowed" ELSE "refused")
         /\ http'[r].store = store /\ (http'[r].prompt <=> http[r].now = wall)
         /\ \A q \in HttpRequests : http'[q].now = http[q].now
         /\ \A q \in HttpRequests : q # r => http'[q] = http[q]
<1> DEFINE new == [at |-> IF allowed THEN "allowed" ELSE "refused", now |-> http[r].now, store |-> store,
                   prompt |-> http[r].now = wall]
<1>1. http \in [HttpRequests -> HttpStates] /\ http[r].now \in Nat /\ http[r].now <= wall
  BY DEF LimitTypes, HttpStates
<1>2. new \in HttpStates
  <2>1. (http[r].now = wall) \in BOOLEAN
    OBVIOUS
  <2> QED
    BY <1>1, <2>1 DEF HttpStates
<1>3. /\ http' = [http EXCEPT ![r] = new]
      /\ new.now = http[r].now /\ new.at = (IF allowed THEN "allowed" ELSE "refused")
      /\ new.store = store /\ (new.prompt <=> http[r].now = wall)
  BY DEF Decided
<1> HIDE DEF new
<1>4. http' \in [HttpRequests -> HttpStates] /\ http'[r] = new
  BY <1>1, <1>2, <1>3
<1>5. \A q \in HttpRequests : q # r => http'[q] = http[q]
  BY <1>1, <1>3
<1>6. \A q \in HttpRequests : http'[q].now = http[q].now
  BY <1>3, <1>4, <1>5
<1> QED
  BY <1>3, <1>4, <1>5, <1>6 DEF LimitTypes

\* A request is let in where it and those that count make no more than the limit.
LEMMA DecisionHolds ==
  ASSUME LimitSound, NEW r \in HttpRequests, http[r].at \in Waiting, NEW allowed \in BOOLEAN,
         NEW store \in {"redis", "memory"},
         Decided(r, allowed, store), UNCHANGED <<wall, reached>>,
         members' \subseteq HttpRequests, memoryStore' \subseteq HttpRequests,
         allowed => \A end \in Nat : wall <= end /\ end < wall + windowMs /\ http[r].now = wall
                      => Cardinality(Counting(store, end) \cup {r}) <= maxRequests
  PROVE  WindowHolds'
<1> SUFFICES ASSUME NEW kept \in {"redis", "memory"}, NEW end \in 0..MaxLimitTime
             PROVE  Cardinality(Counting(kept, end)') <= maxRequests
  BY DEF WindowHolds, Counting
<1>1. /\ LimitTypes /\ LimitTypes' /\ wall' = wall /\ wall \in Nat /\ end \in Nat /\ windowMs \in Nat
      /\ http'[r].at = (IF allowed THEN "allowed" ELSE "refused")
      /\ http'[r].store = store /\ (http'[r].prompt <=> http[r].now = wall)
      /\ http'[r].now = http[r].now
      /\ \A q \in HttpRequests : q # r => http'[q] = http[q]
  BY DecidedIs, LimitAssumption DEF LimitSound, LimitTypes
<1>2. Cardinality(Counting(kept, end)) <= maxRequests
  BY DEF LimitSound, WindowHolds, Counting
<1>3. /\ IsFiniteSet(Counting(kept, end)) /\ Cardinality(Counting(kept, end)) \in Nat
      /\ maxRequests \in Nat
  BY CountingFinite DEF LimitSound
<1>4. \A q \in HttpRequests : q # r /\ q \in Counting(kept, end)' => q \in Counting(kept, end)
  BY <1>1 DEF Counting, Arrived, InStep
<1>5. Counting(kept, end)' \subseteq HttpRequests
  BY DEF Counting, Arrived
<1>6. CASE r \notin Counting(kept, end)'
  <2>1. Counting(kept, end)' \subseteq Counting(kept, end)
    BY <1>4, <1>5, <1>6
  <2>2. Cardinality(Counting(kept, end)') <= Cardinality(Counting(kept, end))
    BY <1>3, <2>1, FS_Subset
  <2>3. Cardinality(Counting(kept, end)') \in Nat
    BY <1>3, <2>1, FS_Subset, FS_CardinalityType
  <2> QED
    BY <1>2, <1>3, <2>2, <2>3
<1>7. CASE r \in Counting(kept, end)'
  <2>1. /\ http'[r].at = "allowed" /\ http'[r].prompt /\ http'[r].store = kept
        /\ http'[r].now <= end /\ end < http'[r].now + windowMs
    BY <1>7 DEF Counting, InStep
  <2>2. /\ allowed /\ kept = store /\ http[r].now = wall
        /\ wall <= end /\ end < wall + windowMs
    BY <1>1, <2>1
  <2>3. Cardinality(Counting(kept, end) \cup {r}) <= maxRequests
    BY <1>1, <2>2
  <2>4. IsFiniteSet(Counting(kept, end) \cup {r})
    BY <1>3, FS_AddElement
  <2>5. Counting(kept, end)' \subseteq Counting(kept, end) \cup {r}
    BY <1>4, <1>5
  <2>6. /\ Cardinality(Counting(kept, end)') <= Cardinality(Counting(kept, end) \cup {r})
        /\ Cardinality(Counting(kept, end)') \in Nat
        /\ Cardinality(Counting(kept, end) \cup {r}) \in Nat
    BY <2>4, <2>5, FS_Subset, FS_CardinalityType
  <2> QED
    BY <1>3, <2>3, <2>6
<1> QED
  BY <1>6, <1>7

\* Requests past the window stay so, and what the list holds keeps its place.
LEMMA PlacesStay ==
  ASSUME LimitSound, LimitTypes', wall' >= wall, memoryStore \subseteq memoryStore',
         \A r \in HttpRequests : http[r].at \notin Waiting => http'[r].now = http[r].now,
         \A r \in HttpRequests : InStep(r, "allowed")' => http'[r] = http[r]
  PROVE  InList'
<1>1. PICK f : Places(f)
  BY DEF LimitSound, InList
<1> DEFINE g == [r \in LetInByList' |-> f[r]]
<1>2. ASSUME NEW r \in LetInByList'
      PROVE  r \in LetInByList
  <2>1. /\ http'[r].at = "allowed" /\ http'[r].store = "memory" /\ r \in HttpRequests
        /\ ~(http'[r].now + windowMs <= wall')
    BY DEF LetInByList, InStep, OutOfWindow
  <2>2. http'[r] = http[r]
    BY <2>1 DEF InStep
  <2>3. wall \in Nat /\ wall' \in Nat /\ http[r].now \in Nat /\ windowMs \in Nat
    BY <2>1, LimitAssumption DEF LimitSound, LimitTypes, HttpStates
  <2>4. ~(http[r].now + windowMs <= wall)
    BY <2>1, <2>2, <2>3
  <2> QED
    BY <2>1, <2>2, <2>4 DEF LetInByList, InStep, OutOfWindow
<1>3. ASSUME NEW r \in LetInByList
      PROVE  http'[r].now = http[r].now /\ http'[f[r]].now = http[f[r]].now /\ f[r] \in memoryStore
  <2>1. f[r] \in memoryStore
    BY <1>1 DEF Places
  <2>2. f[r] \in HttpRequests /\ http[f[r]].at \notin Waiting
    BY <2>1 DEF LimitSound, LimitTypes, ListIsOld
  <2>3. r \in HttpRequests /\ http[r].at \notin Waiting
    BY DEF LetInByList, InStep, Waiting
  <2> QED
    BY <2>1, <2>2, <2>3
<1>4. g \in [LetInByList' -> memoryStore']
  BY <1>2, <1>3
<1>5. \A q, r \in LetInByList' : g[q] = g[r] => q = r
  BY <1>1, <1>2 DEF Places
<1>6. \A r \in LetInByList' : http'[g[r]].now = http'[r].now
  BY <1>1, <1>2, <1>3 DEF Places
<1> HIDE DEF g
<1>7. PICK h : h = g
  OBVIOUS
<1>8. Places(h)'
  BY <1>4, <1>5, <1>6, <1>7 DEF Places
<1> QED
  BY <1>8 DEF InList

\* What the request is, in the words the steps need.
LEMMA LimitFacts ==
  ASSUME LimitSound
  PROVE  /\ LimitTypes /\ wall \in Nat /\ windowMs \in Nat /\ maxRequests \in Nat
         /\ members \subseteq HttpRequests /\ memoryStore \subseteq HttpRequests
         /\ \A r \in HttpRequests : /\ http[r] \in HttpStates /\ http[r].now \in Nat
                                    /\ http[r].now <= wall
                                    /\ r \in memoryStore => http[r].at \notin Waiting
  BY LimitAssumption DEF LimitSound, LimitTypes, HttpStates, ListIsOld

\* A step that moves one request between places where it is not let in yet.
LEMMA MoveOn ==
  ASSUME LimitSound, NEW r \in HttpRequests, http[r].at \in Waiting, NEW place \in {"trim", "add", "count"},
         NEW t \in Nat, t = http[r].now \/ t = wall, t <= wall,
         http' = [http EXCEPT ![r].at = place, ![r].now = t],
         UNCHANGED <<wall, reached, memoryStore>>, members' \subseteq HttpRequests,
         \A q \in HttpRequests : q \in members => q \in members' \/ OutOfWindow(q),
         place = "count" => r \in members',
         http[r].at # "none" => t = http[r].now
  PROVE  LimitSound'
<1> DEFINE new == [http[r] EXCEPT !.at = place, !.now = t]
<1>1. http \in [HttpRequests -> HttpStates] /\ http[r] \in HttpStates
  BY LimitFacts DEF LimitTypes
<1>2. new \in HttpStates /\ new.at = place /\ new.now = t
  BY <1>1 DEF HttpStates
<1>3. http' = [http EXCEPT ![r] = new]
  BY <1>1
<1> HIDE DEF new
<1>4. /\ http' \in [HttpRequests -> HttpStates] /\ http'[r] = new
      /\ \A q \in HttpRequests : q # r => http'[q] = http[q]
  BY <1>1, <1>2, <1>3
<1>5. LimitTypes'
  BY <1>2, <1>4, LimitFacts DEF LimitTypes
<1>6. ASSUME NEW q \in HttpRequests, http'[q].at = "count" \/ (http'[q].at = "allowed" /\ http'[q].store = "redis")
      PROVE  q \in members' \/ http'[q].now + windowMs <= wall'
  <2>1. CASE q = r
    BY <1>2, <1>4, <1>6, <2>1
  <2>2. CASE q # r
    BY <1>4, <1>6, <2>2, LimitFacts DEF LimitSound, InSet, InStep, OutOfWindow
  <2> QED
    BY <2>1, <2>2
<1>7. InSet'
  BY <1>6 DEF InSet, InStep, OutOfWindow
<1>8. \A q \in HttpRequests : InStep(q, "allowed")' => http'[q] = http[q]
  BY <1>2, <1>4 DEF InStep
<1>9. \A q \in HttpRequests : http[q].at \notin Waiting => http'[q].now = http[q].now
  BY <1>4
<1>10. wall' >= wall /\ memoryStore \subseteq memoryStore'
  BY LimitFacts
<1>11. InList'
  BY <1>5, <1>8, <1>9, <1>10, PlacesStay
<1>12. ListIsOld'
  <2>1. memoryStore' = memoryStore
    OBVIOUS
  <2>2. \A q \in memoryStore : q \in HttpRequests /\ q # r /\ http'[q].at \notin Waiting
    BY <1>4, LimitFacts
  <2> QED
    BY <2>1, <2>2 DEF ListIsOld
<1>13. WindowHolds'
  BY <1>5, <1>8, FewerCount
<1> QED
  BY <1>5, <1>7, <1>11, <1>12, <1>13 DEF LimitSound

LEMMA ArriveKeeps ==
  ASSUME LimitSound, NEW r \in HttpRequests, Arrive(r) \/ TrimMembers(r) \/ AddMember(r)
  PROVE  LimitSound'
<1>1. CASE Arrive(r)
  <2>1. /\ http[r].at = "none" /\ http' = [http EXCEPT ![r].at = "trim", ![r].now = wall]
        /\ members' = members /\ UNCHANGED <<wall, reached, memoryStore>>
    BY <1>1 DEF Arrive, InStep
  <2>2. /\ http[r].at \in Waiting /\ "trim" \in {"trim", "add", "count"}
        /\ wall \in Nat /\ wall <= wall /\ members' \subseteq HttpRequests
        /\ \A q \in HttpRequests : q \in members => q \in members' \/ OutOfWindow(q)
        /\ http[r].at # "none" => wall = http[r].now
    BY <2>1, LimitFacts DEF Waiting
  <2> QED
    BY <2>1, <2>2, MoveOn
<1>2. ASSUME NEW place \in {"add", "count"}, NextStep(r, place)
      PROVE  http' = [http EXCEPT ![r].at = place, ![r].now = http[r].now]
  <2>1. http \in [HttpRequests -> HttpStates] /\ http[r] \in HttpStates
    BY LimitFacts DEF LimitTypes
  <2>2. [http[r] EXCEPT !.at = place] = [http[r] EXCEPT !.at = place, !.now = http[r].now]
    BY <2>1 DEF HttpStates
  <2> QED
    BY <1>2, <2>1, <2>2 DEF NextStep
<1>3. CASE TrimMembers(r)
  <2>1. /\ http[r].at = "trim" /\ members' = Recent(members, http[r].now)
        /\ UNCHANGED <<wall, reached, memoryStore>>
        /\ http' = [http EXCEPT ![r].at = "add", ![r].now = http[r].now]
    BY <1>2, <1>3 DEF TrimMembers, InStep
  <2>2. \A q \in HttpRequests : q \in members => q \in members' \/ OutOfWindow(q)
    BY <2>1, LimitFacts DEF Recent, OutOfWindow
  <2>3. http[r].at \in Waiting /\ members' \subseteq HttpRequests
    BY <2>1, LimitFacts DEF Waiting, Recent
  <2> QED
    BY <2>1, <2>2, <2>3, LimitFacts, MoveOn
<1>4. CASE AddMember(r)
  <2>1. /\ http[r].at = "add" /\ members' = members \cup {r}
        /\ UNCHANGED <<wall, reached, memoryStore>>
        /\ http' = [http EXCEPT ![r].at = "count", ![r].now = http[r].now]
    BY <1>2, <1>4 DEF AddMember, InStep
  <2>2. http[r].at \in Waiting /\ members' \subseteq HttpRequests
    BY <2>1, LimitFacts DEF Waiting
  <2> QED
    BY <2>1, <2>2, LimitFacts, MoveOn
<1> QED
  BY <1>1, <1>3, <1>4

LEMMA CountKeeps ==
  ASSUME LimitSound, NEW r \in HttpRequests, CountMembers(r)
  PROVE  LimitSound'
<1> DEFINE allowed == Cardinality(members) <= maxRequests
<1>1. /\ http[r].at = "count" /\ http[r].at \in Waiting
      /\ Decided(r, allowed, "redis") /\ UNCHANGED <<wall, reached, members, memoryStore>>
  BY DEF CountMembers, InStep, Waiting
<1>2. members' \subseteq HttpRequests /\ memoryStore' \subseteq HttpRequests /\ allowed \in BOOLEAN
  BY <1>1, LimitFacts
<1>3. ASSUME allowed, NEW end \in Nat, wall <= end, end < wall + windowMs, http[r].now = wall
      PROVE  Cardinality(Counting("redis", end) \cup {r}) <= maxRequests
  <2>1. ASSUME NEW q \in Counting("redis", end) \cup {r}
        PROVE  q \in members
    <3>1. q \in HttpRequests /\ (InStep(q, "count") \/ (InStep(q, "allowed") /\ http[q].store = "redis"))
      BY <1>1, <2>1 DEF Counting, Arrived, InStep
    <3>2. ~OutOfWindow(q)
      <4>1. end < http[q].now + windowMs
        BY <1>3, <2>1 DEF Counting
      <4> QED
        BY <1>3, <3>1, <4>1, LimitFacts DEF OutOfWindow
    <3> QED
      BY <3>1, <3>2 DEF LimitSound, InSet
  <2>2. IsFiniteSet(members)
    BY LimitFacts, LimitAssumption, FS_Subset
  <2>3. /\ Cardinality(Counting("redis", end) \cup {r}) <= Cardinality(members)
        /\ Cardinality(Counting("redis", end) \cup {r}) \in Nat /\ Cardinality(members) \in Nat
    BY <2>1, <2>2, FS_Subset, FS_CardinalityType
  <2> QED
    BY <1>3, <2>3, LimitFacts
<1> HIDE DEF allowed
<1>4. /\ LimitTypes'
      /\ http'[r].at = (IF allowed THEN "allowed" ELSE "refused") /\ http'[r].store = "redis"
      /\ \A q \in HttpRequests : http'[q].now = http[q].now
      /\ \A q \in HttpRequests : q # r => http'[q] = http[q]
  BY <1>1, <1>2, LimitFacts, DecidedIs
<1>5. WindowHolds'
  BY <1>1, <1>2, <1>3, DecisionHolds
<1>6. ASSUME NEW q \in HttpRequests, http'[q].at = "count" \/ (http'[q].at = "allowed" /\ http'[q].store = "redis")
      PROVE  q \in members' \/ http'[q].now + windowMs <= wall'
  <2>1. http[q].at = "count" \/ (http[q].at = "allowed" /\ http[q].store = "redis")
    BY <1>1, <1>4, <1>6
  <2> QED
    BY <1>1, <1>4, <2>1 DEF LimitSound, InSet, InStep, OutOfWindow
<1>7. InSet'
  BY <1>6 DEF InSet, InStep, OutOfWindow
<1>8. LetInByList' = LetInByList
  <2>1. ASSUME NEW q \in HttpRequests
        PROVE  q \in LetInByList' <=> q \in LetInByList
    <3>1. http'[q].now + windowMs <= wall' <=> http[q].now + windowMs <= wall
      BY <1>1, <1>4
    <3>2. (http'[q].at = "allowed" /\ http'[q].store = "memory") <=> (http[q].at = "allowed" /\ http[q].store = "memory")
      BY <1>1, <1>4
    <3> QED
      BY <3>1, <3>2 DEF LetInByList, InStep, OutOfWindow
  <2> QED
    BY <2>1 DEF LetInByList
<1>9. InList'
  <2>1. PICK f : Places(f)
    BY DEF LimitSound, InList
  <2>2. \A q \in LetInByList : f[q] \in HttpRequests /\ q \in HttpRequests
    BY <2>1, LimitFacts DEF Places, LetInByList
  <2>3. Places(f)'
    BY <1>1, <1>4, <1>8, <2>1, <2>2 DEF Places
  <2> QED
    BY <2>3 DEF InList
<1>10. ListIsOld'
  <2>1. \A q \in memoryStore : q \in HttpRequests /\ q # r /\ http'[q].at \notin Waiting
    BY <1>1, <1>4, LimitFacts
  <2> QED
    BY <1>1, <2>1 DEF ListIsOld
<1> QED
  BY <1>4, <1>5, <1>7, <1>9, <1>10 DEF LimitSound

LEMMA MemoryKeeps ==
  ASSUME LimitSound, NEW r \in HttpRequests, ConsumeMemoryLimit(r)
  PROVE  LimitSound'
<1> DEFINE requests == Recent(memoryStore, http[r].now)
           allowed == Cardinality(requests) < maxRequests
<1>1. /\ http[r].at \in Waiting /\ http[r].at # "none"
      /\ Decided(r, allowed, "memory") /\ UNCHANGED <<wall, reached, members>>
      /\ memoryStore' = requests \cup (IF allowed THEN {r} ELSE {})
  BY DEF ConsumeMemoryLimit, Waiting
<1>2. PICK f : Places(f)
  BY DEF LimitSound, InList
<1>3. /\ requests \subseteq memoryStore /\ requests \subseteq HttpRequests
      /\ IsFiniteSet(requests) /\ Cardinality(requests) \in Nat
  <2>1. requests \subseteq memoryStore /\ requests \subseteq HttpRequests
    BY LimitFacts DEF Recent
  <2> QED
    BY <2>1, LimitAssumption, FS_Subset, FS_CardinalityType
<1>4. \A q \in LetInByList : f[q] \in requests /\ q \in HttpRequests /\ http[q].at \notin Waiting
  <2>1. ASSUME NEW q \in LetInByList
        PROVE  f[q] \in requests
    <3>1. /\ f[q] \in memoryStore /\ http[f[q]].now = http[q].now
          /\ q \in HttpRequests /\ ~(http[q].now + windowMs <= wall)
      BY <1>2 DEF Places, LetInByList, OutOfWindow
    <3>2. http[f[q]].now + windowMs > http[r].now
      BY <3>1, LimitFacts
    <3> QED
      BY <3>1, <3>2 DEF Recent
  <2>2. \A q \in LetInByList : q \in HttpRequests /\ http[q].at \notin Waiting
    BY DEF LetInByList, InStep, Waiting
  <2> QED
    BY <2>1, <2>2
<1>5. \A q \in requests : q \in memoryStore /\ q \in HttpRequests /\ http[q].at \notin Waiting /\ q # r
  BY <1>1, <1>3, LimitFacts
<1>6. ASSUME allowed, NEW end \in Nat, wall <= end, end < wall + windowMs, http[r].now = wall
      PROVE  Cardinality(Counting("memory", end) \cup {r}) <= maxRequests
  <2>1. Counting("memory", end) \subseteq LetInByList
    <3>1. ASSUME NEW q \in Counting("memory", end)
          PROVE  q \in LetInByList
      <4>1. /\ q \in HttpRequests /\ InStep(q, "allowed") /\ http[q].store = "memory"
            /\ end < http[q].now + windowMs
        BY DEF Counting, Arrived
      <4>2. ~(http[q].now + windowMs <= wall)
        BY <1>6, <4>1, LimitFacts
      <4> QED
        BY <4>1, <4>2 DEF LetInByList, OutOfWindow
    <3> QED
      BY <3>1
  <2> DEFINE g == [q \in Counting("memory", end) |-> f[q]]
  <2>2. g \in Injection(Counting("memory", end), requests)
    <3>1. g \in [Counting("memory", end) -> requests]
      BY <1>4, <2>1
    <3>2. \A p, q \in Counting("memory", end) : g[p] = g[q] => p = q
      BY <1>2, <2>1 DEF Places
    <3> HIDE DEF g
    <3> QED
      BY <3>1, <3>2 DEF Injection, IsInjective
  <2> HIDE DEF g
  <2>3. /\ IsFiniteSet(Counting("memory", end))
        /\ Cardinality(Counting("memory", end)) <= Cardinality(requests)
    BY <1>3, <2>2, FS_Injection
  <2>4. /\ Cardinality(Counting("memory", end)) \in Nat
        /\ Cardinality(Counting("memory", end) \cup {r}) <= Cardinality(Counting("memory", end)) + 1
        /\ Cardinality(Counting("memory", end) \cup {r}) \in Nat
    <3>1. Cardinality(Counting("memory", end)) \in Nat
      BY <2>3, FS_CardinalityType
    <3>2. /\ IsFiniteSet(Counting("memory", end) \cup {r})
          /\ Cardinality(Counting("memory", end) \cup {r})
               = IF r \in Counting("memory", end) THEN Cardinality(Counting("memory", end))
                 ELSE Cardinality(Counting("memory", end)) + 1
      BY <2>3, FS_AddElement
    <3> QED
      BY <3>1, <3>2
  <2> QED
    BY <1>3, <1>6, <2>3, <2>4, LimitFacts
<1>7. memoryStore' \subseteq HttpRequests /\ members' \subseteq HttpRequests /\ allowed \in BOOLEAN
  <2>1. allowed \in BOOLEAN
    OBVIOUS
  <2> HIDE DEF allowed, requests
  <2> QED
    BY <1>1, <1>3, <2>1, LimitFacts
<1> HIDE DEF allowed, requests
<1>8. /\ LimitTypes'
      /\ http'[r].at = (IF allowed THEN "allowed" ELSE "refused") /\ http'[r].store = "memory"
      /\ \A q \in HttpRequests : http'[q].now = http[q].now
      /\ \A q \in HttpRequests : q # r => http'[q] = http[q]
  BY <1>1, <1>7, LimitFacts, DecidedIs
<1>9. WindowHolds'
  BY <1>1, <1>6, <1>7, DecisionHolds
<1>10. ASSUME NEW q \in HttpRequests, http'[q].at = "count" \/ (http'[q].at = "allowed" /\ http'[q].store = "redis")
       PROVE  q \in members' \/ http'[q].now + windowMs <= wall'
  <2>1. q # r
    BY <1>8, <1>10
  <2> QED
    BY <1>1, <1>8, <1>10, <2>1 DEF LimitSound, InSet, InStep, OutOfWindow
<1>11. InSet'
  BY <1>10 DEF InSet, InStep, OutOfWindow
<1>12. ListIsOld'
  BY <1>1, <1>5, <1>8 DEF ListIsOld, Waiting
<1>13. InList'
  <2> DEFINE g == [q \in LetInByList' |-> IF q = r THEN r ELSE f[q]]
  <2>1. ASSUME NEW q \in LetInByList'
        PROVE  (q = r /\ allowed) \/ (q # r /\ q \in LetInByList)
    <3>1. /\ q \in HttpRequests /\ http'[q].at = "allowed" /\ http'[q].store = "memory"
          /\ ~(http'[q].now + windowMs <= wall')
      BY DEF LetInByList, InStep, OutOfWindow
    <3>2. CASE q = r
      BY <1>8, <3>1, <3>2
    <3>3. CASE q # r
      BY <1>1, <1>8, <3>1, <3>3 DEF LetInByList, InStep, OutOfWindow
    <3> QED
      BY <3>2, <3>3
  <2>2. g \in [LetInByList' -> memoryStore']
    BY <1>1, <1>4, <2>1
  <2>3. \A p, q \in LetInByList' : g[p] = g[q] => p = q
    BY <1>2, <1>4, <1>5, <2>1 DEF Places
  <2>4. \A q \in LetInByList' : http'[g[q]].now = http'[q].now
    <3>1. ASSUME NEW q \in LetInByList', q # r
          PROVE  http'[f[q]].now = http'[q].now
      BY <1>2, <1>4, <1>5, <1>8, <2>1, <3>1 DEF Places
    <3> QED
      BY <3>1
  <2> HIDE DEF g
  <2>5. PICK h : h = g
    OBVIOUS
  <2>6. Places(h)'
    BY <2>2, <2>3, <2>4, <2>5 DEF Places
  <2> QED
    BY <2>6 DEF InList
<1> QED
  BY <1>8, <1>9, <1>11, <1>12, <1>13 DEF LimitSound

\* A request leaves; with it goes the member, or the first of the list with its time.
LEMMA GiveBackKeeps ==
  ASSUME LimitSound, NEW r \in HttpRequests, GiveBack(r)
  PROVE  LimitSound'
<1> DEFINE new == [http[r] EXCEPT !.at = "given back"]
<1>1. /\ http[r].at = "allowed" /\ UNCHANGED <<wall, reached>>
      /\ http' = [http EXCEPT ![r] = new]
      /\ members' \subseteq members /\ \A q \in members : q # r => q \in members'
      /\ \/ memoryStore' = memoryStore
         \/ /\ http[r].store = "memory"
            /\ \E q \in memoryStore : http[q].now = http[r].now /\ memoryStore' = memoryStore \ {q}
  BY DEF GiveBack, NextStep, InStep
<1>2. http \in [HttpRequests -> HttpStates] /\ http[r] \in HttpStates
  BY LimitFacts DEF LimitTypes
<1>3. new \in HttpStates /\ new.at = "given back" /\ new.now = http[r].now
  BY <1>2 DEF HttpStates
<1> HIDE DEF new
<1>4. /\ http' \in [HttpRequests -> HttpStates] /\ http'[r] = new
      /\ \A q \in HttpRequests : q # r => http'[q] = http[q]
      /\ \A q \in HttpRequests : http'[q].now = http[q].now
  BY <1>1, <1>2, <1>3
<1>5. LimitTypes'
  <2>1. memoryStore' \subseteq HttpRequests /\ members' \subseteq HttpRequests
    BY <1>1, LimitFacts
  <2> QED
    BY <1>1, <1>4, <2>1, LimitFacts DEF LimitTypes
<1>6. ASSUME NEW q \in HttpRequests, http'[q].at = "count" \/ (http'[q].at = "allowed" /\ http'[q].store = "redis")
      PROVE  q \in members' \/ http'[q].now + windowMs <= wall'
  <2>1. q # r
    BY <1>3, <1>4, <1>6
  <2> QED
    BY <1>1, <1>4, <1>6, <2>1 DEF LimitSound, InSet, InStep, OutOfWindow
<1>7. InSet'
  BY <1>6 DEF InSet, InStep, OutOfWindow
<1>8. \A q \in HttpRequests : InStep(q, "allowed")' => http'[q] = http[q]
  BY <1>3, <1>4 DEF InStep
<1>9. WindowHolds'
  BY <1>5, <1>8, FewerCount
<1>10. ListIsOld'
  <2>1. \A q \in memoryStore : q \in HttpRequests /\ http'[q].at \notin Waiting
    BY <1>3, <1>4, LimitFacts DEF Waiting
  <2> QED
    BY <1>1, <2>1 DEF ListIsOld
<1>11. InList'
  <2>1. CASE memoryStore' = memoryStore
    BY <1>1, <1>4, <1>5, <1>8, <2>1, LimitFacts, PlacesStay
  <2>2. ASSUME http[r].store = "memory", NEW gone \in memoryStore,
               http[gone].now = http[r].now, memoryStore' = memoryStore \ {gone}
        PROVE  InList'
    <3>1. PICK f : Places(f)
      BY DEF LimitSound, InList
    <3> DEFINE g == [q \in LetInByList' |-> IF f[q] = gone THEN f[r] ELSE f[q]]
    <3>2. ASSUME NEW q \in LetInByList'
          PROVE  q # r /\ q \in LetInByList /\ q \in HttpRequests
      <4>1. /\ q \in HttpRequests /\ http'[q].at = "allowed" /\ http'[q].store = "memory"
            /\ ~(http'[q].now + windowMs <= wall')
        BY DEF LetInByList, InStep, OutOfWindow
      <4>2. q # r
        BY <1>3, <1>4, <4>1
      <4>3. http'[q] = http[q]
        BY <1>4, <4>1, <4>2
      <4> QED
        BY <1>1, <4>1, <4>2, <4>3 DEF LetInByList, InStep, OutOfWindow
    <3>3. ASSUME NEW q \in LetInByList', f[q] = gone
          PROVE  r \in LetInByList
      <4>1. http[gone].now = http[q].now /\ ~(http[q].now + windowMs <= wall)
        BY <3>1, <3>2, <3>3 DEF Places, LetInByList, OutOfWindow
      <4>2. ~(http[r].now + windowMs <= wall)
        BY <2>2, <4>1
      <4> QED
        BY <1>1, <2>2, <4>2 DEF LetInByList, InStep, OutOfWindow
    <3>4. \A q \in LetInByList' : /\ g[q] \in memoryStore'
                                  /\ http[g[q]].now = http[q].now /\ g[q] \in HttpRequests
      <4>1. ASSUME NEW q \in LetInByList', f[q] = gone
            PROVE  /\ f[r] \in memoryStore /\ f[r] # gone
                   /\ http[f[r]].now = http[q].now
        <5>1. r \in LetInByList /\ q \in LetInByList /\ q # r
          BY <3>2, <3>3, <4>1
        <5>2. f[r] # f[q] /\ f[r] \in memoryStore /\ http[f[r]].now = http[r].now /\ http[f[q]].now = http[q].now
          BY <3>1, <5>1 DEF Places
        <5> QED
          BY <2>2, <4>1, <5>2
      <4>2. ASSUME NEW q \in LetInByList', f[q] # gone
            PROVE  f[q] \in memoryStore /\ http[f[q]].now = http[q].now
        BY <3>1, <3>2 DEF Places
      <4>3. memoryStore \subseteq HttpRequests
        BY LimitFacts
      <4> QED
        BY <2>2, <4>1, <4>2, <4>3
    <3>5. \A p, q \in LetInByList' : g[p] = g[q] => p = q
      <4>1. ASSUME NEW p \in LetInByList', NEW q \in LetInByList', f[p] = f[q]
            PROVE  p = q
        BY <3>1, <3>2, <4>1 DEF Places
      <4>2. ASSUME NEW p \in LetInByList', NEW q \in LetInByList', f[p] = gone, f[q] = f[r]
            PROVE  FALSE
        BY <3>1, <3>2, <3>3, <4>2 DEF Places
      <4> QED
        BY <4>1, <4>2
    <3>6. g \in [LetInByList' -> memoryStore']
      BY <3>4
    <3>7. \A q \in LetInByList' : http'[g[q]].now = http'[q].now
      BY <1>4, <3>2, <3>4
    <3> HIDE DEF g
    <3>8. PICK h : h = g
      OBVIOUS
    <3>9. Places(h)'
      BY <3>5, <3>6, <3>7, <3>8 DEF Places
    <3> QED
      BY <3>9 DEF InList
  <2> QED
    BY <1>1, <2>1, <2>2
<1> QED
  BY <1>5, <1>7, <1>9, <1>10, <1>11 DEF LimitSound

\* Time goes on and Redis comes and goes.
LEMMA LimitIdles ==
  ASSUME LimitSound, UNCHANGED <<members, memoryStore, http>>, reached' \in BOOLEAN,
         wall' \in Nat, wall' >= wall
  PROVE  LimitSound'
<1>1. \A r \in HttpRequests : http[r].now <= wall'
  BY LimitFacts
<1>2. LimitTypes'
  BY <1>1 DEF LimitSound, LimitTypes
<1>3. \A r \in HttpRequests : OutOfWindow(r) => OutOfWindow(r)'
  BY LimitFacts DEF OutOfWindow
<1>4. InSet'
  BY <1>3 DEF LimitSound, InSet, InStep
<1>5. InList'
  BY <1>2, PlacesStay
<1>6. ListIsOld'
  BY DEF LimitSound, ListIsOld
<1>7. WindowHolds'
  BY <1>2, FewerCount
<1> QED
  BY <1>2, <1>4, <1>5, <1>6, <1>7 DEF LimitSound

LEMMA LimitBegin ==
  ASSUME LimitInit
  PROVE  LimitSound
<1> DEFINE new == [at |-> "none", now |-> 0, store |-> "none", prompt |-> FALSE]
<1>1. new \in HttpStates
  BY DEF HttpStates
<1>2. /\ http \in [HttpRequests -> HttpStates] /\ wall = 0 /\ reached \in BOOLEAN
      /\ members = {} /\ memoryStore = {}
      /\ \A r \in HttpRequests : http[r] = new
  BY <1>1 DEF LimitInit
<1>3. \A r \in HttpRequests : http[r].at = "none" /\ http[r].now = 0
  BY <1>2
<1> HIDE DEF new
<1>4. LimitTypes /\ InSet /\ ListIsOld
  BY <1>2, <1>3 DEF LimitTypes, InSet, ListIsOld, InStep
<1>5. InList
  <2>1. LetInByList = {}
    BY <1>3 DEF LetInByList, InStep
  <2> DEFINE g == [r \in LetInByList |-> r]
  <2>2. Places(g)
    BY <2>1 DEF Places
  <2> QED
    BY <2>2 DEF InList
<1>6. WindowHolds
  <2> SUFFICES ASSUME NEW store \in {"redis", "memory"}, NEW end \in 0..MaxLimitTime
               PROVE  Cardinality(Counting(store, end)) <= maxRequests
    BY DEF WindowHolds, Counting
  <2>1. Counting(store, end) = {}
    BY <1>3 DEF Counting, Arrived
  <2> QED
    BY <2>1, LimitAssumption, FS_EmptySet
<1> QED
  BY <1>4, <1>5, <1>6 DEF LimitSound

LEMMA LimitStep ==
  ASSUME LimitSound, [LimitNext]_limitVars
  PROVE  LimitSound'
<1>1. CASE RedisFails \/ RedisBack \/ LimitTick \/ UNCHANGED limitVars
  <2>1. /\ UNCHANGED <<members, memoryStore, http>> /\ reached' \in BOOLEAN
        /\ wall' \in Nat /\ wall' >= wall
    <3>1. wall \in Nat /\ reached \in BOOLEAN
      BY DEF LimitSound, LimitTypes
    <3>2. CASE RedisFails \/ RedisBack
      <4>1. UNCHANGED <<wall, members, memoryStore, http>> /\ (reached' = FALSE \/ reached' = TRUE)
        BY <3>2 DEF RedisFails, RedisBack
      <4>2. wall' \in Nat /\ wall' >= wall
        BY <3>1, <4>1
      <4> QED
        BY <4>1, <4>2
    <3>3. CASE LimitTick
      BY <3>1, <3>3 DEF LimitTick
    <3>4. CASE UNCHANGED limitVars
      BY <3>1, <3>4 DEF limitVars
    <3> QED
      BY <1>1, <3>2, <3>3, <3>4
  <2> QED
    BY <2>1, LimitIdles
<1> QED
  BY <1>1, ArriveKeeps, CountKeeps, MemoryKeeps, GiveBackKeeps DEF LimitNext

\* No window lets in more than its limit through one store, however the commands of its
\* requests interleave and whatever the list gives back in another's place
\* (consumeRedisLimit, consumeMemoryLimit,
\* decrementMemoryLimit).
THEOREM LimitHolds == LimitSpec => []WindowHolds
<1>1. LimitSound => WindowHolds
  BY DEF LimitSound
<1> QED
  BY LimitBegin, LimitStep, <1>1, PTL DEF LimitSpec

-----------------------------------------------------------------------------
(* Conversions of a wallet: the inductive invariant. *)

RateSet == [rate : Nat, active : BOOLEAN]
QuoteSet == [rate : Nat, status : {"pending", "executed", "expired"}, expiresAt : Nat]
ConversionSet == [quote : Nat, executedAt : Nat, amount : Nat]
FxStates ==
  [at : {"none", "sync", "insert", "price", "upsert", "expire"} \cup Converting, quote : Nat, rate : Nat,
   snapshot : SUBSET Nat, read : Nat, also : Nat, executedAt : Nat, pricing : BOOLEAN, alone : BOOLEAN]

FxTypes ==
  /\ rates \in Seq(RateSet) /\ quotes \in Seq(QuoteSet) /\ conversions \in Seq(ConversionSet)
  /\ funds \in Nat /\ source \in Nat /\ source <= funds /\ target \in Nat /\ fxTime \in Nat
  /\ overlapped \in BOOLEAN /\ syncRaced \in BOOLEAN
  /\ fx \in [FxCalls -> FxStates]

\* A quote that was converted is marked so, or can no longer be begun with.
UsedUp ==
  \A i \in DOMAIN conversions :
    LET q == conversions[i].quote IN
    /\ q \in DOMAIN quotes
    /\ quotes[q].status = "executed" \/ quotes[q].expiresAt <= fxTime

AtOnce == ~syncRaced => \A i, j \in Active : i = j

\* What a call has read of the wallet is still so when no other conversion committed
\* meanwhile, and what it has checked of its quote is so anyway.
Reading == {"target", "commit"}
MoneyFits(h) ==
  /\ h.at \in Converting \cup {"expire"} => h.quote \in DOMAIN quotes
  /\ h.at = "expire" => quotes[h.quote].expiresAt <= fxTime
  /\ h.at \in {"source"} \cup Reading => h.executedAt < quotes[h.quote].expiresAt
  /\ h.at \in Reading => 1 <= h.read /\ h.read <= funds
  /\ h.at \in Converting /\ h.alone => \A i \in DOMAIN conversions : conversions[i].quote # h.quote
  /\ h.at \in Reading /\ h.alone => h.read = source

\* So is what a writer of rates has read of them.
RateFits(h) == h.at \in {"insert", "upsert"} /\ h.alone /\ ~syncRaced => Active \subseteq h.snapshot

FxSound ==
  /\ FxTypes /\ UsedUp /\ ConvertedInTime /\ ConvertedOnce /\ AtOnce
  /\ \A c \in FxCalls : MoneyFits(fx[c]) /\ RateFits(fx[c])

LEMMA FxFacts ==
  ASSUME FxTypes
  PROVE  /\ DOMAIN rates = 1..Len(rates) /\ Len(rates) \in Nat
         /\ \A i \in DOMAIN rates : rates[i] \in RateSet /\ rates[i].rate \in Nat
         /\ DOMAIN quotes = 1..Len(quotes) /\ Len(quotes) \in Nat
         /\ \A q \in DOMAIN quotes : /\ quotes[q] \in QuoteSet /\ quotes[q].rate \in Nat
                                     /\ quotes[q].expiresAt \in Nat
         /\ DOMAIN conversions = 1..Len(conversions) /\ Len(conversions) \in Nat
         /\ \A i \in DOMAIN conversions : conversions[i].executedAt \in Nat
         /\ Active \subseteq 1..Len(rates)
<1>1. /\ DOMAIN rates = 1..Len(rates) /\ Len(rates) \in Nat
      /\ DOMAIN quotes = 1..Len(quotes) /\ Len(quotes) \in Nat
      /\ DOMAIN conversions = 1..Len(conversions) /\ Len(conversions) \in Nat
  BY LenProperties DEF FxTypes
<1>2. /\ \A i \in DOMAIN rates : rates[i] \in RateSet
      /\ \A q \in DOMAIN quotes : quotes[q] \in QuoteSet
      /\ \A i \in DOMAIN conversions : conversions[i] \in ConversionSet
  BY <1>1, ElementOfSeq DEF FxTypes
<1> QED
  BY <1>1, <1>2 DEF RateSet, QuoteSet, ConversionSet, Active

LEMMA NoCallFits ==
  NoCall \in FxStates /\ NoCall.at = "none" /\ MoneyFits(NoCall) /\ RateFits(NoCall)
<1>1. NoCall \in FxStates /\ NoCall.at = "none"
  BY DEF NoCall, FxStates
<1> QED
  BY <1>1 DEF MoneyFits, RateFits, Converting, Reading

LEMMA FxKeeps ==
  ASSUME FxSound
  PROVE  FxInv
<1>1. FxTypeOK /\ NeverOverdrawn
  BY DEF FxSound, FxTypes, UsedUp, FxTypeOK, NeverOverdrawn
<1>2. OneActiveRate
  <2>1. ASSUME ~syncRaced
        PROVE  Cardinality(Active) <= 1
    <3>1. CASE Active = {}
      BY <3>1, FS_EmptySet
    <3>2. ASSUME NEW i \in Active
          PROVE  Cardinality(Active) <= 1
      <4>1. Active = {i}
        BY <2>1, <3>2 DEF FxSound, AtOnce
      <4>2. Cardinality({i}) = 1
        BY FS_Singleton
      <4> QED
        BY <4>1, <4>2
    <3> QED
      BY <3>1, <3>2
  <2> QED
    BY <2>1 DEF OneActiveRate
<1> QED
  BY <1>1, <1>2 DEF FxInv, FxSound

\* A step of one call that writes no row.
LEMMA CallGoesOn ==
  ASSUME FxSound, NEW c \in FxCalls, NEW new \in FxStates, MoneyFits(new), RateFits(new),
         fx' = [fx EXCEPT ![c] = new],
         UNCHANGED <<rates, syncRaced, funds, source, target, conversions, overlapped, quotes, fxTime>>
  PROVE  FxSound'
<1>1. fx \in [FxCalls -> FxStates]
  BY DEF FxSound, FxTypes
<1>2. fx' \in [FxCalls -> FxStates] /\ fx'[c] = new /\ \A d \in FxCalls : d # c => fx'[d] = fx[d]
  BY <1>1
<1>3. FxTypes'
  BY <1>2 DEF FxSound, FxTypes
<1>4. Active' = Active
  BY DEF Active
<1>5. \A d \in FxCalls : MoneyFits(fx'[d]) /\ RateFits(fx'[d])
  BY <1>2 DEF FxSound
<1>6. ASSUME NEW d \in FxCalls
      PROVE  MoneyFits(fx[d])' /\ RateFits(fx[d])'
  BY <1>4, <1>5 DEF MoneyFits, RateFits
<1> QED
  BY <1>3, <1>4, <1>6 DEF FxSound, UsedUp, ConvertedInTime, ConvertedOnce, AtOnce

LEMMA FxEnds ==
  ASSUME FxSound, NEW c \in FxCalls, EndFx(c),
         UNCHANGED <<rates, syncRaced, funds, source, target, conversions, overlapped, quotes, fxTime>>
  PROVE  FxSound'
  BY NoCallFits, CallGoesOn DEF EndFx

LEMMA RateReads ==
  ASSUME FxSound, NEW c \in FxCalls,
         \/ \E rate \in OfferedRates, pricing \in BOOLEAN : ReadLatestRate(c, rate, pricing)
         \/ BeginSync(c)
         \/ \E rate \in OfferedRates : BeginUpsert(c, rate)
  PROVE  FxSound'
<1>1. /\ UNCHANGED <<rates, syncRaced, funds, source, target, conversions, overlapped, quotes, fxTime>>
  BY DEF ReadLatestRate, BeginSync, BeginUpsert, KeepRates, KeepMoney
<1>2. /\ fx \in [FxCalls -> FxStates] /\ fx[c] \in FxStates /\ Active \in SUBSET Nat
      /\ OfferedRates \subseteq Nat /\ NoCall \in FxStates
  <2>1. Active \in SUBSET Nat
    BY FxFacts DEF FxSound
  <2> QED
    BY <2>1, FxAssumption, NoCallFits DEF FxSound, FxTypes
<1>3. ASSUME NEW rate \in OfferedRates, NEW pricing \in BOOLEAN, ReadLatestRate(c, rate, pricing)
      PROVE  FxSound'
  <2>1. PICK place \in {"price", "sync"} :
          fx' = [fx EXCEPT ![c] = [NoCall EXCEPT !.rate = rate, !.pricing = pricing, !.at = place]]
    BY <1>3 DEF ReadLatestRate
  <2> DEFINE new == [NoCall EXCEPT !.rate = rate, !.pricing = pricing, !.at = place]
  <2>2. new \in FxStates /\ new.at = place
    BY <1>2 DEF FxStates
  <2>3. fx' = [fx EXCEPT ![c] = new]
    BY <2>1
  <2> HIDE DEF new
  <2>4. MoneyFits(new) /\ RateFits(new)
    BY <2>2 DEF MoneyFits, RateFits, Converting, Reading
  <2> QED
    BY <1>1, <2>2, <2>3, <2>4, CallGoesOn
<1>4. CASE BeginSync(c)
  <2> DEFINE new == [fx[c] EXCEPT !.at = "insert", !.snapshot = Active, !.alone = TRUE]
  <2>1. new \in FxStates /\ new.at = "insert" /\ new.snapshot = Active
    BY <1>2 DEF FxStates
  <2>2. fx' = [fx EXCEPT ![c] = new]
    BY <1>2, <1>4 DEF BeginSync
  <2> HIDE DEF new
  <2>3. MoneyFits(new) /\ RateFits(new)
    BY <2>1 DEF MoneyFits, RateFits, Converting, Reading
  <2> QED
    BY <1>1, <2>1, <2>2, <2>3, CallGoesOn
<1>5. ASSUME NEW rate \in OfferedRates, BeginUpsert(c, rate)
      PROVE  FxSound'
  <2> DEFINE new == [NoCall EXCEPT !.at = "upsert", !.rate = rate, !.snapshot = Active]
  <2>1. new \in FxStates /\ new.at = "upsert" /\ new.snapshot = Active
    BY <1>2 DEF FxStates
  <2>2. fx' = [fx EXCEPT ![c] = new]
    BY <1>5 DEF BeginUpsert
  <2> HIDE DEF new
  <2>3. MoneyFits(new) /\ RateFits(new)
    BY <2>1 DEF MoneyFits, RateFits, Converting, Reading
  <2> QED
    BY <1>1, <2>1, <2>2, <2>3, CallGoesOn
<1> QED
  BY <1>3, <1>4, <1>5

LEMMA MoneyReads ==
  ASSUME FxSound, NEW c \in FxCalls,
         \/ \E q \in 1..MaxQuotes : BeginConversion(c, q)
         \/ TakeDate(c) \/ ReadQuote(c) \/ ReadSource(c) \/ ReadTarget(c)
  PROVE  FxSound'
<1> DEFINE h == fx[c]
<1>1. /\ UNCHANGED <<rates, syncRaced, funds, source, target, conversions, overlapped, quotes, fxTime>>
  BY DEF BeginConversion, TakeDate, ReadQuote, ReadSource, ReadTarget, KeepRates, KeepMoney
<1>2. /\ fx \in [FxCalls -> FxStates] /\ h \in FxStates /\ MoneyFits(h)
      /\ fxTime \in Nat /\ source \in Nat /\ source <= funds /\ funds \in Nat /\ target \in Nat
  BY DEF FxSound, FxTypes
<1>3. ASSUME NEW q \in 1..MaxQuotes, BeginConversion(c, q)
      PROVE  FxSound'
  <2>1. /\ q \in DOMAIN quotes /\ quotes[q].status # "executed" /\ q \in Nat /\ quotes[q].expiresAt \in Nat
    <3>1. q \in DOMAIN quotes /\ quotes[q].status # "executed"
      BY <1>3 DEF BeginConversion
    <3> QED
      BY <3>1, FxFacts DEF FxSound
  <2> DEFINE place == IF quotes[q].expiresAt > fxTime THEN "date" ELSE "expire"
             new == [NoCall EXCEPT !.quote = q, !.at = place]
  <2>2. new \in FxStates /\ new.at = place /\ new.quote = q
    BY <2>1, NoCallFits DEF FxStates, Converting
  <2>3. fx' = [fx EXCEPT ![c] = new]
    BY <1>3 DEF BeginConversion
  <2>4. \/ place = "date" /\ quotes[q].expiresAt > fxTime
        \/ place = "expire" /\ quotes[q].expiresAt <= fxTime
    BY <1>2, <2>1
  <2> HIDE DEF new, place
  <2>5. quotes[q].expiresAt > fxTime => \A i \in DOMAIN conversions : conversions[i].quote # q
    BY <1>2, <2>1 DEF FxSound, UsedUp
  <2>6. MoneyFits(new) /\ RateFits(new)
    BY <2>1, <2>2, <2>4, <2>5 DEF MoneyFits, RateFits, Converting, Reading
  <2> QED
    BY <1>1, <2>2, <2>3, <2>6, CallGoesOn
<1>4. CASE TakeDate(c)
  <2> DEFINE new == [h EXCEPT !.at = "quote", !.executedAt = fxTime]
  <2>1. /\ new \in FxStates /\ new.at = "quote" /\ new.quote = h.quote /\ new.alone = h.alone
        /\ h.at = "date"
    BY <1>2, <1>4 DEF FxStates, TakeDate, AtFx, Converting
  <2>2. fx' = [fx EXCEPT ![c] = new]
    BY <1>2, <1>4 DEF TakeDate
  <2> HIDE DEF new, h
  <2>3. MoneyFits(new) /\ RateFits(new)
    BY <1>2, <2>1 DEF MoneyFits, RateFits, Converting, Reading
  <2> QED
    BY <1>1, <2>1, <2>2, <2>3, CallGoesOn
<1>5. CASE ReadQuote(c)
  <2>1. CASE quotes[h.quote].status = "executed" \/ quotes[h.quote].expiresAt <= h.executedAt
    BY <1>1, <1>5, <2>1, FxEnds DEF ReadQuote
  <2>2. CASE ~(quotes[h.quote].status = "executed" \/ quotes[h.quote].expiresAt <= h.executedAt)
    <3> DEFINE new == [h EXCEPT !.at = "source"]
    <3>1. /\ new \in FxStates /\ new.at = "source" /\ new.quote = h.quote /\ new.alone = h.alone
          /\ new.executedAt = h.executedAt /\ h.at = "quote" /\ h.executedAt \in Nat
      BY <1>2, <1>5 DEF FxStates, ReadQuote, AtFx, Converting
    <3>2. fx' = [fx EXCEPT ![c] = new]
      BY <1>2, <1>5, <2>2 DEF ReadQuote, GoFx
    <3>3. h.quote \in DOMAIN quotes /\ quotes[h.quote].expiresAt \in Nat
      BY <1>2, <3>1, FxFacts DEF MoneyFits, Converting, FxSound
    <3>4. h.executedAt < quotes[h.quote].expiresAt
      BY <2>2, <3>1, <3>3
    <3> HIDE DEF new, h
    <3>5. MoneyFits(new) /\ RateFits(new)
      BY <1>2, <3>1, <3>4 DEF MoneyFits, RateFits, Converting, Reading
    <3> QED
      BY <1>1, <3>1, <3>2, <3>5, CallGoesOn
  <2> QED
    BY <2>1, <2>2
<1>6. CASE ReadSource(c)
  <2>1. CASE source < 1
    BY <1>1, <1>6, <2>1, FxEnds DEF ReadSource
  <2>2. CASE ~(source < 1)
    <3> DEFINE new == [h EXCEPT !.at = "target", !.read = source]
    <3>1. /\ new \in FxStates /\ new.at = "target" /\ new.quote = h.quote /\ new.alone = h.alone
          /\ new.executedAt = h.executedAt /\ new.read = source /\ h.at = "source"
      BY <1>2, <1>6 DEF FxStates, ReadSource, AtFx, Converting
    <3>2. fx' = [fx EXCEPT ![c] = new]
      BY <1>2, <1>6, <2>2 DEF ReadSource
    <3> HIDE DEF new, h
    <3>3. MoneyFits(new) /\ RateFits(new)
      BY <1>2, <2>2, <3>1 DEF MoneyFits, RateFits, Converting, Reading
    <3> QED
      BY <1>1, <3>1, <3>2, <3>3, CallGoesOn
  <2> QED
    BY <2>1, <2>2
<1>7. CASE ReadTarget(c)
  <2> DEFINE new == [h EXCEPT !.at = "commit", !.also = target]
  <2>1. /\ new \in FxStates /\ new.at = "commit" /\ new.quote = h.quote /\ new.alone = h.alone
        /\ new.executedAt = h.executedAt /\ new.read = h.read /\ h.at = "target"
    BY <1>2, <1>7 DEF FxStates, ReadTarget, AtFx, Converting
  <2>2. fx' = [fx EXCEPT ![c] = new]
    BY <1>2, <1>7 DEF ReadTarget
  <2> HIDE DEF new, h
  <2>3. MoneyFits(new) /\ RateFits(new)
    BY <1>2, <2>1 DEF MoneyFits, RateFits, Converting, Reading
  <2> QED
    BY <1>1, <2>1, <2>2, <2>3, CallGoesOn
<1> QED
  BY <1>3, <1>4, <1>5, <1>6, <1>7

\* Quotes are added, or marked expired when they are.
LEMMA QuotesChange ==
  ASSUME FxSound, NEW c \in FxCalls, EndFx(c),
         UNCHANGED <<rates, syncRaced, funds, source, target, conversions, overlapped, fxTime>>,
         quotes' \in Seq(QuoteSet), DOMAIN quotes \subseteq DOMAIN quotes',
         \A q \in DOMAIN quotes :
           /\ quotes'[q].expiresAt = quotes[q].expiresAt
           /\ \/ quotes'[q].status = quotes[q].status
              \/ quotes'[q].status = "expired" /\ quotes[q].expiresAt <= fxTime,
         \A q \in DOMAIN quotes' : q \notin DOMAIN quotes => quotes'[q].status = "pending"
  PROVE  FxSound'
<1>1. /\ fx' \in [FxCalls -> FxStates] /\ Active' = Active
      /\ \A d \in FxCalls : fx'[d] = fx[d] \/ fx'[d] = NoCall
  BY NoCallFits DEF EndFx, FxSound, FxTypes, Active
<1>2. FxTypes'
  BY <1>1 DEF FxSound, FxTypes
<1>3. UsedUp'
  BY DEF FxSound, UsedUp
<1>4. ConvertedInTime'
  <2>1. \A i \in DOMAIN conversions : conversions[i].quote \in DOMAIN quotes
    BY DEF FxSound, UsedUp
  <2>2. \A q \in DOMAIN quotes' : quotes'[q].status = "executed" => q \in DOMAIN quotes /\ quotes[q].status = "executed"
    OBVIOUS
  <2> QED
    BY <2>1, <2>2 DEF FxSound, ConvertedInTime
<1>5. ConvertedOnce' /\ AtOnce'
  BY <1>1 DEF FxSound, ConvertedOnce, AtOnce
<1>6. ASSUME NEW d \in FxCalls
      PROVE  MoneyFits(fx[d])' /\ RateFits(fx[d])'
  <2>1. MoneyFits(fx'[d]) /\ RateFits(fx'[d])
    BY <1>1, NoCallFits DEF FxSound
  <2>2. PICK h : h = fx'[d]
    OBVIOUS
  <2>3. h.at \in Converting \cup {"expire"} =>
          h.quote \in DOMAIN quotes' /\ quotes'[h.quote].expiresAt = quotes[h.quote].expiresAt
    BY <2>1, <2>2 DEF MoneyFits
  <2>4. MoneyFits(h)'
    BY <2>1, <2>2, <2>3 DEF MoneyFits, Reading, Converting
  <2>5. RateFits(h)'
    BY <1>1, <2>1, <2>2 DEF RateFits
  <2> QED
    BY <2>2, <2>4, <2>5
<1> QED
  BY <1>2, <1>3, <1>4, <1>5, <1>6 DEF FxSound

LEMMA QuoteKeeps ==
  ASSUME FxSound, NEW c \in FxCalls, CreateQuote(c) \/ ExpireQuote(c)
  PROVE  FxSound'
<1>1. /\ UNCHANGED <<rates, syncRaced, funds, source, target, conversions, overlapped, fxTime>>
      /\ EndFx(c)
  BY DEF CreateQuote, ExpireQuote, KeepRates, KeepMoney
<1>2. /\ quotes \in Seq(QuoteSet) /\ DOMAIN quotes = 1..Len(quotes) /\ Len(quotes) \in Nat
      /\ \A q \in DOMAIN quotes : quotes[q] \in QuoteSet
      /\ fxTime \in Nat
  BY FxFacts DEF FxSound, FxTypes
<1>3. CASE CreateQuote(c)
  <2>1. CASE Active = {}
    BY <1>1, <1>3, <2>1, FxEnds DEF CreateQuote
  <2>2. CASE Active # {}
    <3>1. PICK i \in Active :
            quotes' = Append(quotes, [rate |-> rates[i].rate, status |-> "pending", expiresAt |-> fxTime + QUOTE_TTL])
      BY <1>3, <2>2 DEF CreateQuote
    <3> DEFINE new == [rate |-> rates[i].rate, status |-> "pending", expiresAt |-> fxTime + QUOTE_TTL]
    <3>2. new \in QuoteSet /\ new.status = "pending"
      <4>1. rates[i].rate \in Nat
        BY FxFacts DEF FxSound, Active
      <4>2. fxTime + QUOTE_TTL \in Nat
        BY <1>2, FxAssumption
      <4> QED
        BY <4>1, <4>2 DEF QuoteSet
    <3> HIDE DEF new
    <3>3. quotes' = Append(quotes, new)
      BY <3>1 DEF new
    <3>4. /\ quotes' \in Seq(QuoteSet) /\ DOMAIN quotes' = 1..(Len(quotes) + 1)
          /\ quotes'[Len(quotes) + 1] = new
          /\ \A q \in 1..Len(quotes) : quotes'[q] = quotes[q]
      BY <1>2, <3>2, <3>3, AppendProperties, LenProperties
    <3>5. /\ DOMAIN quotes \subseteq DOMAIN quotes'
          /\ \A q \in DOMAIN quotes' : q \notin DOMAIN quotes => q = Len(quotes) + 1
      BY <1>2, <3>4
    <3> QED
      BY <1>1, <1>2, <3>2, <3>4, <3>5, QuotesChange
  <2> QED
    BY <2>1, <2>2
<1>4. CASE ExpireQuote(c)
  <2> DEFINE q == fx[c].quote
             new == [quotes[q] EXCEPT !.status = "expired"]
  <2>1. quotes' = [quotes EXCEPT ![q].status = "expired"] /\ fx[c].at = "expire"
    BY <1>4 DEF ExpireQuote, AtFx
  <2>2. q \in DOMAIN quotes /\ quotes[q].expiresAt <= fxTime
    <3>1. MoneyFits(fx[c])
      BY DEF FxSound
    <3> QED
      BY <2>1, <3>1 DEF MoneyFits
  <2> HIDE DEF q
  <2>3. new \in QuoteSet /\ new.status = "expired" /\ new.expiresAt = quotes[q].expiresAt
    BY <1>2, <2>2 DEF QuoteSet
  <2>4. quotes' = [quotes EXCEPT ![q] = new]
    BY <2>1
  <2> HIDE DEF new
  <2>5. quotes' \in Seq(QuoteSet) /\ DOMAIN quotes' = DOMAIN quotes
    BY <1>2, <2>2, <2>3, <2>4, ExceptSeq
  <2>6. \A p \in DOMAIN quotes : quotes'[p] = IF p = q THEN new ELSE quotes[p]
    BY <2>4
  <2> QED
    BY <1>1, <2>2, <2>3, <2>5, <2>6, QuotesChange
<1> QED
  BY <1>3, <1>4

\* What a commit does to the calls.
LEMMA CommittedIs ==
  ASSUME FxTypes, NEW c \in FxCalls, NEW places, NEW new, new = Committed(c, places)
  PROVE  /\ new \in [FxCalls -> FxStates] /\ new[c] = NoCall
         /\ \A d \in FxCalls : d # c =>
              /\ new[d].at = fx[d].at /\ new[d].quote = fx[d].quote /\ new[d].snapshot = fx[d].snapshot
              /\ new[d].executedAt = fx[d].executedAt /\ new[d].read = fx[d].read
              /\ new[d].alone => fx[d].alone /\ fx[d].at \notin places
<1> DEFINE Other(d) == [fx[d] EXCEPT !.alone = fx[d].alone /\ fx[d].at \notin places]
<1>1. fx \in [FxCalls -> FxStates]
  BY DEF FxTypes
<1>2. ASSUME NEW d \in FxCalls
      PROVE  /\ Other(d) \in FxStates
             /\ Other(d).at = fx[d].at /\ Other(d).quote = fx[d].quote /\ Other(d).snapshot = fx[d].snapshot
             /\ Other(d).executedAt = fx[d].executedAt /\ Other(d).read = fx[d].read
             /\ Other(d).alone <=> fx[d].alone /\ fx[d].at \notin places
  <2> DEFINE still == fx[d].alone /\ fx[d].at \notin places
  <2>1. still \in BOOLEAN /\ fx[d] \in FxStates
    BY <1>1
  <2> HIDE DEF still
  <2>2. [fx[d] EXCEPT !.alone = still] \in FxStates
    BY <2>1 DEF FxStates
  <2>3. [fx[d] EXCEPT !.alone = still].alone = still
    BY <2>1 DEF FxStates
  <2> QED
    BY <2>1, <2>2, <2>3 DEF still, FxStates
<1>3. new = [d \in FxCalls |-> IF d = c THEN NoCall ELSE Other(d)]
  BY DEF Committed
<1> HIDE DEF Other
<1> QED
  BY <1>2, <1>3, NoCallFits

LEMMA ConversionKeeps ==
  ASSUME FxSound, NEW c \in FxCalls, CommitConversion(c)
  PROVE  FxSound'
<1> DEFINE h == fx[c]
           q == h.quote
           new == [quotes[q] EXCEPT !.status = "executed"]
           made == [quote |-> q, executedAt |-> h.executedAt, amount |-> quotes[q].rate]
           n == Len(conversions)
<1>1. /\ h.at = "commit" /\ source' = h.read - 1 /\ target' = h.also + quotes[q].rate
      /\ quotes' = [quotes EXCEPT ![q] = new] /\ conversions' = Append(conversions, made)
      /\ overlapped' = (overlapped \/ ~h.alone) /\ fx' = Committed(c, Converting)
      /\ UNCHANGED <<fxTime, funds, rates, syncRaced>>
  BY DEF CommitConversion, AtFx, KeepRates
<1>2. /\ MoneyFits(h) /\ h \in FxStates /\ FxTypes /\ fxTime \in Nat /\ funds \in Nat
      /\ overlapped \in BOOLEAN
  BY DEF FxSound, FxTypes
<1>3. /\ quotes \in Seq(QuoteSet) /\ conversions \in Seq(ConversionSet)
      /\ \A p \in DOMAIN quotes : quotes[p] \in QuoteSet /\ quotes[p].rate \in Nat
      /\ n \in Nat /\ DOMAIN conversions = 1..n
  BY <1>2, FxFacts DEF FxTypes
<1>4. /\ q \in DOMAIN quotes /\ h.executedAt < quotes[q].expiresAt /\ 1 <= h.read /\ h.read <= funds
      /\ h.alone => h.read = source /\ \A i \in DOMAIN conversions : conversions[i].quote # q
  BY <1>1, <1>2 DEF MoneyFits, Reading, Converting
<1>5. h.read \in Nat /\ h.also \in Nat /\ h.executedAt \in Nat /\ q \in Nat /\ h.alone \in BOOLEAN
  BY <1>2 DEF FxStates
<1> HIDE DEF h
<1>6. /\ new \in QuoteSet /\ new.status = "executed" /\ new.expiresAt = quotes[q].expiresAt
  BY <1>3, <1>4 DEF QuoteSet
<1>7. made \in ConversionSet /\ made.quote = q /\ made.executedAt = h.executedAt
  BY <1>3, <1>4, <1>5 DEF ConversionSet
<1> HIDE DEF new, made, q
<1>8. /\ quotes' \in Seq(QuoteSet) /\ DOMAIN quotes' = DOMAIN quotes
      /\ quotes'[q] = new /\ \A p \in DOMAIN quotes : p # q => quotes'[p] = quotes[p]
      /\ \A p \in DOMAIN quotes : quotes'[p].expiresAt = quotes[p].expiresAt
  <2>1. quotes' \in Seq(QuoteSet) /\ DOMAIN quotes' = DOMAIN quotes
    BY <1>1, <1>3, <1>4, <1>6, ExceptSeq
  <2>2. quotes'[q] = new /\ \A p \in DOMAIN quotes : p # q => quotes'[p] = quotes[p]
    BY <1>1, <1>4
  <2> QED
    BY <1>6, <2>1, <2>2
<1>9. /\ conversions' \in Seq(ConversionSet) /\ Len(conversions') = n + 1
      /\ DOMAIN conversions' = 1..(n + 1) /\ conversions'[n + 1] = made
      /\ \A i \in 1..n : conversions'[i] = conversions[i]
  BY <1>1, <1>3, <1>7, AppendProperties, LenProperties
<1> HIDE DEF n
<1>10. \A i \in DOMAIN conversions' : i \in DOMAIN conversions \/ i = n + 1
  BY <1>3, <1>9
<1>11. FxTypes'
  <2>1. source' \in Nat /\ source' <= funds /\ target' \in Nat
    BY <1>1, <1>2, <1>3, <1>4, <1>5
  <2>2. fx' \in [FxCalls -> FxStates] /\ overlapped' \in BOOLEAN
    BY <1>1, <1>2, <1>5, CommittedIs
  <2> QED
    BY <1>1, <1>2, <1>8, <1>9, <2>1, <2>2 DEF FxTypes
<1>12. UsedUp'
  <2>1. ASSUME NEW i \in DOMAIN conversions'
        PROVE  /\ conversions'[i].quote \in DOMAIN quotes'
               /\ \/ quotes'[conversions'[i].quote].status = "executed"
                  \/ quotes'[conversions'[i].quote].expiresAt <= fxTime'
    <3>1. CASE i \in DOMAIN conversions
      <4>1. conversions'[i] = conversions[i]
        BY <1>3, <1>9, <3>1
      <4>2. /\ conversions[i].quote \in DOMAIN quotes
            /\ \/ quotes[conversions[i].quote].status = "executed"
               \/ quotes[conversions[i].quote].expiresAt <= fxTime
        BY <3>1 DEF FxSound, UsedUp
      <4> QED
        BY <1>1, <1>6, <1>8, <4>1, <4>2
    <3>2. CASE i = n + 1
      BY <1>4, <1>6, <1>7, <1>8, <1>9, <3>2
    <3> QED
      BY <1>10, <3>1, <3>2
  <2> QED
    BY <2>1 DEF UsedUp
<1>13. ConvertedInTime'
  <2>1. ASSUME NEW i \in DOMAIN conversions'
        PROVE  conversions'[i].executedAt < quotes'[conversions'[i].quote].expiresAt
    <3>1. CASE i \in DOMAIN conversions
      <4>1. conversions'[i] = conversions[i] /\ conversions[i].quote \in DOMAIN quotes
        BY <1>3, <1>9, <3>1 DEF FxSound, UsedUp
      <4>2. conversions[i].executedAt < quotes[conversions[i].quote].expiresAt
        BY <3>1 DEF FxSound, ConvertedInTime
      <4> QED
        BY <1>8, <4>1, <4>2
    <3>2. CASE i = n + 1
      BY <1>4, <1>6, <1>7, <1>8, <1>9, <3>2
    <3> QED
      BY <1>10, <3>1, <3>2
  <2>2. ASSUME NEW p \in DOMAIN quotes', quotes'[p].status = "executed"
        PROVE  \E i \in DOMAIN conversions' : conversions'[i].quote = p
    <3>1. CASE p = q
      <4>1. n + 1 \in DOMAIN conversions'
        BY <1>3, <1>9
      <4> QED
        BY <1>7, <1>9, <3>1, <4>1
    <3>2. CASE p # q
      <4>1. quotes[p].status = "executed" /\ p \in DOMAIN quotes
        BY <1>8, <2>2, <3>2
      <4>2. PICK i \in DOMAIN conversions : conversions[i].quote = p
        BY <4>1 DEF FxSound, ConvertedInTime
      <4>3. i \in DOMAIN conversions' /\ conversions'[i] = conversions[i]
        BY <1>3, <1>9
      <4> QED
        BY <4>2, <4>3
    <3> QED
      BY <3>1, <3>2
  <2> QED
    BY <2>1, <2>2 DEF ConvertedInTime
<1>14. ConvertedOnce'
  <2>1. SUFFICES ASSUME ~overlapped'
        PROVE  /\ \A i, j \in DOMAIN conversions' : conversions'[i].quote = conversions'[j].quote => i = j
               /\ source' = funds' - Len(conversions')
    BY DEF ConvertedOnce
  <2>2. /\ h.read = source /\ \A i \in DOMAIN conversions : conversions[i].quote # q
        /\ \A i, j \in DOMAIN conversions : conversions[i].quote = conversions[j].quote => i = j
        /\ source = funds - n
    BY <1>1, <1>4, <2>1 DEF FxSound, ConvertedOnce, n
  <2>3. source' = funds' - Len(conversions')
    BY <1>1, <1>2, <1>3, <1>5, <1>9, <2>2
  <2>4. \A i \in DOMAIN conversions : conversions'[i].quote = conversions[i].quote /\ conversions'[i].quote # q
    BY <1>3, <1>9, <2>2
  <2>5. conversions'[n + 1].quote = q
    BY <1>7, <1>9
  <2>6. \A i, j \in DOMAIN conversions' : conversions'[i].quote = conversions'[j].quote => i = j
    BY <1>10, <2>2, <2>4, <2>5
  <2> QED
    BY <2>3, <2>6
<1>15. AtOnce' /\ Active' = Active
  BY <1>1 DEF FxSound, AtOnce, Active
<1>16. ASSUME NEW d \in FxCalls
       PROVE  MoneyFits(fx[d])' /\ RateFits(fx[d])'
  <2>1. PICK k : k = fx'[d]
    OBVIOUS
  <2>2. CASE d = c
    <3>1. k = NoCall
      BY <1>1, <1>2, <2>1, <2>2, CommittedIs
    <3>2. MoneyFits(k)' /\ RateFits(k)'
      BY <3>1, NoCallFits DEF MoneyFits, RateFits, Reading, Converting
    <3> QED
      BY <2>1, <3>2
  <2>3. CASE d # c
    <3>1. /\ k.at = fx[d].at /\ k.quote = fx[d].quote /\ k.snapshot = fx[d].snapshot
          /\ k.executedAt = fx[d].executedAt /\ k.read = fx[d].read
          /\ k.alone => fx[d].alone /\ fx[d].at \notin Converting
      BY <1>1, <1>2, <2>1, <2>3, CommittedIs
    <3>2. MoneyFits(fx[d]) /\ RateFits(fx[d])
      BY DEF FxSound
    <3>3. MoneyFits(k)'
      BY <1>1, <1>8, <3>1, <3>2 DEF MoneyFits, Reading, Converting
    <3>4. RateFits(k)'
      BY <1>1, <1>15, <3>1, <3>2 DEF RateFits
    <3> QED
      BY <2>1, <3>3, <3>4
  <2> QED
    BY <2>2, <2>3
<1> QED
  BY <1>11, <1>12, <1>13, <1>14, <1>15, <1>16 DEF FxSound

\* Rates change; no call knows more of the wallet than before.
LEMMA RatesChange ==
  ASSUME FxSound, UNCHANGED <<funds, source, target, conversions, overlapped, quotes, fxTime>>,
         rates' \in Seq(RateSet), syncRaced' \in BOOLEAN, fx' \in [FxCalls -> FxStates], AtOnce',
         \A d \in FxCalls :
           \/ fx'[d].at \in {"none", "price"}
           \/ /\ fx'[d].at = fx[d].at /\ fx'[d].quote = fx[d].quote
              /\ fx'[d].executedAt = fx[d].executedAt /\ fx'[d].read = fx[d].read
              /\ fx'[d].alone => fx[d].alone,
         \A d \in FxCalls :
           fx'[d].at \in {"insert", "upsert"} /\ fx'[d].alone /\ ~syncRaced' => Active' \subseteq fx'[d].snapshot
  PROVE  FxSound'
<1>1. FxTypes'
  BY DEF FxSound, FxTypes
<1>2. UsedUp' /\ ConvertedInTime' /\ ConvertedOnce'
  BY DEF FxSound, UsedUp, ConvertedInTime, ConvertedOnce
<1>3. ASSUME NEW d \in FxCalls
      PROVE  MoneyFits(fx[d])' /\ RateFits(fx[d])'
  <2>1. PICK k : k = fx'[d]
    OBVIOUS
  <2>2. MoneyFits(fx[d])
    BY DEF FxSound
  <2>3. MoneyFits(k)'
    <3>1. CASE k.at \in {"none", "price"}
      BY <3>1 DEF MoneyFits, Reading, Converting
    <3>2. CASE /\ k.at = fx[d].at /\ k.quote = fx[d].quote
               /\ k.executedAt = fx[d].executedAt /\ k.read = fx[d].read
               /\ k.alone => fx[d].alone
      BY <2>2, <3>2 DEF MoneyFits, Reading, Converting
    <3> QED
      BY <2>1, <3>1, <3>2
  <2>4. RateFits(k)'
    BY <2>1 DEF RateFits
  <2> QED
    BY <2>1, <2>3, <2>4
<1> QED
  BY <1>1, <1>2, <1>3 DEF FxSound

\* The rows a writer knows of are no longer active, and its own is.
LEMMA ReplacedIs ==
  ASSUME FxTypes, NEW rows, NEW rate \in Nat, rates' = Replaced(rows, rate)
  PROVE  rates' \in Seq(RateSet) /\ Active' = (Active \ rows) \cup {Len(rates) + 1}
<1> DEFINE old == [i \in DOMAIN rates |-> [rates[i] EXCEPT !.active = @ /\ i \notin rows]]
           new == [rate |-> rate, active |-> TRUE]
           n == Len(rates)
<1>1. /\ n \in Nat /\ DOMAIN rates = 1..n /\ \A i \in 1..n : rates[i] \in RateSet
  BY FxFacts
<1>2. ASSUME NEW i \in 1..n
      PROVE  /\ old[i] \in RateSet /\ (old[i].active <=> rates[i].active /\ i \notin rows)
  <2> DEFINE b == rates[i].active /\ i \notin rows
  <2>1. b \in BOOLEAN /\ rates[i] \in RateSet
    BY <1>1
  <2>2. old[i] = [rates[i] EXCEPT !.active = b]
    BY <1>1
  <2> HIDE DEF b
  <2>3. [rates[i] EXCEPT !.active = b] \in RateSet /\ [rates[i] EXCEPT !.active = b].active = b
    BY <2>1 DEF RateSet
  <2> QED
    BY <2>2, <2>3 DEF b
<1>3. old \in Seq(RateSet) /\ Len(old) = n
  <2>1. old \in [1..n -> RateSet]
    BY <1>1, <1>2
  <2>2. old \in Seq(RateSet)
    BY <1>1, <2>1, SeqDef
  <2>3. DOMAIN old = 1..n
    BY <1>1
  <2> HIDE DEF old
  <2> QED
    BY <1>1, <2>2, <2>3, LenProperties
<1>4. new \in RateSet /\ new.active = TRUE
  BY DEF RateSet
<1>5. rates' = Append(old, new)
  BY DEF Replaced
<1> HIDE DEF old, new
<1>6. /\ rates' \in Seq(RateSet) /\ DOMAIN rates' = 1..(n + 1) /\ rates'[n + 1] = new
      /\ \A i \in 1..n : rates'[i] = old[i]
  BY <1>3, <1>4, <1>5, AppendProperties, LenProperties
<1>7. \A i \in DOMAIN rates' : i \in 1..n \/ i = n + 1
  BY <1>1, <1>6
<1>8. 1..n \subseteq DOMAIN rates' /\ n + 1 \in DOMAIN rates' /\ n + 1 \notin 1..n
  BY <1>1, <1>6
<1> HIDE DEF n
<1>9. \A i : i \in Active' <=> i \in (Active \ rows) \cup {n + 1}
  <2>1. ASSUME NEW i \in 1..n
        PROVE  i \in Active' <=> i \in (Active \ rows) \cup {n + 1}
    BY <1>1, <1>2, <1>6, <1>8 DEF Active
  <2>2. n + 1 \in Active'
    BY <1>4, <1>6, <1>8 DEF Active
  <2>3. \A i : i \in Active' \/ i \in Active \cup {n + 1} => i \in 1..n \/ i = n + 1
    BY <1>1, <1>7 DEF Active
  <2> QED
    BY <2>1, <2>2, <2>3
<1> QED
  BY <1>6, <1>9 DEF n

LEMMA RateKeeps ==
  ASSUME FxSound, NEW c \in FxCalls, CommitSync(c) \/ CommitUpsert(c)
  PROVE  FxSound'
<1> DEFINE h == fx[c]
<1>1. UNCHANGED <<funds, source, target, conversions, overlapped, quotes, fxTime>>
  BY DEF CommitSync, CommitUpsert, KeepMoney
<1>2. /\ FxTypes /\ h \in FxStates /\ h.rate \in Nat /\ RateFits(h) /\ syncRaced \in BOOLEAN
      /\ h.alone \in BOOLEAN
  <2>1. h \in FxStates
    BY DEF FxSound, FxTypes
  <2> QED
    BY <2>1 DEF FxSound, FxTypes, FxStates
<1>3. ASSUME rates' = Replaced(h.snapshot, h.rate), h.at \in {"insert", "upsert"},
             ~syncRaced' => h.alone /\ ~syncRaced
      PROVE  rates' \in Seq(RateSet) /\ AtOnce'
  <2>1. rates' \in Seq(RateSet) /\ Active' = (Active \ h.snapshot) \cup {Len(rates) + 1}
    BY <1>2, <1>3, ReplacedIs
  <2>2. ~syncRaced' => Active' = {Len(rates) + 1}
    BY <1>2, <1>3, <2>1 DEF RateFits
  <2> QED
    BY <2>1, <2>2 DEF AtOnce
<1>4. CASE CommitSync(c)
  <2> DEFINE calls == Committed(c, {})
             done == [NoCall EXCEPT !.at = IF h.pricing THEN "price" ELSE "none"]
  <2>1. /\ h.at = "insert" /\ rates' = Replaced(h.snapshot, h.rate)
        /\ syncRaced' = (syncRaced \/ ~h.alone \/ Underway(c, {"insert", "upsert"}))
        /\ fx' = [calls EXCEPT ![c].at = IF h.pricing THEN "price" ELSE "none"]
    BY <1>4 DEF CommitSync, AtFx
  <2> HIDE DEF h
  <2>2. /\ calls \in [FxCalls -> FxStates] /\ calls[c] = NoCall
        /\ \A d \in FxCalls : d # c =>
              /\ calls[d].at = fx[d].at /\ calls[d].quote = fx[d].quote /\ calls[d].snapshot = fx[d].snapshot
              /\ calls[d].executedAt = fx[d].executedAt /\ calls[d].read = fx[d].read
              /\ calls[d].alone => fx[d].alone
    BY <1>2, CommittedIs
  <2> HIDE DEF calls
  <2>3. done \in FxStates /\ done.at \in {"none", "price"}
    BY NoCallFits DEF FxStates
  <2>4. fx' = [calls EXCEPT ![c] = done]
    BY <2>1, <2>2
  <2> HIDE DEF done
  <2>5. /\ fx' \in [FxCalls -> FxStates] /\ fx'[c] = done
        /\ \A d \in FxCalls : d # c => fx'[d] = calls[d]
    BY <2>2, <2>3, <2>4
  <2>6. syncRaced' \in BOOLEAN /\ (~syncRaced' => h.alone /\ ~syncRaced)
    BY <2>1
  <2>7. \A d \in FxCalls : ~(fx'[d].at \in {"insert", "upsert"} /\ fx'[d].alone /\ ~syncRaced')
    <3>1. ASSUME NEW d \in FxCalls, d # c, fx[d].at \in {"insert", "upsert"}
          PROVE  syncRaced'
      BY <2>1, <3>1 DEF Underway
    <3> QED
      BY <2>2, <2>3, <2>5, <3>1
  <2>8. rates' \in Seq(RateSet) /\ AtOnce'
    BY <1>3, <2>1, <2>6
  <2>9. \A d \in FxCalls :
          \/ fx'[d].at \in {"none", "price"}
          \/ /\ fx'[d].at = fx[d].at /\ fx'[d].quote = fx[d].quote
             /\ fx'[d].executedAt = fx[d].executedAt /\ fx'[d].read = fx[d].read
             /\ fx'[d].alone => fx[d].alone
    BY <2>2, <2>3, <2>5
  <2> QED
    BY <1>1, <2>5, <2>6, <2>7, <2>8, <2>9, RatesChange
<1>5. CASE CommitUpsert(c)
  <2>1. CASE h.alone /\ h.snapshot \subseteq Active
    <3>1. /\ h.at = "upsert" /\ rates' = Replaced(h.snapshot, h.rate)
          /\ fx' = Committed(c, {"upsert", "insert"})
          /\ syncRaced' = (syncRaced \/ Underway(c, {"insert"}))
      BY <1>5, <2>1 DEF CommitUpsert, AtFx
    <3> HIDE DEF h
    <3>2. /\ fx' \in [FxCalls -> FxStates] /\ fx'[c] = NoCall
          /\ \A d \in FxCalls : d # c =>
                /\ fx'[d].at = fx[d].at /\ fx'[d].quote = fx[d].quote /\ fx'[d].snapshot = fx[d].snapshot
                /\ fx'[d].executedAt = fx[d].executedAt /\ fx'[d].read = fx[d].read
                /\ fx'[d].alone => fx[d].alone /\ fx[d].at \notin {"upsert", "insert"}
      BY <1>2, <3>1, CommittedIs
    <3>3. syncRaced' \in BOOLEAN /\ (~syncRaced' => h.alone /\ ~syncRaced)
      BY <2>1, <3>1
    <3>4. rates' \in Seq(RateSet) /\ AtOnce'
      BY <1>3, <3>1, <3>3
    <3>5. \A d \in FxCalls : ~(fx'[d].at \in {"insert", "upsert"} /\ fx'[d].alone)
      BY <3>2, NoCallFits
    <3>6. \A d \in FxCalls :
            \/ fx'[d].at \in {"none", "price"}
            \/ /\ fx'[d].at = fx[d].at /\ fx'[d].quote = fx[d].quote
               /\ fx'[d].executedAt = fx[d].executedAt /\ fx'[d].read = fx[d].read
               /\ fx'[d].alone => fx[d].alone
      BY <3>2, NoCallFits
    <3> QED
      BY <1>1, <3>2, <3>3, <3>4, <3>5, <3>6, RatesChange
  <2>2. CASE ~(h.alone /\ h.snapshot \subseteq Active)
    BY <1>1, <1>5, <2>2, FxEnds DEF CommitUpsert, KeepRates
  <2> QED
    BY <2>1, <2>2
<1> QED
  BY <1>4, <1>5

LEMMA DeactivateKeeps ==
  ASSUME FxSound, NEW i, DeactivateRate(i)
  PROVE  FxSound'
<1> DEFINE new == [rates[i] EXCEPT !.active = FALSE]
<1>1. /\ i \in Active /\ rates' = [rates EXCEPT ![i] = new] /\ fx' = fx /\ syncRaced' = syncRaced
      /\ UNCHANGED <<funds, source, target, conversions, overlapped, quotes, fxTime>>
  BY DEF DeactivateRate, KeepMoney
<1>2. i \in DOMAIN rates /\ rates \in Seq(RateSet) /\ rates[i] \in RateSet
  BY <1>1, FxFacts DEF Active, FxSound, FxTypes
<1>3. new \in RateSet /\ new.active = FALSE
  BY <1>2 DEF RateSet
<1> HIDE DEF new
<1>4. rates' \in Seq(RateSet) /\ DOMAIN rates' = DOMAIN rates
  BY <1>1, <1>2, <1>3, ExceptSeq
<1>5. Active' \subseteq Active
  BY <1>1, <1>2, <1>3, <1>4 DEF Active
<1>6. AtOnce'
  BY <1>1, <1>5 DEF FxSound, AtOnce
<1>7. \A d \in FxCalls :
        fx'[d].at \in {"insert", "upsert"} /\ fx'[d].alone /\ ~syncRaced' => Active' \subseteq fx'[d].snapshot
  BY <1>1, <1>5 DEF FxSound, RateFits
<1>8. syncRaced' \in BOOLEAN /\ fx' \in [FxCalls -> FxStates]
  BY <1>1 DEF FxSound, FxTypes
<1> QED
  BY <1>1, <1>4, <1>6, <1>7, <1>8, RatesChange

LEMMA FxTickKeeps ==
  ASSUME FxSound, FxTick
  PROVE  FxSound'
<1>1. /\ UNCHANGED <<rates, syncRaced, funds, source, target, conversions, overlapped, quotes, fx>>
      /\ fxTime \in Nat /\ fxTime' \in Nat /\ fxTime <= fxTime'
  BY DEF FxTick, KeepRates, KeepMoney, FxSound, FxTypes
<1>2. FxTypes'
  BY <1>1 DEF FxSound, FxTypes
<1>3. \A q \in DOMAIN quotes : quotes[q].expiresAt <= fxTime => quotes[q].expiresAt <= fxTime'
  BY <1>1, FxFacts DEF FxSound
<1>4. UsedUp'
  BY <1>1, <1>3 DEF FxSound, UsedUp
<1>5. ConvertedInTime' /\ ConvertedOnce' /\ AtOnce' /\ Active' = Active
  BY <1>1 DEF FxSound, ConvertedInTime, ConvertedOnce, AtOnce, Active
<1>6. ASSUME NEW d \in FxCalls
      PROVE  MoneyFits(fx[d])' /\ RateFits(fx[d])'
  <2>1. PICK k : k = fx[d]
    OBVIOUS
  <2>2. MoneyFits(k) /\ RateFits(k)
    BY <2>1 DEF FxSound
  <2>3. MoneyFits(k)' /\ RateFits(k)'
    BY <1>1, <1>3, <1>5, <2>2 DEF MoneyFits, RateFits, Reading
  <2> QED
    BY <1>1, <2>1, <2>3
<1> QED
  BY <1>2, <1>4, <1>5, <1>6 DEF FxSound

LEMMA FxBegin ==
  ASSUME FxInit
  PROVE  FxSound
<1>1. /\ rates = <<>> /\ quotes = <<>> /\ conversions = <<>> /\ funds \in Nat /\ source = funds /\ target = 0
      /\ fx = [c \in FxCalls |-> NoCall] /\ fxTime = 0 /\ overlapped = FALSE /\ syncRaced = FALSE
  BY FxAssumption DEF FxInit
<1>2. /\ rates \in Seq(RateSet) /\ quotes \in Seq(QuoteSet) /\ conversions \in Seq(ConversionSet)
      /\ DOMAIN rates = {} /\ DOMAIN quotes = {} /\ DOMAIN conversions = {} /\ Len(conversions) = 0
  <2>1. /\ <<>> \in Seq(RateSet) /\ <<>> \in Seq(QuoteSet) /\ <<>> \in Seq(ConversionSet)
        /\ Len(<<>>) = 0
    BY EmptySeq
  <2>2. DOMAIN <<>> = {}
    OBVIOUS
  <2> QED
    BY <1>1, <2>1, <2>2
<1>3. FxTypes
  <2>1. fx \in [FxCalls -> FxStates]
    BY <1>1, NoCallFits
  <2>2. source \in Nat /\ source <= funds /\ target \in Nat /\ fxTime \in Nat
    BY <1>1
  <2>3. overlapped \in BOOLEAN /\ syncRaced \in BOOLEAN
    BY <1>1
  <2> QED
    BY <1>1, <1>2, <2>1, <2>2, <2>3 DEF FxTypes
<1>4. UsedUp /\ ConvertedInTime /\ AtOnce
  BY <1>1, <1>2 DEF UsedUp, ConvertedInTime, AtOnce, Active
<1>5. ConvertedOnce
  BY <1>1, <1>2 DEF ConvertedOnce
<1> QED
  BY <1>1, <1>3, <1>4, <1>5, NoCallFits DEF FxSound

LEMMA FxStep ==
  ASSUME FxSound, [FxNext]_fxVars
  PROVE  FxSound'
<1>1. ASSUME NEW c \in FxCalls, FxFails(c)
      PROVE  FxSound'
  BY <1>1, FxEnds DEF FxFails, KeepRates, KeepMoney
<1>2. CASE UNCHANGED fxVars
  BY <1>2 DEF fxVars, FxSound, FxTypes, UsedUp, ConvertedInTime, ConvertedOnce, AtOnce, Active, MoneyFits, RateFits
<1> QED
  BY <1>1, <1>2, FxTickKeeps, DeactivateKeeps, RateReads, MoneyReads, QuoteKeeps, ConversionKeeps, RateKeeps
  DEF FxNext

\* Whatever conversions, quotes and writers of rates overlap, a wallet is not overdrawn, a
\* conversion is in time, and without an overlap a quote is used once and a pair has one
\* rate (executeConversion, calculateQuote, upsertRate, getCurrentRates).
THEOREM ConversionsHold == FxSpec => []FxInv
  BY FxBegin, FxStep, FxKeeps, PTL DEF FxSpec

-----------------------------------------------------------------------------
(* SEP-24 sessions: the inductive invariant. *)

SentHashes == {NoHash} \cup {PayoutHash(s, n) : s \in Sessions, n \in Nat}
Hashes == SentHashes \cup {CreditHash(i) : i \in Nat}
SepStatuses == {"none", "error", "completed"} \cup DepositSettleStatuses \cup WatchPendingStatuses
SessionRows ==
  [kind : {"none", "deposit", "withdraw"}, status : SepStatuses, amount : {NoAmount} \cup SepAmounts,
   tx : Hashes, token : BOOLEAN, submittedTx : SentHashes]
WatchEntries == [s : Sessions, row : SessionRows]
CreditRows == [memo : Sessions \cup {OtherMemo}, amount : SepAmounts]
HandlerStates ==
  [at : {"none", "token", "form", "claim", "sign", "submitted", "fetch", "match"},
   s : Sessions \cup {"none"}, read : SessionRows, hash : SentHashes, pending : SUBSET WatchEntries,
   records : Seq(Nat), newest : Nat]

SepTypes ==
  /\ session \in [Sessions -> SessionRows] /\ credits \in Seq(CreditRows) /\ cursor \in Nat
  /\ handler \in [SepCalls -> HandlerStates]
  /\ cookies \in [Sessions -> Nat] /\ forms \in [Sessions -> Nat] /\ signed \in [Sessions -> Nat]
  /\ older \in Nat

\* The credits that were looked up or are older than a first page.
Behind == seen \cup {i \in Nat : i <= older}
CreditsPassed == \A i \in 1..cursor : i \in Behind

\* The hot wallet received a payment with the session's memo.
Received(s) == \E i \in DOMAIN credits : credits[i].memo = s
Traced(s, tx) == (\E i \in Nat : tx = CreditHash(i)) => Received(s)

Flying == {"sign", "submitted"}
Settling == {"claim"} \cup Flying

\* A session is taken for funded only when it is, gives one cookie as a withdrawal, and
\* has had a form before it is settled.
SessionFits(s) ==
  LET row == session[s] IN
  /\ row.kind = "none" => row = NoSession /\ cookies[s] = 0 /\ forms[s] = 0
  /\ Traced(s, row.tx)
  /\ row.kind = "withdraw" =>
       /\ row.status # "pending_anchor"
       /\ row.status \in {"pending_external", "completed"} => Received(s)
       /\ cookies[s] <= 1 /\ (row.token => cookies[s] = 0)
  /\ row.kind = "deposit" /\ forms[s] = 0 => row.status \in {"incomplete", "completed"}

\* What a call has before it: a deposit to settle, sessions of the kind it read, credits
\* that with those already passed are all up to the newest.
HandlerFits(h) ==
  /\ h.at \in {"token", "form"} \cup Settling => h.s \in Sessions /\ session[h.s].kind # "none"
  /\ h.at \in Settling => session[h.s].kind = "deposit"
  /\ h.at \in Flying => /\ forms[h.s] # 0
                        /\ forms[h.s] <= 1 => session[h.s].status \notin DepositSettleStatuses
  /\ \A e \in h.pending : /\ session[e.s].kind = e.row.kind /\ e.row.kind # "none"
                          /\ Traced(e.s, e.row.tx)
  /\ h.at = "match" =>
       /\ h.newest <= Len(credits)
       /\ \A k \in DOMAIN h.records : h.records[k] \in DOMAIN credits
       /\ \A i \in 1..h.newest : i \in Behind \/ \E k \in DOMAIN h.records : h.records[k] = i

FlyApart ==
  \A c, d \in SepCalls :
    /\ handler[c].at \in Flying /\ handler[d].at \in Flying /\ handler[c].s = handler[d].s
    /\ forms[handler[c].s] <= 1
    => c = d

SepSound ==
  /\ SepTypes /\ FlyApart
  /\ cursor <= Len(credits) /\ CreditsPassed
  /\ \A s \in Sessions : SessionFits(s)
  /\ \A c \in SepCalls : HandlerFits(handler[c])

LEMMA HashesDiffer ==
  /\ NoHash \in SentHashes /\ \A s \in Sessions, n \in Nat : PayoutHash(s, n) \in SentHashes
  /\ SentHashes \subseteq Hashes /\ \A i \in Nat : CreditHash(i) \in Hashes
  /\ \A h \in SentHashes, i \in Nat : h # CreditHash(i)
<1>1. \A i \in Nat : CreditHash(i) # NoHash
  BY DEF CreditHash, NoHash
<1>2. \A i \in Nat, s \in Sessions, n \in Nat : CreditHash(i) # PayoutHash(s, n)
  <2>1. ASSUME NEW i \in Nat, NEW s \in Sessions, NEW n \in Nat, <<i>> = <<s, n>>
        PROVE  FALSE
    <3>1. Len(<<i>>) = 1 /\ Len(<<s, n>>) = 2
      OBVIOUS
    <3> QED
      BY <2>1, <3>1
  <2> QED
    BY <2>1 DEF CreditHash, PayoutHash
<1> QED
  BY <1>1, <1>2 DEF SentHashes, Hashes

LEMMA SentTraced ==
  ASSUME NEW s, NEW h \in SentHashes
  PROVE  Traced(s, h)
  BY HashesDiffer DEF Traced

LEMMA NoSessionTyped ==
  /\ NoSession \in SessionRows /\ NoSession.kind = "none"
  /\ NoHandler \in HandlerStates /\ NoHandler.at = "none" /\ NoHandler.pending = {}
<1>1. NoSession \in SessionRows /\ NoSession.kind = "none"
  BY HashesDiffer DEF NoSession, SessionRows, SepStatuses
<1>2. <<>> \in Seq(Nat)
  BY EmptySeq
<1>3. NoHash \in SentHashes
  BY HashesDiffer
<1> HIDE DEF NoSession
<1> QED
  BY <1>1, <1>2, <1>3 DEF NoHandler, HandlerStates

\* What a call keeps of a row that it read is a row.
LEMMA ReadRows ==
  ASSUME NEW row \in SessionRows
  PROVE  /\ Compared(row) \in SessionRows /\ Compared(row).kind = row.kind /\ Compared(row).tx = row.tx
         /\ Metadata(row) \in SessionRows
         /\ [NoSession EXCEPT !.submittedTx = row.submittedTx] \in SessionRows
         /\ [NoSession EXCEPT !.amount = row.amount] \in SessionRows
<1>1. NoSession \in SessionRows /\ NoHash \in SentHashes
  BY NoSessionTyped, HashesDiffer
<1> HIDE DEF NoSession, NoHash
<1>2. Compared(row) \in SessionRows /\ Compared(row).kind = row.kind /\ Compared(row).tx = row.tx
  BY <1>1 DEF Compared, SessionRows
<1> QED
  BY <1>1, <1>2 DEF Metadata, SessionRows

LEMMA NoHandlerFits ==
  HandlerFits(NoHandler)
  BY NoSessionTyped DEF HandlerFits, Settling, Flying

LEMMA SepKeeps ==
  ASSUME SepSound
  PROVE  SepInv
<1>1. SepTypeOK
  BY DEF SepSound, SepTypes, SessionRows, SepStatuses, SepTypeOK
<1>2. WithdrawalFunded /\ TokenUsedOnce
  BY DEF SepSound, SessionFits, Received, WithdrawalFunded, TokenUsedOnce
<1>3. SettlesApart
  <2> SUFFICES ASSUME NEW s \in Sessions, forms[s] <= 1
               PROVE  Cardinality({c \in SepCalls : handler[c].s = s /\ handler[c].at \in Flying}) <= 1
    BY DEF SettlesApart, Flying
  <2> DEFINE settling == {c \in SepCalls : handler[c].s = s /\ handler[c].at \in Flying}
  <2>1. CASE settling = {}
    BY <2>1, FS_EmptySet
  <2>2. ASSUME NEW c \in settling
        PROVE  Cardinality(settling) <= 1
    <3>1. c \in SepCalls /\ handler[c].s = s /\ handler[c].at \in Flying
      BY <2>2
    <3>2. \A d \in settling : d \in SepCalls /\ handler[d].s = s /\ handler[d].at \in Flying
      OBVIOUS
    <3>3. \A d \in settling : d = c
      BY <3>1, <3>2 DEF SepSound, FlyApart
    <3> HIDE DEF settling
    <3>4. settling = {c}
      BY <2>2, <3>3
    <3>5. Cardinality({c}) = 1
      BY FS_Singleton
    <3> QED
      BY <3>4, <3>5
  <2> QED
    BY <2>1, <2>2
<1>4. NoCreditSkipped
  BY DEF SepSound, CreditsPassed, Behind, NoCreditSkipped
<1> QED
  BY <1>1, <1>2, <1>3, <1>4 DEF SepInv, SepSound

\* A step that leaves what the watcher has passed as it is.
LEMMA WatchKept ==
  ASSUME SepSound, UNCHANGED <<seen, older>>
  PROVE  Behind' = Behind /\ Behind \subseteq Behind' /\ older' \in Nat
  BY DEF SepSound, SepTypes, Behind

\* A step that leaves sessions and ledger as they are, and only moves a call that does not
\* submit a payment afterwards.
LEMMA SepReads ==
  ASSUME SepSound, NEW c \in SepCalls, NEW new \in HandlerStates,
         UNCHANGED <<session, credits, cursor, cookies, forms, signed>>, Behind \subseteq Behind', older' \in Nat,
         handler' = [handler EXCEPT ![c] = new], HandlerFits(new)', new.at \notin Flying
  PROVE  SepSound'
<1>1. SepTypes' /\ cursor' <= Len(credits') /\ CreditsPassed'
  BY DEF SepSound, SepTypes, CreditsPassed
<1>2. \A d \in SepCalls : handler'[d] = IF d = c THEN new ELSE handler[d]
  BY DEF SepSound, SepTypes
<1>3. FlyApart'
  BY <1>2 DEF SepSound, FlyApart
<1>4. \A s \in Sessions : SessionFits(s)'
  BY DEF SepSound, SessionFits, Traced, Received
<1>5. \A d \in SepCalls : HandlerFits(handler[d])'
  <2> SUFFICES ASSUME NEW d \in SepCalls
               PROVE  HandlerFits(handler[d])'
    OBVIOUS
  <2>1. CASE d = c
    BY <1>2, <2>1
  <2>2. CASE d # c
    <3>1. PICK k : k = handler[d]
      OBVIOUS
    <3>2. HandlerFits(k)
      BY <3>1 DEF SepSound
    <3>3. HandlerFits(k)'
      BY <3>2 DEF HandlerFits, Traced, Received
    <3> QED
      BY <1>2, <2>2, <3>1, <3>3
  <2> QED
    BY <2>1, <2>2
<1> QED
  BY <1>1, <1>3, <1>4, <1>5 DEF SepSound

\* What a call begins with is the session it read.
LEMMA BeginFits ==
  ASSUME SepSound, NEW c \in SepCalls, NEW s \in Sessions, NEW place \in {"token", "form", "claim"},
         NEW read \in SessionRows, Begins(c, place, s, read), session[s].kind # "none", place = "claim" => session[s].kind = "deposit",
         UNCHANGED session, KeepLedger, KeepHistory
  PROVE  SepSound'
<1> DEFINE begun == [NoHandler EXCEPT !.at = place, !.s = s, !.read = read]
<1>1. PICK new : new = begun
  OBVIOUS
<1>2. begun \in HandlerStates /\ begun.at = place /\ begun.s = s /\ begun.pending = {}
  BY NoSessionTyped DEF HandlerStates
<1>3. handler' = [handler EXCEPT ![c] = begun]
  BY DEF Begins, Becomes
<1> HIDE DEF begun
<1>4. HandlerFits(new)'
  BY <1>1, <1>2 DEF HandlerFits, Settling, Flying
<1> QED
  BY <1>1, <1>2, <1>3, <1>4, WatchKept, SepReads DEF KeepLedger, KeepWatch, KeepHistory, Flying

\* A call that ends without another change.
LEMMA SepEnds ==
  ASSUME SepSound, NEW c \in SepCalls, Ends(c),
         UNCHANGED <<session, credits, cursor, cookies, forms, signed, seen, older>>
  PROVE  SepSound'
<1>1. HandlerFits(NoHandler)'
  BY NoSessionTyped DEF HandlerFits, Settling, Flying
<1> QED
  BY <1>1, NoSessionTyped, WatchKept, SepReads DEF Ends, Becomes, Flying

LEMMA StartWatchKeeps ==
  ASSUME SepSound, NEW c \in SepCalls, StartWatch(c)
  PROVE  SepSound'
<1> DEFINE waiting == {t \in Sessions : session[t].status \in WatchPendingStatuses}
           entries == {[s |-> s, row |-> Compared(session[s])] : s \in waiting}
           begun == [NoHandler EXCEPT !.at = "fetch", !.pending = entries]
<1>1. PICK new : new = begun
  OBVIOUS
<1>0. \A s \in Sessions : /\ Compared(session[s]) \in SessionRows
                         /\ Compared(session[s]).kind = session[s].kind
                         /\ Compared(session[s]).tx = session[s].tx
  BY ReadRows DEF SepSound, SepTypes
<1>2. entries \subseteq WatchEntries
  BY <1>0 DEF WatchEntries
<1>3. \A e \in entries : /\ e.s \in Sessions /\ e.row.kind = session[e.s].kind /\ e.row.tx = session[e.s].tx
                          /\ session[e.s].status # "none"
  BY <1>0 DEF WatchPendingStatuses
<1>4. \A s \in Sessions : session[s].kind = "none" => session[s].status = "none"
  BY DEF SepSound, SessionFits, NoSession
<1>5. handler' = [handler EXCEPT ![c] = begun]
  BY DEF StartWatch, Becomes
<1> HIDE DEF waiting, entries
<1>6. begun \in HandlerStates /\ begun.at = "fetch" /\ begun.pending = entries
  BY <1>2, NoSessionTyped DEF HandlerStates
<1> HIDE DEF begun
<1>7. /\ UNCHANGED <<session, credits, cursor, cookies, forms, signed, seen, older>>
  BY DEF StartWatch, KeepLedger, KeepWatch, KeepHistory
<1>8. \A e \in entries : session[e.s].kind = e.row.kind /\ e.row.kind # "none" /\ Traced(e.s, e.row.tx)
  BY <1>3, <1>4 DEF SepSound, SessionFits
<1>9. PICK those : those = entries
  OBVIOUS
<1>10. \A e \in those : session'[e.s].kind = e.row.kind /\ e.row.kind # "none" /\ Traced(e.s, e.row.tx)'
  BY <1>7, <1>8, <1>9 DEF Traced, Received
<1>11. HandlerFits(new)'
  BY <1>1, <1>6, <1>9, <1>10 DEF HandlerFits, Settling, Flying
<1> QED
  BY <1>1, <1>5, <1>6, <1>7, <1>11, WatchKept, SepReads DEF Flying

\* The first page holds the newest payments, newest first.
LEMMA FirstPage ==
  ASSUME NEW n \in Nat, NEW page \in 0..n, NEW after, after = [i \in 1..page |-> n + 1 - i]
  PROVE  /\ after \in Seq(Nat) /\ \A k \in DOMAIN after : after[k] \in 1..n
         /\ \A i \in 1..n : i <= n - page \/ \E k \in DOMAIN after : after[k] = i
<1>1. DOMAIN after = 1..page /\ page \in Nat /\ \A i \in 1..page : after[i] \in Nat /\ after[i] \in 1..n
  OBVIOUS
<1>2. after \in Seq(Nat)
  BY <1>1, SeqDef
<1>3. ASSUME NEW i \in 1..n, ~(i <= n - page)
      PROVE  \E k \in DOMAIN after : after[k] = i
  <2>1. n + 1 - i \in 1..page /\ n + 1 - (n + 1 - i) = i
    BY <1>3
  <2> QED
    BY <1>1, <2>1
<1> QED
  BY <1>1, <1>2, <1>3

\* With a cursor, the payments after it.
LEMMA LaterPages ==
  ASSUME NEW n \in Nat, NEW from \in 0..n, NEW after, after = [i \in 1..(n - from) |-> from + i]
  PROVE  /\ after \in Seq(Nat) /\ \A k \in DOMAIN after : after[k] \in 1..n
         /\ \A i \in 1..n : i <= from \/ \E k \in DOMAIN after : after[k] = i
<1>1. DOMAIN after = 1..(n - from) /\ n - from \in Nat
      /\ \A i \in 1..(n - from) : after[i] \in Nat /\ after[i] \in 1..n
  OBVIOUS
<1>2. after \in Seq(Nat)
  BY <1>1, SeqDef
<1>3. ASSUME NEW i \in 1..n, ~(i <= from)
      PROVE  \E k \in DOMAIN after : after[k] = i
  <2>1. i - from \in 1..(n - from) /\ from + (i - from) = i
    BY <1>3
  <2> QED
    BY <1>1, <2>1
<1> QED
  BY <1>1, <1>2, <1>3

\* What a pass has fetched and what it passes over are all the payments.
LEMMA FetchedAll ==
  ASSUME SepSound, NEW c \in SepCalls, Fetch(c)
  PROVE  /\ Behind \subseteq Behind' /\ older' \in Nat
         /\ \E after \in Seq(Nat) :
              /\ handler' = [handler EXCEPT ![c] =
                   [handler[c] EXCEPT !.at = "match", !.newest = Len(credits), !.records = after]]
              /\ \A k \in DOMAIN after : after[k] \in 1..Len(credits)
              /\ \A i \in 1..Len(credits) : i \in Behind' \/ \E k \in DOMAIN after : after[k] = i
<1> DEFINE n == Len(credits)
           page == IF n < PAGE_LIMIT THEN n ELSE PAGE_LIMIT
<1>1. n \in Nat /\ cursor \in 0..n /\ older \in Nat /\ page \in 0..n /\ seen' = seen
  BY LenProperties, Sep24Assumption DEF SepSound, SepTypes, Fetch
<1>2. CASE cursor = 0
  <2> DEFINE after == [i \in 1..page |-> n + 1 - i]
  <2>1. handler' = [handler EXCEPT ![c] = [handler[c] EXCEPT !.at = "match", !.newest = n, !.records = after]]
    BY <1>2 DEF Fetch, Becomes
  <2>2. older' = IF older < n - page THEN n - page ELSE older
    BY <1>2 DEF Fetch
  <2> HIDE DEF n, page
  <2>3. older' \in Nat /\ older <= older' /\ n - page <= older'
    BY <1>1, <2>2
  <2>4. PICK list : list = after
    OBVIOUS
  <2>5. /\ list \in Seq(Nat) /\ \A k \in DOMAIN list : list[k] \in 1..n
        /\ \A i \in 1..n : i <= n - page \/ \E k \in DOMAIN list : list[k] = i
    BY <1>1, <2>4, FirstPage
  <2>6. Behind \subseteq Behind' /\ \A i \in 1..n : i <= n - page => i \in Behind'
    BY <1>1, <2>3 DEF Behind
  <2> HIDE DEF after
  <2> QED
    BY <2>1, <2>3, <2>4, <2>5, <2>6 DEF n
<1>3. CASE cursor # 0
  <2> DEFINE after == [i \in 1..(n - cursor) |-> cursor + i]
  <2>1. handler' = [handler EXCEPT ![c] = [handler[c] EXCEPT !.at = "match", !.newest = n, !.records = after]]
    BY <1>3 DEF Fetch, Becomes
  <2>2. older' = older
    BY <1>3 DEF Fetch
  <2> HIDE DEF n
  <2>3. Behind' = Behind
    BY <1>1, <2>2 DEF Behind
  <2>4. PICK list : list = after
    OBVIOUS
  <2>5. /\ list \in Seq(Nat) /\ \A k \in DOMAIN list : list[k] \in 1..n
        /\ \A i \in 1..n : i <= cursor \/ \E k \in DOMAIN list : list[k] = i
    BY <1>1, <2>4, LaterPages
  <2>6. \A i \in 1..n : i <= cursor => i \in Behind'
    BY <1>1, <2>3 DEF SepSound, CreditsPassed
  <2> HIDE DEF after
  <2> QED
    BY <1>1, <2>1, <2>2, <2>3, <2>4, <2>5, <2>6 DEF n
<1> QED
  BY <1>2, <1>3

LEMMA FetchKeeps ==
  ASSUME SepSound, NEW c \in SepCalls, Fetch(c)
  PROVE  SepSound'
<1>1. PICK after \in Seq(Nat) :
        /\ handler' = [handler EXCEPT ![c] =
             [handler[c] EXCEPT !.at = "match", !.newest = Len(credits), !.records = after]]
        /\ \A k \in DOMAIN after : after[k] \in 1..Len(credits)
        /\ \A i \in 1..Len(credits) : i \in Behind' \/ \E k \in DOMAIN after : after[k] = i
  BY FetchedAll
<1>2. /\ Behind \subseteq Behind' /\ older' \in Nat
      /\ UNCHANGED <<session, credits, cursor, cookies, forms, signed>>
  BY FetchedAll DEF Fetch, KeepHistory
<1>3. PICK fetched : fetched = [handler[c] EXCEPT !.at = "match", !.newest = Len(credits), !.records = after]
  OBVIOUS
<1>4. /\ handler[c] \in HandlerStates /\ Len(credits) \in Nat /\ Len(credits) <= Len(credits)
      /\ DOMAIN credits = 1..Len(credits)
  BY LenProperties DEF SepSound, SepTypes
<1>5. /\ fetched \in HandlerStates /\ fetched.at = "match" /\ fetched.newest = Len(credits)
      /\ fetched.records = after /\ fetched.pending = handler[c].pending
  BY <1>3, <1>4 DEF HandlerStates
<1>6. PICK newest, pending : newest = Len(credits) /\ pending = handler[c].pending
  OBVIOUS
<1>7. \A e \in pending : session'[e.s].kind = e.row.kind /\ e.row.kind # "none" /\ Traced(e.s, e.row.tx)'
  BY <1>2, <1>6 DEF SepSound, HandlerFits, Traced, Received
<1>8. /\ newest <= Len(credits') /\ \A k \in DOMAIN after : after[k] \in DOMAIN credits'
      /\ \A i \in 1..newest : i \in Behind' \/ \E k \in DOMAIN after : after[k] = i
  BY <1>1, <1>2, <1>4, <1>6
<1>9. HandlerFits(fetched)'
  BY <1>5, <1>6, <1>7, <1>8 DEF HandlerFits, Settling, Flying
<1> QED
  BY <1>1, <1>2, <1>3, <1>5, <1>9, SepReads DEF Flying

\* What a pass has left after one of its credits.
LEMMA NextRecord ==
  ASSUME NEW records \in Seq(Nat), records # <<>>
  PROVE  /\ Tail(records) \in Seq(Nat) /\ Head(records) \in Nat
         /\ Head(records) = records[1] /\ 1 \in DOMAIN records
         /\ \A k \in DOMAIN Tail(records) : \E j \in DOMAIN records : Tail(records)[k] = records[j]
         /\ \A j \in DOMAIN records :
              records[j] = Head(records) \/ \E k \in DOMAIN Tail(records) : Tail(records)[k] = records[j]
<1>1. /\ Head(records) = records[1] /\ Head(records) \in Nat /\ Tail(records) \in Seq(Nat)
      /\ Len(records) \in Nat /\ Len(records) >= 1 /\ Len(Tail(records)) = Len(records) - 1
      /\ \A k \in 1..Len(Tail(records)) : Tail(records)[k] = records[k + 1]
  BY HeadTailProperties, LenProperties, EmptySeq
<1>2. DOMAIN records = 1..Len(records) /\ DOMAIN Tail(records) = 1..Len(Tail(records))
  BY <1>1, LenProperties
<1>3. \A k \in DOMAIN Tail(records) : k + 1 \in DOMAIN records /\ Tail(records)[k] = records[k + 1]
  BY <1>1, <1>2
<1>4. ASSUME NEW j \in DOMAIN records, j # 1
      PROVE  \E k \in DOMAIN Tail(records) : Tail(records)[k] = records[j]
  <2>1. j - 1 \in 1..Len(Tail(records)) /\ (j - 1) + 1 = j
    BY <1>1, <1>2, <1>4
  <2>2. Tail(records)[j - 1] = records[(j - 1) + 1]
    BY <1>1, <2>1
  <2> QED
    BY <1>2, <2>1, <2>2
<1>5. 1 \in DOMAIN records
  BY <1>1, <1>2
<1> QED
  BY <1>1, <1>3, <1>4, <1>5

LEMMA SaveCursorKeeps ==
  ASSUME SepSound, NEW c \in SepCalls, SaveCursor(c)
  PROVE  SepSound'
<1>1. /\ handler[c].at = "match" /\ handler[c].records = <<>> /\ cursor' = handler[c].newest
      /\ handler' = [handler EXCEPT ![c] = NoHandler]
      /\ UNCHANGED <<session, credits, seen, older, cookies, forms, signed>>
  BY DEF SaveCursor, HandlerAt, Ends, Becomes, KeepWatch, KeepHistory
<1>2. handler[c] \in HandlerStates /\ HandlerFits(handler[c])
  BY DEF SepSound, SepTypes
<1>3. cursor' \in Nat /\ cursor' <= Len(credits)
  BY <1>1, <1>2 DEF HandlerStates, HandlerFits
<1>4. \A k \in DOMAIN handler[c].records : FALSE
  BY <1>1
<1>5. \A i \in 1..cursor' : i \in Behind
  BY <1>1, <1>2, <1>4 DEF HandlerFits
<1>6. SepTypes' /\ Behind' = Behind
  BY <1>1, <1>3, NoSessionTyped DEF SepSound, SepTypes, Behind
<1>7. \A d \in SepCalls : handler'[d] = IF d = c THEN NoHandler ELSE handler[d]
  BY <1>1 DEF SepSound, SepTypes
<1>8. FlyApart'
  BY <1>1, <1>7, NoSessionTyped DEF SepSound, FlyApart, Flying
<1>9. \A s \in Sessions : SessionFits(s)'
  BY <1>1 DEF SepSound, SessionFits, Traced, Received
<1>10. \A d \in SepCalls : HandlerFits(handler[d])'
  <2> SUFFICES ASSUME NEW d \in SepCalls
               PROVE  HandlerFits(handler[d])'
    OBVIOUS
  <2>1. PICK k : k = handler'[d]
    OBVIOUS
  <2>2. HandlerFits(k)
    BY <1>7, <2>1, NoHandlerFits DEF SepSound
  <2>3. HandlerFits(k)'
    BY <1>1, <1>6, <2>2 DEF HandlerFits, Traced, Received
  <2> QED
    BY <2>1, <2>3
<1> QED
  BY <1>1, <1>3, <1>5, <1>6, <1>8, <1>9, <1>10 DEF SepSound, CreditsPassed

\* What was received stays received.
LEMMA CreditKeeps ==
  ASSUME SepSound, NEW memo \in Sessions \cup {OtherMemo}, NEW amount \in SepAmounts, Credit(memo, amount)
  PROVE  SepSound'
<1> DEFINE credit == [memo |-> memo, amount |-> amount]
<1>1. /\ credits' = Append(credits, credit)
      /\ UNCHANGED <<session, cursor, seen, older, handler, cookies, forms, signed>>
  BY DEF Credit, KeepWatch, KeepHistory
<1>2. credits \in Seq(CreditRows) /\ credit \in CreditRows
  BY DEF SepSound, SepTypes, CreditRows
<1> HIDE DEF credit
<1>3. /\ credits' \in Seq(CreditRows) /\ Len(credits') = Len(credits) + 1 /\ Len(credits) \in Nat
      /\ \A i \in 1..Len(credits) : credits'[i] = credits[i]
  BY <1>1, <1>2, AppendProperties, LenProperties
<1>4. DOMAIN credits = 1..Len(credits) /\ DOMAIN credits' = 1..Len(credits')
  BY <1>2, <1>3, LenProperties
<1>5. \A s : Received(s) => Received(s)'
  BY <1>3, <1>4 DEF Received
<1>6. SepTypes' /\ FlyApart' /\ CreditsPassed' /\ cursor' <= Len(credits') /\ Behind' = Behind
  BY <1>1, <1>3 DEF SepSound, SepTypes, FlyApart, CreditsPassed, Behind
<1>7. \A s \in Sessions : SessionFits(s)'
  BY <1>1, <1>5 DEF SepSound, SessionFits, Traced
<1>8. \A d \in SepCalls : HandlerFits(handler[d])'
  <2> SUFFICES ASSUME NEW d \in SepCalls
               PROVE  HandlerFits(handler[d])'
    OBVIOUS
  <2>1. PICK k : k = handler[d]
    OBVIOUS
  <2>2. HandlerFits(k) /\ k \in HandlerStates
    BY <2>1 DEF SepSound, SepTypes
  <2>3. k.at = "match" => k.newest <= Len(credits')
    BY <1>3, <2>2 DEF HandlerFits, HandlerStates
  <2>4. DOMAIN credits \subseteq DOMAIN credits'
    BY <1>3, <1>4
  <2>5. HandlerFits(k)'
    BY <1>1, <1>5, <1>6, <2>2, <2>3, <2>4 DEF HandlerFits, Traced
  <2> QED
    BY <1>1, <2>1, <2>5
<1> QED
  BY <1>6, <1>7, <1>8 DEF SepSound

LEMMA SepBegin ==
  ASSUME SepInit
  PROVE  SepSound
<1>1. /\ session = [s \in Sessions |-> NoSession] /\ credits = <<>> /\ cursor = 0
      /\ handler = [c \in SepCalls |-> NoHandler] /\ cookies = [s \in Sessions |-> 0]
      /\ forms = [s \in Sessions |-> 0] /\ signed = [s \in Sessions |-> 0]
      /\ older = 0
  BY DEF SepInit
<1>2. credits \in Seq(CreditRows) /\ Len(credits) = 0
  BY <1>1, EmptySeq
<1>3. SepTypes /\ CreditsPassed /\ cursor <= Len(credits)
  BY <1>1, <1>2, NoSessionTyped DEF SepTypes, CreditsPassed
<1>4. FlyApart
  BY <1>1, NoSessionTyped DEF FlyApart, Flying
<1>5. \A s \in Sessions : SessionFits(s)
  <2>1. \A s : Traced(s, NoSession.tx)
    BY HashesDiffer, SentTraced DEF NoSession
  <2> QED
    BY <1>1, <2>1, NoSessionTyped DEF SessionFits
<1>6. \A d \in SepCalls : HandlerFits(handler[d])
  BY <1>1, NoHandlerFits
<1> QED
  BY <1>3, <1>4, <1>5, <1>6 DEF SepSound

\* A step that writes one session, of a call or of none ("callers"): what is flying for that
\* session besides stays apart.
LEMMA SepMoves ==
  ASSUME SepSound, NEW s \in Sessions, NEW row \in SessionRows, NEW callers \in SUBSET SepCalls,
         session' = [session EXCEPT ![s] = row], row.kind = session[s].kind, row.kind # "none",
         UNCHANGED <<credits, cursor>>, Behind \subseteq Behind', older' \in Nat,
         handler' \in [SepCalls -> HandlerStates], \A d \in SepCalls \ callers : handler'[d] = handler[d],
         \A d, e \in callers : d = e, \A d \in callers : HandlerFits(handler[d])',
         cookies' \in [Sessions -> Nat], forms' \in [Sessions -> Nat], signed' \in [Sessions -> Nat],
         forms[s] <= forms'[s], \A t \in Sessions \ {s} : cookies'[t] = cookies[t] /\ forms'[t] = forms[t],
         SessionFits(s)',
         \A d \in SepCalls \ callers :
           handler[d].at \in Flying /\ handler[d].s = s /\ forms'[s] <= 1 => row.status \notin DepositSettleStatuses,
         \A d \in callers : handler'[d].at \in Flying /\ forms'[handler'[d].s] <= 1 =>
           \A e \in SepCalls \ callers : handler[e].at \in Flying => handler[e].s # handler'[d].s
  PROVE  SepSound'
<1>1. SepTypes' /\ CreditsPassed' /\ cursor' <= Len(credits')
  BY DEF SepSound, SepTypes, CreditsPassed
<1>2. /\ \A t \in Sessions : /\ session'[t] = IF t = s THEN row ELSE session[t]
                             /\ session'[t].kind = session[t].kind
                             /\ forms[t] \in Nat /\ forms'[t] \in Nat /\ forms[t] <= forms'[t]
      /\ \A t : Received(t)' = Received(t)
      /\ \A t, tx : Traced(t, tx)' = Traced(t, tx)
  <2>1. session \in [Sessions -> SessionRows] /\ forms \in [Sessions -> Nat]
    BY DEF SepSound, SepTypes
  <2>2. \A t \in Sessions : /\ session'[t] = IF t = s THEN row ELSE session[t]
                           /\ session'[t].kind = session[t].kind
    BY <2>1
  <2>3. \A t \in Sessions : forms[t] \in Nat /\ forms'[t] \in Nat /\ forms[t] <= forms'[t]
    <3>1. \A t \in Sessions : forms[t] \in Nat /\ forms'[t] \in Nat
      BY <2>1
    <3>2. \A t \in Sessions : t # s => forms'[t] = forms[t]
      OBVIOUS
    <3> QED
      BY <3>1, <3>2
  <2>4. /\ \A t : Received(t)' = Received(t)
        /\ \A t, tx : Traced(t, tx)' = Traced(t, tx)
    BY DEF Received, Traced
  <2> QED
    BY <2>2, <2>3, <2>4
<1>3. ASSUME NEW t \in Sessions
      PROVE  SessionFits(t)'
  <2>1. CASE t = s
    BY <2>1
  <2>2. CASE t # s
    <3>1. session'[t] = session[t] /\ cookies'[t] = cookies[t] /\ forms'[t] = forms[t] /\ SessionFits(t)
      BY <1>2, <2>2 DEF SepSound
    <3> QED
      BY <1>2, <3>1 DEF SessionFits
  <2> QED
    BY <2>1, <2>2
<1>4. ASSUME NEW d \in SepCalls \ callers
      PROVE  HandlerFits(handler[d])'
  <2>1. PICK k : k = handler[d]
    OBVIOUS
  <2>2. HandlerFits(k) /\ k \in HandlerStates
    BY <2>1 DEF SepSound, SepTypes
  <2>3. \A e \in k.pending : e.s \in Sessions
    BY <2>2 DEF HandlerStates, WatchEntries
  <2>4. k.at \in Flying => k.s \in Sessions
    BY <2>2 DEF HandlerFits, Settling
  <2>5. k.at \in Flying => /\ forms'[k.s] # 0
                           /\ forms'[k.s] <= 1 => session'[k.s].status \notin DepositSettleStatuses
    <3> SUFFICES ASSUME k.at \in Flying
                 PROVE  /\ forms'[k.s] # 0
                        /\ forms'[k.s] <= 1 => session'[k.s].status \notin DepositSettleStatuses
      OBVIOUS
    <3>1. /\ forms[k.s] # 0 /\ forms[k.s] \in Nat /\ forms'[k.s] \in Nat /\ forms[k.s] <= forms'[k.s]
          /\ forms[k.s] <= 1 => session[k.s].status \notin DepositSettleStatuses
      BY <1>2, <2>2, <2>4 DEF HandlerFits
    <3>2. k.s = s /\ forms'[k.s] <= 1 => session'[k.s].status \notin DepositSettleStatuses
      BY <1>2, <2>1
    <3>3. k.s # s /\ forms'[k.s] <= 1 => session'[k.s].status \notin DepositSettleStatuses
      BY <1>2, <2>4, <3>1
    <3> QED
      BY <3>1, <3>2, <3>3
  <2>6. HandlerFits(k)'
    BY <1>2, <2>2, <2>3, <2>5 DEF HandlerFits
  <2> QED
    BY <2>1, <2>6
<1>5. FlyApart'
  <2> SUFFICES ASSUME NEW d \in SepCalls, NEW e \in SepCalls, handler'[d].at \in Flying, handler'[e].at \in Flying,
                      handler'[d].s = handler'[e].s, forms'[handler'[d].s] <= 1
               PROVE  d = e
    BY DEF FlyApart
  <2>1. CASE d \in callers
    BY <2>1
  <2>2. CASE e \in callers
    BY <2>2
  <2>3. CASE d \notin callers /\ e \notin callers
    <3>1. handler[d] = handler'[d] /\ handler[e] = handler'[e] /\ HandlerFits(handler[d])
      BY <2>3 DEF SepSound
    <3>2. handler[d].s \in Sessions
      BY <3>1 DEF HandlerFits, Settling
    <3>3. forms[handler[d].s] <= 1
      BY <1>2, <3>1, <3>2
    <3> QED
      BY <3>1, <3>3 DEF SepSound, FlyApart
  <2> QED
    BY <2>1, <2>2, <2>3
<1>6. \A d \in SepCalls : HandlerFits(handler[d])'
  BY <1>4
<1> QED
  BY <1>1, <1>3, <1>5, <1>6 DEF SepSound

\* The same when the call ends, or goes on as "new".
LEMMA SepCallMoves ==
  ASSUME SepSound, NEW s \in Sessions, NEW row \in SessionRows, NEW c \in SepCalls, NEW new \in HandlerStates,
         session' = [session EXCEPT ![s] = row], row.kind = session[s].kind, row.kind # "none",
         UNCHANGED <<credits, cursor>>, Behind \subseteq Behind', older' \in Nat,
         handler' = [handler EXCEPT ![c] = new], HandlerFits(new)',
         cookies' \in [Sessions -> Nat], forms' \in [Sessions -> Nat], signed' \in [Sessions -> Nat],
         forms[s] <= forms'[s], \A t \in Sessions \ {s} : cookies'[t] = cookies[t] /\ forms'[t] = forms[t],
         SessionFits(s)',
         \A d \in SepCalls \ {c} :
           handler[d].at \in Flying /\ handler[d].s = s /\ forms'[s] <= 1 => row.status \notin DepositSettleStatuses,
         new.at \in Flying /\ forms'[new.s] <= 1 =>
           \A e \in SepCalls \ {c} : handler[e].at \in Flying => handler[e].s # new.s
  PROVE  SepSound'
<1>1. handler' \in [SepCalls -> HandlerStates] /\ handler'[c] = new
      /\ \A d \in SepCalls \ {c} : handler'[d] = handler[d]
  BY DEF SepSound, SepTypes
<1>2. \A d \in {c} : HandlerFits(handler[d])'
  BY <1>1
<1>3. \A d \in {c} : handler'[d].at \in Flying /\ forms'[handler'[d].s] <= 1 =>
        \A e \in SepCalls \ {c} : handler[e].at \in Flying => handler[e].s # handler'[d].s
  BY <1>1
<1>4. {c} \in SUBSET SepCalls /\ \A d, e \in {c} : d = e
  OBVIOUS
<1> HIDE DEF HandlerFits, SessionFits, SepSound, HandlerStates, SessionRows, Flying, DepositSettleStatuses
<1> QED
  BY <1>1, <1>2, <1>3, <1>4, SepMoves

\* What every call that serves a session finds.
LEMMA CallFacts ==
  ASSUME SepSound, NEW c \in SepCalls, handler[c].at \in {"token", "form"} \cup Settling
  PROVE  /\ handler[c] \in HandlerStates /\ handler[c].s \in Sessions /\ HandlerFits(handler[c])
         /\ session[handler[c].s] \in SessionRows /\ session[handler[c].s].kind # "none"
         /\ SessionFits(handler[c].s)
         /\ forms[handler[c].s] \in Nat /\ cookies[handler[c].s] \in Nat /\ signed[handler[c].s] \in Nat
<1>1. handler[c] \in HandlerStates /\ HandlerFits(handler[c])
  BY DEF SepSound, SepTypes
<1>2. handler[c].s \in Sessions /\ session[handler[c].s].kind # "none"
  BY <1>1 DEF HandlerFits
<1> QED
  BY <1>1, <1>2 DEF SepSound, SepTypes

LEMMA IssueCookieKeeps ==
  ASSUME SepSound, NEW c \in SepCalls, IssueCookie(c)
  PROVE  SepSound'
<1>1. PICK s : s = handler[c].s
  OBVIOUS
<1>2. handler[c].at = "token" /\ Ends(c) /\ UNCHANGED <<forms, signed, credits, cursor, seen, older>>
  BY DEF IssueCookie, HandlerAt, KeepLedger, KeepWatch
<1>3. /\ s \in Sessions /\ session[s] \in SessionRows /\ session[s].kind # "none" /\ SessionFits(s)
      /\ cookies[s] \in Nat /\ handler[c].read \in SessionRows /\ forms[s] \in Nat
  BY <1>1, <1>2, CallFacts DEF HandlerStates
<1>4. CASE ~session[s].token
  BY <1>1, <1>2, <1>4, SepEnds DEF IssueCookie
<1>5. CASE session[s].token
  <2> DEFINE row == [session[s] EXCEPT !.token = FALSE, !.submittedTx = handler[c].read.submittedTx]
             counted == IF session[s].kind # "withdraw" \/ cookies[s] = MaxCookies THEN cookies[s] ELSE cookies[s] + 1
  <2>1. session' = [session EXCEPT ![s] = row] /\ cookies' = [cookies EXCEPT ![s] = counted]
    BY <1>1, <1>5 DEF IssueCookie, Put
  <2>2. /\ row \in SessionRows /\ row.kind = session[s].kind /\ row.status = session[s].status
        /\ row.tx = session[s].tx /\ row.token = FALSE
    BY <1>3 DEF SessionRows
  <2>3. counted \in Nat /\ (session[s].kind = "withdraw" /\ cookies[s] = 0 => counted = 1)
    BY <1>3 DEF MaxCookies
  <2> HIDE DEF row, counted
  <2>4. session[s].kind = "withdraw" => counted <= 1
    BY <1>3, <1>5, <2>3 DEF SessionFits
  <2>5. session'[s] = row /\ cookies'[s] = counted /\ forms'[s] = forms[s]
    BY <1>2, <1>3, <2>1 DEF SepSound, SepTypes
  <2>6. SessionFits(s)'
    BY <1>2, <1>3, <2>2, <2>4, <2>5 DEF SessionFits, Traced, Received
  <2>7. handler' = [handler EXCEPT ![c] = NoHandler] /\ HandlerFits(NoHandler)'
    BY <1>2, NoSessionTyped DEF Ends, Becomes, HandlerFits, Settling, Flying
  <2>8. /\ cookies' \in [Sessions -> Nat] /\ forms' \in [Sessions -> Nat] /\ signed' \in [Sessions -> Nat]
        /\ \A t \in Sessions \ {s} : cookies'[t] = cookies[t] /\ forms'[t] = forms[t]
    BY <1>2, <1>3, <2>1, <2>3 DEF SepSound, SepTypes
  <2>9. \A d \in SepCalls \ {c} : handler[d].at \in Flying /\ handler[d].s = s /\ forms'[s] <= 1
                                  => row.status \notin DepositSettleStatuses
    BY <2>2, <2>5 DEF SepSound, HandlerFits
  <2>10. NoHandler \in HandlerStates /\ NoHandler.at \notin Flying
    BY NoSessionTyped DEF Flying
  <2>11. forms[s] <= forms'[s]
    BY <1>3, <2>5
  <2> HIDE DEF Flying, HandlerFits, SessionFits, SepSound, HandlerStates, SessionRows
  <2> QED
    BY <1>2, <1>3, <2>1, <2>2, <2>6, <2>7, <2>8, <2>9, <2>10, <2>11, WatchKept, SepCallMoves
<1> QED
  BY <1>4, <1>5

\* A form that is sent while the deposit is being settled makes it two forms.
LEMMA StoreFormKeeps ==
  ASSUME SepSound, NEW c \in SepCalls, NEW amount \in {NoAmount} \cup SepAmounts, StoreForm(c, amount)
  PROVE  SepSound'
<1>1. PICK s : s = handler[c].s
  OBVIOUS
<1>2. /\ handler[c].at = "form" /\ Ends(c) /\ UNCHANGED <<cookies, signed, credits, cursor, seen, older>>
      /\ forms' = [forms EXCEPT ![s] = @ + 1]
  BY <1>1 DEF StoreForm, HandlerAt, KeepLedger, KeepWatch
<1>3. /\ s \in Sessions /\ session[s] \in SessionRows /\ session[s].kind # "none" /\ SessionFits(s)
      /\ forms[s] \in Nat /\ handler[c].read \in SessionRows
  BY <1>1, <1>2, CallFacts DEF HandlerStates
<1> DEFINE status == IF session[s].kind = "deposit" THEN "pending_anchor" ELSE "pending_user_transfer_start"
           asked == IF amount = NoAmount THEN handler[c].read.amount ELSE amount
           row == [session[s] EXCEPT !.status = status, !.amount = asked, !.token = FALSE, !.submittedTx = NoHash]
<1>4. session' = [session EXCEPT ![s] = row]
  BY <1>1 DEF StoreForm, Put
<1>5. /\ status \in SepStatuses /\ asked \in {NoAmount} \cup SepAmounts
      /\ status # "pending_anchor" \/ session[s].kind = "deposit"
      /\ status \notin {"pending_external", "completed"}
  BY <1>3 DEF SepStatuses, DepositSettleStatuses, WatchPendingStatuses, SessionRows
<1> HIDE DEF status, asked
<1>6. /\ row \in SessionRows /\ row.kind = session[s].kind /\ row.status = status
      /\ row.tx = session[s].tx /\ row.token = FALSE
  BY <1>3, <1>5, HashesDiffer DEF SessionRows
<1> HIDE DEF row
<1>7. session'[s] = row /\ forms'[s] = forms[s] + 1 /\ cookies'[s] = cookies[s]
  BY <1>2, <1>3, <1>4 DEF SepSound, SepTypes
<1>8. forms'[s] # 0 /\ forms[s] <= forms'[s]
  BY <1>3, <1>7
<1>9. SessionFits(s)'
  BY <1>2, <1>3, <1>5, <1>6, <1>7, <1>8 DEF SessionFits, Traced, Received
<1>10. handler' = [handler EXCEPT ![c] = NoHandler] /\ HandlerFits(NoHandler)'
  BY <1>2, NoSessionTyped DEF Ends, Becomes, HandlerFits, Settling, Flying
<1>11. /\ cookies' \in [Sessions -> Nat] /\ forms' \in [Sessions -> Nat] /\ signed' \in [Sessions -> Nat]
       /\ \A t \in Sessions \ {s} : cookies'[t] = cookies[t] /\ forms'[t] = forms[t]
  BY <1>2, <1>3 DEF SepSound, SepTypes
<1>12. \A d \in SepCalls \ {c} : handler[d].at \in Flying /\ handler[d].s = s => ~(forms'[s] <= 1)
  <2>1. \A d \in SepCalls \ {c} : handler[d].at \in Flying /\ handler[d].s = s => forms[s] # 0
    BY DEF SepSound, HandlerFits
  <2> QED
    BY <1>3, <1>7, <2>1
<1>13. NoHandler \in HandlerStates /\ NoHandler.at \notin Flying
  BY NoSessionTyped DEF Flying
<1> HIDE DEF Flying, HandlerFits, SessionFits, SepSound, HandlerStates, SessionRows
<1> QED
  BY <1>2, <1>3, <1>4, <1>6, <1>8, <1>9, <1>10, <1>11, <1>12, <1>13, WatchKept, SepCallMoves

LEMMA SepClaimKeeps ==
  ASSUME SepSound, NEW c \in SepCalls, ClaimDeposit(c)
  PROVE  SepSound'
<1>1. PICK s, h : s = handler[c].s /\ h = handler[c]
  OBVIOUS
<1>2. h.at = "claim" /\ h.s = s /\ UNCHANGED <<cookies, forms, signed, credits, cursor, seen, older>>
  BY <1>1 DEF ClaimDeposit, HandlerAt, KeepLedger, KeepWatch, KeepHistory
<1>3. /\ s \in Sessions /\ session[s] \in SessionRows /\ session[s].kind = "deposit" /\ SessionFits(s)
      /\ forms[s] \in Nat /\ h \in HandlerStates /\ HandlerFits(h)
  <2>1. h.at \in Settling
    BY <1>2 DEF Settling
  <2> QED
    BY <1>1, <2>1, CallFacts DEF HandlerFits
<1>4. CASE session[s].status \notin DepositSettleStatuses
  <2>1. UNCHANGED session /\ Ends(c)
    BY <1>1, <1>4 DEF ClaimDeposit
  <2> QED
    BY <1>2, <2>1, SepEnds
<1>5. CASE session[s].status \in DepositSettleStatuses
  <2> DEFINE row == [session[s] EXCEPT !.status = "pending_stellar"]
             claimed == [h EXCEPT !.at = "sign"]
  <2>1. session' = [session EXCEPT ![s] = row]
    BY <1>1, <1>5 DEF ClaimDeposit, Put
  <2>2. \E new \in {claimed, NoHandler} : handler' = [handler EXCEPT ![c] = new]
    BY <1>1, <1>5 DEF ClaimDeposit, Steps, Ends, Becomes
  <2>3. /\ row \in SessionRows /\ row.kind = "deposit" /\ row.status = "pending_stellar" /\ row.tx = session[s].tx
    BY <1>3 DEF SessionRows, SepStatuses, WatchPendingStatuses
  <2>4. claimed \in HandlerStates /\ claimed.at = "sign" /\ claimed.s = s /\ claimed.pending = h.pending
    BY <1>2, <1>3 DEF HandlerStates
  <2> HIDE DEF row, claimed
  <2>5. row.status \notin DepositSettleStatuses
    BY <2>3 DEF DepositSettleStatuses
  <2>6. forms[s] # 0
    BY <1>3, <1>5 DEF SessionFits, DepositSettleStatuses
  <2>7. session'[s] = row /\ forms'[s] = forms[s] /\ cookies'[s] = cookies[s]
    BY <1>2, <1>3, <2>1 DEF SepSound, SepTypes
  <2>8. SessionFits(s)'
    BY <1>2, <1>3, <2>3, <2>6, <2>7 DEF SessionFits, Traced, Received
  <2>9. \A e \in h.pending : session'[e.s].kind = e.row.kind /\ e.row.kind # "none" /\ Traced(e.s, e.row.tx)'
    <3>1. \A t : Received(t)' = Received(t)
      BY <1>2 DEF Received
    <3>2. \A e \in h.pending : e.s \in Sessions /\ session'[e.s].kind = session[e.s].kind
      BY <1>3, <2>1, <2>3 DEF HandlerStates, WatchEntries, SepSound, SepTypes
    <3> QED
      BY <1>3, <3>1, <3>2 DEF HandlerFits, Traced
  <2>10. PICK new : new \in {claimed, NoHandler} /\ handler' = [handler EXCEPT ![c] = new]
    BY <2>2
  <2>11. new \in HandlerStates /\ HandlerFits(new)'
    <3>1. PICK k : k = claimed
      OBVIOUS
    <3>2. HandlerFits(k)'
      BY <1>3, <2>3, <2>4, <2>5, <2>6, <2>7, <2>9, <3>1 DEF HandlerFits, Settling, Flying
    <3>3. HandlerFits(NoHandler)'
      BY NoSessionTyped DEF HandlerFits, Settling, Flying
    <3> QED
      BY <2>4, <2>10, <3>1, <3>2, <3>3, NoSessionTyped
  <2>12. /\ cookies' \in [Sessions -> Nat] /\ forms' \in [Sessions -> Nat] /\ signed' \in [Sessions -> Nat]
         /\ \A t \in Sessions \ {s} : cookies'[t] = cookies[t] /\ forms'[t] = forms[t]
    BY <1>2 DEF SepSound, SepTypes
  <2>13. \A e \in SepCalls \ {c} : handler[e].at \in Flying /\ handler[e].s = s => ~(forms[s] <= 1)
    BY <1>5 DEF SepSound, HandlerFits
  <2>14. new.at \in Flying => new.s = s
    BY <2>4, <2>10, NoSessionTyped DEF Flying
  <2>15. forms[s] <= forms'[s]
    BY <1>3, <2>7
  <2>16. new.at \in Flying /\ forms'[new.s] <= 1 =>
           \A e \in SepCalls \ {c} : handler[e].at \in Flying => handler[e].s # new.s
    BY <2>7, <2>13, <2>14
  <2> HIDE DEF Flying, HandlerFits, SessionFits, SepSound, HandlerStates, SessionRows, DepositSettleStatuses
  <2> QED
    BY <1>2, <1>3, <2>1, <2>3, <2>5, <2>8, <2>10, <2>11, <2>12, <2>15, <2>16, WatchKept, SepCallMoves
<1> QED
  BY <1>4, <1>5

\* A call that is settling a deposit alone writes what it wants.
LEMMA SettlerMoves ==
  ASSUME SepSound, NEW c \in SepCalls, NEW s, NEW row \in SessionRows, NEW new \in HandlerStates,
         handler[c].at \in Flying, handler[c].s = s, row.kind = session[s].kind, Traced(s, row.tx),
         session' = [session EXCEPT ![s] = row],
         handler' = [handler EXCEPT ![c] = new], UNCHANGED <<credits, cursor, seen, older, cookies, forms>>,
         signed' \in [Sessions -> Nat], new.at \in {"none", "submitted"}, new.pending \subseteq handler[c].pending,
         new.at = "submitted" => new.s = s /\ row.status = session[s].status
  PROVE  SepSound'
<1>1. /\ s \in Sessions /\ session[s] \in SessionRows /\ session[s].kind = "deposit" /\ SessionFits(s)
      /\ forms[s] \in Nat /\ forms[s] # 0 /\ HandlerFits(handler[c]) /\ handler[c] \in HandlerStates
      /\ forms[s] <= 1 => session[s].status \notin DepositSettleStatuses
  <2>1. handler[c].at \in Settling
    BY DEF Settling, Flying
  <2> QED
    BY <2>1, CallFacts DEF HandlerFits
<1>2. session'[s] = row /\ forms'[s] = forms[s] /\ cookies'[s] = cookies[s]
  BY <1>1 DEF SepSound, SepTypes
<1>3. SessionFits(s)'
  BY <1>1, <1>2 DEF SessionFits, Traced, Received
<1>4. \A e \in new.pending : session'[e.s].kind = e.row.kind /\ e.row.kind # "none" /\ Traced(e.s, e.row.tx)'
  <2>1. \A t : Received(t)' = Received(t)
    BY DEF Received
  <2>2. \A e \in new.pending : e.s \in Sessions /\ session'[e.s].kind = session[e.s].kind
    BY <1>1 DEF HandlerStates, WatchEntries, SepSound, SepTypes
  <2> QED
    BY <1>1, <2>1, <2>2 DEF HandlerFits, Traced
<1>5. HandlerFits(new)'
  BY <1>1, <1>2, <1>4 DEF HandlerFits, Settling, Flying
<1>6. /\ cookies' \in [Sessions -> Nat] /\ forms' \in [Sessions -> Nat]
      /\ \A t \in Sessions \ {s} : cookies'[t] = cookies[t] /\ forms'[t] = forms[t]
  BY DEF SepSound, SepTypes
<1>7. \A e \in SepCalls \ {c} : handler[e].at \in Flying /\ handler[e].s = s => ~(forms[s] <= 1)
  BY DEF SepSound, FlyApart
<1>8. new.at \in Flying => new.s = s
  BY DEF Flying
<1>9. forms[s] <= forms'[s]
  BY <1>1, <1>2
<1>10. new.at \in Flying /\ forms'[new.s] <= 1 =>
         \A e \in SepCalls \ {c} : handler[e].at \in Flying => handler[e].s # new.s
  BY <1>2, <1>7, <1>8
<1>11. \A e \in SepCalls \ {c} :
         handler[e].at \in Flying /\ handler[e].s = s /\ forms'[s] <= 1 => row.status \notin DepositSettleStatuses
  BY <1>2, <1>7
<1>12. row.kind # "none"
  BY <1>1
<1> HIDE DEF Flying, HandlerFits, SessionFits, SepSound, HandlerStates, SessionRows, DepositSettleStatuses
<1> QED
  BY <1>1, <1>3, <1>5, <1>6, <1>9, <1>10, <1>11, <1>12, WatchKept, SepCallMoves

LEMMA FailKeeps ==
  ASSUME SepSound, NEW c \in SepCalls, handler[c].at \in Flying, FailWithout(c),
         UNCHANGED <<credits, cursor, seen, older, cookies, forms, signed>>
  PROVE  SepSound'
<1>1. PICK s, h : s = handler[c].s /\ h = handler[c]
  OBVIOUS
<1>2. h \in HandlerStates /\ s \in Sessions /\ session[s] \in SessionRows /\ SessionFits(s) /\ h.read \in SessionRows
  <2>1. h.at \in Settling
    BY <1>1 DEF Settling
  <2> QED
    BY <1>1, <2>1, CallFacts DEF HandlerStates
<1> DEFINE failed == [session[s] EXCEPT !.token = h.read.token, !.submittedTx = h.read.submittedTx,
                                        !.status = "error"]
           unknown == [session[s] EXCEPT !.token = h.read.token, !.submittedTx = h.read.submittedTx,
                         !.status = "pending_stellar_unknown", !.tx = h.read.submittedTx]
<1>3. PICK row : row \in {failed, unknown} /\ session' = [session EXCEPT ![s] = row]
  BY <1>1 DEF FailWithout, Put
<1>4. h.read.submittedTx \in SentHashes /\ SentHashes \subseteq Hashes
  BY <1>2, HashesDiffer DEF SessionRows
<1>5. /\ failed \in SessionRows /\ failed.kind = session[s].kind /\ failed.tx = session[s].tx
      /\ failed.status = "error"
  BY <1>2 DEF SessionRows, SepStatuses
<1>6. /\ unknown \in SessionRows /\ unknown.kind = session[s].kind /\ unknown.tx = h.read.submittedTx
      /\ unknown.status = "pending_stellar_unknown"
  BY <1>2, <1>4 DEF SessionRows, SepStatuses, DepositSettleStatuses
<1> HIDE DEF failed, unknown
<1>7. Traced(s, session[s].tx) /\ Traced(s, h.read.submittedTx)
  BY <1>2, <1>4, SentTraced DEF SessionFits
<1>8. /\ row \in SessionRows /\ row.kind = session[s].kind
      /\ Traced(s, row.tx)
  BY <1>3, <1>5, <1>6, <1>7
<1>9. handler' = [handler EXCEPT ![c] = NoHandler] /\ signed' \in [Sessions -> Nat]
  BY DEF FailWithout, Ends, Becomes, SepSound, SepTypes
<1>10. NoHandler.pending \subseteq handler[c].pending
  BY NoSessionTyped
<1> HIDE DEF Flying, HandlerFits, SessionFits, SepSound, HandlerStates, SessionRows, DepositSettleStatuses
<1> QED
  BY <1>1, <1>3, <1>8, <1>9, <1>10, NoSessionTyped, SettlerMoves

LEMMA SignKeeps ==
  ASSUME SepSound, NEW c \in SepCalls, Sign(c)
  PROVE  SepSound'
<1>1. PICK s, h : s = handler[c].s /\ h = handler[c]
  OBVIOUS
<1>2. h.at = "sign" /\ UNCHANGED <<cookies, forms, credits, cursor, seen, older>>
  BY <1>1 DEF Sign, HandlerAt, KeepLedger, KeepWatch
<1>3. CASE FailWithout(c) /\ UNCHANGED signed
  BY <1>1, <1>2, <1>3, FailKeeps DEF Flying
<1>4. ASSUME ~(FailWithout(c) /\ UNCHANGED signed)
      PROVE  SepSound'
  <2> DEFINE hash == PayoutHash(s, signed[s] + 1)
             row == [session[s] EXCEPT !.tx = hash, !.submittedTx = hash, !.token = h.read.token]
             signing == [h EXCEPT !.at = "submitted", !.hash = hash]
  <2>1. /\ signed' = [signed EXCEPT ![s] = @ + 1] /\ session' = [session EXCEPT ![s] = row]
        /\ handler' = [handler EXCEPT ![c] = signing]
    BY <1>1, <1>4 DEF Sign, Put, Becomes
  <2>2. /\ h \in HandlerStates /\ s \in Sessions /\ session[s] \in SessionRows /\ session[s].kind = "deposit"
        /\ SessionFits(s) /\ h.read \in SessionRows /\ signed[s] \in Nat /\ forms[s] # 0
    <3>1. h.at \in Settling
      BY <1>2 DEF Settling, Flying
    <3> QED
      BY <1>1, <1>2, <3>1, CallFacts DEF HandlerStates, HandlerFits, Flying
  <2>3. hash \in SentHashes /\ SentHashes \subseteq Hashes
    BY <2>2, HashesDiffer
  <2> HIDE DEF hash
  <2>4. row \in SessionRows /\ row.kind = session[s].kind /\ row.tx = hash /\ row.status = session[s].status
    BY <2>2, <2>3 DEF SessionRows
  <2>5. /\ signing \in HandlerStates /\ signing.at = "submitted" /\ signing.s = s /\ signing.pending = h.pending
    BY <1>1, <2>2, <2>3 DEF HandlerStates
  <2> HIDE DEF row, signing
  <2>6. Traced(s, row.tx) /\ signed' \in [Sessions -> Nat]
    BY <2>1, <2>2, <2>3, <2>4, SentTraced DEF SepSound, SepTypes
  <2> QED
    BY <1>1, <1>2, <2>1, <2>4, <2>5, <2>6, SettlerMoves DEF Flying
<1> QED
  BY <1>3, <1>4

LEMMA FinishKeeps ==
  ASSUME SepSound, NEW c \in SepCalls, FinishDeposit(c)
  PROVE  SepSound'
<1>1. PICK s, h : s = handler[c].s /\ h = handler[c]
  OBVIOUS
<1>2. h.at = "submitted" /\ UNCHANGED <<cookies, forms, signed, credits, cursor, seen, older>>
  BY <1>1 DEF FinishDeposit, HandlerAt, KeepLedger, KeepWatch, KeepHistory
<1>3. CASE FailWithout(c)
  BY <1>1, <1>2, <1>3, FailKeeps DEF Flying
<1>4. ASSUME ~FailWithout(c)
      PROVE  SepSound'
  <2> DEFINE done == [session[s] EXCEPT !.status = "completed", !.tx = h.hash]
             unknown == [session[s] EXCEPT !.status = "pending_stellar_unknown", !.tx = h.hash,
                           !.submittedTx = h.hash, !.token = h.read.token]
  <2>1. PICK row : row \in {done, unknown} /\ session' = [session EXCEPT ![s] = row]
    BY <1>1, <1>4 DEF FinishDeposit, Put
  <2>2. /\ h \in HandlerStates /\ s \in Sessions /\ session[s] \in SessionRows /\ h.read \in SessionRows
    <3>1. h.at \in Settling
      BY <1>2 DEF Settling, Flying
    <3> QED
      BY <1>1, <3>1, CallFacts DEF HandlerStates
  <2>3. h.hash \in SentHashes /\ SentHashes \subseteq Hashes
    BY <2>2, HashesDiffer DEF HandlerStates
  <2>4. done \in SessionRows /\ done.kind = session[s].kind /\ done.tx = h.hash
    BY <2>2, <2>3 DEF SessionRows, SepStatuses
  <2>5. unknown \in SessionRows /\ unknown.kind = session[s].kind /\ unknown.tx = h.hash
    BY <2>2, <2>3 DEF SessionRows, SepStatuses, DepositSettleStatuses
  <2> HIDE DEF done, unknown
  <2>6. row \in SessionRows /\ row.kind = session[s].kind /\ Traced(s, row.tx)
    BY <2>1, <2>3, <2>4, <2>5, SentTraced
  <2>7. handler' = [handler EXCEPT ![c] = NoHandler] /\ signed' \in [Sessions -> Nat]
    BY <1>2, <1>4 DEF FinishDeposit, Ends, Becomes, SepSound, SepTypes
  <2>8. NoHandler.pending \subseteq handler[c].pending
    BY NoSessionTyped
  <2>9. handler[c].at \in Flying
    BY <1>1, <1>2 DEF Flying
  <2> HIDE DEF Flying, HandlerFits, SessionFits, SepSound, HandlerStates, SessionRows, DepositSettleStatuses
  <2> QED
    BY <1>1, <1>2, <2>1, <2>6, <2>7, <2>8, <2>9, NoSessionTyped, SettlerMoves
<1> QED
  BY <1>3, <1>4

\* A withdrawal that may be finalized is one that was funded: 'pending_anchor' is a deposit's.
LEMMA FinalizeKeeps ==
  ASSUME SepSound, NEW s \in Sessions, FinalizeWithdrawal(s)
  PROVE  SepSound'
<1> DEFINE row == [session[s] EXCEPT !.status = "completed"]
<1>1. /\ session' = [session EXCEPT ![s] = row] /\ session[s].kind = "withdraw"
      /\ session[s].status \in WithdrawFinalizeStatuses
      /\ UNCHANGED <<handler, credits, cursor, seen, older, cookies, forms, signed>>
  BY DEF FinalizeWithdrawal, Put, KeepLedger, KeepWatch, KeepHistory
<1>2. session[s] \in SessionRows /\ SessionFits(s) /\ forms[s] \in Nat
  BY DEF SepSound, SepTypes
<1>3. row \in SessionRows /\ row.kind = "withdraw" /\ row.status = "completed" /\ row.tx = session[s].tx
      /\ row.token = session[s].token
  BY <1>1, <1>2 DEF SessionRows, SepStatuses
<1> HIDE DEF row
<1>4. session'[s] = row /\ forms'[s] = forms[s] /\ cookies'[s] = cookies[s]
  BY <1>1 DEF SepSound, SepTypes
<1>5. Received(s)
  BY <1>1, <1>2 DEF SessionFits, WithdrawFinalizeStatuses
<1>6. SessionFits(s)'
  BY <1>1, <1>2, <1>3, <1>4, <1>5 DEF SessionFits, Traced, Received
<1>7. \A d \in SepCalls : ~(handler[d].at \in Flying /\ handler[d].s = s)
  BY <1>1 DEF SepSound, HandlerFits, Settling
<1>8. /\ handler' \in [SepCalls -> HandlerStates] /\ \A d \in SepCalls : handler'[d] = handler[d]
      /\ cookies' \in [Sessions -> Nat] /\ forms' \in [Sessions -> Nat] /\ signed' \in [Sessions -> Nat]
      /\ \A t \in Sessions \ {s} : cookies'[t] = cookies[t] /\ forms'[t] = forms[t]
  BY <1>1 DEF SepSound, SepTypes
<1>9. forms[s] <= forms'[s]
  BY <1>2, <1>4
<1>10. PICK callers : callers = {}
  OBVIOUS
<1>11. callers \in SUBSET SepCalls /\ \A d \in callers : FALSE
  BY <1>10
<1> HIDE DEF Flying, HandlerFits, SessionFits, SepSound, HandlerStates, SessionRows, DepositSettleStatuses
<1> QED
  BY <1>1, <1>3, <1>6, <1>7, <1>8, <1>9, <1>11, WatchKept, SepMoves

\* No call and no pass knows a session before it starts.
LEMMA StartKeeps ==
  ASSUME SepSound, NEW s \in Sessions, NEW kind \in {"deposit", "withdraw"},
         NEW amount \in {NoAmount} \cup SepAmounts, StartInteractive(s, kind, amount)
  PROVE  SepSound'
<1> DEFINE row == [NoSession EXCEPT !.kind = kind, !.status = "incomplete", !.amount = amount, !.token = TRUE]
<1>1. /\ session[s] = NoSession /\ session' = [session EXCEPT ![s] = row]
      /\ UNCHANGED <<handler, credits, cursor, seen, older, cookies, forms, signed>>
  BY DEF StartInteractive, Put, KeepLedger, KeepWatch, KeepHistory
<1>2. row \in SessionRows /\ row.kind = kind /\ row.status = "incomplete" /\ row.tx = NoSession.tx
  BY NoSessionTyped DEF SessionRows, SepStatuses, WatchPendingStatuses
<1> HIDE DEF row
<1>3. session[s].kind = "none" /\ SessionFits(s)
  BY <1>1, NoSessionTyped DEF SepSound
<1>4. \A t \in Sessions : session'[t] = IF t = s THEN row ELSE session[t]
  BY <1>1 DEF SepSound, SepTypes
<1>5. /\ \A t : Received(t)' = Received(t)
      /\ \A t, tx : Traced(t, tx)' = Traced(t, tx)
  BY <1>1 DEF Received, Traced
<1>6. SepTypes' /\ CreditsPassed' /\ cursor' <= Len(credits') /\ FlyApart' /\ Behind' = Behind
  BY <1>1, <1>2 DEF SepSound, SepTypes, CreditsPassed, FlyApart, Behind
<1>7. SessionFits(s)'
  BY <1>1, <1>2, <1>3, <1>4, <1>5 DEF SessionFits
<1>8. \A t \in Sessions : SessionFits(t)'
  <2>1. ASSUME NEW t \in Sessions, t # s
        PROVE  SessionFits(t)'
    BY <1>1, <1>4, <1>5, <2>1 DEF SepSound, SessionFits
  <2> QED
    BY <1>7, <2>1
<1>9. ASSUME NEW d \in SepCalls
      PROVE  HandlerFits(handler[d])'
  <2>1. PICK k : k = handler[d]
    OBVIOUS
  <2>2. HandlerFits(k) /\ k \in HandlerStates
    BY <2>1 DEF SepSound, SepTypes
  <2>3. \A e \in k.pending : e.s \in Sessions /\ e.s # s
    BY <1>3, <2>2 DEF HandlerStates, WatchEntries, HandlerFits
  <2>4. k.at \in {"token", "form"} \cup Settling => k.s \in Sessions /\ k.s # s
    BY <1>3, <2>2 DEF HandlerFits
  <2>5. HandlerFits(k)'
    BY <1>1, <1>4, <1>5, <1>6, <2>2, <2>3, <2>4 DEF HandlerFits, Settling
  <2> QED
    BY <1>1, <2>1, <2>5
<1> QED
  BY <1>6, <1>8, <1>9 DEF SepSound

\* A credit that matches by memo funds the session; one that matches by hash is one that was
\* matched with it before.
LEMMA MatchKeeps ==
  ASSUME SepSound, NEW c \in SepCalls, MatchNext(c)
  PROVE  SepSound'
<1>1. PICK h : h = handler[c]
  OBVIOUS
<1>2. PICK i : i = Head(h.records)
  OBVIOUS
<1>3. /\ h.at = "match" /\ h.records # <<>> /\ seen' = seen \cup {i} /\ older' = older
      /\ UNCHANGED <<credits, cursor, cookies, forms, signed>>
  BY <1>1, <1>2 DEF MatchNext, HandlerAt, KeepHistory
<1>4. h \in HandlerStates /\ HandlerFits(h)
  BY <1>1 DEF SepSound, SepTypes
<1>5. PICK records, looked, lookedThen : records = Tail(h.records) /\ looked = Behind /\ lookedThen = Behind'
  OBVIOUS
<1>6. /\ records \in Seq(Nat) /\ i \in Nat /\ i \in DOMAIN credits
      /\ \A k \in DOMAIN records : records[k] \in DOMAIN credits
      /\ \A j \in 1..h.newest : j \in lookedThen \/ \E k \in DOMAIN records : records[k] = j
  <2>1. \A j \in 1..h.newest : j \in looked \/ \E k \in DOMAIN h.records : h.records[k] = j
    BY <1>3, <1>4, <1>5 DEF HandlerFits
  <2>2. h.records \in Seq(Nat)
    BY <1>4 DEF HandlerStates
  <2>3. /\ records \in Seq(Nat) /\ i \in Nat /\ i = h.records[1] /\ 1 \in DOMAIN h.records
        /\ \A k \in DOMAIN records : \E j \in DOMAIN h.records : records[k] = h.records[j]
        /\ \A j \in DOMAIN h.records : h.records[j] = i \/ \E k \in DOMAIN records : records[k] = h.records[j]
    BY <1>2, <1>3, <1>5, <2>2, NextRecord
  <2>4. lookedThen = looked \cup {i}
    BY <1>3, <1>5 DEF Behind
  <2>5. \A j \in 1..h.newest : j \in lookedThen \/ \E k \in DOMAIN records : records[k] = j
    BY <2>1, <2>3, <2>4
  <2>6. \A j \in DOMAIN h.records : h.records[j] \in DOMAIN credits
    BY <1>3, <1>4 DEF HandlerFits
  <2> QED
    BY <2>6, <2>3, <2>5
<1> DEFINE rest == [h EXCEPT !.records = records]
<1>7. /\ rest \in HandlerStates /\ rest.at = "match" /\ rest.records = records /\ rest.newest = h.newest
      /\ rest.pending = h.pending
  BY <1>3, <1>4, <1>6 DEF HandlerStates
<1>8. h.newest \in Nat /\ h.newest <= Len(credits')
  BY <1>3, <1>4 DEF HandlerFits, HandlerStates
<1>9. CASE handler' = [handler EXCEPT ![c] = rest] /\ UNCHANGED session
  <2> HIDE DEF rest
  <2>1. \A e \in h.pending : session'[e.s].kind = e.row.kind /\ e.row.kind # "none" /\ Traced(e.s, e.row.tx)'
    <3>1. \A t : Received(t)' = Received(t)
      BY <1>3 DEF Received
    <3> QED
      BY <1>4, <1>9, <3>1 DEF HandlerFits, Traced
  <2>2. PICK new : new = rest
    OBVIOUS
  <2>3. HandlerFits(new)'
    BY <1>3, <1>5, <1>6, <1>7, <1>8, <2>1, <2>2 DEF HandlerFits, Settling, Flying
  <2>4. new.at \notin Flying /\ Behind \subseteq Behind' /\ older' \in Nat
    BY <1>3, <1>7, <2>2 DEF Flying, Behind, SepSound, SepTypes
  <2> QED
    BY <1>3, <1>7, <1>9, <2>2, <2>3, <2>4, SepReads
<1>10. ASSUME NEW entry \in h.pending, NEW found \in BOOLEAN, Matches(entry, i, found),
              handler' = [handler EXCEPT ![c] = [rest EXCEPT !.pending = @ \ {entry}]],
              session' = [session EXCEPT ![entry.s] = [session[entry.s] EXCEPT !.tx = CreditHash(i),
                !.status = IF entry.row.kind = "withdraw" /\ entry.row.status = "pending_user_transfer_start"
                           THEN "pending_external" ELSE "completed"]]
       PROVE  SepSound'
  <2> DEFINE s == entry.s
             status == IF entry.row.kind = "withdraw" /\ entry.row.status = "pending_user_transfer_start"
                       THEN "pending_external" ELSE "completed"
             row == [session[s] EXCEPT !.tx = CreditHash(i), !.status = status]
             new == [rest EXCEPT !.pending = @ \ {entry}]
  <2>1. /\ s \in Sessions /\ session[s] \in SessionRows /\ session[s].kind = entry.row.kind
        /\ entry.row.kind # "none" /\ SessionFits(s) /\ forms[s] \in Nat
    <3>1. entry \in WatchEntries
      BY <1>4 DEF HandlerStates
    <3>2. s \in Sessions
      BY <3>1 DEF WatchEntries
    <3> QED
      BY <1>4, <3>2 DEF HandlerFits, SepSound, SepTypes
  <2>2. Received(s)
    BY <1>4, <1>6, <1>10 DEF Matches, HandlerFits, Traced, Received
  <2>3. /\ status \in SepStatuses
        /\ session[s].kind = "deposit" => status = "completed"
        /\ status # "pending_anchor"
    BY <2>1 DEF SepStatuses, DepositSettleStatuses
  <2>4. CreditHash(i) \in Hashes
    BY <1>6, HashesDiffer
  <2>5. /\ handler' = [handler EXCEPT ![c] = new] /\ session' = [session EXCEPT ![s] = row]
    BY <1>10
  <2>6. /\ new \in HandlerStates /\ new.at = "match" /\ new.records = records /\ new.newest = h.newest
        /\ new.pending \subseteq h.pending
    <3>1. h.pending \ {entry} \in SUBSET WatchEntries
      BY <1>4 DEF HandlerStates
    <3> QED
      BY <1>7, <3>1 DEF HandlerStates
  <2> HIDE DEF rest, new, status
  <2>7. /\ row \in SessionRows /\ row.kind = session[s].kind /\ row.status = status /\ row.token = session[s].token
    BY <2>1, <2>3, <2>4 DEF SessionRows, SepStatuses
  <2> HIDE DEF row
  <2>8. session'[s] = row /\ forms'[s] = forms[s] /\ cookies'[s] = cookies[s]
    BY <1>3, <2>1, <2>5 DEF SepSound, SepTypes
  <2>9. \A t : Received(t)' = Received(t)
    BY <1>3 DEF Received
  <2>10. SessionFits(s)'
    BY <2>1, <2>2, <2>3, <2>7, <2>8, <2>9 DEF SessionFits, Traced
  <2>11. \A e \in h.pending : session'[e.s].kind = e.row.kind /\ e.row.kind # "none" /\ Traced(e.s, e.row.tx)'
    <3>1. \A e \in h.pending : e.s \in Sessions /\ session'[e.s].kind = session[e.s].kind
      BY <1>4, <2>1, <2>5, <2>7 DEF HandlerStates, WatchEntries, SepSound, SepTypes
    <3> QED
      BY <1>4, <2>9, <3>1 DEF HandlerFits, Traced
  <2>12. PICK k, t : k = new /\ t = s
    OBVIOUS
  <2>13. HandlerFits(k)'
    BY <1>3, <1>5, <1>6, <1>8, <2>6, <2>11, <2>12 DEF HandlerFits, Settling, Flying
  <2>14. /\ cookies' \in [Sessions -> Nat] /\ forms' \in [Sessions -> Nat] /\ signed' \in [Sessions -> Nat]
         /\ \A u \in Sessions \ {s} : cookies'[u] = cookies[u] /\ forms'[u] = forms[u]
    BY <1>3 DEF SepSound, SepTypes
  <2>15. \A d \in SepCalls \ {c} :
           handler[d].at \in Flying /\ handler[d].s = s /\ forms'[s] <= 1 => row.status \notin DepositSettleStatuses
    <3>1. \A d \in SepCalls \ {c} : handler[d].at \in Flying /\ handler[d].s = s => session[s].kind = "deposit"
      BY DEF SepSound, HandlerFits, Settling
    <3> QED
      BY <2>3, <2>7, <3>1 DEF DepositSettleStatuses
  <2>16. forms[s] <= forms'[s] /\ Behind \subseteq Behind' /\ older' \in Nat /\ row.kind # "none" /\ new.at \notin Flying
    BY <1>3, <2>1, <2>6, <2>7, <2>8 DEF Flying, Behind, SepSound, SepTypes
  <2> HIDE DEF Flying, HandlerFits, SessionFits, SepSound, HandlerStates, SessionRows, DepositSettleStatuses, s
  <2> QED
    BY <1>3, <2>1, <2>5, <2>6, <2>7, <2>10, <2>12, <2>13, <2>14, <2>15, <2>16, SepCallMoves
<1> QED
  BY <1>1, <1>2, <1>5, <1>9, <1>10 DEF MatchNext, Becomes, Put

LEMMA SepStep ==
  ASSUME SepSound, [SepNext]_sepVars
  PROVE  SepSound'
<1>1. ASSUME NEW c \in SepCalls, NEW s \in Sessions, ReadToken(c, s) \/ ReadForForm(c, s) \/ ReadDeposit(c, s)
      PROVE  SepSound'
  <2>1. session[s].kind # "none"
    <3>1. NoSession.token = FALSE
      BY DEF NoSession
    <3>2. session[s].kind = "none" => session[s] = NoSession
      BY DEF SepSound, SessionFits
    <3> QED
      BY <1>1, <3>1, <3>2 DEF ReadToken, ReadForForm, ReadDeposit
  <2>5. /\ [NoSession EXCEPT !.submittedTx = session[s].submittedTx] \in SessionRows
        /\ [NoSession EXCEPT !.amount = session[s].amount] \in SessionRows
        /\ Metadata(session[s]) \in SessionRows
    BY ReadRows DEF SepSound, SepTypes
  <2>2. CASE ReadToken(c, s)
    BY <2>1, <2>2, <2>5, BeginFits DEF ReadToken
  <2>3. CASE ReadForForm(c, s)
    BY <2>1, <2>3, <2>5, BeginFits DEF ReadForForm
  <2>4. CASE ReadDeposit(c, s)
    BY <2>1, <2>4, <2>5, BeginFits DEF ReadDeposit
  <2> QED
    BY <1>1, <2>2, <2>3, <2>4
<1>2. CASE UNCHANGED sepVars
  BY <1>2 DEF sepVars, SepSound, SepTypes, FlyApart, CreditsPassed, Behind, SessionFits, HandlerFits, Traced, Received
<1>4. ASSUME NEW c \in SepCalls, HandlerFails(c)
      PROVE  SepSound'
  BY <1>4, SepEnds DEF HandlerFails, KeepLedger, KeepWatch, KeepHistory
<1>3. CASE SepNext
  BY <1>1, <1>3, <1>4, CreditKeeps, FinalizeKeeps, StartKeeps, IssueCookieKeeps, StoreFormKeeps, SepClaimKeeps,
     SignKeeps, FinishKeeps, StartWatchKeeps, FetchKeeps, MatchKeeps, SaveCursorKeeps DEF SepNext
<1> QED
  BY <1>2, <1>3

\* However forms, settlements, watch passes, failures and crashes interleave, a withdrawal is taken for
\* funded only when the hot wallet received it and gives one cookie, a deposit is settled by
\* one call at a time unless its form was sent again, and a credit that the cursor has
\* passed was looked up or is older than the page of a pass that had no cursor
\* (completeInteractive, completeDeposit, finalizeWithdrawal, watchDeposits).
THEOREM SessionsFunded == SepSpec => []SepInv
  BY SepBegin, SepStep, SepKeeps, PTL DEF SepSpec

-----------------------------------------------------------------------------
(* All services in one process: they share no variable, so a behaviour of   *)
(* all is, for each of them, one of its own specification.                  *)

AllServices ==
  WebhookSpec /\ ReviewSpec /\ SepSpec /\ AuthSpec /\ Sep10Spec /\ GateSpec /\ LimitSpec /\ FxSpec

LEMMA WebhookAmongAll == MCSpec => WebhookSpec
<1>1. MCInit => WebhookInit
  BY DEF MCInit
<1>2. [MCNext]_servicesVars => [WebhookNext]_webhookVars
  BY DEF MCNext, Only, servicesVars
<1> QED
  BY <1>1, <1>2, PTL DEF MCSpec, WebhookSpec

LEMMA ReviewAmongAll == MCSpec => ReviewSpec
<1>1. MCInit => ReviewInit
  BY DEF MCInit
<1>2. [MCNext]_servicesVars => [ReviewNext]_reviewVars
  BY DEF MCNext, Only, servicesVars
<1> QED
  BY <1>1, <1>2, PTL DEF MCSpec, ReviewSpec

LEMMA SepAmongAll == MCSpec => SepSpec
<1>1. MCInit => SepInit
  BY DEF MCInit
<1>2. [MCNext]_servicesVars => [SepNext]_sepVars
  BY DEF MCNext, Only, servicesVars
<1> QED
  BY <1>1, <1>2, PTL DEF MCSpec, SepSpec

LEMMA AuthAmongAll == MCSpec => AuthSpec
<1>1. MCInit => AuthInit
  BY DEF MCInit
<1>2. [MCNext]_servicesVars => [AuthNext]_authVars
  BY DEF MCNext, Only, servicesVars
<1> QED
  BY <1>1, <1>2, PTL DEF MCSpec, AuthSpec

LEMMA Sep10AmongAll == MCSpec => Sep10Spec
<1>1. MCInit => Sep10Init
  BY DEF MCInit
<1>2. [MCNext]_servicesVars => [Sep10Next]_sep10Vars
  BY DEF MCNext, Only, servicesVars
<1> QED
  BY <1>1, <1>2, PTL DEF MCSpec, Sep10Spec

LEMMA GateAmongAll == MCSpec => GateSpec
<1>1. MCInit => GateInit
  BY DEF MCInit
<1>2. [MCNext]_servicesVars => [GateNext]_gateVars
  BY DEF MCNext, Only, servicesVars
<1> QED
  BY <1>1, <1>2, PTL DEF MCSpec, GateSpec

LEMMA LimitAmongAll == MCSpec => LimitSpec
<1>1. MCInit => LimitInit
  BY DEF MCInit
<1>2. [MCNext]_servicesVars => [LimitNext]_limitVars
  BY DEF MCNext, Only, servicesVars
<1> QED
  BY <1>1, <1>2, PTL DEF MCSpec, LimitSpec

LEMMA FxAmongAll == MCSpec => FxSpec
<1>1. MCInit => FxInit
  BY DEF MCInit
<1>2. [MCNext]_servicesVars => [FxNext]_fxVars
  BY DEF MCNext, Only, servicesVars
<1> QED
  BY <1>1, <1>2, PTL DEF MCSpec, FxSpec

\* The behaviours of MCServices, in which one service is used, are among those
\* in which all may be, in any order of their steps.
LEMMA AmongAll == MCSpec => AllServices
  BY WebhookAmongAll, ReviewAmongAll, SepAmongAll, AuthAmongAll, Sep10AmongAll, GateAmongAll,
    LimitAmongAll, FxAmongAll DEF AllServices

\* What each service keeps it keeps while all the others run as well: claims
\* exclude, counters bound, and deliveries, blocks and suspensions are final.
THEOREM ServicesHold ==
  AllServices => /\ [](WebhookInv /\ ReviewInv /\ SepInv /\ AuthInv)
                 /\ [](TextUsedOnce /\ GateInv /\ WindowHolds /\ FxInv)
                 /\ SettledIsFinal /\ BlockStands /\ SuspendedGetNoMore
<1>1. AllServices => [](WebhookInv /\ ReviewInv /\ SepInv /\ AuthInv)
  BY WebhookKept, ReviewKept, SessionsFunded, SessionsKept, PTL DEF AllServices
<1>2. AllServices => [](TextUsedOnce /\ GateInv /\ WindowHolds /\ FxInv)
  BY TextsUsedOnce, GateHolds, LimitHolds, ConversionsHold, PTL DEF AllServices
<1>3. AllServices => SettledIsFinal /\ BlockStands /\ SuspendedGetNoMore
  BY SettledStays, BlockStandsAlways, SuspendedGetNone DEF AllServices
<1> QED
  BY <1>1, <1>2, <1>3

\* So every property of the run `services' holds of the specification it checks.
THEOREM ServicesRunHolds ==
  MCSpec => /\ [](WebhookInv /\ ReviewInv /\ SepInv /\ AuthInv)
            /\ [](TextUsedOnce /\ GateInv /\ WindowHolds /\ FxInv)
            /\ SettledIsFinal /\ BlockStands /\ SuspendedGetNoMore
  BY AmongAll, ServicesHold
===============================================================================
