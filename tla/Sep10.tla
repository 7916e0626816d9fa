--------------------------------- MODULE Sep10 ---------------------------------
(***************************************************************************)
(* SEP-10 challenges (services/stellar-sep10.service.ts, utils/            *)
(* once-claim.ts, redisSetIfNotExists of middleware/                       *)
(* rate-limit.middleware.ts).  A signed challenge is valid until its upper *)
(* time bound, and each text of it is exchanged for one token: that the    *)
(* text is used once is claimed in Redis, or in the memory of the process  *)
(* while Redis is away.  Time is in units of which a challenge lives       *)
(* CHALLENGE_TTL.                                                          *)
(***************************************************************************)
EXTENDS Naturals, FiniteSets

CONSTANTS
  Challenges,
  Forms,           \* ways to write out a signed challenge: encoding, order of signatures, further ones
  VerifyCalls,     \* verifications served at a time
  CHALLENGE_TTL,
  MaxSepTime       \* bound: the clock

ASSUME Sep10Assumption == CHALLENGE_TTL \in Nat /\ MaxSepTime \in Nat

VARIABLES
  clock,
  minTime,         \* challenge -> its lower time bound, NotBuilt before
  redisClaims,     \* text -> when its key expires, 0 without one
  memoryClaims,    \* the same in the process
  redisUp,
  verifying,       \* call -> the text it has found valid, or NoText
  given            \* store -> text -> tokens given for it before its upper time bound (history)

sep10Vars == <<clock, minTime, redisClaims, memoryClaims, redisUp, verifying, given>>

\* The key of a claim is the digest of the text, not of the transaction in it.
Texts == Challenges \X Forms
NoText == <<>>
Of(text) == text[1]
UpperBound(text) == minTime[Of(text)] + CHALLENGE_TTL
NotBuilt == MaxSepTime + 1
Built(ch) == minTime[ch] # NotBuilt
StoreKept == UNCHANGED <<redisClaims, memoryClaims, given>>

BuildChallenge(ch) ==
  /\ ~Built(ch)
  /\ minTime' = [minTime EXCEPT ![ch] = clock]
  /\ UNCHANGED <<clock, redisUp, verifying>> /\ StoreKept

\* The part of verifyChallenge before its wallet and user are looked up: any text
\* of the challenge that carries both signatures will do.
CheckChallenge(c, text) ==
  /\ verifying[c] = NoText /\ Built(Of(text))
  /\ clock <= UpperBound(text)
  /\ verifying' = [verifying EXCEPT ![c] = text]
  /\ UNCHANGED <<clock, minTime, redisUp>> /\ StoreKept

Held(claims, text) == claims[text] > clock

\* Mutant: the claim is a unit of time shorter than the challenge.
ClaimedShorter(claims, text) == [claims EXCEPT ![text] = clock + CHALLENGE_TTL - 1]

ClaimedIn(claims, text) == [claims EXCEPT ![text] = clock + CHALLENGE_TTL]

\* claimOnce: SET NX in Redis, else the map; a token for the one who claims.  An
\* answer of Redis that is lost ends the call without one.
ClaimOnce(c) ==
  LET text == verifying[c]
      claims == IF redisUp THEN redisClaims ELSE memoryClaims
      store == IF redisUp THEN "redis" ELSE "memory"
      taken == ClaimedIn(claims, text) IN
  /\ text # NoText
  /\ verifying' = [verifying EXCEPT ![c] = NoText]
  /\ IF Held(claims, text)
     THEN StoreKept
     ELSE /\ redisClaims' = IF redisUp THEN taken ELSE redisClaims
          /\ memoryClaims' = IF redisUp THEN memoryClaims ELSE taken
          /\ \/ given' = IF clock < UpperBound(text) THEN [given EXCEPT ![store][text] = @ + 1] ELSE given
             \/ redisUp /\ UNCHANGED given
  /\ UNCHANGED <<clock, minTime, redisUp>>

\* The client is dropped on an error and connected again after its cooldown.
RedisGoes ==
  /\ redisUp /\ redisUp' = FALSE
  /\ UNCHANGED <<clock, minTime, verifying>> /\ StoreKept

RedisReturns ==
  /\ ~redisUp /\ redisUp' = TRUE
  /\ UNCHANGED <<clock, minTime, verifying>> /\ StoreKept

Restart ==
  /\ memoryClaims' = [text \in Texts |-> 0]
  /\ given' = [given EXCEPT !["memory"] = [text \in Texts |-> 0]]
  /\ verifying' = [c \in VerifyCalls |-> NoText]
  /\ UNCHANGED <<clock, minTime, redisClaims, redisUp>>

Sep10Tick ==
  /\ clock < MaxSepTime
  /\ clock' = clock + 1
  /\ UNCHANGED <<minTime, redisUp, verifying>> /\ StoreKept

Sep10Init ==
  /\ clock = 0
  /\ minTime = [ch \in Challenges |-> NotBuilt]
  /\ redisClaims = [text \in Texts |-> 0]
  /\ memoryClaims = [text \in Texts |-> 0]
  /\ redisUp \in BOOLEAN
  /\ verifying = [c \in VerifyCalls |-> NoText]
  /\ given = [store \in {"redis", "memory"} |-> [text \in Texts |-> 0]]

Sep10Next ==
  \/ RedisGoes \/ RedisReturns \/ Restart \/ Sep10Tick
  \/ \E ch \in Challenges : BuildChallenge(ch)
  \/ \E c \in VerifyCalls : ClaimOnce(c) \/ \E text \in Texts : CheckChallenge(c, text)

Sep10Spec == Sep10Init /\ [][Sep10Next]_sep10Vars

-----------------------------------------------------------------------------
(* Properties. *)

\* "Challenge has already been used": while the claims stay in one store (Redis,
\* or one life of the process without it), a text of a challenge gives one token
\* before its upper time bound, however verifications interleave.  At the bound
\* itself the claim may be gone while a verification is still under way.  The
\* same challenge in another form has a claim, and gives a token, of its own.
TextUsedOnce == \A store \in {"redis", "memory"}, text \in Texts : given[store][text] <= 1
=============================================================================
