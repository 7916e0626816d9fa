----------------------------- MODULE AuthSessions -----------------------------
(***************************************************************************)
(* Sessions of one user: services/auth.service.ts and the change of a      *)
(* user's status in services/admin.service.ts.  A session is a chain of    *)
(* refresh tokens; a refresh reads the row of the token it is shown,       *)
(* revokes it and creates the next one, in three separate statements.      *)
(* A token past its seven days is refused before anything is read and      *)
(* changes nothing, so time is left out.                                   *)
(***************************************************************************)
EXTENDS Naturals, Sequences, FiniteSets

CONSTANTS
  AuthCalls,         \* requests served at a time
  MaxTokens,         \* bound: refresh tokens issued
  MaxStatusChanges,  \* bound: changes of the user's status
  MaxAuthCrashes     \* bound: how often the process dies

ASSUME AuthAssumption == IsFiniteSet(AuthCalls)

VARIABLES
  user,           \* "none", or the status of the User row
  tokens,         \* RefreshToken rows in the order of creation: [live, from, root]
  request,        \* call -> where it is and the token it has read
  statusChanges, authCrashes,
  raced,          \* tokens rotated while another refresh had read them (history)
  loggedOut,      \* first tokens of the sessions that were all revoked (history)
  escaped,        \* of these, the ones with a refresh in flight then (history)
  late            \* tokens that may still be issued to a suspended user (history)

authVars == <<user, tokens, request, statusChanges, authCrashes, raced, loggedOut, escaped, late>>

NoRequest == [at |-> "none", token |-> 0]
Stands(c, place) == request[c].at = place
Goes(c, place, t) == request' = [request EXCEPT ![c] = [at |-> place, token |-> t]]
Returns(c) == request' = [request EXCEPT ![c] = NoRequest]
Refreshing(t) == {c \in AuthCalls : request[c].token = t /\ request[c].at \in {"rotate", "next"}}
Rows(except) == UNCHANGED <<statusChanges, authCrashes, raced>> /\ (except # "late" => UNCHANGED late)
KeepLogouts == UNCHANGED <<loggedOut, escaped>>

Created(from) ==
  LET id == Len(tokens) + 1 IN
  /\ id <= MaxTokens
  /\ tokens' = Append(tokens, [live |-> TRUE, from |-> from, root |-> IF from = 0 THEN id ELSE tokens[from].root])
  /\ late' = IF user = "active" \/ late = 0 THEN late ELSE late - 1

-----------------------------------------------------------------------------
(* register and login. *)

ReadEmail(c) ==
  /\ Stands(c, "none") /\ user = "none"
  /\ Goes(c, "register", 0)
  /\ UNCHANGED <<user, tokens>> /\ KeepLogouts /\ Rows("")

\* The email is unique: the second of two registrations fails here.
CreateUser(c) ==
  /\ Stands(c, "register")
  /\ IF user = "none" THEN user' = "active" /\ Goes(c, "issue", 0)
                      ELSE UNCHANGED user /\ Returns(c)
  /\ UNCHANGED tokens /\ KeepLogouts /\ Rows("")

\* assertUserEligible on the row that was read, after the password was compared.
ReadForLogin(c) ==
  /\ Stands(c, "none") /\ user = "active"
  /\ Goes(c, "issue", 0)
  /\ UNCHANGED <<user, tokens>> /\ KeepLogouts /\ Rows("")

IssueSession(c) ==
  /\ Stands(c, "issue")
  /\ Created(0)
  /\ Returns(c)
  /\ UNCHANGED user /\ KeepLogouts /\ Rows("late")

-----------------------------------------------------------------------------
(* refreshAccessToken and logout. *)

\* updateMany: every live token of the user is revoked.
RevokeAll ==
  LET live == {t \in DOMAIN tokens : tokens[t].live}
      roots == {tokens[t].root : t \in DOMAIN tokens} IN
  /\ tokens' = [t \in DOMAIN tokens |-> [tokens[t] EXCEPT !.live = FALSE]]
  /\ loggedOut' = loggedOut \cup roots
  /\ escaped' = escaped \cup {r \in roots : \E t \in DOMAIN tokens : tokens[t].root = r /\ Refreshing(t) # {}}

\* Mutant: the user's status is not looked at.
ReadOfAnybody(c, t) ==
  /\ Stands(c, "none") /\ t \in DOMAIN tokens
  /\ IF tokens[t].live
     THEN Goes(c, "rotate", t) /\ UNCHANGED tokens /\ KeepLogouts
     ELSE UNCHANGED request /\ RevokeAll
  /\ UNCHANGED user /\ Rows("")

\* Mutant: a revoked token is as good as a live one.
ReadRevoked(c, t) ==
  /\ Stands(c, "none") /\ t \in DOMAIN tokens /\ user = "active"
  /\ Goes(c, "rotate", t)
  /\ UNCHANGED <<user, tokens>> /\ KeepLogouts /\ Rows("")

\* A revoked token that is shown again revokes every session.
ReadForRefresh(c, t) ==
  /\ Stands(c, "none") /\ t \in DOMAIN tokens
  /\ IF tokens[t].live
     THEN user = "active" /\ Goes(c, "rotate", t) /\ UNCHANGED tokens /\ KeepLogouts
     ELSE UNCHANGED request /\ RevokeAll
  /\ UNCHANGED user /\ Rows("")

\* update by id, whatever the row is by then.
Rotate(c) ==
  LET t == request[c].token IN
  /\ Stands(c, "rotate")
  /\ tokens' = [tokens EXCEPT ![t].live = FALSE]
  /\ raced' = IF Refreshing(t) # {c} THEN raced \cup {t} ELSE raced
  /\ Goes(c, "next", t)
  /\ UNCHANGED <<user, statusChanges, authCrashes, late>> /\ KeepLogouts

CreateNext(c) ==
  /\ Stands(c, "next")
  /\ Created(request[c].token)
  /\ Returns(c)
  /\ UNCHANGED user /\ KeepLogouts /\ Rows("late")

\* The device's token; the read before it only decides whether to write.
Logout(t) ==
  /\ t \in DOMAIN tokens /\ tokens[t].live
  /\ tokens' = [tokens EXCEPT ![t].live = FALSE]
  /\ UNCHANGED <<user, request>> /\ KeepLogouts /\ Rows("")

LogoutEverywhere ==
  /\ tokens # <<>> /\ RevokeAll
  /\ UNCHANGED <<user, request>> /\ Rows("")

\* updateUserStatus leaves the tokens alone.
UpdateUserStatus(status) ==
  /\ user \notin {"none", status} /\ statusChanges < MaxStatusChanges
  /\ user' = status
  /\ statusChanges' = statusChanges + 1
  /\ late' = IF user = "active" THEN Cardinality({c \in AuthCalls : request[c].at \in {"issue", "rotate", "next"}})
                                ELSE late
  /\ UNCHANGED <<tokens, request, authCrashes, raced>> /\ KeepLogouts

AuthCrash ==
  /\ authCrashes < MaxAuthCrashes
  /\ authCrashes' = authCrashes + 1
  /\ request' = [c \in AuthCalls |-> NoRequest]
  /\ UNCHANGED <<user, tokens, statusChanges, raced, late>> /\ KeepLogouts

AuthInit ==
  /\ user = "none" /\ tokens = <<>>
  /\ request = [c \in AuthCalls |-> NoRequest]
  /\ statusChanges = 0 /\ authCrashes = 0
  /\ raced = {} /\ loggedOut = {} /\ escaped = {} /\ late = 0

AuthNext ==
  \/ LogoutEverywhere \/ AuthCrash
  \/ \E t \in 1..MaxTokens : Logout(t)
  \/ \E status \in {"active", "suspended", "banned"} : UpdateUserStatus(status)
  \/ \E c \in AuthCalls :
       \/ ReadEmail(c) \/ CreateUser(c) \/ ReadForLogin(c) \/ IssueSession(c)
       \/ \E t \in 1..MaxTokens : ReadForRefresh(c, t)
       \/ Rotate(c) \/ CreateNext(c)

AuthSpec == AuthInit /\ [][AuthNext]_authVars

-----------------------------------------------------------------------------
(* Properties. *)

\* Every token belongs to a session that was started by an earlier token or by
\* a login, and tokens are only issued to a registered user.
AuthTypeOK ==
  /\ \A t \in DOMAIN tokens : tokens[t].from < t /\ tokens[tokens[t].root].from = 0
  /\ tokens # <<>> => user # "none"

\* Rotation: a refresh token gives one successor, unless two refreshes had read
\* it before either had revoked it.
RotatedOnce ==
  \A t \in DOMAIN tokens \ raced : Cardinality({u \in DOMAIN tokens : tokens[u].from = t}) <= 1

\* "All sessions have been revoked": no session that existed when all of them
\* were revoked has a live token afterwards, except one that had a refresh in
\* flight at that moment.
LoggedOutEverywhere ==
  \A t \in DOMAIN tokens : tokens[t].live => tokens[t].root \notin loggedOut \ escaped

\* A suspended or banned user gets no token any more but those of the requests
\* that had passed the check when the status changed.
SuspendedGetNoMore ==
  [][Len(tokens') > Len(tokens) /\ user # "active" => late > 0]_authVars

\* What the tokens of a user keep: chains that do not fork and that end where
\* all of them were revoked.
AuthInv == AuthTypeOK /\ RotatedOnce /\ LoggedOutEverywhere
=============================================================================
