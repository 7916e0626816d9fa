----------------------------- MODULE Governance -----------------------------
(***************************************************************************)
(* The governance contract (contracts/governance/src/lib.rs under          *)
(* src/apps/contracts): votes on proposals, weighted by what the voter     *)
(* holds of the governance token at that moment and by what others         *)
(* delegated to the voter, as it was when they did.                        *)
(***************************************************************************)
EXTENDS Soroban, Sequences, FiniteSetsExt

CONSTANTS
  GovernanceToken,   \* the token that initialize is called with
  VotingWindows,     \* [start, end] of proposals
  Quorums,           \* quorum of proposals
  Thresholds,        \* threshold of proposals, in BPS_DENOMINATOR parts
  BPS_DENOMINATOR,
  TradeAmounts,      \* amounts holders trade among themselves
  NoDelegate,        \* no Delegation is stored
  MaxProposals       \* bound: proposals created

ASSUME GovernanceAssumption ==
  /\ GovernanceToken \in Assets /\ NoDelegate \notin Accounts
  /\ BPS_DENOMINATOR \in Nat \ {0} /\ TradeAmounts \subseteq Nat
  /\ \A w \in VotingWindows : w.start \in Nat /\ w.end \in Nat

VARIABLES
  governanceReady,   \* Token is stored
  proposals,         \* proposals[id + 1]
  ballots,           \* Vote(voter, id): a set of records
  delegation,        \* Delegate(delegator): [to, amount]
  delegatedPower     \* DelegatedPower(delegatee)

governanceVars == <<hostVars, governanceReady, proposals, ballots, delegation, delegatedPower>>

AtLeastZero(n) == IF n > 0 THEN n ELSE 0

VotingPowerOf(voter) ==
  delegatedPower[voter]
    + (IF delegation[voter].to = NoDelegate THEN balance[GovernanceToken][voter] ELSE 0)

HasPassed(p) ==
  LET total == p.for + p.against IN
  /\ total > 0 /\ total >= p.quorum
  /\ p.for * BPS_DENOMINATOR >= total * p.threshold

InitializeGovernance ==
  /\ ~governanceReady
  /\ governanceReady' = TRUE
  /\ UNCHANGED <<hostVars, proposals, ballots, delegation, delegatedPower>>

CreateProposal(proposer, window, quorum, threshold) ==
  /\ governanceReady
  /\ Len(proposals) < MaxProposals
  /\ window.start < window.end /\ window.end > now
  /\ threshold <= BPS_DENOMINATOR
  /\ VotingPowerOf(proposer) > 0
  /\ proposals' = Append(proposals,
       [start |-> window.start, end |-> window.end, for |-> 0, against |-> 0,
        quorum |-> quorum, threshold |-> threshold, executed |-> FALSE])
  /\ UNCHANGED <<hostVars, governanceReady, ballots, delegation, delegatedPower>>

HasVoted(voter, id) == \E b \in ballots : b.voter = voter /\ b.id = id

CountVote(voter, id, support) ==
  LET power == VotingPowerOf(voter) IN
  /\ power > 0
  /\ proposals' = IF support THEN [proposals EXCEPT ![id].for = @ + power]
                             ELSE [proposals EXCEPT ![id].against = @ + power]
  /\ ballots' = ballots \cup {[voter |-> voter, id |-> id, support |-> support, power |-> power]}
  /\ UNCHANGED <<hostVars, governanceReady, delegation, delegatedPower>>

\* Mutant: the vote is still counted at the end time.
CastVoteAtEnd(voter, id, support) ==
  /\ proposals[id].start <= now /\ now <= proposals[id].end
  /\ ~HasVoted(voter, id)
  /\ CountVote(voter, id, support)

CastVote(voter, id, support) ==
  /\ proposals[id].start <= now /\ now < proposals[id].end
  /\ ~HasVoted(voter, id)
  /\ CountVote(voter, id, support)

ExecuteProposal(id) ==
  /\ ~proposals[id].executed
  /\ now >= proposals[id].end
  /\ HasPassed(proposals[id])
  /\ proposals' = [proposals EXCEPT ![id].executed = TRUE]
  /\ UNCHANGED <<hostVars, governanceReady, ballots, delegation, delegatedPower>>

\* Mutant: it is taken back with what the delegator holds now.
DelegateLive(delegator, delegatee) ==
  LET held == balance[GovernanceToken][delegator]
      prev == delegation[delegator]
      unwound == IF prev.to = NoDelegate THEN delegatedPower
                 ELSE [delegatedPower EXCEPT ![prev.to] = AtLeastZero(@ - held)] IN
  /\ governanceReady
  /\ delegatedPower' = [unwound EXCEPT ![delegatee] = AtLeastZero(@ + held)]
  /\ delegation' = [delegation EXCEPT ![delegator] = [to |-> delegatee, amount |-> held]]
  /\ UNCHANGED <<hostVars, governanceReady, proposals, ballots>>

\* The former delegation is taken back first, with the amount it was made with.
Delegate(delegator, delegatee) ==
  LET held == balance[GovernanceToken][delegator]
      prev == delegation[delegator]
      unwound == IF prev.to = NoDelegate THEN delegatedPower
                 ELSE [delegatedPower EXCEPT ![prev.to] = AtLeastZero(@ - prev.amount)] IN
  /\ governanceReady
  /\ delegatedPower' = [unwound EXCEPT ![delegatee] = AtLeastZero(@ + held)]
  /\ delegation' = [delegation EXCEPT ![delegator] = [to |-> delegatee, amount |-> held]]
  /\ UNCHANGED <<hostVars, governanceReady, proposals, ballots>>

\* Holders trade the token whatever they voted or delegated.
TradeToken(from, to, amount) ==
  /\ from # to
  /\ Transfer(GovernanceToken, from, to, amount)
  /\ UNCHANGED <<now, governanceReady, proposals, ballots, delegation, delegatedPower>>

GovernanceStart ==
  /\ governanceReady = FALSE
  /\ proposals = <<>>
  /\ ballots = {}
  /\ delegation = [a \in Accounts |-> [to |-> NoDelegate, amount |-> 0]]
  /\ delegatedPower = [a \in Accounts |-> 0]

GovernanceInit == HostInit /\ GovernanceStart

GovernanceNext ==
  \/ Tick /\ UNCHANGED <<governanceReady, proposals, ballots, delegation, delegatedPower>>
  \/ InitializeGovernance
  \/ \E a \in Accounts, w \in VotingWindows, q \in Quorums, t \in Thresholds :
       CreateProposal(a, w, q, t)
  \/ \E a, b \in Accounts : Delegate(a, b) \/ (\E n \in TradeAmounts : TradeToken(a, b, n))
  \/ \E id \in DOMAIN proposals :
       \/ ExecuteProposal(id)
       \/ \E a \in Accounts, support \in BOOLEAN : CastVote(a, id, support)

GovernanceSpec == GovernanceInit /\ [][GovernanceNext]_governanceVars

-----------------------------------------------------------------------------
(* Properties. *)

GovernanceTypeOK ==
  /\ HostTypeOK
  /\ governanceReady \in BOOLEAN
  /\ delegatedPower \in [Accounts -> Nat]
  /\ \A a \in Accounts : delegation[a].to \in Accounts \cup {NoDelegate}

\* The power a delegatee has from others is what those who delegate to it
\* now delegated: the saturation at zero never bites, although balances move
\* between a delegation and its withdrawal.
DelegationsAddUp ==
  \A b \in Accounts :
    delegatedPower[b] =
      SumFunctionOnSet([a \in Accounts |-> delegation[a].amount],
                       {a \in Accounts : delegation[a].to = b})

\* Every tally is the sum of the ballots stored for it, one for each voter.
TalliesAreBallots ==
  \A id \in DOMAIN proposals :
    LET of(support) == {b \in ballots : b.id = id /\ b.support = support}
        tally(support) == SumFunctionOnSet([b \in ballots |-> b.power], of(support)) IN
    /\ proposals[id].for = tally(TRUE)
    /\ proposals[id].against = tally(FALSE)
    /\ \A b1, b2 \in of(TRUE) \cup of(FALSE) : b1.voter = b2.voter => b1 = b2

\* What was executed had passed and stays passed: no vote that comes in after
\* the end changes the outcome of a proposal.
OutcomeIsFinal ==
  [][\A id \in DOMAIN proposals :
       now >= proposals[id].end =>
         /\ HasPassed(proposals'[id]) <=> HasPassed(proposals[id])
         /\ proposals[id].executed => proposals'[id] = proposals[id]]_governanceVars
=============================================================================
