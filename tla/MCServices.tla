------------------------------- MODULE MCServices -------------------------------
(***************************************************************************)
(* The services of the backend that keep tables, counters or claims of     *)
(* their own.  In each behaviour one of them, `focus', is used: they share *)
(* no row, so their steps commute.                                         *)
(***************************************************************************)
EXTENDS Webhook, PaymentReview, Sep24, AuthSessions, Sep10, SecurityGate, RateLimit, FxConversion

CONSTANT Focus       \* the services that are used

MCAuthMax == [flagged \in BOOLEAN |-> IF flagged THEN 1 ELSE 2]

VARIABLE focus

\* Only the service s changes.
Only(s) ==
  /\ UNCHANGED focus
  /\ s # "webhook" => UNCHANGED webhookVars
  /\ s # "review" => UNCHANGED reviewVars
  /\ s # "sep24" => UNCHANGED sepVars
  /\ s # "auth" => UNCHANGED authVars
  /\ s # "sep10" => UNCHANGED sep10Vars
  /\ s # "gate" => UNCHANGED gateVars
  /\ s # "limit" => UNCHANGED limitVars
  /\ s # "fx" => UNCHANGED fxVars

MCInit ==
  /\ focus \in Focus
  /\ WebhookInit
  /\ ReviewInit
  /\ SepInit
  /\ AuthInit
  /\ Sep10Init
  /\ GateInit
  /\ LimitInit
  /\ FxInit
  /\ (focus # "webhook" => redis) /\ (focus # "sep10" => redisUp)
  /\ (focus # "gate" => shared) /\ (focus # "limit" => reached)
  /\ focus # "fx" => \A funding \in SourceFunds : funding <= funds

MCNext ==
  \/ focus = "webhook" /\ WebhookNext /\ Only("webhook")
  \/ focus = "review" /\ ReviewNext /\ Only("review")
  \/ focus = "sep24" /\ SepNext /\ Only("sep24")
  \/ focus = "auth" /\ AuthNext /\ Only("auth")
  \/ focus = "sep10" /\ Sep10Next /\ Only("sep10")
  \/ focus = "gate" /\ GateNext /\ Only("gate")
  \/ focus = "limit" /\ LimitNext /\ Only("limit")
  \/ focus = "fx" /\ FxNext /\ Only("fx")

servicesVars ==
  <<focus, webhookVars, reviewVars, sepVars, authVars, sep10Vars, gateVars, limitVars, fxVars>>

MCSpec == MCInit /\ [][MCNext]_servicesVars
=============================================================================
