------------------------------ MODULE Webhook ------------------------------
(***************************************************************************)
(* Webhook delivery (services/webhook.service.ts and                       *)
(* webhook-delivery.worker.ts under src/apps/backend/src): an event makes  *)
(* one delivery per subscribed webhook, each delivery is attempted up to a *)
(* maximum, and every await of an attempt is a place where others run, the *)
(* webhook is deleted or the process dies.                                 *)
(***************************************************************************)
EXTENDS Naturals, FiniteSets

CONSTANTS
  Hooks,              \* webhooks users may create
  DeliveryIds,        \* bound: deliveries made
  Senders,            \* calls served at a time
  MaxAttempts,        \* WEBHOOK_MAX_ATTEMPTS
  MaxSenderCrashes,   \* bound: how often the process dies
  NoDelivery

ASSUME WebhookAssumption == MaxAttempts \in Nat /\ NoDelivery \notin DeliveryIds

VARIABLES
  hooks,         \* webhook -> "none", "active", "inactive" or "deleted"
  deliveries,    \* delivery -> its row, or NoRow
  redis,         \* REDIS_URL is set
  sender,        \* call -> where it is and what it has read
  senderCrashes,
  sent,          \* delivery -> requests that left (history)
  interrupted    \* deliveries whose attempt a crash cut short (history)

webhookVars == <<hooks, deliveries, redis, sender, senderCrashes, sent, interrupted>>

NoRow == [hook |-> "none", status |-> "none", count |-> 0, max |-> 0, retryAt |-> FALSE, test |-> FALSE]
NewRow(h, max, test) ==
  [hook |-> h, status |-> "pending", count |-> 0, max |-> max, retryAt |-> FALSE, test |-> test]
GoneRow == [NoRow EXCEPT !.status = "gone"]
Exists(d) == deliveries[d].status \notin {"none", "gone"}

Idle == [at |-> "idle", retries |-> FALSE, hooksLeft |-> {}, rowsLeft |-> {}, d |-> NoDelivery, count |-> 0]
SenderAt(w, place) == sender[w].at = place
Become(w, s) == sender' = [sender EXCEPT ![w] = s]
GoTo(w, place) == Become(w, [sender[w] EXCEPT !.at = place])

\* A loop goes on with what is left of it.
Onward(s) == IF s.hooksLeft = {} /\ s.rowsLeft = {} THEN Idle ELSE [s EXCEPT !.at = "next", !.d = NoDelivery]
Continue(w) == Become(w, Onward(sender[w]))
Abort(w) == Become(w, Idle) /\ UNCHANGED deliveries

SetRow(d, row) == deliveries' = [deliveries EXCEPT ![d] = row]
SetStatus(d, status) == SetRow(d, [deliveries[d] EXCEPT !.status = status])

KeepHooks == UNCHANGED <<hooks, redis, senderCrashes, interrupted>>

-----------------------------------------------------------------------------
(* Webhooks. *)

CreateWebhook(h) ==
  /\ hooks[h] = "none"
  /\ hooks' = [hooks EXCEPT ![h] = "active"]
  /\ UNCHANGED <<deliveries, redis, sender, senderCrashes, sent, interrupted>>

ToggleWebhook(h) ==
  /\ hooks[h] \in {"active", "inactive"}
  /\ hooks' = [hooks EXCEPT ![h] = IF @ = "active" THEN "inactive" ELSE "active"]
  /\ UNCHANGED <<deliveries, redis, sender, senderCrashes, sent, interrupted>>

\* The deliveries of a webhook are deleted with it.
DeleteWebhook(h) ==
  /\ hooks[h] \in {"active", "inactive"}
  /\ hooks' = [hooks EXCEPT ![h] = "deleted"]
  /\ deliveries' = [d \in DeliveryIds |-> IF deliveries[d].hook = h THEN GoneRow ELSE deliveries[d]]
  /\ UNCHANGED <<redis, sender, senderCrashes, sent, interrupted>>

-----------------------------------------------------------------------------
(* emitEvent, retryPendingDeliveries and enqueueDelivery. *)

EmitEvent(w) ==
  LET matching == {h \in Hooks : hooks[h] = "active"} IN
  /\ SenderAt(w, "idle") /\ matching # {}
  /\ Become(w, [Idle EXCEPT !.at = "next", !.hooksLeft = matching])
  /\ KeepHooks /\ UNCHANGED <<deliveries, sent>>

\* With a queue the job is added under a name the worker handles no jobs of, so
\* it fails there; without one, or when adding fails, the attempt is made here.
Enqueue(w, s, d) ==
  \/ redis /\ Become(w, Onward(s))
  \/ Become(w, [s EXCEPT !.at = "read", !.d = d])

\* Creating a delivery of a webhook that is gone fails and ends the loop.
EmitNext(w, h, d) ==
  /\ SenderAt(w, "next") /\ h \in sender[w].hooksLeft
  /\ deliveries[d] = NoRow
  /\ IF hooks[h] = "deleted" THEN Abort(w)
     ELSE /\ SetRow(d, NewRow(h, MaxAttempts, FALSE))
          /\ Enqueue(w, [sender[w] EXCEPT !.hooksLeft = @ \ {h}], d)
  /\ KeepHooks /\ UNCHANGED sent

\* Mutant: failed deliveries are taken up again.
RetryFailedToo(w) ==
  /\ SenderAt(w, "idle") /\ \A v \in Senders : ~sender[v].retries
  /\ \E due \in SUBSET {d \in DeliveryIds : deliveries[d].status \in {"retrying", "failed"} /\ deliveries[d].retryAt} :
       due # {} /\ Become(w, [Idle EXCEPT !.at = "next", !.retries = TRUE, !.rowsLeft = due])
  /\ KeepHooks /\ UNCHANGED <<deliveries, sent>>

\* The rows whose retry time has come.  One pass runs at a time; the source
\* leaves it to a caller to start one.
RetryPending(w) ==
  /\ SenderAt(w, "idle") /\ \A v \in Senders : ~sender[v].retries
  /\ \E due \in SUBSET {d \in DeliveryIds : deliveries[d].status = "retrying" /\ deliveries[d].retryAt} :
       due # {} /\ Become(w, [Idle EXCEPT !.at = "next", !.retries = TRUE, !.rowsLeft = due])
  /\ KeepHooks /\ UNCHANGED <<deliveries, sent>>

RetryNext(w, d) ==
  LET s == [sender[w] EXCEPT !.rowsLeft = @ \ {d}] IN
  /\ SenderAt(w, "next") /\ d \in sender[w].rowsLeft
  /\ IF ~Exists(d) THEN Abort(w)
     ELSE IF deliveries[d].count >= deliveries[d].max \/ hooks[deliveries[d].hook] # "active"
     THEN SetStatus(d, "failed") /\ Become(w, Onward(s))
     ELSE UNCHANGED deliveries /\ Enqueue(w, s, d)
  /\ KeepHooks /\ UNCHANGED sent

-----------------------------------------------------------------------------
(* processDelivery. *)

ReadDelivery(w) ==
  LET d == sender[w].d IN
  /\ SenderAt(w, "read")
  /\ CASE ~Exists(d) \/ deliveries[d].status = "delivered" -> Continue(w) /\ UNCHANGED deliveries
       [] Exists(d) /\ deliveries[d].status # "delivered" ->
            IF deliveries[d].count >= deliveries[d].max THEN SetStatus(d, "failed") /\ Continue(w)
            ELSE /\ Become(w, [sender[w] EXCEPT !.at = "mark", !.count = deliveries[d].count])
                 /\ UNCHANGED deliveries
  /\ KeepHooks /\ UNCHANGED sent

\* Mutant: the attempt is not counted before the request leaves.
MarkOnly(w) ==
  LET d == sender[w].d IN
  /\ SenderAt(w, "mark")
  /\ IF Exists(d) THEN SetStatus(d, "retrying") /\ GoTo(w, "send") ELSE Abort(w)
  /\ KeepHooks /\ UNCHANGED sent

\* The attempt is counted from the count that was read; no retry time is set.
MarkAttempt(w) ==
  LET d == sender[w].d IN
  /\ SenderAt(w, "mark")
  /\ IF Exists(d)
     THEN /\ SetRow(d, [deliveries[d] EXCEPT !.count = sender[w].count + 1, !.status = "retrying"])
          /\ GoTo(w, "send")
     ELSE Abort(w)
  /\ KeepHooks /\ UNCHANGED sent

Send(w) ==
  /\ sender[w].at \in {"send", "sendTest"}
  /\ sent' = [sent EXCEPT ![sender[w].d] = @ + 1]
  /\ GoTo(w, IF SenderAt(w, "send") THEN "answer" ELSE "answerTest")
  /\ KeepHooks /\ UNCHANGED deliveries

\* 2xx delivers; an answer that is not to be retried fails; one that is keeps
\* the row retrying even after the last attempt; no answer fails it then.
Answer(w) ==
  LET d == sender[w].d IN
  /\ SenderAt(w, "answer")
  /\ IF ~Exists(d) THEN Abort(w)
     ELSE /\ Continue(w)
          /\ \/ SetStatus(d, "delivered")
             \/ SetStatus(d, "failed")
             \/ SetRow(d, [deliveries[d] EXCEPT !.status = "retrying", !.retryAt = TRUE])
  /\ KeepHooks /\ UNCHANGED sent

\* testWebhook makes one delivery of one attempt, whatever the webhook's state.
TestWebhook(w, h, d) ==
  /\ SenderAt(w, "idle") /\ hooks[h] \in {"active", "inactive"}
  /\ deliveries[d] = NoRow
  /\ SetRow(d, NewRow(h, 1, TRUE))
  /\ Become(w, [Idle EXCEPT !.at = "sendTest", !.d = d])
  /\ KeepHooks /\ UNCHANGED sent

AnswerTest(w) ==
  LET d == sender[w].d IN
  /\ SenderAt(w, "answerTest")
  /\ IF ~Exists(d) THEN Abort(w)
     ELSE /\ \E status \in {"delivered", "failed"} :
               SetRow(d, [deliveries[d] EXCEPT !.status = status, !.count = 1])
          /\ Continue(w)
  /\ KeepHooks /\ UNCHANGED sent

\* The process dies, and all its calls with it.
SenderCrash ==
  /\ senderCrashes < MaxSenderCrashes
  /\ senderCrashes' = senderCrashes + 1
  /\ interrupted' = interrupted \cup {sender[w].d : w \in {v \in Senders : sender[v].at \in {"send", "answer"}}}
  /\ sender' = [w \in Senders |-> Idle]
  /\ UNCHANGED <<hooks, deliveries, redis, sent>>

WebhookInit ==
  /\ hooks = [h \in Hooks |-> "none"]
  /\ deliveries = [d \in DeliveryIds |-> NoRow]
  /\ redis \in BOOLEAN
  /\ sender = [w \in Senders |-> Idle]
  /\ senderCrashes = 0
  /\ sent = [d \in DeliveryIds |-> 0]
  /\ interrupted = {}

WebhookNext ==
  \/ \E h \in Hooks : CreateWebhook(h) \/ ToggleWebhook(h) \/ DeleteWebhook(h)
  \/ \E w \in Senders :
       \/ EmitEvent(w) \/ RetryPending(w) \/ ReadDelivery(w) \/ MarkAttempt(w) \/ Send(w) \/ Answer(w)
       \/ AnswerTest(w)
       \/ \E d \in DeliveryIds :
            RetryNext(w, d) \/ \E h \in Hooks : EmitNext(w, h, d) \/ TestWebhook(w, h, d)
  \/ SenderCrash

WebhookSpec == WebhookInit /\ [][WebhookNext]_webhookVars

-----------------------------------------------------------------------------
(* Properties. *)

WebhookTypeOK ==
  /\ hooks \in [Hooks -> {"none", "active", "inactive", "deleted"}]
  /\ \A d \in DeliveryIds :
       deliveries[d].status \in {"none", "pending", "retrying", "delivered", "failed", "gone"}
  /\ \A w \in Senders :
       sender[w].at \in {"idle", "next", "read", "mark", "send", "answer", "sendTest", "answerTest"}

\* No receiver gets more requests than the delivery's maximum, and no event
\* more than were counted, whatever dies between counting and sending.
AttemptsCounted ==
  \A d \in DeliveryIds : Exists(d) =>
    /\ sent[d] <= deliveries[d].max
    /\ ~deliveries[d].test => sent[d] <= deliveries[d].count

\* A delivery is never left 'retrying' without a retry time, where no query for
\* due retries finds it, by anything but a crash during its first attempt.
RetryScheduled ==
  \A d \in DeliveryIds : deliveries[d].status = "retrying" /\ ~deliveries[d].retryAt =>
    d \in interrupted \/ \E w \in Senders : sender[w].d = d /\ sender[w].at \in {"send", "answer"}

\* A delivery that is delivered or has failed is never attempted again and
\* keeps its outcome, for as long as it is stored.
SettledIsFinal ==
  [][\A d \in DeliveryIds :
       deliveries[d].status \in {"delivered", "failed"} /\ deliveries'[d].status # "gone" =>
         /\ deliveries'[d].status = deliveries[d].status
         /\ sent'[d] = sent[d]]_webhookVars

\* What deliveries keep between them: well-formed rows, no request that was not
\* counted, and none left where no pass finds it.
WebhookInv == WebhookTypeOK /\ AttemptsCounted /\ RetryScheduled
=============================================================================
