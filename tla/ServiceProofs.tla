---------------------------- MODULE ServiceProofs ----------------------------
(***************************************************************************)
(* Theorems about the services that keep rows or claims of their own, for  *)
(* every number of rows, calls in progress and crashes: webhook delivery,  *)
(* the review of payments, SEP-10 challenges and the sessions of a user.   *)
(* They share no variable: each part speaks of the specification of one.   *)
(***************************************************************************)
EXTENDS Webhook, PaymentReview, Sep10, AuthSessions, FiniteSetTheorems, SequenceTheorems, TLAPS

-----------------------------------------------------------------------------
(* Webhook delivery: the inductive invariant. *)

DeliveryRows ==
  [hook : Hooks \cup {"none"},
   status : {"none", "pending", "retrying", "delivered", "failed", "gone"},
   count : Nat, max : Nat, retryAt : BOOLEAN, test : BOOLEAN]
SenderStates ==
  [at : {"idle", "next", "read", "mark", "send", "answer", "sendTest", "answerTest"},
   retries : BOOLEAN, hooksLeft : SUBSET Hooks, rowsLeft : SUBSET DeliveryIds,
   d : DeliveryIds \cup {NoDelivery}, count : Nat]

WebhookTypes ==
  /\ hooks \in [Hooks -> {"none", "active", "inactive", "deleted"}]
  /\ deliveries \in [DeliveryIds -> DeliveryRows]
  /\ sender \in [Senders -> SenderStates]
  /\ sent \in [DeliveryIds -> Nat]

\* A call has a delivery before it: the one it attempts or one of its pass.
Has(w, d) == sender[w].d = d \/ d \in sender[w].rowsLeft

\* A delivery is before one call at a time: the one that created it, or the one
\* pass over the rows that are due.
OneHolder ==
  /\ \A v, w \in Senders : sender[v].retries /\ sender[w].retries => v = w
  /\ \A v, w \in Senders, d \in DeliveryIds : Has(v, d) /\ Has(w, d) => v = w

\* What a call that attempts a delivery has read is still so, unless the row is
\* gone.
Attempting == {"read", "mark", "send", "answer"}
Testing == {"sendTest", "answerTest"}
SenderSound(w) ==
  LET s == sender[w]
      row == deliveries[s.d]
  IN
  /\ s.at = "idle" => s = Idle
  /\ s.at = "next" => s.d = NoDelivery
  /\ s.at \in Attempting \cup Testing => s.d \in DeliveryIds /\ s.d \notin s.rowsLeft
  /\ s.rowsLeft # {} => s.retries
  /\ \A d \in DeliveryIds : Has(w, d) => deliveries[d].status \in {"pending", "retrying", "gone"}
  /\ \A d \in s.rowsLeft : Exists(d) => deliveries[d].status = "retrying" /\ ~deliveries[d].test
  /\ s.at \in Attempting /\ Exists(s.d) =>
       /\ ~row.test /\ (~s.retries => ~row.retryAt)
       /\ s.at = "mark" => s.count = row.count /\ row.count < row.max
       /\ s.at = "send" => sent[s.d] < row.count
       /\ s.at \in {"send", "answer"} => row.status = "retrying"
  /\ s.at \in Testing /\ Exists(s.d) =>
       /\ row.test /\ row.status = "pending" /\ ~s.retries
       /\ s.at = "sendTest" => sent[s.d] = 0

\* A row was counted before each request it is sent with.
RowSound(d) ==
  LET row == deliveries[d] IN
  /\ row.status = "none" => row = NoRow /\ sent[d] = 0
  /\ Exists(d) =>
       /\ row.hook \in Hooks
       /\ row.test => row.max = 1 /\ sent[d] <= 1 /\ ~row.retryAt /\ row.status # "retrying"
       /\ ~row.test => sent[d] <= row.count /\ row.count <= row.max

WebhookSound ==
  /\ WebhookTypes /\ OneHolder /\ RetryScheduled
  /\ \A w \in Senders : SenderSound(w)
  /\ \A d \in DeliveryIds : RowSound(d)

-----------------------------------------------------------------------------
(* Webhook delivery: every step keeps the invariant. *)

LEMMA IdleSender == Idle \in SenderStates
  BY DEF Idle, SenderStates

LEMMA NoRowType == NoRow \in DeliveryRows /\ GoneRow \in DeliveryRows /\ GoneRow.status = "gone"
  BY DEF NoRow, GoneRow, DeliveryRows

\* A call that goes on has its hooks and rows left before it, and no delivery.
LEMMA OnwardIs ==
  ASSUME NEW s \in SenderStates
  PROVE  /\ Onward(s) \in SenderStates /\ Onward(s).d = NoDelivery
         /\ Onward(s).at \in {"idle", "next"} /\ (Onward(s).at = "idle" => Onward(s) = Idle)
         /\ Onward(s).rowsLeft = s.rowsLeft
         /\ Onward(s).retries => s.retries
         /\ s.rowsLeft # {} => Onward(s).retries = s.retries
<1> DEFINE x == [s EXCEPT !.at = "next", !.d = NoDelivery]
<1>1. /\ x \in SenderStates /\ x.at = "next" /\ x.d = NoDelivery
      /\ x.rowsLeft = s.rowsLeft /\ x.retries = s.retries
  BY DEF SenderStates
<1>2. Onward(s) = IF s.hooksLeft = {} /\ s.rowsLeft = {} THEN Idle ELSE x
  BY DEF Onward
<1> HIDE DEF x
<1>3. CASE s.hooksLeft = {} /\ s.rowsLeft = {}
  BY <1>2, <1>3, IdleSender DEF Idle
<1>4. CASE ~(s.hooksLeft = {} /\ s.rowsLeft = {})
  BY <1>1, <1>2, <1>4
<1> QED
  BY <1>3, <1>4

\* A call that takes no step, and whose rows are left alone or deleted.
LEMMA OtherSender ==
  ASSUME NEW v \in Senders, SenderSound(v), sender'[v] = sender[v],
         sender[v].rowsLeft \subseteq DeliveryIds,
         \A d \in DeliveryIds : Has(v, d) =>
           \/ deliveries'[d] = deliveries[d] /\ sent'[d] = sent[d]
           \/ deliveries'[d].status = "gone"
  PROVE  SenderSound(v)'
  BY DEF SenderSound, Has, Exists, Attempting, Testing

\* A step of call w, which becomes x, on rows that no other call has.
LEMMA SenderStep ==
  ASSUME WebhookSound, NEW w \in Senders, NEW x \in SenderStates, Become(w, x), KeepHooks,
         deliveries' \in [DeliveryIds -> DeliveryRows], sent' \in [DeliveryIds -> Nat],
         SenderSound(w)',
         \A d \in DeliveryIds :
           \/ deliveries'[d] = deliveries[d] /\ sent'[d] = sent[d]
           \/ RowSound(d)' /\ \A v \in Senders : v # w => ~Has(v, d),
         x.retries => sender[w].retries \/ \A v \in Senders : ~sender[v].retries,
         \A d \in DeliveryIds : x.d = d \/ d \in x.rowsLeft =>
           \A v \in Senders : v # w => ~Has(v, d),
         \A d \in DeliveryIds : deliveries'[d].status = "retrying" /\ ~deliveries'[d].retryAt =>
           \/ x.d = d /\ x.at \in {"send", "answer"}
           \/ /\ deliveries[d].status = "retrying" /\ ~deliveries[d].retryAt
              /\ ~(sender[w].d = d /\ sender[w].at \in {"send", "answer"})
  PROVE  WebhookSound'
<1>0. /\ sender' = [sender EXCEPT ![w] = x] /\ UNCHANGED <<hooks, interrupted>>
      /\ sender \in [Senders -> SenderStates] /\ WebhookTypes
  BY DEF Become, KeepHooks, WebhookSound, WebhookTypes
<1>1. sender' \in [Senders -> SenderStates] /\ sender'[w] = x
      /\ \A v \in Senders : v # w => sender'[v] = sender[v]
  BY <1>0
<1>2. WebhookTypes'
  BY <1>0, <1>1 DEF WebhookTypes
<1>3. OneHolder'
  BY <1>1 DEF OneHolder, WebhookSound, Has
<1>4. RetryScheduled'
  BY <1>0, <1>1 DEF RetryScheduled, WebhookSound
<1>5. ASSUME NEW v \in Senders PROVE SenderSound(v)'
  <2>1. CASE v = w
    BY <2>1
  <2>2. CASE v # w
    <3>1. sender[v].rowsLeft \subseteq DeliveryIds
      BY <1>0 DEF SenderStates
    <3> QED
      BY <1>1, <2>2, <3>1, OtherSender DEF WebhookSound
  <2> QED
    BY <2>1, <2>2
<1>6. ASSUME NEW d \in DeliveryIds PROVE RowSound(d)'
  BY DEF WebhookSound, RowSound, Exists
<1> QED
  BY <1>2, <1>3, <1>4, <1>5, <1>6 DEF WebhookSound

\* The hooks change, or rows are deleted with their hook.
LEMMA HooksStep ==
  ASSUME WebhookSound, NEW h \in Hooks,
         CreateWebhook(h) \/ ToggleWebhook(h) \/ DeleteWebhook(h)
  PROVE  WebhookSound'
<1>0. /\ WebhookTypes /\ UNCHANGED <<sender, sent, interrupted>>
      /\ sender \in [Senders -> SenderStates]
  BY DEF WebhookSound, WebhookTypes, CreateWebhook, ToggleWebhook, DeleteWebhook
<1>1. hooks' \in [Hooks -> {"none", "active", "inactive", "deleted"}]
  BY <1>0 DEF WebhookTypes, CreateWebhook, ToggleWebhook, DeleteWebhook
<1>2. /\ deliveries' \in [DeliveryIds -> DeliveryRows]
      /\ \A d \in DeliveryIds : deliveries'[d] = deliveries[d] \/ deliveries'[d].status = "gone"
  BY <1>0, NoRowType DEF WebhookTypes, CreateWebhook, ToggleWebhook, DeleteWebhook
<1>3. WebhookTypes'
  BY <1>0, <1>1, <1>2 DEF WebhookTypes
<1>4. OneHolder'
  BY <1>0 DEF OneHolder, WebhookSound, Has
<1>5. RetryScheduled'
  BY <1>0, <1>2 DEF RetryScheduled, WebhookSound
<1>6. ASSUME NEW v \in Senders PROVE SenderSound(v)'
  <2>1. sender[v].rowsLeft \subseteq DeliveryIds
    BY <1>0 DEF SenderStates
  <2> QED
    BY <1>0, <1>2, <2>1, OtherSender DEF WebhookSound
<1>7. ASSUME NEW d \in DeliveryIds PROVE RowSound(d)'
  BY <1>0, <1>2 DEF WebhookSound, RowSound, Exists
<1> QED
  BY <1>3, <1>4, <1>5, <1>6, <1>7 DEF WebhookSound

LEMMA CrashStep ==
  ASSUME WebhookSound, SenderCrash
  PROVE  WebhookSound'
<1>0. /\ WebhookTypes /\ UNCHANGED <<hooks, deliveries, sent>>
      /\ sender' = [v \in Senders |-> Idle]
      /\ interrupted' = interrupted \cup
           {sender[w].d : w \in {v \in Senders : sender[v].at \in {"send", "answer"}}}
  BY DEF WebhookSound, SenderCrash
<1>1. /\ sender' \in [Senders -> SenderStates] /\ \A v \in Senders : sender'[v] = Idle
  BY <1>0, IdleSender
<1>2. WebhookTypes'
  BY <1>0, <1>1 DEF WebhookTypes
<1>3. \A d \in DeliveryIds, v \in Senders : ~Has(v, d)' /\ ~sender'[v].retries
  BY <1>1, WebhookAssumption DEF Has, Idle
<1>4. OneHolder'
  BY <1>1, WebhookAssumption DEF OneHolder, Has, Idle
<1>5. RetryScheduled'
  BY <1>0 DEF RetryScheduled, WebhookSound
<1>6. \A v \in Senders : SenderSound(v)'
  BY <1>1, <1>3 DEF SenderSound, Idle, Attempting, Testing
<1>7. \A d \in DeliveryIds : RowSound(d)'
  BY <1>0 DEF WebhookSound, RowSound, Exists
<1> QED
  BY <1>2, <1>4, <1>5, <1>6, <1>7 DEF WebhookSound

\* A call begins a pass over hooks or rows.
LEMMA BeginStep ==
  ASSUME WebhookSound, NEW w \in Senders, EmitEvent(w) \/ RetryPending(w)
  PROVE  WebhookSound'
<1>0. /\ WebhookTypes /\ sender \in [Senders -> SenderStates] /\ sender[w].at = "idle"
      /\ sender[w] = Idle /\ KeepHooks /\ UNCHANGED <<deliveries, sent>>
  BY DEF WebhookSound, WebhookTypes, SenderSound, EmitEvent, RetryPending, SenderAt
<1>1. PICK x : /\ Become(w, x) /\ x \in SenderStates /\ x.at = "next" /\ x.d = NoDelivery
               /\ \/ x.retries = FALSE /\ x.rowsLeft = {}
                  \/ /\ \A v \in Senders : ~sender[v].retries
                     /\ x.retries = TRUE
                     /\ \A d \in x.rowsLeft : deliveries[d].status = "retrying" /\ deliveries[d].retryAt
  <2>1. CASE EmitEvent(w)
    <3> DEFINE x == [Idle EXCEPT !.at = "next", !.hooksLeft = {h \in Hooks : hooks[h] = "active"}]
    <3>1. /\ x \in SenderStates /\ x.at = "next" /\ x.d = NoDelivery
          /\ x.retries = FALSE /\ x.rowsLeft = {}
      BY DEF Idle, SenderStates
    <3>2. Become(w, x)
      BY <2>1 DEF EmitEvent
    <3> HIDE DEF x
    <3> QED
      BY <3>1, <3>2
  <2>2. CASE RetryPending(w)
    <3>1. PICK due \in SUBSET {d \in DeliveryIds : deliveries[d].status = "retrying" /\ deliveries[d].retryAt} :
            Become(w, [Idle EXCEPT !.at = "next", !.retries = TRUE, !.rowsLeft = due])
      BY <2>2 DEF RetryPending
    <3> DEFINE x == [Idle EXCEPT !.at = "next", !.retries = TRUE, !.rowsLeft = due]
    <3>2. /\ x \in SenderStates /\ x.at = "next" /\ x.d = NoDelivery
          /\ x.retries = TRUE /\ x.rowsLeft = due
      BY DEF Idle, SenderStates
    <3>3. \A v \in Senders : ~sender[v].retries
      BY <2>2 DEF RetryPending
    <3>4. Become(w, x)
      BY <3>1
    <3> HIDE DEF x
    <3> QED
      BY <3>1, <3>2, <3>3, <3>4
  <2> QED
    BY <2>1, <2>2
<1>2. \A d \in x.rowsLeft : \A v \in Senders : ~Has(v, d)
  <2> SUFFICES ASSUME NEW d \in x.rowsLeft, NEW v \in Senders, Has(v, d) PROVE FALSE
    OBVIOUS
  <2>1. /\ d \in DeliveryIds /\ ~sender[v].retries
        /\ deliveries[d].status = "retrying" /\ deliveries[d].retryAt
    BY <1>1 DEF SenderStates
  <2>2. SenderSound(v) /\ RowSound(d)
    BY <2>1 DEF WebhookSound
  <2>3. Exists(d) /\ ~deliveries[d].test
    BY <2>1, <2>2 DEF Exists, RowSound
  <2>4. sender[v].d = d /\ sender[v].rowsLeft = {}
    BY <2>1, <2>2 DEF SenderSound, Has
  <2>5. sender[v].at \in Attempting \cup Testing
    <3>1. sender[v].at \in {"idle", "next"} \cup Attempting \cup Testing
      BY <1>0 DEF SenderStates, Attempting, Testing
    <3>2. d # NoDelivery
      BY <2>1, WebhookAssumption
    <3> QED
      BY <2>2, <2>4, <3>1, <3>2 DEF SenderSound, Idle
  <2> QED
    BY <2>1, <2>2, <2>3, <2>4, <2>5 DEF SenderSound
<1>3. sender'[w] = x
  BY <1>0, <1>1 DEF Become
<1>4. SenderSound(w)'
  <2>1. \A d \in DeliveryIds : Has(w, d)' => d \in x.rowsLeft
    BY <1>1, <1>3, WebhookAssumption DEF Has
  <2>2. \A d \in x.rowsLeft : d \in DeliveryIds /\ deliveries'[d].status = "retrying" /\ ~deliveries'[d].test
    BY <1>0, <1>1 DEF SenderStates, WebhookSound, RowSound, Exists
  <2> QED
    BY <1>1, <1>3, <2>1, <2>2 DEF SenderSound, Attempting, Testing
<1>5. \A d \in DeliveryIds : x.d # d
  BY <1>1, WebhookAssumption
<1>6. deliveries' \in [DeliveryIds -> DeliveryRows] /\ sent' \in [DeliveryIds -> Nat]
  BY <1>0 DEF WebhookTypes
<1>7. x.retries => \A v \in Senders : ~sender[v].retries
  BY <1>1
<1>8. sender[w].at \notin {"send", "answer"}
  BY <1>0
<1> QED
  BY <1>0, <1>1, <1>2, <1>4, <1>5, <1>6, <1>7, <1>8, SenderStep


\* What a call has before it no other call has; a row that was never written
\* no call has.
LEMMA OthersLack ==
  ASSUME WebhookSound, NEW w \in Senders, NEW d \in DeliveryIds, Has(w, d) \/ deliveries[d] = NoRow
  PROVE  \A v \in Senders : v # w => ~Has(v, d)
<1>1. CASE Has(w, d)
  BY <1>1 DEF WebhookSound, OneHolder
<1>2. CASE deliveries[d] = NoRow
  BY <1>2 DEF WebhookSound, SenderSound, NoRow
<1> QED
  BY <1>1, <1>2

\* A call goes on, perhaps after a last change of the row it is at.
LEMMA GoOnStep ==
  ASSUME WebhookSound, NEW w \in Senders, NEW s \in SenderStates, Become(w, Onward(s)), KeepHooks,
         s.rowsLeft \subseteq sender[w].rowsLeft,
         s.retries => sender[w].retries, s.rowsLeft # {} => s.retries,
         UNCHANGED sent, deliveries' \in [DeliveryIds -> DeliveryRows],
         \A d \in DeliveryIds :
           \/ deliveries'[d] = deliveries[d]
           \/ /\ RowSound(d)' /\ d \notin s.rowsLeft
              /\ \A v \in Senders : v # w => ~Has(v, d)
              /\ deliveries'[d].status = "retrying" => deliveries'[d].retryAt,
         sender[w].at \in {"send", "answer"} =>
           (deliveries'[sender[w].d].status = "retrying" => deliveries'[sender[w].d].retryAt)
  PROVE  WebhookSound'
<1> DEFINE x == Onward(s)
<1>1. /\ x \in SenderStates /\ x.d = NoDelivery /\ x.at \in {"idle", "next"}
      /\ (x.at = "idle" => x = Idle) /\ x.rowsLeft = s.rowsLeft
      /\ (x.retries => s.retries) /\ (s.rowsLeft # {} => x.retries = s.retries)
  BY OnwardIs
<1>2. Become(w, x)
  OBVIOUS
<1> HIDE DEF x
<1>3. WebhookTypes /\ sender \in [Senders -> SenderStates]
  BY DEF WebhookSound, WebhookTypes
<1>4. sender'[w] = x
  BY <1>2, <1>3 DEF Become
<1>5. \A d \in DeliveryIds : x.d # d
  BY <1>1, WebhookAssumption
<1>6. SenderSound(w)'
  <2>1. \A d \in DeliveryIds : Has(w, d)' => d \in s.rowsLeft
    BY <1>1, <1>4, <1>5 DEF Has
  <2>2. \A d \in s.rowsLeft : d \in DeliveryIds /\ deliveries'[d] = deliveries[d] /\ Has(w, d)
    BY DEF SenderStates, Has
  <2>3. \A d \in s.rowsLeft :
          /\ deliveries'[d].status \in {"pending", "retrying", "gone"}
          /\ Exists(d)' => deliveries'[d].status = "retrying" /\ ~deliveries'[d].test
    BY <2>2 DEF WebhookSound, SenderSound, Exists
  <2>4. x.rowsLeft # {} => x.retries
    BY <1>1
  <2>5. \A d \in x.rowsLeft : Exists(d)' => deliveries'[d].status = "retrying" /\ ~deliveries'[d].test
    BY <1>1, <2>3
  <2>6. \A d \in DeliveryIds : Has(w, d)' => deliveries'[d].status \in {"pending", "retrying", "gone"}
    BY <2>1, <2>3
  <2> QED
    BY <1>1, <1>4, <2>4, <2>5, <2>6 DEF SenderSound, Attempting, Testing
<1>7. sent' \in [DeliveryIds -> Nat]
  BY <1>3 DEF WebhookTypes
<1>8. \A d \in DeliveryIds : x.d = d \/ d \in x.rowsLeft => \A v \in Senders : v # w => ~Has(v, d)
  <2> SUFFICES ASSUME NEW d \in DeliveryIds, d \in s.rowsLeft
               PROVE \A v \in Senders : v # w => ~Has(v, d)
    BY <1>1, <1>5
  <2>1. Has(w, d)
    BY DEF Has
  <2> QED
    BY <2>1, OthersLack
<1>9. \A d \in DeliveryIds : deliveries'[d].status = "retrying" /\ ~deliveries'[d].retryAt =>
        /\ deliveries[d].status = "retrying" /\ ~deliveries[d].retryAt
        /\ ~(sender[w].d = d /\ sender[w].at \in {"send", "answer"})
  OBVIOUS
<1>10. \A d \in DeliveryIds :
         \/ deliveries'[d] = deliveries[d] /\ sent'[d] = sent[d]
         \/ RowSound(d)' /\ \A v \in Senders : v # w => ~Has(v, d)
  OBVIOUS
<1>11. x.retries => sender[w].retries
  BY <1>1
<1> QED
  BY <1>1, <1>2, <1>6, <1>7, <1>8, <1>9, <1>10, <1>11, SenderStep

\* A call ends.
LEMMA AbortStep ==
  ASSUME WebhookSound, NEW w \in Senders, Abort(w), KeepHooks, UNCHANGED sent,
         sender[w].at \in {"send", "answer"} => deliveries[sender[w].d].status # "retrying"
  PROVE  WebhookSound'
<1>1. Idle \in SenderStates /\ Onward(Idle) = Idle /\ Idle.rowsLeft = {} /\ Idle.retries = FALSE
  BY IdleSender DEF Idle, Onward
<1>2. Become(w, Onward(Idle)) /\ deliveries' = deliveries
  BY <1>1 DEF Abort
<1>3. deliveries' \in [DeliveryIds -> DeliveryRows]
  BY <1>2 DEF WebhookSound, WebhookTypes
<1> QED
  BY <1>1, <1>2, <1>3, GoOnStep

\* A call takes a delivery up: a new one, or one of its pass.
LEMMA TakeStep ==
  ASSUME WebhookSound, NEW w \in Senders, NEW d \in DeliveryIds, NEW s \in SenderStates,
         sender[w].at = "next",
         Become(w, [s EXCEPT !.at = "read", !.d = d]), KeepHooks,
         s.rowsLeft \subseteq sender[w].rowsLeft, s.retries = sender[w].retries, d \notin s.rowsLeft,
         UNCHANGED sent, deliveries' \in [DeliveryIds -> DeliveryRows],
         \A e \in DeliveryIds : deliveries'[e] = deliveries[e] \/ (e = d /\ RowSound(d)'),
         Has(w, d) \/ deliveries[d] = NoRow,
         deliveries'[d].status \in {"pending", "retrying"}, ~deliveries'[d].test,
         ~s.retries => ~deliveries'[d].retryAt,
         deliveries'[d].status = "retrying" => deliveries'[d] = deliveries[d]
  PROVE  WebhookSound'
<1> DEFINE x == [s EXCEPT !.at = "read", !.d = d]
<1>1. /\ x \in SenderStates /\ x.d = d /\ x.at = "read" /\ x.rowsLeft = s.rowsLeft
      /\ x.retries = s.retries
  BY DEF SenderStates
<1>2. Become(w, x)
  OBVIOUS
<1> HIDE DEF x
<1>3. WebhookTypes /\ sender \in [Senders -> SenderStates]
  BY DEF WebhookSound, WebhookTypes
<1>4. sender'[w] = x
  BY <1>2, <1>3 DEF Become
<1>5. \A v \in Senders : v # w => ~Has(v, d)
  BY OthersLack
<1>6. \A e \in s.rowsLeft : e \in DeliveryIds /\ e # d /\ deliveries'[e] = deliveries[e] /\ Has(w, e)
  BY DEF SenderStates, Has
<1>7. SenderSound(w)'
  <2>1. \A e \in DeliveryIds : Has(w, e)' => e = d \/ e \in s.rowsLeft
    BY <1>1, <1>4 DEF Has
  <2>2. \A e \in s.rowsLeft :
          /\ deliveries'[e].status \in {"pending", "retrying", "gone"}
          /\ Exists(e)' => deliveries'[e].status = "retrying" /\ ~deliveries'[e].test
    BY <1>6 DEF WebhookSound, SenderSound, Exists
  <2>3. s.rowsLeft # {} => s.retries
    BY DEF WebhookSound, SenderSound
  <2> QED
    BY <1>1, <1>4, <2>1, <2>2, <2>3 DEF SenderSound, Attempting, Testing
<1>8. \A e \in DeliveryIds : x.d = e \/ e \in x.rowsLeft => \A v \in Senders : v # w => ~Has(v, e)
  BY <1>1, <1>5, <1>6, OthersLack
<1>9. \A e \in DeliveryIds : deliveries'[e].status = "retrying" /\ ~deliveries'[e].retryAt =>
        /\ deliveries[e].status = "retrying" /\ ~deliveries[e].retryAt
        /\ ~(sender[w].d = e /\ sender[w].at \in {"send", "answer"})
  OBVIOUS
<1>10. sent' \in [DeliveryIds -> Nat]
  BY <1>3 DEF WebhookTypes
<1>11. \A e \in DeliveryIds :
         \/ deliveries'[e] = deliveries[e] /\ sent'[e] = sent[e]
         \/ RowSound(e)' /\ \A v \in Senders : v # w => ~Has(v, e)
  BY <1>5
<1>12. x.retries => sender[w].retries
  BY <1>1
<1> QED
  BY <1>1, <1>2, <1>7, <1>8, <1>9, <1>10, <1>11, <1>12, SenderStep


LEMMA NewRowIs ==
  ASSUME NEW h \in Hooks, NEW max \in Nat, NEW test \in BOOLEAN
  PROVE  LET row == NewRow(h, max, test) IN
         /\ row \in DeliveryRows /\ row.hook = h /\ row.status = "pending" /\ row.count = 0
         /\ row.max = max /\ ~row.retryAt /\ row.test = test
  BY DEF NewRow, DeliveryRows

LEMMA EmitNextStep ==
  ASSUME WebhookSound, NEW w \in Senders, NEW h \in Hooks, NEW d \in DeliveryIds, EmitNext(w, h, d)
  PROVE  WebhookSound'
<1>0. /\ WebhookTypes /\ sender \in [Senders -> SenderStates] /\ sender[w].at = "next"
      /\ KeepHooks /\ UNCHANGED sent /\ deliveries[d] = NoRow
  BY DEF WebhookSound, WebhookTypes, EmitNext, SenderAt
<1>1. CASE hooks[h] = "deleted"
  BY <1>0, <1>1, AbortStep DEF EmitNext
<1>2. CASE hooks[h] # "deleted"
  <2> DEFINE s == [sender[w] EXCEPT !.hooksLeft = @ \ {h}]
             row == NewRow(h, MaxAttempts, FALSE)
  <2>1. /\ s \in SenderStates /\ s.rowsLeft = sender[w].rowsLeft
        /\ s.retries = sender[w].retries
    BY <1>0 DEF SenderStates
  <2>2. deliveries' = [deliveries EXCEPT ![d] = row] /\ Enqueue(w, s, d)
    BY <1>2 DEF EmitNext, SetRow
  <2>3. /\ row \in DeliveryRows /\ row.hook = h /\ row.status = "pending" /\ row.count = 0
        /\ row.max = MaxAttempts /\ ~row.retryAt /\ ~row.test
    BY NewRowIs, WebhookAssumption
  <2> HIDE DEF s, row
  <2>4. /\ deliveries' \in [DeliveryIds -> DeliveryRows] /\ deliveries'[d] = row
        /\ \A e \in DeliveryIds : e # d => deliveries'[e] = deliveries[e]
    BY <1>0, <2>2, <2>3 DEF WebhookTypes
  <2>5. sent'[d] = 0 /\ sent' = sent
    BY <1>0 DEF WebhookSound, RowSound, NoRow
  <2>6. RowSound(d)'
    BY <2>3, <2>4, <2>5, WebhookAssumption DEF RowSound, Exists
  <2>7. d \notin s.rowsLeft
    BY <1>0, <2>1 DEF WebhookSound, SenderSound, Has, NoRow
  <2>8. \A v \in Senders : v # w => ~Has(v, d)
    BY <1>0, OthersLack
  <2>9. s.rowsLeft # {} => s.retries
    BY <2>1 DEF WebhookSound, SenderSound
  <2>10. \A e \in DeliveryIds :
           \/ deliveries'[e] = deliveries[e]
           \/ /\ RowSound(e)' /\ e \notin s.rowsLeft
              /\ \A v \in Senders : v # w => ~Has(v, e)
              /\ deliveries'[e].status = "retrying" => deliveries'[e].retryAt
    BY <2>3, <2>4, <2>6, <2>7, <2>8
  <2>11. CASE Become(w, Onward(s))
    BY <1>0, <2>1, <2>4, <2>5, <2>9, <2>10, <2>11, GoOnStep
  <2>12. CASE Become(w, [s EXCEPT !.at = "read", !.d = d])
    BY <1>0, <2>1, <2>3, <2>4, <2>5, <2>6, <2>7, <2>12, TakeStep
  <2> QED
    BY <2>2, <2>11, <2>12 DEF Enqueue
<1> QED
  BY <1>1, <1>2

LEMMA RetryNextStep ==
  ASSUME WebhookSound, NEW w \in Senders, NEW d \in DeliveryIds, RetryNext(w, d)
  PROVE  WebhookSound'
<1>0. /\ WebhookTypes /\ sender \in [Senders -> SenderStates] /\ sender[w].at = "next"
      /\ KeepHooks /\ UNCHANGED sent /\ d \in sender[w].rowsLeft /\ Has(w, d)
  BY DEF WebhookSound, WebhookTypes, RetryNext, SenderAt, Has
<1>1. CASE ~Exists(d)
  BY <1>0, <1>1, AbortStep DEF RetryNext
<1>2. CASE Exists(d)
  <2> DEFINE s == [sender[w] EXCEPT !.rowsLeft = @ \ {d}]
             row == [deliveries[d] EXCEPT !.status = "failed"]
  <2>1. /\ s \in SenderStates /\ s.rowsLeft = sender[w].rowsLeft \ {d}
        /\ s.retries = sender[w].retries
    BY <1>0 DEF SenderStates
  <2>2. \/ deliveries' = [deliveries EXCEPT ![d] = row] /\ Become(w, Onward(s))
        \/ UNCHANGED deliveries /\ Enqueue(w, s, d)
    BY <1>2 DEF RetryNext, SetStatus, SetRow
  <2>3. /\ row \in DeliveryRows /\ row.status = "failed" /\ row.hook = deliveries[d].hook
        /\ row.count = deliveries[d].count /\ row.max = deliveries[d].max
        /\ row.retryAt = deliveries[d].retryAt /\ row.test = deliveries[d].test
    BY <1>0 DEF WebhookTypes, DeliveryRows
  <2>4. deliveries[d].status = "retrying" /\ ~deliveries[d].test /\ s.retries
    BY <1>0, <1>2, <2>1 DEF WebhookSound, SenderSound
  <2> HIDE DEF s, row
  <2>5. d \notin s.rowsLeft /\ s.rowsLeft \subseteq sender[w].rowsLeft
    BY <2>1
  <2>6. \A v \in Senders : v # w => ~Has(v, d)
    BY <1>0, OthersLack
  <2>7. CASE deliveries' = [deliveries EXCEPT ![d] = row] /\ Become(w, Onward(s))
    <3>1. /\ deliveries' \in [DeliveryIds -> DeliveryRows] /\ deliveries'[d] = row
          /\ \A e \in DeliveryIds : e # d => deliveries'[e] = deliveries[e]
      BY <1>0, <2>3, <2>7 DEF WebhookTypes
    <3>2. RowSound(d)'
      BY <1>0, <1>2, <2>3, <2>4, <3>1 DEF WebhookSound, RowSound, Exists
    <3>3. \A e \in DeliveryIds :
            \/ deliveries'[e] = deliveries[e]
            \/ /\ RowSound(e)' /\ e \notin s.rowsLeft
               /\ \A v \in Senders : v # w => ~Has(v, e)
               /\ deliveries'[e].status = "retrying" => deliveries'[e].retryAt
      BY <2>3, <2>5, <2>6, <3>1, <3>2
    <3> QED
      BY <1>0, <2>1, <2>4, <2>5, <2>7, <3>1, <3>3, GoOnStep
  <2>8. CASE UNCHANGED deliveries /\ Enqueue(w, s, d)
    <3>1. deliveries' \in [DeliveryIds -> DeliveryRows]
      BY <1>0, <2>8 DEF WebhookTypes
    <3>2. CASE Become(w, Onward(s))
      BY <1>0, <2>1, <2>4, <2>5, <2>8, <3>1, <3>2, GoOnStep
    <3>3. CASE Become(w, [s EXCEPT !.at = "read", !.d = d])
      <4>1. /\ deliveries' = deliveries /\ deliveries'[d].status = "retrying" /\ ~deliveries'[d].test
            /\ \A e \in DeliveryIds : deliveries'[e] = deliveries[e] \/ (e = d /\ RowSound(d)')
            /\ (~s.retries => ~deliveries'[d].retryAt)
        BY <2>4, <2>8
      <4>2. /\ deliveries'[d].status \in {"pending", "retrying"}
            /\ (deliveries'[d].status = "retrying" => deliveries'[d] = deliveries[d])
        BY <4>1
      <4> QED
        BY <1>0, <2>1, <2>5, <3>1, <3>3, <4>1, <4>2, TakeStep
    <3> QED
      BY <2>8, <3>2, <3>3 DEF Enqueue
  <2> QED
    BY <2>2, <2>7, <2>8
<1> QED
  BY <1>1, <1>2

\* The last change of the row a call is at: its outcome, or the time of a retry.
LEMMA OutcomeStep ==
  ASSUME WebhookSound, NEW w \in Senders, sender[w].d \in DeliveryIds,
         Exists(sender[w].d), sender[w].d \notin sender[w].rowsLeft,
         NEW row \in DeliveryRows, SetRow(sender[w].d, row), Continue(w), KeepHooks, UNCHANGED sent,
         row.status \in {"failed", "delivered", "retrying"},
         row.status = "retrying" => row.retryAt /\ ~row.test,
         row.hook = deliveries[sender[w].d].hook, row.test = deliveries[sender[w].d].test,
         row.max = deliveries[sender[w].d].max,
         row.retryAt => deliveries[sender[w].d].retryAt \/ ~row.test,
         row.count = deliveries[sender[w].d].count \/ row.test
  PROVE  WebhookSound'
<1> PICK d \in DeliveryIds : d = sender[w].d
  OBVIOUS
<1>0. /\ WebhookTypes /\ sender \in [Senders -> SenderStates] /\ sender[w] \in SenderStates
      /\ d \in DeliveryIds /\ Has(w, d)
  BY DEF WebhookSound, WebhookTypes, Has
<1>1. Become(w, Onward(sender[w])) /\ deliveries' = [deliveries EXCEPT ![d] = row]
  BY DEF Continue, SetRow
<1>a. /\ Exists(d) /\ d \notin sender[w].rowsLeft /\ row.hook = deliveries[d].hook
      /\ row.test = deliveries[d].test /\ row.max = deliveries[d].max
      /\ row.retryAt => deliveries[d].retryAt \/ ~row.test
      /\ row.count = deliveries[d].count \/ row.test
  OBVIOUS
<1>2. /\ deliveries' \in [DeliveryIds -> DeliveryRows] /\ deliveries'[d] = row
      /\ \A e \in DeliveryIds : e # d => deliveries'[e] = deliveries[e]
  BY <1>0, <1>1 DEF WebhookTypes
<1>3. RowSound(d)'
  <2>1. RowSound(d)
    BY <1>0 DEF WebhookSound
  <2>2. row.count \in Nat /\ sent[d] \in Nat /\ sent'[d] = sent[d]
    BY <1>0 DEF WebhookTypes, DeliveryRows
  <2> QED
    BY <1>a, <1>2, <2>1, <2>2 DEF RowSound, Exists
<1>4. \A v \in Senders : v # w => ~Has(v, d)
  BY <1>0, OthersLack
<1>5. \A e \in DeliveryIds :
        \/ deliveries'[e] = deliveries[e]
        \/ /\ RowSound(e)' /\ e \notin sender[w].rowsLeft
           /\ \A v \in Senders : v # w => ~Has(v, e)
           /\ deliveries'[e].status = "retrying" => deliveries'[e].retryAt
  BY <1>a, <1>2, <1>3, <1>4
<1>6. deliveries'[sender[w].d].status = "retrying" => deliveries'[sender[w].d].retryAt
  BY <1>2
<1>7. sender[w].rowsLeft # {} => sender[w].retries
  BY DEF WebhookSound, SenderSound
<1> QED
  BY <1>0, <1>1, <1>2, <1>5, <1>6, <1>7, GoOnStep

\* What a call that attempts a delivery has before it.
LEMMA AtDelivery ==
  ASSUME WebhookSound, NEW w \in Senders, sender[w].at \in Attempting \cup Testing
  PROVE  /\ WebhookTypes /\ sender \in [Senders -> SenderStates] /\ sender[w] \in SenderStates
         /\ sender[w].d \in DeliveryIds /\ sender[w].d \notin sender[w].rowsLeft
         /\ deliveries[sender[w].d] \in DeliveryRows /\ RowSound(sender[w].d)
         /\ Has(w, sender[w].d) /\ \A v \in Senders : v # w => ~Has(v, sender[w].d)
<1>1. WebhookTypes /\ sender \in [Senders -> SenderStates] /\ sender[w] \in SenderStates
  BY DEF WebhookSound, WebhookTypes
<1>2. sender[w].d \in DeliveryIds /\ sender[w].d \notin sender[w].rowsLeft
  BY DEF WebhookSound, SenderSound
<1>3. Has(w, sender[w].d)
  BY DEF Has
<1>4. deliveries[sender[w].d] \in DeliveryRows /\ RowSound(sender[w].d)
  BY <1>1, <1>2 DEF WebhookTypes, WebhookSound
<1> QED
  BY <1>1, <1>2, <1>3, <1>4, OthersLack

\* A call moves on with the delivery it is at, its row perhaps rewritten.
LEMMA AttemptStep ==
  ASSUME WebhookSound, NEW w \in Senders, sender[w].at \in Attempting \cup Testing,
         NEW x \in SenderStates, Become(w, x), KeepHooks,
         x.d = sender[w].d, x.rowsLeft = sender[w].rowsLeft, x.retries = sender[w].retries,
         x.at \in {"mark", "send", "answer", "answerTest"},
         deliveries' \in [DeliveryIds -> DeliveryRows], sent' \in [DeliveryIds -> Nat],
         \A d \in DeliveryIds : d # sender[w].d => deliveries'[d] = deliveries[d] /\ sent'[d] = sent[d],
         NEW row, row = deliveries'[sender[w].d], NEW n, n = sent'[sender[w].d],
         row.status \in {"pending", "retrying", "gone"},
         row.status # "gone" =>
           /\ row.hook \in Hooks
           /\ row.test => /\ x.at = "answerTest" /\ row.max = 1 /\ n <= 1 /\ ~row.retryAt
                          /\ row.status = "pending" /\ ~x.retries
           /\ ~row.test => /\ x.at # "answerTest" /\ n <= row.count /\ row.count <= row.max
                           /\ ~x.retries => ~row.retryAt
                           /\ x.at = "mark" => /\ x.count = row.count /\ row.count < row.max
                                               /\ row = deliveries[x.d] /\ sender[w].at \notin {"send", "answer"}
                           /\ x.at = "send" => n < row.count
                           /\ x.at \in {"send", "answer"} => row.status = "retrying"
  PROVE  WebhookSound'
<1> PICK d \in DeliveryIds : d = sender[w].d
  BY AtDelivery
<1>0. /\ WebhookTypes /\ sender \in [Senders -> SenderStates] /\ d \notin sender[w].rowsLeft
      /\ \A v \in Senders : v # w => ~Has(v, d)
  BY AtDelivery
<1>1. sender'[w] = x
  BY <1>0 DEF Become
<1>2. row = deliveries'[d] /\ n = sent'[d] /\ x.d = d
  OBVIOUS
<1>3. RowSound(d)'
  BY <1>2 DEF RowSound, Exists
<1>4. SenderSound(w)'
  <2>1. \A e \in DeliveryIds : Has(w, e)' => e = d \/ e \in sender[w].rowsLeft
    BY <1>1, <1>2 DEF Has
  <2>2. \A e \in sender[w].rowsLeft :
          /\ e \in DeliveryIds /\ e # d /\ Has(w, e)
          /\ deliveries'[e] = deliveries[e]
    BY <1>0, <1>2 DEF SenderStates, Has
  <2>3. \A e \in sender[w].rowsLeft :
          /\ deliveries'[e].status \in {"pending", "retrying", "gone"}
          /\ Exists(e)' => deliveries'[e].status = "retrying" /\ ~deliveries'[e].test
    BY <2>2 DEF WebhookSound, SenderSound, Exists
  <2>4. x.rowsLeft # {} => x.retries
    BY DEF WebhookSound, SenderSound
  <2>5. \A e \in DeliveryIds : Has(w, e)' => deliveries'[e].status \in {"pending", "retrying", "gone"}
    BY <1>2, <2>1, <2>3
  <2>6. x.at \in Attempting /\ Exists(d)' =>
          /\ ~row.test /\ (~x.retries => ~row.retryAt)
          /\ x.at = "mark" => x.count = row.count /\ row.count < row.max
          /\ x.at = "send" => n < row.count
          /\ x.at \in {"send", "answer"} => row.status = "retrying"
    BY <1>2 DEF Attempting, Exists
  <2>7. x.at \in Testing /\ Exists(d)' => row.test /\ row.status = "pending" /\ ~x.retries
    BY <1>2 DEF Testing, Exists
  <2>8. x.at \notin {"idle", "next", "sendTest"}
    OBVIOUS
  <2>9. \A e \in x.rowsLeft : Exists(e)' => deliveries'[e].status = "retrying" /\ ~deliveries'[e].test
    BY <2>3
  <2>10. x.d \in DeliveryIds /\ x.d \notin x.rowsLeft
    BY <1>0, <1>2
  <2> QED
    BY <1>1, <1>2, <2>4, <2>5, <2>6, <2>7, <2>8, <2>9, <2>10 DEF SenderSound
<1>5. \A e \in DeliveryIds :
        \/ deliveries'[e] = deliveries[e] /\ sent'[e] = sent[e]
        \/ RowSound(e)' /\ \A v \in Senders : v # w => ~Has(v, e)
  BY <1>0, <1>3
<1>6. x.retries => sender[w].retries
  OBVIOUS
<1>7. \A e \in DeliveryIds : x.d = e \/ e \in x.rowsLeft => \A v \in Senders : v # w => ~Has(v, e)
  <2> SUFFICES ASSUME NEW e \in DeliveryIds, x.d = e \/ e \in x.rowsLeft
               PROVE \A v \in Senders : v # w => ~Has(v, e)
    OBVIOUS
  <2>1. Has(w, e)
    BY DEF Has
  <2> QED
    BY <2>1, OthersLack
<1>8. \A e \in DeliveryIds : deliveries'[e].status = "retrying" /\ ~deliveries'[e].retryAt =>
        \/ x.d = e /\ x.at \in {"send", "answer"}
        \/ /\ deliveries[e].status = "retrying" /\ ~deliveries[e].retryAt
           /\ ~(sender[w].d = e /\ sender[w].at \in {"send", "answer"})
  <2> SUFFICES ASSUME NEW e \in DeliveryIds,
                      deliveries'[e].status = "retrying", ~deliveries'[e].retryAt,
                      ~(x.d = e /\ x.at \in {"send", "answer"})
               PROVE  /\ deliveries[e].status = "retrying" /\ ~deliveries[e].retryAt
                      /\ ~(sender[w].d = e /\ sender[w].at \in {"send", "answer"})
    OBVIOUS
  <2>1. CASE e # d
    BY <2>1
  <2>2. CASE e = d
    BY <1>2, <2>2
  <2> QED
    BY <2>1, <2>2
<1> QED
  BY <1>4, <1>5, <1>6, <1>7, <1>8, SenderStep

LEMMA ReadStep ==
  ASSUME WebhookSound, NEW w \in Senders, ReadDelivery(w)
  PROVE  WebhookSound'
<1>0. sender[w].at = "read" /\ KeepHooks /\ UNCHANGED sent
  BY DEF ReadDelivery, SenderAt
<1>1. PICK d \in DeliveryIds : d = sender[w].d
  BY <1>0, AtDelivery DEF Attempting
<1>2. /\ WebhookTypes /\ sender \in [Senders -> SenderStates] /\ sender[w] \in SenderStates
      /\ d \notin sender[w].rowsLeft /\ deliveries[d] \in DeliveryRows /\ RowSound(d)
  BY <1>0, <1>1, AtDelivery DEF Attempting
<1>3. /\ sender[w].rowsLeft # {} => sender[w].retries
      /\ Exists(d) => ~deliveries[d].test /\ (~sender[w].retries => ~deliveries[d].retryAt)
      /\ deliveries[d].status \in {"pending", "retrying", "gone"}
  BY <1>0, <1>1 DEF WebhookSound, SenderSound, Attempting, Has
<1>4. deliveries \in [DeliveryIds -> DeliveryRows] /\ sent \in [DeliveryIds -> Nat]
  BY <1>2 DEF WebhookTypes
<1>5. CASE Continue(w) /\ UNCHANGED deliveries
  BY <1>0, <1>2, <1>3, <1>4, <1>5, GoOnStep DEF Continue
<1>6. CASE /\ Exists(d) /\ deliveries[d].status # "delivered"
           /\ deliveries[d].count >= deliveries[d].max /\ SetStatus(d, "failed") /\ Continue(w)
  <2> DEFINE row == [deliveries[d] EXCEPT !.status = "failed"]
  <2>1. /\ row \in DeliveryRows /\ row.status = "failed" /\ row.hook = deliveries[d].hook
        /\ row.test = deliveries[d].test /\ row.max = deliveries[d].max
        /\ row.retryAt = deliveries[d].retryAt /\ row.count = deliveries[d].count
    BY <1>2 DEF DeliveryRows
  <2>2. SetRow(d, row)
    BY <1>6 DEF SetStatus
  <2> HIDE DEF row
  <2> QED
    BY <1>0, <1>1, <1>2, <1>6, <2>1, <2>2, OutcomeStep
<1>7. CASE /\ Exists(d) /\ ~(deliveries[d].count >= deliveries[d].max) /\ UNCHANGED deliveries
           /\ Become(w, [sender[w] EXCEPT !.at = "mark", !.count = deliveries[d].count])
  <2> DEFINE x == [sender[w] EXCEPT !.at = "mark", !.count = deliveries[d].count]
  <2>1. /\ x \in SenderStates /\ x.at = "mark" /\ x.d = d /\ x.count = deliveries[d].count
        /\ x.rowsLeft = sender[w].rowsLeft /\ x.retries = sender[w].retries
    BY <1>1, <1>2 DEF SenderStates, DeliveryRows
  <2>2. Become(w, x)
    BY <1>7
  <2> HIDE DEF x
  <2>3. /\ deliveries[d].count < deliveries[d].max
        /\ deliveries[d].hook \in Hooks /\ sent[d] <= deliveries[d].count
        /\ deliveries[d].count <= deliveries[d].max
    BY <1>2, <1>3, <1>7 DEF RowSound, DeliveryRows
  <2>4. /\ deliveries' = deliveries /\ sent' = sent
        /\ deliveries'[d] = deliveries[d] /\ sent'[d] = sent[d]
    BY <1>0, <1>7
  <2>5. sender[w].at \in Attempting \cup Testing
    BY <1>0 DEF Attempting
  <2> QED
    BY <1>0, <1>1, <1>3, <1>4, <1>7, <2>1, <2>2, <2>3, <2>4, <2>5, AttemptStep
<1> QED
  BY <1>1, <1>5, <1>6, <1>7 DEF ReadDelivery

LEMMA MarkStep ==
  ASSUME WebhookSound, NEW w \in Senders, MarkAttempt(w)
  PROVE  WebhookSound'
<1>0. sender[w].at = "mark" /\ KeepHooks /\ UNCHANGED sent
  BY DEF MarkAttempt, SenderAt
<1>1. PICK d \in DeliveryIds : d = sender[w].d
  BY <1>0, AtDelivery DEF Attempting
<1>2. /\ WebhookTypes /\ sender \in [Senders -> SenderStates] /\ sender[w] \in SenderStates
      /\ deliveries[d] \in DeliveryRows /\ RowSound(d)
  BY <1>0, <1>1, AtDelivery DEF Attempting
<1>3. Exists(d) => /\ ~deliveries[d].test /\ (~sender[w].retries => ~deliveries[d].retryAt)
                   /\ sender[w].count = deliveries[d].count /\ deliveries[d].count < deliveries[d].max
  BY <1>0, <1>1 DEF WebhookSound, SenderSound, Attempting
<1>4. CASE ~Exists(d)
  BY <1>0, <1>1, <1>4, AbortStep DEF MarkAttempt
<1>5. CASE Exists(d)
  <2> DEFINE row == [deliveries[d] EXCEPT !.count = sender[w].count + 1, !.status = "retrying"]
             x == [sender[w] EXCEPT !.at = "send"]
  <2>1. /\ row \in DeliveryRows /\ row.status = "retrying" /\ row.hook = deliveries[d].hook
        /\ row.test = deliveries[d].test /\ row.max = deliveries[d].max
        /\ row.retryAt = deliveries[d].retryAt /\ row.count = sender[w].count + 1
    <3>1. sender[w].count + 1 \in Nat
      BY <1>2 DEF SenderStates
    <3> QED
      BY <1>2, <3>1 DEF DeliveryRows
  <2>2. /\ x \in SenderStates /\ x.at = "send" /\ x.d = d
        /\ x.rowsLeft = sender[w].rowsLeft /\ x.retries = sender[w].retries
    BY <1>1, <1>2 DEF SenderStates
  <2>3. SetRow(d, row) /\ Become(w, x)
    BY <1>1, <1>5 DEF MarkAttempt, GoTo
  <2> HIDE DEF row, x
  <2>4. /\ deliveries' \in [DeliveryIds -> DeliveryRows] /\ deliveries'[d] = row
        /\ \A e \in DeliveryIds : e # d => deliveries'[e] = deliveries[e]
    BY <1>2, <2>1, <2>3 DEF WebhookTypes, SetRow
  <2>5. sent' \in [DeliveryIds -> Nat] /\ sent' = sent /\ sent'[d] = sent[d] /\ sent[d] \in Nat
    BY <1>0, <1>2 DEF WebhookTypes
  <2>6. /\ deliveries[d].hook \in Hooks /\ sent[d] <= deliveries[d].count
        /\ deliveries[d].count \in Nat /\ deliveries[d].max \in Nat
    BY <1>2, <1>3, <1>5 DEF RowSound, DeliveryRows
  <2>7. row.hook \in Hooks /\ sent'[d] < row.count /\ sent'[d] <= row.count /\ row.count <= row.max
    BY <1>3, <1>5, <2>1, <2>5, <2>6
  <2>8. sender[w].at \in Attempting \cup Testing
    BY <1>0 DEF Attempting
  <2>9. ~row.test /\ (~x.retries => ~row.retryAt)
    BY <1>3, <1>5, <2>1, <2>2
  <2> QED
    BY <1>0, <1>1, <2>1, <2>2, <2>3, <2>4, <2>5, <2>7, <2>8, <2>9, AttemptStep
<1> QED
  BY <1>4, <1>5

LEMMA SendStep ==
  ASSUME WebhookSound, NEW w \in Senders, Send(w)
  PROVE  WebhookSound'
<1>0. sender[w].at \in {"send", "sendTest"} /\ KeepHooks /\ UNCHANGED deliveries
  BY DEF Send
<1>a. sender[w].at \in Attempting \cup Testing
  BY <1>0 DEF Attempting, Testing
<1>1. PICK d \in DeliveryIds : d = sender[w].d
  BY <1>a, AtDelivery
<1>2. /\ WebhookTypes /\ sender \in [Senders -> SenderStates] /\ sender[w] \in SenderStates
      /\ deliveries[d] \in DeliveryRows /\ RowSound(d) /\ Has(w, d)
  BY <1>a, <1>1, AtDelivery
<1> DEFINE x == [sender[w] EXCEPT !.at = IF sender[w].at = "send" THEN "answer" ELSE "answerTest"]
<1>3. /\ x \in SenderStates /\ x.d = d /\ x.rowsLeft = sender[w].rowsLeft
      /\ x.retries = sender[w].retries
      /\ (sender[w].at = "send" => x.at = "answer")
      /\ (sender[w].at = "sendTest" => x.at = "answerTest")
  BY <1>0, <1>1, <1>2 DEF SenderStates
<1>4. Become(w, x)
  BY DEF Send, GoTo, SenderAt
<1> HIDE DEF x
<1>5. /\ sent' \in [DeliveryIds -> Nat] /\ sent'[d] = sent[d] + 1 /\ sent[d] \in Nat
      /\ \A e \in DeliveryIds : e # d => sent'[e] = sent[e]
  BY <1>1, <1>2 DEF Send, WebhookTypes
<1>6. /\ deliveries \in [DeliveryIds -> DeliveryRows] /\ deliveries' = deliveries
      /\ deliveries'[d] = deliveries[d]
  BY <1>0, <1>2 DEF WebhookTypes
<1>7. deliveries[d].status \in {"pending", "retrying", "gone"}
  BY <1>2 DEF WebhookSound, SenderSound
<1>8. CASE deliveries[d].status = "gone"
  BY <1>0, <1>a, <1>1, <1>3, <1>4, <1>5, <1>6, <1>8, AttemptStep
<1>9. CASE deliveries[d].status # "gone"
  <2>1. Exists(d)
    BY <1>7, <1>9 DEF Exists
  <2>2. CASE sender[w].at = "send"
    <3>1. /\ ~deliveries[d].test /\ (~sender[w].retries => ~deliveries[d].retryAt)
          /\ sent[d] < deliveries[d].count /\ deliveries[d].status = "retrying"
      BY <1>1, <2>1, <2>2 DEF WebhookSound, SenderSound, Attempting
    <3>2. /\ deliveries[d].hook \in Hooks /\ deliveries[d].count <= deliveries[d].max
          /\ deliveries[d].count \in Nat
      BY <1>2, <2>1, <3>1 DEF RowSound, DeliveryRows
    <3>3. sent'[d] <= deliveries[d].count
      BY <1>5, <3>1, <3>2
    <3> QED
      BY <1>0, <1>a, <1>1, <1>3, <1>4, <1>5, <1>6, <2>2, <3>1, <3>2, <3>3, AttemptStep
  <2>3. CASE sender[w].at = "sendTest"
    <3>1. deliveries[d].test /\ deliveries[d].status = "pending" /\ ~sender[w].retries /\ sent[d] = 0
      BY <1>1, <2>1, <2>3 DEF WebhookSound, SenderSound, Testing
    <3>2. deliveries[d].hook \in Hooks /\ deliveries[d].max = 1 /\ ~deliveries[d].retryAt
      BY <1>2, <2>1, <3>1 DEF RowSound
    <3>3. sent'[d] <= 1
      BY <1>5, <3>1
    <3> QED
      BY <1>0, <1>a, <1>1, <1>3, <1>4, <1>5, <1>6, <2>3, <3>1, <3>2, <3>3, AttemptStep
  <2> QED
    BY <1>0, <2>2, <2>3
<1> QED
  BY <1>8, <1>9

LEMMA AnswerStep ==
  ASSUME WebhookSound, NEW w \in Senders, Answer(w)
  PROVE  WebhookSound'
<1>0. sender[w].at = "answer" /\ KeepHooks /\ UNCHANGED sent
  BY DEF Answer, SenderAt
<1>1. PICK d \in DeliveryIds : d = sender[w].d
  BY <1>0, AtDelivery DEF Attempting
<1>2. deliveries[d] \in DeliveryRows /\ d \notin sender[w].rowsLeft
  BY <1>0, <1>1, AtDelivery DEF Attempting
<1>3. Exists(d) => ~deliveries[d].test
  BY <1>0, <1>1 DEF WebhookSound, SenderSound, Attempting
<1>4. CASE ~Exists(d)
  BY <1>0, <1>1, <1>4, AbortStep DEF Answer, Exists
<1>5. CASE Exists(d)
  <2>1. PICK row \in DeliveryRows :
          /\ SetRow(d, row) /\ row.status \in {"failed", "delivered", "retrying"}
          /\ row.status = "retrying" => row.retryAt
          /\ row.hook = deliveries[d].hook /\ row.test = deliveries[d].test
          /\ row.max = deliveries[d].max /\ row.count = deliveries[d].count
    <3>1. CASE SetStatus(d, "delivered")
      <4> DEFINE row == [deliveries[d] EXCEPT !.status = "delivered"]
      <4>1. /\ row \in DeliveryRows /\ row.status = "delivered" /\ row.hook = deliveries[d].hook
            /\ row.test = deliveries[d].test /\ row.max = deliveries[d].max
            /\ row.count = deliveries[d].count
        BY <1>2 DEF DeliveryRows
      <4>2. SetRow(d, row)
        BY <3>1 DEF SetStatus
      <4> HIDE DEF row
      <4> QED
        BY <4>1, <4>2
    <3>2. CASE SetStatus(d, "failed")
      <4> DEFINE row == [deliveries[d] EXCEPT !.status = "failed"]
      <4>1. /\ row \in DeliveryRows /\ row.status = "failed" /\ row.hook = deliveries[d].hook
            /\ row.test = deliveries[d].test /\ row.max = deliveries[d].max
            /\ row.count = deliveries[d].count
        BY <1>2 DEF DeliveryRows
      <4>2. SetRow(d, row)
        BY <3>2 DEF SetStatus
      <4> HIDE DEF row
      <4> QED
        BY <4>1, <4>2
    <3>3. CASE SetRow(d, [deliveries[d] EXCEPT !.status = "retrying", !.retryAt = TRUE])
      <4> DEFINE row == [deliveries[d] EXCEPT !.status = "retrying", !.retryAt = TRUE]
      <4>1. /\ row \in DeliveryRows /\ row.status = "retrying" /\ row.hook = deliveries[d].hook
            /\ row.test = deliveries[d].test /\ row.max = deliveries[d].max
            /\ row.count = deliveries[d].count /\ row.retryAt = TRUE
        BY <1>2 DEF DeliveryRows
      <4>2. SetRow(d, row)
        BY <3>3
      <4> HIDE DEF row
      <4> QED
        BY <4>1, <4>2
    <3> QED
      BY <1>1, <1>5, <3>1, <3>2, <3>3 DEF Answer
  <2>2. Continue(w)
    BY <1>1, <1>5 DEF Answer
  <2> QED
    BY <1>0, <1>1, <1>2, <1>3, <1>5, <2>1, <2>2, OutcomeStep
<1> QED
  BY <1>4, <1>5

LEMMA AnswerTestStep ==
  ASSUME WebhookSound, NEW w \in Senders, AnswerTest(w)
  PROVE  WebhookSound'
<1>0. sender[w].at = "answerTest" /\ KeepHooks /\ UNCHANGED sent
  BY DEF AnswerTest, SenderAt
<1>1. PICK d \in DeliveryIds : d = sender[w].d
  BY <1>0, AtDelivery DEF Testing
<1>2. deliveries[d] \in DeliveryRows /\ d \notin sender[w].rowsLeft
  BY <1>0, <1>1, AtDelivery DEF Testing
<1>3. Exists(d) => deliveries[d].test
  BY <1>0, <1>1 DEF WebhookSound, SenderSound, Testing
<1>4. CASE ~Exists(d)
  BY <1>0, <1>1, <1>4, AbortStep DEF AnswerTest
<1>5. CASE Exists(d)
  <2>1. PICK status \in {"delivered", "failed"} :
          SetRow(d, [deliveries[d] EXCEPT !.status = status, !.count = 1])
    BY <1>1, <1>5 DEF AnswerTest
  <2> DEFINE row == [deliveries[d] EXCEPT !.status = status, !.count = 1]
  <2>2. /\ row \in DeliveryRows /\ row.status = status /\ row.hook = deliveries[d].hook
        /\ row.test = deliveries[d].test /\ row.max = deliveries[d].max
        /\ row.retryAt = deliveries[d].retryAt
    BY <1>2 DEF DeliveryRows
  <2>3. SetRow(d, row)
    BY <2>1
  <2> HIDE DEF row
  <2>4. Continue(w)
    BY <1>1, <1>5 DEF AnswerTest
  <2>5. row.test /\ row.status \in {"failed", "delivered", "retrying"} /\ row.status # "retrying"
    BY <1>3, <1>5, <2>2
  <2>6. row.retryAt => deliveries[d].retryAt \/ ~row.test
    BY <2>2
  <2> QED
    BY <1>0, <1>1, <1>2, <1>5, <2>2, <2>3, <2>4, <2>5, <2>6, OutcomeStep
<1> QED
  BY <1>4, <1>5

LEMMA TestStep ==
  ASSUME WebhookSound, NEW w \in Senders, NEW h \in Hooks, NEW d \in DeliveryIds, TestWebhook(w, h, d)
  PROVE  WebhookSound'
<1> DEFINE x == [Idle EXCEPT !.at = "sendTest", !.d = d]
           row == NewRow(h, 1, TRUE)
<1>0. /\ WebhookTypes /\ sender \in [Senders -> SenderStates] /\ sender[w].at = "idle"
      /\ KeepHooks /\ sent' = sent /\ deliveries[d] = NoRow
  BY DEF WebhookSound, WebhookTypes, TestWebhook, SenderAt
<1>1. /\ x \in SenderStates /\ x.at = "sendTest" /\ x.d = d /\ x.rowsLeft = {} /\ x.retries = FALSE
  BY DEF Idle, SenderStates
<1>2. /\ row \in DeliveryRows /\ row.hook = h /\ row.status = "pending" /\ row.count = 0
      /\ row.max = 1 /\ ~row.retryAt /\ row.test
  BY DEF NewRow, DeliveryRows
<1>3. Become(w, x) /\ SetRow(d, row)
  BY DEF TestWebhook
<1> HIDE DEF x, row
<1>4. /\ deliveries' \in [DeliveryIds -> DeliveryRows] /\ deliveries'[d] = row
      /\ \A e \in DeliveryIds : e # d => deliveries'[e] = deliveries[e]
  BY <1>0, <1>2, <1>3 DEF WebhookTypes, SetRow
<1>5. sent' \in [DeliveryIds -> Nat] /\ sent'[d] = 0
  BY <1>0 DEF WebhookSound, WebhookTypes, RowSound, NoRow
<1>6. RowSound(d)'
  BY <1>2, <1>4, <1>5 DEF RowSound, Exists
<1>7. sender'[w] = x
  BY <1>0, <1>3 DEF Become
<1>8. SenderSound(w)'
  <2>1. \A e \in DeliveryIds : Has(w, e)' => e = d
    BY <1>1, <1>7 DEF Has
  <2> QED
    BY <1>1, <1>2, <1>4, <1>5, <1>7, <2>1 DEF SenderSound, Attempting, Testing
<1>9. \A v \in Senders : v # w => ~Has(v, d)
  BY <1>0, OthersLack
<1>10. \A e \in DeliveryIds :
         \/ deliveries'[e] = deliveries[e] /\ sent'[e] = sent[e]
         \/ RowSound(e)' /\ \A v \in Senders : v # w => ~Has(v, e)
  BY <1>0, <1>4, <1>6, <1>9
<1>11. \A e \in DeliveryIds : x.d = e \/ e \in x.rowsLeft => \A v \in Senders : v # w => ~Has(v, e)
  BY <1>1, <1>9
<1>12. \A e \in DeliveryIds : deliveries'[e].status = "retrying" /\ ~deliveries'[e].retryAt =>
         /\ deliveries[e].status = "retrying" /\ ~deliveries[e].retryAt
         /\ ~(sender[w].d = e /\ sender[w].at \in {"send", "answer"})
  BY <1>0, <1>2, <1>4
<1> QED
  BY <1>1, <1>3, <1>0, <1>4, <1>5, <1>8, <1>10, <1>11, <1>12, SenderStep

LEMMA WebhookStart ==
  ASSUME WebhookInit
  PROVE  WebhookSound
<1>1. \A w \in Senders : sender[w] = Idle
  BY DEF WebhookInit
<1>2. \A d \in DeliveryIds : deliveries[d] = NoRow /\ sent[d] = 0
  BY DEF WebhookInit
<1>3. \A w \in Senders, d \in DeliveryIds : ~Has(w, d) /\ ~sender[w].retries
  BY <1>1, WebhookAssumption DEF Has, Idle
<1>4. WebhookTypes
  BY IdleSender, NoRowType DEF WebhookInit, WebhookTypes
<1>5. OneHolder /\ RetryScheduled
  <2>1. OneHolder
    BY <1>1, WebhookAssumption DEF OneHolder, Has, Idle
  <2>2. RetryScheduled
    BY <1>2 DEF RetryScheduled, NoRow
  <2> QED
    BY <2>1, <2>2
<1>6. \A w \in Senders : SenderSound(w)
  <2>1. Idle.at = "idle" /\ Idle.rowsLeft = {}
    BY DEF Idle
  <2> QED
    BY <1>1, <1>3, <2>1 DEF SenderSound, Attempting, Testing
<1>7. \A d \in DeliveryIds : RowSound(d)
  BY <1>2 DEF RowSound, Exists, NoRow
<1> QED
  BY <1>4, <1>5, <1>6, <1>7 DEF WebhookSound

LEMMA WebhookStays ==
  ASSUME WebhookSound, [WebhookNext]_webhookVars
  PROVE  WebhookSound'
<1>1. CASE WebhookNext
  <2>1. CASE \E h \in Hooks : CreateWebhook(h) \/ ToggleWebhook(h) \/ DeleteWebhook(h)
    BY <2>1, HooksStep
  <2>2. CASE SenderCrash
    BY <2>2, CrashStep
  <2>3. ASSUME NEW w \in Senders,
               \/ EmitEvent(w) \/ RetryPending(w) \/ ReadDelivery(w) \/ MarkAttempt(w)
               \/ Send(w) \/ Answer(w) \/ AnswerTest(w)
               \/ \E d \in DeliveryIds :
                    RetryNext(w, d) \/ \E h \in Hooks : EmitNext(w, h, d) \/ TestWebhook(w, h, d)
        PROVE  WebhookSound'
    BY <2>3, BeginStep, ReadStep, MarkStep, SendStep, AnswerStep, AnswerTestStep, RetryNextStep,
       EmitNextStep, TestStep
  <2> QED
    BY <1>1, <2>1, <2>2, <2>3 DEF WebhookNext
<1>2. CASE UNCHANGED webhookVars
  BY <1>2 DEF webhookVars, WebhookSound, WebhookTypes, OneHolder, Has, RetryScheduled, SenderSound,
              RowSound, Exists
<1> QED
  BY <1>1, <1>2

LEMMA WebhookSoundness == WebhookSpec => []WebhookSound
<1>1. WebhookInit => WebhookSound
  BY WebhookStart
<1>2. WebhookSound /\ [WebhookNext]_webhookVars => WebhookSound'
  BY WebhookStays
<1> QED
  BY <1>1, <1>2, PTL DEF WebhookSpec

\* Rows are well-formed, no receiver is sent more requests than were counted or
\* than its delivery allows, and no delivery is left where no pass finds it, but
\* by a crash during its first attempt: processDelivery and its callers, however
\* calls, deletions of webhooks and crashes interleave.
THEOREM WebhookKept == WebhookSpec => []WebhookInv
<1>1. WebhookSound => WebhookInv
  <2> SUFFICES ASSUME WebhookSound PROVE WebhookInv
    OBVIOUS
  <2>1. WebhookTypeOK
    <3>1. \A d \in DeliveryIds : deliveries[d] \in DeliveryRows
      BY DEF WebhookSound, WebhookTypes
    <3>2. \A w \in Senders : sender[w] \in SenderStates
      BY DEF WebhookSound, WebhookTypes
    <3> QED
      BY <3>1, <3>2 DEF WebhookSound, WebhookTypes, WebhookTypeOK, DeliveryRows, SenderStates
  <2>2. AttemptsCounted
    <3> SUFFICES ASSUME NEW d \in DeliveryIds, Exists(d)
                 PROVE  /\ sent[d] <= deliveries[d].max
                        /\ ~deliveries[d].test => sent[d] <= deliveries[d].count
      BY DEF AttemptsCounted
    <3>1. RowSound(d) /\ deliveries[d].max \in Nat /\ deliveries[d].count \in Nat /\ sent[d] \in Nat
      BY DEF WebhookSound, WebhookTypes, DeliveryRows
    <3> QED
      BY <3>1 DEF RowSound
  <2> QED
    BY <2>1, <2>2 DEF WebhookInv, WebhookSound
<1> QED
  BY <1>1, WebhookSoundness, PTL

\* What is delivered or has failed is before no call, so no step rewrites it or
\* sends it: a settled delivery keeps its outcome for as long as it is stored.
THEOREM SettledStays == WebhookSpec => SettledIsFinal
<1>1. WebhookSound /\ [WebhookNext]_webhookVars =>
        \A d \in DeliveryIds :
          deliveries[d].status \in {"delivered", "failed"} /\ deliveries'[d].status # "gone" =>
            /\ deliveries'[d].status = deliveries[d].status
            /\ sent'[d] = sent[d]
  <2>0. CASE UNCHANGED webhookVars
    BY <2>0 DEF webhookVars
  <2> SUFFICES ASSUME WebhookSound, WebhookNext, NEW d \in DeliveryIds,
                      deliveries[d].status \in {"delivered", "failed"}, deliveries'[d].status # "gone"
               PROVE  deliveries'[d].status = deliveries[d].status /\ sent'[d] = sent[d]
    BY <2>0
  <2>1. /\ deliveries \in [DeliveryIds -> DeliveryRows] /\ sent \in [DeliveryIds -> Nat]
        /\ deliveries[d] # NoRow
    BY DEF WebhookSound, WebhookTypes, NoRow
  <2>2. \A w \in Senders : ~Has(w, d)
    BY DEF WebhookSound, SenderSound
  <2>3. CASE \E h \in Hooks : CreateWebhook(h) \/ ToggleWebhook(h)
    BY <2>3 DEF CreateWebhook, ToggleWebhook
  <2>4. ASSUME NEW h \in Hooks, DeleteWebhook(h) PROVE deliveries'[d] = deliveries[d] /\ sent' = sent
    BY <2>4, NoRowType DEF DeleteWebhook
  <2>5. CASE SenderCrash
    BY <2>5 DEF SenderCrash
  <2>6. ASSUME NEW w \in Senders, EmitEvent(w) \/ RetryPending(w)
        PROVE  deliveries' = deliveries /\ sent' = sent
    BY <2>6 DEF EmitEvent, RetryPending
  <2>7. ASSUME NEW w \in Senders, ReadDelivery(w) \/ MarkAttempt(w) \/ Answer(w) \/ AnswerTest(w)
        PROVE  deliveries'[d] = deliveries[d] /\ sent' = sent
    <3>1. sender[w].d # d
      BY <2>2 DEF Has
    <3> QED
      BY <2>1, <2>7, <3>1 DEF ReadDelivery, MarkAttempt, Answer, AnswerTest, Abort, SetRow, SetStatus
  <2>8. ASSUME NEW w \in Senders, Send(w)
        PROVE  deliveries' = deliveries /\ sent'[d] = sent[d]
    BY <2>1, <2>2, <2>8 DEF Send, Has
  <2>9. ASSUME NEW w \in Senders, NEW e \in DeliveryIds, RetryNext(w, e)
        PROVE  deliveries'[d] = deliveries[d] /\ sent' = sent
    <3>1. e # d
      BY <2>2, <2>9 DEF RetryNext, Has
    <3> QED
      BY <2>1, <2>9, <3>1 DEF RetryNext, Abort, SetRow, SetStatus
  <2>10. ASSUME NEW w \in Senders, NEW e \in DeliveryIds, NEW h \in Hooks,
                EmitNext(w, h, e) \/ TestWebhook(w, h, e)
         PROVE  deliveries'[d] = deliveries[d] /\ sent' = sent
    BY <2>1, <2>10 DEF EmitNext, TestWebhook, Abort, SetRow
  <2> QED
    BY <2>3, <2>4, <2>5, <2>6, <2>7, <2>8, <2>9, <2>10 DEF WebhookNext
<1> QED
  BY WebhookSoundness, <1>1, PTL DEF WebhookSpec, SettledIsFinal

-----------------------------------------------------------------------------
(* The review of payments: the inductive invariant. *)

PaymentStatuses == {"none", "created", "submitted", "processing", "completed", "successful",
                    "failed", "cancelled"}
PaymentRows == [status : PaymentStatuses, flagged : BOOLEAN,
         action : {"none", "reviewing", "release", "block"}, hash : BOOLEAN]
Alerts == [by : {"monitor", "admin"}, status : {"open", "resolved", "dismissed"}]
Claiming == Processing \cup Rebuilding
ReviewPlaces == {"none", "monitor", "screen", "resolve"} \cup BeforeClaim \cup Claiming
CallRecords == [at : ReviewPlaces, p : Payments \cup {"none"}, alert : Nat]

ReviewTypes ==
  /\ payment \in [Payments -> PaymentRows]
  /\ alerts \in [Payments -> Seq(Alerts)]
  /\ call \in [ReviewCalls -> CallRecords]
  /\ submitted \in [Payments -> Nat]
  /\ rebuilds \in [Payments -> Nat]

\* Rebuilds that will submit the envelope of their claim: it is not counted yet.
Unsent(p) == CallsOf(p, {"sign", "resubmit"})
SendsCounted(p) == IsFiniteSet(Unsent(p)) /\ submitted[p] + Cardinality(Unsent(p)) <= 1 + rebuilds[p]

\* A payment has no hash until it is processed, which then shows in its status
\* for good; who processes it has it alone, and no status request finds it.
PaymentSound(row, times) ==
  /\ row.status \in {"none", "created"} => ~row.hash
  /\ row.status \in {"none", "created", "cancelled"} => times = 0
HeldRow(at, row, times) ==
  /\ at \in Processing => row.status = "processing" /\ ~row.hash
  /\ at \in Rebuilding => row.status \notin {"none", "created", "cancelled"}
  /\ at \in {"decrypt", "submit"} => times = 0
Apart ==
  \A c, d \in ReviewCalls :
    call[c].at \in Processing /\ call[d].at \in Claiming /\ call[c].p = call[d].p => c = d
Claimed ==
  /\ Apart
  /\ \A c \in ReviewCalls : call[c].at \in Claiming =>
       call[c].p \in Payments /\ HeldRow(call[c].at, payment[call[c].p], submitted[call[c].p])
  /\ \A p \in Payments : PaymentSound(payment[p], submitted[p]) /\ SendsCounted(p)

\* Who raises an alert has set the flag; monitoring does so once; a decision is
\* about a flagged payment and leaves none of monitoring's alerts open.
Flagged ==
  \A p \in Payments :
    /\ ~payment[p].flagged => alerts[p] = <<>> /\ payment[p].action = "none"
    /\ \A i, j \in DOMAIN alerts[p] :
         alerts[p][i].by = "monitor" /\ alerts[p][j].by = "monitor" => i = j
    /\ payment[p].action \in {"release", "block"} =>
         \A i \in DOMAIN alerts[p] : alerts[p][i].by = "monitor" => alerts[p][i].status # "open"

ReviewSound == ReviewTypes /\ Claimed /\ Flagged

-----------------------------------------------------------------------------
(* The review of payments: what the steps write. *)

\* The columns of the review stay as they are.
Rewrites(p, row) == /\ row \in PaymentRows /\ SetColumns(p, row)
                    /\ row.flagged = payment[p].flagged /\ row.action = payment[p].action

LEMMA RowSet ==
  ASSUME ReviewTypes, NEW p \in Payments, NEW row, Rewrites(p, row)
  PROVE  /\ payment' \in [Payments -> PaymentRows]
         /\ payment'[p].status = row.status /\ payment'[p].flagged = payment[p].flagged
         /\ payment'[p].action = payment[p].action /\ payment'[p] = row
         /\ \A q \in Payments : q # p => payment'[q] = payment[q]
<1>1. row \in PaymentRows /\ payment' = [payment EXCEPT ![p] = row]
  BY DEF Rewrites, SetColumns
<1> QED
  BY <1>1 DEF ReviewTypes, Rewrites

LEMMA StatusRow ==
  ASSUME ReviewTypes, NEW p \in Payments, NEW status \in PaymentStatuses,
         SetPaymentStatus(p, status)
  PROVE  \E row : Rewrites(p, row) /\ row.status = status /\ row.hash = payment[p].hash
<1> DEFINE row == [payment[p] EXCEPT !.status = status]
<1>1. row \in PaymentRows /\ row.status = status /\ row.flagged = payment[p].flagged
      /\ row.action = payment[p].action /\ row.hash = payment[p].hash
  BY DEF ReviewTypes, PaymentRows
<1>2. SetColumns(p, row)
  BY DEF SetPaymentStatus
<1> HIDE DEF row
<1> QED
  BY <1>1, <1>2 DEF Rewrites

LEMMA HashRow ==
  ASSUME ReviewTypes, NEW p \in Payments, NEW status \in PaymentStatuses,
         SetColumns(p, [payment[p] EXCEPT !.status = status, !.hash = TRUE])
  PROVE  \E row : Rewrites(p, row) /\ row.status = status /\ row.hash
<1> DEFINE row == [payment[p] EXCEPT !.status = status, !.hash = TRUE]
<1>1. row \in PaymentRows /\ row.status = status /\ row.flagged = payment[p].flagged
      /\ row.action = payment[p].action /\ row.hash
  BY DEF ReviewTypes, PaymentRows
<1>2. SetColumns(p, row)
  OBVIOUS
<1> HIDE DEF row
<1> QED
  BY <1>1, <1>2 DEF Rewrites

LEMMA OnlyHashRow ==
  ASSUME ReviewTypes, NEW p \in Payments, SetColumns(p, [payment[p] EXCEPT !.hash = TRUE])
  PROVE  \E row : Rewrites(p, row) /\ row.status = payment[p].status /\ row.hash
<1> DEFINE row == [payment[p] EXCEPT !.hash = TRUE]
<1>1. row \in PaymentRows /\ row.status = payment[p].status /\ row.flagged = payment[p].flagged
      /\ row.action = payment[p].action /\ row.hash
  BY DEF ReviewTypes, PaymentRows
<1>2. SetColumns(p, row)
  OBVIOUS
<1> HIDE DEF row
<1> QED
  BY <1>1, <1>2 DEF Rewrites

LEMMA SameRow ==
  ASSUME ReviewTypes, NEW p \in Payments, UNCHANGED payment
  PROVE  \E row : Rewrites(p, row) /\ row.status = payment[p].status /\ row.hash = payment[p].hash
<1>1. payment' = [payment EXCEPT ![p] = payment[p]] /\ payment[p] \in PaymentRows
  BY DEF ReviewTypes
<1> QED
  BY <1>1 DEF Rewrites, SetColumns

LEMMA FlagSet ==
  ASSUME ReviewTypes, NEW p \in Payments,
         SetColumns(p, [payment[p] EXCEPT !.flagged = TRUE])
  PROVE  /\ payment' \in [Payments -> PaymentRows]
         /\ payment'[p].status = payment[p].status /\ payment'[p].hash = payment[p].hash
         /\ payment'[p].flagged
         /\ payment'[p].action = payment[p].action
         /\ \A q \in Payments : q # p => payment'[q] = payment[q]
<1> DEFINE row == [payment[p] EXCEPT !.flagged = TRUE]
<1>1. row \in PaymentRows /\ row.status = payment[p].status /\ row.flagged
      /\ row.hash = payment[p].hash
      /\ row.action = payment[p].action
  BY DEF ReviewTypes, PaymentRows
<1>2. payment' = [payment EXCEPT ![p] = row]
  BY DEF SetColumns
<1> HIDE DEF row
<1> QED
  BY <1>1, <1>2 DEF ReviewTypes

LEMMA ActionSet ==
  ASSUME ReviewTypes, NEW p \in Payments, NEW action \in {"reviewing", "release", "block"},
         SetColumns(p, [payment[p] EXCEPT !.action = action])
  PROVE  /\ payment' \in [Payments -> PaymentRows]
         /\ payment'[p].status = payment[p].status /\ payment'[p].hash = payment[p].hash
         /\ payment'[p].action = action
         /\ payment'[p].flagged = payment[p].flagged
         /\ \A q \in Payments : q # p => payment'[q] = payment[q]
<1> DEFINE row == [payment[p] EXCEPT !.action = action]
<1>1. row \in PaymentRows /\ row.status = payment[p].status /\ row.action = action
      /\ row.hash = payment[p].hash
      /\ row.flagged = payment[p].flagged
  BY DEF ReviewTypes, PaymentRows
<1>2. payment' = [payment EXCEPT ![p] = row]
  BY DEF SetColumns
<1> HIDE DEF row
<1> QED
  BY <1>1, <1>2 DEF ReviewTypes

\* An alert is added at the end, open.
LEMMA AlertRaised ==
  ASSUME ReviewTypes, NEW p \in Payments, NEW by \in {"monitor", "admin"}, Raise(p, by)
  PROVE  /\ alerts' \in [Payments -> Seq(Alerts)]
         /\ \A q \in Payments : q # p => alerts'[q] = alerts[q]
         /\ DOMAIN alerts'[p] = DOMAIN alerts[p] \cup {Len(alerts[p]) + 1}
         /\ \A i \in DOMAIN alerts[p] : alerts'[p][i] = alerts[p][i]
         /\ Len(alerts[p]) + 1 \notin DOMAIN alerts[p]
         /\ alerts'[p][Len(alerts[p]) + 1].by = by
<1> DEFINE x == [by |-> by, status |-> "open"]
<1>1. x \in Alerts /\ x.by = by
  BY DEF Alerts
<1>2. alerts' = [alerts EXCEPT ![p] = Append(alerts[p], x)] /\ alerts[p] \in Seq(Alerts)
  BY DEF Raise, ReviewTypes
<1> HIDE DEF x
<1> QED
  BY <1>1, <1>2 DEF ReviewTypes

\* A sequence in which at most one place is changed is one.
LEMMA OnePlaceChanged ==
  ASSUME NEW S, NEW t \in Seq(S), NEW k, NEW x, k \in DOMAIN t => x \in S
  PROVE  /\ DOMAIN [t EXCEPT ![k] = x] = DOMAIN t
         /\ [t EXCEPT ![k] = x] \in Seq(S)
<1> DEFINE u == [i \in 1..Len(t) |-> IF i = k THEN x ELSE t[i]]
<1>1. [t EXCEPT ![k] = x] = u
  OBVIOUS
<1>2. \A i \in 1..Len(t) : u[i] \in S
  OBVIOUS
<1>3. Len(t) \in Nat /\ DOMAIN t = 1..Len(t) /\ DOMAIN u = 1..Len(t)
  OBVIOUS
<1>4. u \in [1..Len(t) -> S]
  BY <1>2
<1>5. u \in Seq(S)
  BY <1>3, <1>4
<1> QED
  BY <1>1, <1>3, <1>5, Zenon

\* Open alerts are closed; whose they are does not change.
LEMMA OpenClosed ==
  ASSUME ReviewTypes, NEW p \in Payments, NEW status \in {"resolved", "dismissed"},
         CloseOpen(p, status)
  PROVE  /\ alerts' \in [Payments -> Seq(Alerts)]
         /\ \A q \in Payments : q # p => alerts'[q] = alerts[q]
         /\ DOMAIN alerts'[p] = DOMAIN alerts[p]
         /\ \A i \in DOMAIN alerts[p] : /\ alerts'[p][i].by = alerts[p][i].by
                                        /\ alerts'[p][i].status # "open"
<1> DEFINE closed(a) == IF a.status = "open" THEN [a EXCEPT !.status = status] ELSE a
           s == [i \in DOMAIN alerts[p] |-> closed(alerts[p][i])]
<1>1. \A a \in Alerts : closed(a) \in Alerts /\ closed(a).by = a.by /\ closed(a).status # "open"
  BY DEF Alerts
<1>2. alerts[p] \in Seq(Alerts) /\ \A i \in DOMAIN alerts[p] : alerts[p][i] \in Alerts
  BY DEF ReviewTypes
<1>3. alerts' = [alerts EXCEPT ![p] = s]
  BY DEF CloseOpen, ReviewTypes
<1> HIDE DEF closed
<1>4. /\ s \in Seq(Alerts) /\ DOMAIN s = DOMAIN alerts[p]
      /\ \A i \in DOMAIN alerts[p] : s[i] = closed(alerts[p][i])
  BY <1>1, <1>2
<1> HIDE DEF s
<1> QED
  BY <1>1, <1>2, <1>3, <1>4 DEF ReviewTypes

LEMMA Returned ==
  ASSUME ReviewTypes, NEW c \in ReviewCalls, Return(c)
  PROVE  /\ call' \in [ReviewCalls -> CallRecords] /\ call'[c].at = "none"
         /\ \A d \in ReviewCalls : d # c => call'[d] = call[d]
<1>1. Resting \in CallRecords /\ Resting.at = "none"
  BY DEF Resting, CallRecords, ReviewPlaces
<1> QED
  BY <1>1 DEF ReviewTypes, Return

LEMMA Resumed ==
  ASSUME ReviewTypes, NEW c \in ReviewCalls, NEW place \in ReviewPlaces, NEW p \in Payments,
         Resume(c, place, p)
  PROVE  /\ call' \in [ReviewCalls -> CallRecords]
         /\ call'[c].at = place /\ call'[c].p = p
         /\ \A d \in ReviewCalls : d # c => call'[d] = call[d]
<1> DEFINE x == [Resting EXCEPT !.at = place, !.p = p]
<1>1. x \in CallRecords /\ x.at = place /\ x.p = p
  BY DEF Resting, CallRecords
<1>2. call' = [call EXCEPT ![c] = x]
  BY DEF Resume
<1> HIDE DEF x
<1> QED
  BY <1>1, <1>2 DEF ReviewTypes

-----------------------------------------------------------------------------
(* The review of payments: every step keeps the invariant. *)

LEMMA FlaggedKept ==
  ASSUME Flagged, UNCHANGED alerts,
         \A p \in Payments : /\ payment'[p].flagged = payment[p].flagged
                             /\ payment'[p].action = payment[p].action
  PROVE  Flagged'
  BY DEF Flagged

\* No rebuild is added to those that will submit, and none submits.
LEMMA CountKept ==
  ASSUME Claimed, NEW q \in Payments, Unsent(q)' \subseteq Unsent(q),
         submitted'[q] = submitted[q], rebuilds'[q] = rebuilds[q],
         submitted[q] \in Nat, rebuilds[q] \in Nat
  PROVE  SendsCounted(q)'
<1>1. IsFiniteSet(Unsent(q)) /\ submitted[q] + Cardinality(Unsent(q)) <= 1 + rebuilds[q]
  BY DEF Claimed, SendsCounted
<1>2. /\ IsFiniteSet(Unsent(q)') /\ Cardinality(Unsent(q)') <= Cardinality(Unsent(q))
      /\ Cardinality(Unsent(q)') \in Nat /\ Cardinality(Unsent(q)) \in Nat
  BY <1>1, FS_Subset, FS_CardinalityType
<1> QED
  BY <1>1, <1>2 DEF SendsCounted

LEMMA ClaimedKept ==
  ASSUME ReviewTypes, Claimed, UNCHANGED <<submitted, rebuilds>>,
         \A p \in Payments : /\ payment'[p].status = payment[p].status
                             /\ payment'[p].hash = payment[p].hash,
         \A c \in ReviewCalls : call'[c].at \in Claiming => call'[c] = call[c]
  PROVE  Claimed'
<1>1. \A q \in Payments : Unsent(q)' \subseteq Unsent(q)
  BY DEF Unsent, CallsOf, Claiming, Rebuilding
<1>2. \A q \in Payments : SendsCounted(q)'
  BY <1>1, CountKept DEF ReviewTypes
<1>3. \A q \in Payments : PaymentSound(payment'[q], submitted'[q])
  BY DEF Claimed, PaymentSound
<1>4. \A c \in ReviewCalls : call'[c].at \in Claiming =>
        call'[c].p \in Payments /\ HeldRow(call'[c].at, payment'[call'[c].p], submitted'[call'[c].p])
  BY DEF Claimed, HeldRow
<1>5. Apart'
  BY DEF Claimed, Apart, Claiming
<1> QED
  BY <1>2, <1>3, <1>4, <1>5 DEF Claimed

LEMMA OneFlagged ==
  ASSUME Flagged, NEW p \in Payments,
         \A q \in Payments : q # p => payment'[q] = payment[q] /\ alerts'[q] = alerts[q],
         ~payment'[p].flagged => alerts'[p] = <<>> /\ payment'[p].action = "none",
         \A i, j \in DOMAIN alerts'[p] :
           alerts'[p][i].by = "monitor" /\ alerts'[p][j].by = "monitor" => i = j,
         payment'[p].action \in {"release", "block"} =>
           \A i \in DOMAIN alerts'[p] : alerts'[p][i].by = "monitor" => alerts'[p][i].status # "open"
  PROVE  Flagged'
  BY DEF Flagged

\* The statuses of payments stay, and what is written is sound.
Decides == /\ payment' \in [Payments -> PaymentRows] /\ alerts' \in [Payments -> Seq(Alerts)]
           /\ \A q \in Payments : /\ payment'[q].status = payment[q].status
                                 /\ payment'[q].hash = payment[q].hash
           /\ Flagged'

LEMMA ClaimFlagDecides ==
  ASSUME ReviewTypes, Flagged, NEW p \in Payments, ClaimFlag(p)
  PROVE  Decides
<1>1. CASE payment[p].flagged
  BY <1>1, FlaggedKept DEF ClaimFlag, Decides, ReviewTypes
<1>2. CASE ~payment[p].flagged
  <2>1. SetColumns(p, [payment[p] EXCEPT !.flagged = TRUE]) /\ Raise(p, "monitor")
    BY <1>2 DEF ClaimFlag
  <2>2. /\ payment' \in [Payments -> PaymentRows]
        /\ payment'[p].status = payment[p].status /\ payment'[p].hash = payment[p].hash
        /\ payment'[p].flagged
        /\ payment'[p].action = payment[p].action
        /\ \A q \in Payments : q # p => payment'[q] = payment[q]
    BY <2>1, FlagSet
  <2>3. /\ alerts' \in [Payments -> Seq(Alerts)]
        /\ \A q \in Payments : q # p => alerts'[q] = alerts[q]
        /\ DOMAIN alerts'[p] = DOMAIN alerts[p] \cup {Len(alerts[p]) + 1}
    BY <2>1, AlertRaised
  <2>4. alerts[p] = <<>> /\ payment[p].action = "none"
    BY <1>2 DEF Flagged
  <2>5. DOMAIN alerts'[p] = {1}
    BY <2>3, <2>4
  <2>6. Flagged'
    BY <2>2, <2>3, <2>4, <2>5, OneFlagged
  <2> QED
    BY <2>2, <2>3, <2>6 DEF Decides
<1> QED
  BY <1>1, <1>2

LEMMA FlagTransactionDecides ==
  ASSUME ReviewTypes, Flagged, NEW p \in Payments, FlagTransaction(p)
  PROVE  Decides
<1>1. SetColumns(p, [payment[p] EXCEPT !.flagged = TRUE]) /\ Raise(p, "admin")
  BY DEF FlagTransaction
<1>2. /\ payment' \in [Payments -> PaymentRows]
      /\ payment'[p].status = payment[p].status /\ payment'[p].hash = payment[p].hash
      /\ payment'[p].flagged
      /\ payment'[p].action = payment[p].action
      /\ \A q \in Payments : q # p => payment'[q] = payment[q]
  BY <1>1, FlagSet
<1>3. /\ alerts' \in [Payments -> Seq(Alerts)]
      /\ \A q \in Payments : q # p => alerts'[q] = alerts[q]
      /\ DOMAIN alerts'[p] = DOMAIN alerts[p] \cup {Len(alerts[p]) + 1}
      /\ \A i \in DOMAIN alerts[p] : alerts'[p][i] = alerts[p][i]
      /\ alerts'[p][Len(alerts[p]) + 1].by = "admin"
  BY <1>1, AlertRaised
<1>4. \A i, j \in DOMAIN alerts'[p] :
        alerts'[p][i].by = "monitor" /\ alerts'[p][j].by = "monitor" => i = j
  BY <1>3 DEF Flagged
<1>5. payment'[p].action \in {"release", "block"} =>
        \A i \in DOMAIN alerts'[p] : alerts'[p][i].by = "monitor" => alerts'[p][i].status # "open"
  BY <1>2, <1>3 DEF Flagged
<1>6. Flagged'
  BY <1>2, <1>3, <1>4, <1>5, OneFlagged
<1> QED
  BY <1>2, <1>3, <1>6 DEF Decides

LEMMA ReviewFlaggedDecides ==
  ASSUME ReviewTypes, Flagged, NEW p \in Payments,
         NEW action \in {"reviewing", "release", "block"}, ReviewFlagged(p, action)
  PROVE  Decides
<1>1. /\ payment[p].flagged
      /\ SetColumns(p, [payment[p] EXCEPT !.action = action])
      /\ CloseReviewed(p, action)
  BY DEF ReviewFlagged
<1>2. /\ payment' \in [Payments -> PaymentRows]
      /\ payment'[p].status = payment[p].status /\ payment'[p].hash = payment[p].hash
      /\ payment'[p].flagged /\ payment'[p].action = action
      /\ \A q \in Payments : q # p => payment'[q] = payment[q]
  BY <1>1, ActionSet
<1>3. CASE action = "reviewing"
  <2>1. UNCHANGED alerts
    BY <1>1, <1>3 DEF CloseReviewed
  <2>2. Flagged'
    BY <1>2, <1>3, <2>1, OneFlagged DEF Flagged
  <2> QED
    BY <1>2, <2>1, <2>2 DEF Decides, ReviewTypes
<1>4. CASE action # "reviewing"
  <2>1. PICK status \in {"resolved", "dismissed"} : CloseOpen(p, status)
    BY <1>1, <1>4 DEF CloseReviewed
  <2>2. /\ alerts' \in [Payments -> Seq(Alerts)]
        /\ \A q \in Payments : q # p => alerts'[q] = alerts[q]
        /\ DOMAIN alerts'[p] = DOMAIN alerts[p]
        /\ \A i \in DOMAIN alerts[p] : /\ alerts'[p][i].by = alerts[p][i].by
                                       /\ alerts'[p][i].status # "open"
    BY <2>1, OpenClosed
  <2>3. Flagged'
    <3>1. \A i, j \in DOMAIN alerts'[p] :
            alerts'[p][i].by = "monitor" /\ alerts'[p][j].by = "monitor" => i = j
      BY <2>2 DEF Flagged
    <3> QED
      BY <1>2, <2>2, <3>1, OneFlagged
  <2> QED
    BY <1>2, <2>2, <2>3 DEF Decides
<1> QED
  BY <1>3, <1>4

LEMMA ResolveAlertDecides ==
  ASSUME ReviewTypes, Flagged, NEW p \in Payments, NEW c \in ReviewCalls, ResolveAlert(c, p)
  PROVE  Decides
<1> PICK status \in {"resolved", "dismissed"} :
      alerts' = [alerts EXCEPT ![p][call[c].alert].status = status]
  BY DEF ResolveAlert
<1> DEFINE k == call[c].alert
           s == [alerts[p] EXCEPT ![k] = [alerts[p][k] EXCEPT !.status = status]]
<1>1. alerts[p] \in Seq(Alerts) /\ \A i \in DOMAIN alerts[p] : alerts[p][i] \in Alerts
  BY DEF ReviewTypes
<1>2. alerts' = [alerts EXCEPT ![p] = s]
  BY DEF ReviewTypes
<1>3. \A a \in Alerts : LET b == [a EXCEPT !.status = status] IN
        b \in Alerts /\ b.by = a.by /\ b.status = status
  BY DEF Alerts
<1>4. /\ s \in Seq(Alerts) /\ DOMAIN s = DOMAIN alerts[p]
      /\ \A i \in DOMAIN alerts[p] : /\ s[i].by = alerts[p][i].by
                                     /\ s[i].status = "open" => alerts[p][i].status = "open"
  <2>1. k \in DOMAIN alerts[p] => [alerts[p][k] EXCEPT !.status = status] \in Alerts
    BY <1>1, <1>3
  <2>2. DOMAIN s = DOMAIN alerts[p] /\ s \in Seq(Alerts)
    BY <1>1, <2>1, OnePlaceChanged
  <2>3. ASSUME NEW i \in DOMAIN alerts[p]
        PROVE  /\ s[i].by = alerts[p][i].by
               /\ s[i].status = "open" => alerts[p][i].status = "open"
    <3>1. CASE i = k
      BY <1>1, <1>3, <3>1
    <3>2. CASE i # k
      BY <3>2
    <3> QED
      BY <3>1, <3>2
  <2> QED
    BY <2>2, <2>3
<1> HIDE DEF s
<1>5. /\ alerts' \in [Payments -> Seq(Alerts)] /\ alerts'[p] = s
      /\ \A q \in Payments : q # p => alerts'[q] = alerts[q]
  BY <1>2, <1>4 DEF ReviewTypes
<1>6. UNCHANGED payment
  BY DEF ResolveAlert
<1>7. Flagged'
  BY <1>1, <1>4, <1>5, <1>6, OneFlagged DEF Flagged
<1> QED
  BY <1>5, <1>6, <1>7 DEF Decides, ReviewTypes

\* Who decides on a payment claims none.
LEMMA DecisionSound ==
  ASSUME ReviewSound, Decides, UNCHANGED <<submitted, rebuilds>>,
         call' \in [ReviewCalls -> CallRecords],
         \A c \in ReviewCalls : call'[c].at \in Claiming => call'[c] = call[c]
  PROVE  ReviewSound'
<1>1. Claimed'
  BY ClaimedKept DEF ReviewSound, Decides
<1> QED
  BY <1>1 DEF ReviewSound, Decides, ReviewTypes

LEMMA MonitorStep ==
  ASSUME ReviewSound, NEW c \in ReviewCalls, NEW p \in Payments, Monitor(c, p)
  PROVE  ReviewSound'
<1>0. ReviewTypes /\ Flagged /\ Return(c) /\ UNCHANGED <<submitted, rebuilds>>
  BY DEF ReviewSound, Monitor, KeepCounts
<1>1. Decides
  <2>1. CASE UNCHANGED <<payment, alerts>>
    BY <1>0, <2>1, FlaggedKept DEF Decides, ReviewTypes
  <2>2. CASE ClaimFlag(p)
    BY <1>0, <2>2, ClaimFlagDecides
  <2>3. CASE SetColumns(p, [payment[p] EXCEPT !.flagged = TRUE]) /\ UNCHANGED alerts
    <3>1. /\ payment' \in [Payments -> PaymentRows]
          /\ payment'[p].status = payment[p].status /\ payment'[p].hash = payment[p].hash
          /\ payment'[p].flagged
          /\ payment'[p].action = payment[p].action
          /\ \A q \in Payments : q # p => payment'[q] = payment[q]
      BY <1>0, <2>3, FlagSet
    <3>2. Flagged'
      BY <1>0, <2>3, <3>1, OneFlagged DEF Flagged
    <3> QED
      BY <1>0, <2>3, <3>1, <3>2 DEF Decides, ReviewTypes
  <2> QED
    BY <2>1, <2>2, <2>3 DEF Monitor
<1>2. /\ call' \in [ReviewCalls -> CallRecords] /\ call'[c].at = "none"
      /\ \A d \in ReviewCalls : d # c => call'[d] = call[d]
  BY <1>0, Returned
<1> QED
  BY <1>0, <1>1, <1>2, DecisionSound DEF Claiming, Processing, Rebuilding, ReviewTypes

LEMMA DecisionStep ==
  ASSUME ReviewSound, NEW c \in ReviewCalls, NEW p \in Payments,
         ScreenRow(c, p) \/ ResolveAlert(c, p)
  PROVE  ReviewSound'
<1>0. ReviewTypes /\ Flagged /\ Return(c) /\ UNCHANGED <<submitted, rebuilds>>
  BY DEF ReviewSound, ScreenRow, ResolveAlert, KeepCounts
<1>1. Decides
  BY <1>0, ClaimFlagDecides, ResolveAlertDecides DEF ScreenRow
<1>2. /\ call' \in [ReviewCalls -> CallRecords] /\ call'[c].at = "none"
      /\ \A d \in ReviewCalls : d # c => call'[d] = call[d]
  BY <1>0, Returned
<1> QED
  BY <1>0, <1>1, <1>2, DecisionSound DEF Claiming, Processing, Rebuilding, ReviewTypes

LEMMA AdminStep ==
  ASSUME ReviewSound, NEW p \in Payments,
         \/ FlagTransaction(p)
         \/ \E action \in {"reviewing", "release", "block"} : ReviewFlagged(p, action)
  PROVE  ReviewSound'
<1>0. ReviewTypes /\ Flagged /\ UNCHANGED <<call, submitted, rebuilds>>
  BY DEF ReviewSound, FlagTransaction, ReviewFlagged, KeepCounts
<1>1. Decides
  BY <1>0, FlagTransactionDecides, ReviewFlaggedDecides
<1> QED
  BY <1>0, <1>1, DecisionSound DEF ReviewTypes

\* Calls that begin, go on before they claim, or are cut short.
LEMMA ReviewCallStep ==
  ASSUME ReviewSound, UNCHANGED <<payment, alerts, submitted, rebuilds>>,
         NEW c \in ReviewCalls,
         \/ Return(c)
         \/ \E p \in Payments, place \in {"screen"} \cup BeforeClaim : Resume(c, place, p)
         \/ \E p \in Payments : \E i \in DOMAIN alerts[p] : ReadAlert(c, p, i)
  PROVE  ReviewSound'
<1>0. ReviewTypes /\ Flagged
  BY DEF ReviewSound
<1>1. Decides
  BY <1>0, FlaggedKept DEF Decides, ReviewTypes
<1>2. ASSUME NEW p \in Payments, NEW place \in {"screen"} \cup BeforeClaim, Resume(c, place, p)
      PROVE  ReviewSound'
  <2>1. /\ call' \in [ReviewCalls -> CallRecords] /\ call'[c].at = place
        /\ \A d \in ReviewCalls : d # c => call'[d] = call[d]
    BY <1>0, <1>2, Resumed DEF ReviewPlaces
  <2> QED
    BY <1>0, <1>1, <1>2, <2>1, DecisionSound DEF Claiming, Processing, Rebuilding, BeforeClaim
<1>3. ASSUME NEW p \in Payments, NEW i \in DOMAIN alerts[p], ReadAlert(c, p, i)
      PROVE  ReviewSound'
  <2> DEFINE x == [at |-> "resolve", p |-> p, alert |-> i]
  <2>1. x \in CallRecords /\ x.at = "resolve"
    BY <1>0 DEF CallRecords, ReviewPlaces, ReviewTypes
  <2>2. call' = [call EXCEPT ![c] = x]
    BY <1>3 DEF ReadAlert
  <2> HIDE DEF x
  <2> QED
    BY <1>0, <1>1, <2>1, <2>2, DecisionSound DEF Claiming, Processing, Rebuilding, ReviewTypes
<1>4. CASE Return(c)
  <2>1. /\ call' \in [ReviewCalls -> CallRecords] /\ call'[c].at = "none"
        /\ \A d \in ReviewCalls : d # c => call'[d] = call[d]
    BY <1>0, <1>4, Returned
  <2> QED
    BY <1>1, <2>1, DecisionSound DEF Claiming, Processing, Rebuilding
<1> QED
  BY <1>2, <1>3, <1>4

\* What the calls that claimed payment p, and the others, are after a step.
ClaimersOf(p, row, times) ==
  \A c \in ReviewCalls : call'[c].at \in Claiming =>
    IF call'[c].p = p THEN HeldRow(call'[c].at, row, times) ELSE call'[c] = call[c]

\* The row of payment p is written by a call, its owner or a status request.
LEMMA StatusSound ==
  ASSUME ReviewSound, NEW p \in Payments, NEW row, Rewrites(p, row), UNCHANGED alerts,
         call' \in [ReviewCalls -> CallRecords], submitted' \in [Payments -> Nat],
         rebuilds' \in [Payments -> Nat],
         \A q \in Payments : q # p => submitted'[q] = submitted[q],
         \A q \in Payments : SendsCounted(q)', Apart',
         PaymentSound(row, submitted'[p]), ClaimersOf(p, row, submitted'[p])
  PROVE  ReviewSound'
<1>0. ReviewTypes /\ Claimed /\ Flagged
  BY DEF ReviewSound
<1>1. /\ payment' \in [Payments -> PaymentRows] /\ payment'[p] = row
      /\ payment'[p].flagged = payment[p].flagged /\ payment'[p].action = payment[p].action
      /\ \A q \in Payments : q # p => payment'[q] = payment[q]
  BY <1>0, RowSet
<1>2. Flagged'
  BY <1>0, <1>1, FlaggedKept
<1>3. ASSUME NEW c \in ReviewCalls, call'[c].at \in Claiming
      PROVE  call'[c].p \in Payments
             /\ HeldRow(call'[c].at, payment'[call'[c].p], submitted'[call'[c].p])
  <2>1. CASE call'[c].p = p
    BY <1>1, <1>3, <2>1 DEF ClaimersOf
  <2>2. CASE call'[c].p # p
    BY <1>0, <1>1, <1>3, <2>2 DEF Claimed, ClaimersOf
  <2> QED
    BY <2>1, <2>2
<1>4. \A q \in Payments : PaymentSound(payment'[q], submitted'[q])
  BY <1>0, <1>1 DEF Claimed
<1>5. Claimed'
  BY <1>3, <1>4 DEF Claimed
<1> QED
  BY <1>0, <1>1, <1>2, <1>5 DEF ReviewSound, ReviewTypes

\* The same, when no call goes to a place where it claims and nothing is counted.
LEMMA WriteAside ==
  ASSUME ReviewSound, NEW p \in Payments, NEW row, Rewrites(p, row),
         UNCHANGED <<alerts, submitted, rebuilds>>, call' \in [ReviewCalls -> CallRecords],
         \A c \in ReviewCalls : call'[c].at \in Claiming => call'[c] = call[c],
         PaymentSound(row, submitted[p]),
         \A c \in ReviewCalls : call'[c].at \in Claiming /\ call[c].p = p =>
           HeldRow(call[c].at, row, submitted[p])
  PROVE  ReviewSound'
<1>0. Claimed /\ submitted \in [Payments -> Nat] /\ rebuilds \in [Payments -> Nat]
  BY DEF ReviewSound, ReviewTypes
<1>1. \A q \in Payments : Unsent(q)' \subseteq Unsent(q)
  BY DEF Unsent, CallsOf, Claiming, Rebuilding
<1>2. \A q \in Payments : SendsCounted(q)'
  BY <1>0, <1>1, CountKept
<1>3. Apart'
  BY <1>0 DEF Claimed, Apart, Claiming
<1>4. ClaimersOf(p, row, submitted'[p])
  BY DEF ClaimersOf
<1> QED
  BY <1>0, <1>2, <1>3, <1>4, StatusSound

LEMMA NewPaymentStep ==
  ASSUME ReviewSound, NEW c \in ReviewCalls, NEW p \in Payments, CreatePayment(c, p)
  PROVE  ReviewSound'
<1>0. /\ ReviewTypes /\ Claimed /\ UNCHANGED <<alerts, submitted, rebuilds>>
      /\ payment[p].status = "none" /\ ~payment[p].hash /\ SetPaymentStatus(p, "created")
      /\ Resume(c, "monitor", p)
  BY DEF ReviewSound, CreatePayment, NoPayment, KeepCounts
<1>1. /\ call' \in [ReviewCalls -> CallRecords] /\ call'[c].at = "monitor"
      /\ \A d \in ReviewCalls : d # c => call'[d] = call[d]
  BY <1>0, Resumed DEF ReviewPlaces
<1>2. \A d \in ReviewCalls : call'[d].at \in Claiming => call'[d] = call[d] /\ call[d].p # p
  BY <1>0, <1>1 DEF Claiming, Processing, Rebuilding, Claimed, HeldRow
<1>3. PICK row : Rewrites(p, row) /\ row.status = "created" /\ row.hash = payment[p].hash
  BY <1>0, StatusRow DEF PaymentStatuses
<1>4. PaymentSound(row, submitted[p])
  BY <1>0, <1>3 DEF Claimed, PaymentSound
<1> QED
  BY <1>0, <1>1, <1>2, <1>3, <1>4, WriteAside

LEMMA CancelStep ==
  ASSUME ReviewSound, NEW p \in Payments, CancelPayment(p)
  PROVE  ReviewSound'
<1>0. /\ ReviewTypes /\ Claimed /\ UNCHANGED <<alerts, submitted, rebuilds, call>>
      /\ payment[p].status = "created" /\ SetPaymentStatus(p, "cancelled")
      /\ call \in [ReviewCalls -> CallRecords]
  BY DEF ReviewSound, CancelPayment, ReviewTypes, KeepCounts
<1>1. PICK row : Rewrites(p, row) /\ row.status = "cancelled"
  BY <1>0, StatusRow DEF PaymentStatuses
<1>2. PaymentSound(row, submitted[p])
  BY <1>0, <1>1 DEF Claimed, PaymentSound
<1>3. \A c \in ReviewCalls : call[c].at \in Claiming => call[c].p # p
  BY <1>0 DEF Claiming, Claimed, HeldRow
<1> QED
  BY <1>0, <1>1, <1>2, <1>3, WriteAside

\* A status request finds the rows that have a hash, which nobody processes.
LEMMA PollStep ==
  ASSUME ReviewSound, NEW p \in Payments, PollStatus(p)
  PROVE  ReviewSound'
<1>0. /\ ReviewTypes /\ Claimed /\ UNCHANGED <<alerts, submitted, rebuilds, call>>
      /\ call \in [ReviewCalls -> CallRecords] /\ payment[p].hash
  BY DEF ReviewSound, PollStatus, Sync, ReviewTypes, KeepCounts
<1>1. PICK status \in {"successful", "failed"} : SetPaymentStatus(p, status)
  BY DEF PollStatus, Sync
<1>2. PICK row : Rewrites(p, row) /\ row.status = status
  BY <1>0, <1>1, StatusRow DEF PaymentStatuses
<1>3. PaymentSound(row, submitted[p])
  BY <1>2 DEF PaymentSound
<1>4. \A c \in ReviewCalls : call[c].at \in Claiming /\ call[c].p = p =>
        HeldRow(call[c].at, row, submitted[p])
  BY <1>0, <1>2 DEF Claimed, HeldRow, Processing
<1> QED
  BY <1>0, <1>2, <1>3, <1>4, WriteAside

LEMMA ClaimStep ==
  ASSUME ReviewSound, NEW c \in ReviewCalls, NEW p \in Payments, ClaimPayment(c, p)
  PROVE  ReviewSound'
<1>0. ReviewTypes /\ Claimed /\ submitted \in [Payments -> Nat] /\ rebuilds \in [Payments -> Nat]
  BY DEF ReviewSound, ReviewTypes
<1>1. CASE payment[p].status # "created"
  BY <1>1, ReviewCallStep DEF ClaimPayment, KeepCounts
<1>2. CASE payment[p].status = "created"
  <2>1. /\ SetPaymentStatus(p, "processing") /\ Resume(c, "decrypt", p)
        /\ UNCHANGED <<alerts, submitted, rebuilds>>
    BY <1>2 DEF ClaimPayment, KeepCounts
  <2>2. /\ call' \in [ReviewCalls -> CallRecords] /\ call'[c].at = "decrypt" /\ call'[c].p = p
        /\ \A d \in ReviewCalls : d # c => call'[d] = call[d]
    BY <1>0, <2>1, Resumed DEF ReviewPlaces, Claiming, Processing
  <2>3. \A d \in ReviewCalls : call[d].at \in Claiming => call[d].p # p
    BY <1>0, <1>2 DEF Claiming, Claimed, HeldRow
  <2>4. submitted[p] = 0 /\ ~payment[p].hash
    BY <1>0, <1>2 DEF Claimed, PaymentSound
  <2>5. PICK row : Rewrites(p, row) /\ row.status = "processing" /\ row.hash = payment[p].hash
    BY <1>0, <2>1, StatusRow DEF PaymentStatuses
  <2>6. \A q \in Payments : Unsent(q)' \subseteq Unsent(q)
    BY <2>2 DEF Unsent, CallsOf
  <2>7. \A q \in Payments : SendsCounted(q)'
    BY <1>0, <2>1, <2>6, CountKept
  <2>8. Apart'
    BY <1>0, <2>2, <2>3 DEF Claimed, Apart, Claiming
  <2>9. PaymentSound(row, submitted'[p]) /\ ClaimersOf(p, row, submitted'[p])
    BY <2>1, <2>2, <2>3, <2>4, <2>5 DEF PaymentSound, ClaimersOf, HeldRow, Claiming, Rebuilding
  <2> QED
    BY <1>0, <2>1, <2>2, <2>5, <2>7, <2>8, <2>9, StatusSound
<1> QED
  BY <1>1, <1>2

LEMMA ReclaimStep ==
  ASSUME ReviewSound, NEW c \in ReviewCalls, NEW p \in Payments, Reclaim(c, p)
  PROVE  ReviewSound'
<1>0. /\ ReviewTypes /\ Claimed /\ submitted \in [Payments -> Nat] /\ rebuilds \in [Payments -> Nat]
      /\ call[c].at = "reclaim"
  BY DEF ReviewSound, ReviewTypes, Reclaim, CallAt
<1>1. CASE payment[p].status # "failed"
  BY <1>1, ReviewCallStep DEF Reclaim
<1>2. CASE payment[p].status = "failed"
  <2>1. /\ SetPaymentStatus(p, "submitted") /\ Resume(c, "sign", p)
        /\ UNCHANGED <<alerts, submitted>> /\ rebuilds' = [rebuilds EXCEPT ![p] = @ + 1]
    BY <1>2 DEF Reclaim
  <2>2. /\ call' \in [ReviewCalls -> CallRecords] /\ call'[c].at = "sign" /\ call'[c].p = p
        /\ \A d \in ReviewCalls : d # c => call'[d] = call[d]
    BY <1>0, <2>1, Resumed DEF ReviewPlaces, Claiming, Rebuilding
  <2>3. \A d \in ReviewCalls : call[d].at \in Processing => call[d].p # p
    BY <1>0, <1>2 DEF Claiming, Claimed, HeldRow
  <2>4. PICK row : Rewrites(p, row) /\ row.status = "submitted"
    BY <1>0, <2>1, StatusRow DEF PaymentStatuses
  <2>5. /\ rebuilds' \in [Payments -> Nat] /\ rebuilds'[p] = rebuilds[p] + 1
        /\ \A q \in Payments : q # p => rebuilds'[q] = rebuilds[q]
    BY <1>0, <2>1
  <2>6. SendsCounted(p)'
    <3>1. Unsent(p)' = Unsent(p) \cup {c} /\ c \notin Unsent(p)
      BY <1>0, <2>2 DEF Unsent, CallsOf
    <3>2. IsFiniteSet(Unsent(p)) /\ submitted[p] + Cardinality(Unsent(p)) <= 1 + rebuilds[p]
      BY <1>0 DEF Claimed, SendsCounted
    <3>3. /\ IsFiniteSet(Unsent(p)') /\ Cardinality(Unsent(p)') = Cardinality(Unsent(p)) + 1
          /\ Cardinality(Unsent(p)) \in Nat
      BY <3>1, <3>2, FS_AddElement, FS_CardinalityType
    <3> QED
      BY <1>0, <2>1, <2>5, <3>2, <3>3 DEF SendsCounted
  <2>7. ASSUME NEW q \in Payments, q # p PROVE SendsCounted(q)'
    <3>1. Unsent(q)' \subseteq Unsent(q)
      BY <2>2, <2>7 DEF Unsent, CallsOf
    <3> QED
      BY <1>0, <2>1, <2>5, <2>7, <3>1, CountKept
  <2>8. Apart'
    BY <1>0, <2>2, <2>3 DEF Claimed, Apart, Claiming, Processing
  <2>9. PaymentSound(row, submitted'[p])
    BY <2>4 DEF PaymentSound
  <2>10. ClaimersOf(p, row, submitted'[p])
    BY <1>0, <2>2, <2>3, <2>4 DEF ClaimersOf, HeldRow, Claiming, Processing
  <2> QED
    BY <1>0, <2>1, <2>2, <2>4, <2>5, <2>6, <2>7, <2>8, <2>9, <2>10, StatusSound
<1> QED
  BY <1>1, <1>2

\* What a row may be when a call that claimed it writes it: its new place allows
\* it, and so do the other rebuilds.
LEMMA ClaimerWrites ==
  ASSUME ReviewSound, NEW c \in ReviewCalls, NEW p \in Payments,
         call[c].at \in Claiming, call[c].p = p, UNCHANGED <<alerts, rebuilds>>,
         call' \in [ReviewCalls -> CallRecords],
         \A d \in ReviewCalls : d # c => call'[d] = call[d],
         call'[c].at \in Claiming => call'[c].p = p /\ (call'[c].at \in Processing => call[c].at \in Processing),
         NEW row, Rewrites(p, row), HeldRow(call'[c].at, row, submitted'[p]),
         call[c].at \in Rebuilding => row.status \notin {"none", "created", "cancelled"},
         submitted' \in [Payments -> Nat],
         \A q \in Payments : q # p => submitted'[q] = submitted[q],
         SendsCounted(p)', PaymentSound(row, submitted'[p])
  PROVE  ReviewSound'
<1>0. ReviewTypes /\ Claimed /\ submitted \in [Payments -> Nat] /\ rebuilds \in [Payments -> Nat]
  BY DEF ReviewSound, ReviewTypes
<1>1. \A d \in ReviewCalls : d # c /\ call[d].at \in Claiming /\ call[d].p = p =>
        call[d].at \in Rebuilding /\ call[c].at \in Rebuilding
  BY <1>0 DEF Claimed, Apart, Claiming
<1>2. ASSUME NEW q \in Payments, q # p PROVE SendsCounted(q)'
  <2>1. Unsent(q)' \subseteq Unsent(q)
    BY <1>2 DEF Unsent, CallsOf, Claiming, Rebuilding
  <2> QED
    BY <1>0, <1>2, <2>1, CountKept
<1>3. Apart'
  <2> SUFFICES ASSUME NEW d \in ReviewCalls, NEW f \in ReviewCalls, call'[d].at \in Processing,
                      call'[f].at \in Claiming, call'[d].p = call'[f].p, d # f
               PROVE  FALSE
    BY DEF Apart
  <2>1. /\ call'[d].at \in Claiming
        /\ d = c => call[c].at \in Processing /\ call[c].p = call'[c].p
        /\ f = c => call[c].p = call'[c].p
    BY DEF Claiming
  <2> QED
    BY <1>0, <2>1 DEF Claimed, Apart
<1>4. ClaimersOf(p, row, submitted'[p])
  <2> SUFFICES ASSUME NEW d \in ReviewCalls, call'[d].at \in Claiming
               PROVE  IF call'[d].p = p THEN HeldRow(call'[d].at, row, submitted'[p]) ELSE call'[d] = call[d]
    BY DEF ClaimersOf
  <2>1. CASE d = c
    BY <2>1
  <2>2. CASE d # c
    BY <1>1, <2>2 DEF HeldRow, Rebuilding, Processing
  <2> QED
    BY <2>1, <2>2
<1> QED
  BY <1>0, <1>2, <1>3, <1>4, StatusSound

\* It submits nothing: it ends, or goes on.
LEMMA ClaimerKeepsCount ==
  ASSUME ReviewSound, NEW c \in ReviewCalls, NEW p \in Payments,
         call[c].at \in Claiming, call[c].p = p, UNCHANGED <<submitted, rebuilds>>,
         \A d \in ReviewCalls : d # c => call'[d] = call[d],
         call'[c].at \in {"sign", "resubmit"} => call[c].at \in {"sign", "resubmit"}
  PROVE  SendsCounted(p)'
<1>1. Unsent(p)' \subseteq Unsent(p)
  BY DEF Unsent, CallsOf
<1> QED
  BY <1>1, CountKept DEF ReviewSound, ReviewTypes

LEMMA ClaimerEnds ==
  ASSUME ReviewSound, NEW c \in ReviewCalls, NEW p \in Payments,
         call[c].at \in Claiming, call[c].p = p, UNCHANGED <<alerts, submitted, rebuilds>>,
         Return(c), NEW row, Rewrites(p, row), PaymentSound(row, submitted[p]),
         call[c].at \in Rebuilding => row.status \notin {"none", "created", "cancelled"}
  PROVE  ReviewSound'
<1>0. ReviewTypes /\ submitted \in [Payments -> Nat]
  BY DEF ReviewSound, ReviewTypes
<1>1. /\ call' \in [ReviewCalls -> CallRecords] /\ call'[c].at = "none"
      /\ \A d \in ReviewCalls : d # c => call'[d] = call[d]
  BY <1>0, Returned
<1>2. SendsCounted(p)'
  BY <1>1, ClaimerKeepsCount
<1>3. "none" \notin Claiming /\ HeldRow("none", row, submitted'[p])
  BY DEF Claiming, HeldRow, Processing, Rebuilding
<1> QED
  BY <1>0, <1>1, <1>2, <1>3, ClaimerWrites

LEMMA ClaimerGoesOn ==
  ASSUME ReviewSound, NEW c \in ReviewCalls, NEW p \in Payments,
         call[c].at \in Claiming, call[c].p = p, UNCHANGED <<alerts, submitted, rebuilds>>,
         NEW place \in Claiming, Resume(c, place, p),
         place \in Processing => call[c].at \in Processing,
         place \in {"sign", "resubmit"} => call[c].at \in {"sign", "resubmit"},
         NEW row, Rewrites(p, row), HeldRow(place, row, submitted[p]), PaymentSound(row, submitted[p]),
         call[c].at \in Rebuilding => row.status \notin {"none", "created", "cancelled"}
  PROVE  ReviewSound'
<1>0. ReviewTypes /\ submitted \in [Payments -> Nat]
  BY DEF ReviewSound, ReviewTypes
<1>1. /\ call' \in [ReviewCalls -> CallRecords] /\ call'[c].at = place /\ call'[c].p = p
      /\ \A d \in ReviewCalls : d # c => call'[d] = call[d]
  BY <1>0, Resumed DEF ReviewPlaces
<1>2. SendsCounted(p)'
  BY <1>1, ClaimerKeepsCount
<1> QED
  BY <1>0, <1>1, <1>2, ClaimerWrites

\* It submits an envelope: the one of the first run, or that of a rebuild.
LEMMA SubmitStep ==
  ASSUME ReviewSound, NEW c \in ReviewCalls, NEW p \in Payments,
         \/ /\ CallAt(c, "submit", p)
            /\ Resume(c, "settle", p)
         \/ /\ CallAt(c, "resubmit", p)
            /\ Resume(c, "record", p),
         UNCHANGED <<payment, alerts, rebuilds>>, submitted' = [submitted EXCEPT ![p] = @ + 1]
  PROVE  ReviewSound'
<1>0. /\ ReviewTypes /\ Claimed /\ submitted \in [Payments -> Nat] /\ rebuilds \in [Payments -> Nat]
      /\ call[c].at \in {"submit", "resubmit"} /\ call[c].at \in Claiming /\ call[c].p = p
  BY DEF ReviewSound, ReviewTypes, CallAt, Claiming, Processing, Rebuilding
<1> DEFINE place == IF call[c].at = "submit" THEN "settle" ELSE "record"
<1>1. place \in Claiming /\ Resume(c, place, p)
  BY DEF CallAt, Claiming, Processing, Rebuilding
<1>2. /\ call' \in [ReviewCalls -> CallRecords] /\ call'[c].at = place /\ call'[c].p = p
      /\ \A d \in ReviewCalls : d # c => call'[d] = call[d]
  BY <1>0, <1>1, Resumed DEF ReviewPlaces
<1>3. /\ submitted' \in [Payments -> Nat] /\ submitted'[p] = submitted[p] + 1
      /\ \A q \in Payments : q # p => submitted'[q] = submitted[q]
  BY <1>0
<1>4. IsFiniteSet(Unsent(p)) /\ submitted[p] + Cardinality(Unsent(p)) <= 1 + rebuilds[p]
  BY <1>0 DEF Claimed, SendsCounted
<1>5. SendsCounted(p)'
  <2>1. CASE call[c].at = "submit"
    <3>1. submitted[p] = 0 /\ \A d \in ReviewCalls : call[d].p = p /\ call[d].at \in Claiming => d = c
      BY <1>0, <2>1 DEF Claimed, HeldRow, Apart, Processing
    <3>2. Unsent(p)' = {}
      BY <1>2, <2>1, <3>1 DEF Unsent, CallsOf, Claiming, Rebuilding
    <3>3. IsFiniteSet(Unsent(p)') /\ Cardinality(Unsent(p)') = 0
      BY <3>2, FS_EmptySet
    <3> QED
      BY <1>0, <1>3, <3>1, <3>3 DEF SendsCounted
  <2>2. CASE call[c].at = "resubmit"
    <3>1. Unsent(p)' = Unsent(p) \ {c} /\ c \in Unsent(p)
      BY <1>0, <1>2, <2>2 DEF Unsent, CallsOf
    <3>2. /\ IsFiniteSet(Unsent(p)') /\ Cardinality(Unsent(p)') = Cardinality(Unsent(p)) - 1
          /\ Cardinality(Unsent(p)) \in Nat
      BY <1>4, <3>1, FS_RemoveElement, FS_CardinalityType
    <3> QED
      BY <1>0, <1>3, <1>4, <3>2 DEF SendsCounted
  <2> QED
    BY <1>0, <2>1, <2>2
<1>6. PICK row : Rewrites(p, row) /\ row.status = payment[p].status /\ row.hash = payment[p].hash
  BY <1>0, SameRow
<1>7. /\ HeldRow(place, row, submitted'[p]) /\ PaymentSound(row, submitted'[p])
      /\ row.status \notin {"none", "created", "cancelled"}
      /\ place \in Processing => call[c].at \in Processing
  BY <1>0, <1>6 DEF Claimed, HeldRow, PaymentSound, Processing, Rebuilding
<1> HIDE DEF place
<1> QED
  BY <1>0, <1>1, <1>2, <1>3, <1>5, <1>6, <1>7, ClaimerWrites

LEMMA ClaimerStep ==
  ASSUME ReviewSound, NEW c \in ReviewCalls, NEW p \in Payments,
         \/ DecryptWallet(c, p) \/ SubmitPayment(c, p) \/ SettlePayment(c, p)
         \/ SignRebuilt(c, p) \/ SubmitRebuilt(c, p) \/ RecordRebuilt(c, p) \/ ConfirmRebuilt(c, p)
  PROVE  ReviewSound'
<1>0. /\ ReviewTypes /\ Claimed /\ UNCHANGED <<alerts, rebuilds>>
      /\ call[c].at \in Claiming /\ call[c].p = p
  BY DEF ReviewSound, DecryptWallet, SubmitPayment, SettlePayment, SignRebuilt, SubmitRebuilt,
     RecordRebuilt, ConfirmRebuilt, KeepCounts, CallAt, Claiming, Processing, Rebuilding
<1>1. /\ HeldRow(call[c].at, payment[p], submitted[p])
      /\ payment[p].status \notin {"none", "created", "cancelled"}
      /\ PaymentSound(payment[p], submitted[p])
  BY <1>0 DEF Claimed, HeldRow, Claiming
<1>2. ASSUME NEW status \in {"created", "completed", "successful", "failed"},
             SetPaymentStatus(p, status), Return(c), UNCHANGED submitted,
             status = "created" => call[c].at = "decrypt"
      PROVE  ReviewSound'
  <2>1. PICK row : Rewrites(p, row) /\ row.status = status /\ row.hash = payment[p].hash
    BY <1>0, <1>2, StatusRow DEF PaymentStatuses
  <2>2. PaymentSound(row, submitted[p])
    BY <1>1, <1>2, <2>1 DEF PaymentSound, HeldRow, Processing
  <2>3. call[c].at \in Rebuilding => row.status \notin {"none", "created", "cancelled"}
    BY <1>2, <2>1 DEF Rebuilding
  <2> QED
    BY <1>0, <1>2, <2>1, <2>2, <2>3, ClaimerEnds
<1>3. CASE DecryptWallet(c, p)
  <2>0. call[c].at = "decrypt" /\ UNCHANGED submitted
    BY <1>3 DEF DecryptWallet, CallAt, KeepCounts
  <2>1. CASE Resume(c, "submit", p) /\ UNCHANGED payment
    <3>1. PICK row : Rewrites(p, row) /\ row.status = payment[p].status /\ row.hash = payment[p].hash
      BY <1>0, <2>1, SameRow
    <3>2. /\ HeldRow("submit", row, submitted[p]) /\ PaymentSound(row, submitted[p])
          /\ "submit" \in Claiming /\ call[c].at \in Processing /\ call[c].at \notin Rebuilding
      BY <1>1, <2>0, <3>1 DEF HeldRow, PaymentSound, Claiming, Processing, Rebuilding
    <3> QED
      BY <1>0, <2>0, <2>1, <3>1, <3>2, ClaimerGoesOn
  <2>2. CASE SetPaymentStatus(p, "created") /\ Return(c)
    BY <1>2, <2>0, <2>2
  <2> QED
    BY <1>3, <2>1, <2>2 DEF DecryptWallet
<1>4. CASE SubmitPayment(c, p)
  <2>1. CASE submitted' = [submitted EXCEPT ![p] = @ + 1] /\ Resume(c, "settle", p) /\ UNCHANGED payment
    BY <1>0, <1>4, <2>1, SubmitStep DEF SubmitPayment
  <2>2. CASE SetPaymentStatus(p, "failed") /\ Return(c) /\ UNCHANGED submitted
    BY <1>2, <2>2
  <2> QED
    BY <1>4, <2>1, <2>2 DEF SubmitPayment
<1>5. CASE SettlePayment(c, p)
  <2>1. ASSUME NEW status \in {"completed", "failed"},
               SetColumns(p, [payment[p] EXCEPT !.status = status, !.hash = TRUE])
        PROVE  ReviewSound'
    <3>0. status \in PaymentStatuses
      BY DEF PaymentStatuses
    <3> HIDE DEF PaymentStatuses
    <3>2. \E row : Rewrites(p, row) /\ row.status = status /\ row.hash
      BY <1>0, <2>1, <3>0, HashRow
    <3>1. PICK row : Rewrites(p, row) /\ row.status = status
      BY <3>2
    <3>3. PaymentSound(row, submitted[p]) /\ row.status \notin {"none", "created", "cancelled"}
      BY <3>1 DEF PaymentSound
    <3> QED
      BY <1>0, <1>5, <3>1, <3>3, ClaimerEnds DEF SettlePayment, KeepCounts
  <2> QED
    BY <1>2, <1>5, <2>1 DEF SettlePayment, KeepCounts
<1>6. CASE SignRebuilt(c, p)
  <2>1. CASE SetColumns(p, [payment[p] EXCEPT !.hash = TRUE]) /\ Resume(c, "resubmit", p)
    <3>1. PICK row : Rewrites(p, row) /\ row.status = payment[p].status
      BY <1>0, <2>1, OnlyHashRow
    <3>2. /\ HeldRow("resubmit", row, submitted[p]) /\ PaymentSound(row, submitted[p])
          /\ "resubmit" \in Claiming /\ "resubmit" \notin Processing
          /\ call[c].at = "sign" /\ UNCHANGED submitted
      BY <1>1, <1>6, <3>1 DEF HeldRow, PaymentSound, Claiming, Processing, Rebuilding, SignRebuilt,
        CallAt, KeepCounts
    <3> QED
      BY <1>0, <1>1, <2>1, <3>1, <3>2, ClaimerGoesOn
  <2> QED
    BY <1>2, <1>6, <2>1 DEF SignRebuilt, KeepCounts
<1>7. CASE SubmitRebuilt(c, p)
  BY <1>0, <1>7, SubmitStep DEF SubmitRebuilt
<1>8. CASE RecordRebuilt(c, p)
  <2>1. CASE SetPaymentStatus(p, "processing") /\ Resume(c, "confirm", p)
    <3>1. PICK row : Rewrites(p, row) /\ row.status = "processing"
      BY <1>0, <2>1, StatusRow DEF PaymentStatuses
    <3>2. /\ HeldRow("confirm", row, submitted[p]) /\ PaymentSound(row, submitted[p])
          /\ "confirm" \in Claiming /\ "confirm" \notin Processing /\ UNCHANGED submitted
      BY <1>8, <3>1 DEF HeldRow, PaymentSound, Claiming, Processing, Rebuilding, RecordRebuilt, KeepCounts
    <3> QED
      BY <1>0, <2>1, <3>1, <3>2, ClaimerGoesOn
  <2> QED
    BY <1>2, <1>8, <2>1 DEF RecordRebuilt, KeepCounts
<1>9. CASE ConfirmRebuilt(c, p)
  <2>1. CASE UNCHANGED payment
    BY <1>0, <1>9, <2>1, ReviewCallStep DEF ConfirmRebuilt, KeepCounts
  <2> QED
    BY <1>2, <1>9, <2>1 DEF ConfirmRebuilt, Sync, KeepCounts
<1> QED
  BY <1>3, <1>4, <1>5, <1>6, <1>7, <1>8, <1>9

LEMMA ReviewInitSound == ReviewInit => ReviewSound
<1> SUFFICES ASSUME ReviewInit PROVE ReviewSound
  OBVIOUS
<1>1. NoPayment \in PaymentRows /\ Resting \in CallRecords /\ <<>> \in Seq(Alerts)
  BY DEF NoPayment, PaymentRows, PaymentStatuses, Resting, CallRecords, ReviewPlaces
<1>2. ReviewTypes
  BY <1>1 DEF ReviewInit, ReviewTypes
<1>3. /\ \A p \in Payments : Unsent(p) = {} /\ PaymentSound(payment[p], submitted[p])
      /\ \A c \in ReviewCalls : call[c].at \notin Claiming
  BY DEF ReviewInit, NoPayment, Resting, PaymentSound, Unsent, CallsOf, Claiming, Processing, Rebuilding
<1>4. Claimed
  <2>1. ASSUME NEW p \in Payments PROVE SendsCounted(p)
    <3>1. IsFiniteSet(Unsent(p)) /\ Cardinality(Unsent(p)) = 0
      BY <1>3, FS_EmptySet
    <3>2. submitted[p] = 0 /\ rebuilds[p] = 0
      BY DEF ReviewInit
    <3> QED
      BY <3>1, <3>2 DEF SendsCounted
  <2> QED
    BY <1>3, <2>1 DEF Claimed, Apart, Claiming
<1> QED
  BY <1>2, <1>3, <1>4 DEF ReviewInit, ReviewSound, Flagged, NoPayment

LEMMA ReviewStep == ReviewSound /\ [ReviewNext]_reviewVars => ReviewSound'
<1> SUFFICES ASSUME ReviewSound, [ReviewNext]_reviewVars PROVE ReviewSound'
  OBVIOUS
<1>1. CASE UNCHANGED reviewVars
  <2>1. ReviewTypes' /\ Flagged'
    BY <1>1 DEF reviewVars, ReviewSound, ReviewTypes, Flagged
  <2>2. Claimed'
    BY <1>1, ClaimedKept DEF reviewVars, ReviewSound
  <2> QED
    BY <2>1, <2>2 DEF ReviewSound
<1>2. CASE ReviewNext
  <2>1. ASSUME NEW c \in ReviewCalls, CutShort(c) PROVE ReviewSound'
    BY <2>1, ReviewCallStep DEF CutShort, KeepCounts
  <2>2. ASSUME NEW p \in Payments, FlagTransaction(p) \/ CancelPayment(p) \/ PollStatus(p)
        PROVE  ReviewSound'
    BY <2>2, AdminStep, CancelStep, PollStep
  <2>3. ASSUME NEW p \in Payments, NEW action \in {"reviewing", "release", "block"},
               ReviewFlagged(p, action)
        PROVE  ReviewSound'
    BY <2>3, AdminStep
  <2>4. ASSUME NEW p \in Payments, NEW c \in ReviewCalls,
               \/ CreatePayment(c, p) \/ Monitor(c, p) \/ ScreenRow(c, p) \/ ResolveAlert(c, p)
               \/ ClaimPayment(c, p) \/ DecryptWallet(c, p) \/ SubmitPayment(c, p)
               \/ SettlePayment(c, p) \/ Reclaim(c, p) \/ SignRebuilt(c, p)
               \/ SubmitRebuilt(c, p) \/ RecordRebuilt(c, p) \/ ConfirmRebuilt(c, p)
        PROVE  ReviewSound'
    <3>1. CASE CreatePayment(c, p) \/ Monitor(c, p) \/ ClaimPayment(c, p) \/ Reclaim(c, p)
      BY <3>1, NewPaymentStep, MonitorStep, ClaimStep, ReclaimStep
    <3>2. CASE ScreenRow(c, p) \/ ResolveAlert(c, p)
      BY <3>2, DecisionStep
    <3>3. CASE \/ DecryptWallet(c, p) \/ SubmitPayment(c, p) \/ SettlePayment(c, p)
               \/ SignRebuilt(c, p) \/ SubmitRebuilt(c, p) \/ RecordRebuilt(c, p)
               \/ ConfirmRebuilt(c, p)
      BY <3>3, ClaimerStep
    <3> QED
      BY <2>4, <3>1, <3>2, <3>3
  <2>5. ASSUME NEW p \in Payments, NEW c \in ReviewCalls,
               \/ Screen(c, p) \/ StartProcessing(c, p) \/ StartRebuild(c, p) \/ VerifyNotLanded(c, p)
               \/ \E i \in DOMAIN alerts[p] : ReadAlert(c, p, i)
        PROVE  ReviewSound'
    <3>1. UNCHANGED <<payment, alerts, submitted, rebuilds>>
      BY <2>5 DEF Screen, StartProcessing, StartRebuild, VerifyNotLanded, ReadAlert, KeepCounts
    <3>2. \/ Return(c)
          \/ \E place \in {"screen"} \cup BeforeClaim : Resume(c, place, p)
          \/ \E i \in DOMAIN alerts[p] : ReadAlert(c, p, i)
      BY <2>5 DEF Screen, StartProcessing, StartRebuild, VerifyNotLanded, BeforeClaim
    <3> QED
      BY <3>1, <3>2, ReviewCallStep
  <2> QED
    BY <1>2, <2>1, <2>2, <2>3, <2>4, <2>5 DEF ReviewNext
<1> QED
  BY <1>1, <1>2

LEMMA ReviewSoundAlways == ReviewSpec => []ReviewSound
  BY ReviewInitSound, ReviewStep, PTL DEF ReviewSpec

\* Compliance review: a payment is processed by one call at a time and rebuilt by
\* none meanwhile, submitted once and once more for every rebuild that claimed it
\* as failed, never when it was cancelled; monitoring raises one alert, and a
\* decision leaves none of its alerts open - for every number of payments, calls,
\* alerts and rebuilds, whenever clients ask for the status.
THEOREM ReviewKept == ReviewSpec => []ReviewInv
<1>1. ReviewSound => ReviewInv
  <2> SUFFICES ASSUME ReviewSound PROVE ReviewInv
    OBVIOUS
  <2>1. ReviewTypeOK
    <3>1. \A p \in Payments : payment[p] \in PaymentRows /\ alerts[p] \in Seq(Alerts)
      BY DEF ReviewSound, ReviewTypes
    <3>2. \A p \in Payments : \A i \in DOMAIN alerts[p] : alerts[p][i] \in Alerts
      BY <3>1
    <3> QED
      BY <3>1, <3>2 DEF ReviewTypeOK, PaymentRows, PaymentStatuses, Alerts
  <2>2. ReviewClosesAlerts
    BY DEF ReviewSound, Flagged, ReviewClosesAlerts
  <2>4. ASSUME NEW p \in Payments
        PROVE  /\ Cardinality(CallsOf(p, Processing)) <= 1
               /\ CallsOf(p, Processing) = {} \/ CallsOf(p, Rebuilding) = {}
    <3>0. /\ \A c, d \in CallsOf(p, Processing) : c = d
          /\ \A c \in CallsOf(p, Processing), d \in CallsOf(p, Rebuilding) : c = d
          /\ CallsOf(p, Processing) \cap CallsOf(p, Rebuilding) = {}
      BY DEF ReviewSound, Claimed, Apart, Claiming, CallsOf, Processing, Rebuilding
    <3>1. CallsOf(p, Processing) = {} \/ \E c : CallsOf(p, Processing) = {c}
      BY <3>0
    <3>2. Cardinality(CallsOf(p, Processing)) \in {0, 1}
      BY <3>1, FS_EmptySet, FS_Singleton
    <3> QED
      BY <3>0, <3>2
  <2>5. SubmittedByClaim
    <3>1. ASSUME NEW p \in Payments
          PROVE  /\ submitted[p] <= 1 + rebuilds[p]
                 /\ payment[p].status = "cancelled" => submitted[p] = 0
      <4>1. /\ PaymentSound(payment[p], submitted[p]) /\ SendsCounted(p)
            /\ submitted[p] \in Nat /\ rebuilds[p] \in Nat
        BY DEF ReviewSound, Claimed, ReviewTypes
      <4>2. Cardinality(Unsent(p)) \in Nat
        BY <4>1, FS_CardinalityType DEF SendsCounted
      <4> QED
        BY <4>1, <4>2 DEF PaymentSound, SendsCounted
    <3> QED
      BY <2>4, <3>1 DEF SubmittedByClaim
  <2>3. ASSUME NEW p \in Payments
        PROVE  Cardinality({i \in DOMAIN alerts[p] : alerts[p][i].by = "monitor"}) <= 1
    <3> DEFINE raised == {i \in DOMAIN alerts[p] : alerts[p][i].by = "monitor"}
    <3>1. raised = {} \/ \E i : raised = {i}
      BY DEF ReviewSound, Flagged
    <3>2. Cardinality(raised) \in {0, 1}
      BY <3>1, FS_EmptySet, FS_Singleton
    <3> QED
      BY <3>2
  <2> QED
    BY <2>1, <2>2, <2>3, <2>5 DEF ReviewInv, MonitoredOnce
<1> QED
  BY ReviewSoundAlways, <1>1, PTL

\* No step takes the flag or the block off a blocked payment.
LEMMA BlockKept ==
  ASSUME ReviewSound, [ReviewNext]_reviewVars, NEW p \in Payments, Blocked(p)
  PROVE  Blocked(p)'
<1>0. ReviewTypes
  BY DEF ReviewSound
<1> USE DEF Blocked
<1>1. ASSUME UNCHANGED payment PROVE Blocked(p)'
  BY <1>1
<1>2. ASSUME NEW q \in Payments, NEW status \in PaymentStatuses,
             \/ SetPaymentStatus(q, status)
             \/ SetColumns(q, [payment[q] EXCEPT !.status = status, !.hash = TRUE])
             \/ SetColumns(q, [payment[q] EXCEPT !.hash = TRUE])
      PROVE  Blocked(p)'
  <2>1. PICK row : Rewrites(q, row)
    BY <1>0, <1>2, StatusRow, HashRow, OnlyHashRow
  <2> QED
    BY <1>0, <2>1, RowSet
<1>3. ASSUME NEW q \in Payments, SetColumns(q, [payment[q] EXCEPT !.flagged = TRUE])
      PROVE  Blocked(p)'
  BY <1>0, <1>3, FlagSet
<1>4. ASSUME NEW q \in Payments, ClaimFlag(q) PROVE Blocked(p)'
  BY <1>1, <1>3, <1>4 DEF ClaimFlag
<1>5. ASSUME NEW q \in Payments, NEW action \in {"reviewing", "release", "block"},
             ReviewFlagged(q, action)
      PROVE  Blocked(p)'
  BY <1>0, <1>5, ActionSet DEF ReviewFlagged
<1>6. ASSUME NEW q \in Payments, NEW c \in ReviewCalls,
             \/ CreatePayment(c, q) \/ ClaimPayment(c, q) \/ DecryptWallet(c, q)
             \/ SubmitPayment(c, q) \/ SettlePayment(c, q) \/ Reclaim(c, q)
             \/ SignRebuilt(c, q) \/ RecordRebuilt(c, q) \/ ConfirmRebuilt(c, q)
      PROVE  Blocked(p)'
  <2>1. CASE CreatePayment(c, q) \/ ClaimPayment(c, q) \/ DecryptWallet(c, q)
             \/ SubmitPayment(c, q) \/ Reclaim(c, q)
    BY <1>1, <1>2, <2>1
    DEF CreatePayment, ClaimPayment, DecryptWallet, SubmitPayment, Reclaim, PaymentStatuses
  <2>2. CASE SettlePayment(c, q) \/ SignRebuilt(c, q) \/ RecordRebuilt(c, q) \/ ConfirmRebuilt(c, q)
    BY <1>1, <1>2, <2>2
    DEF SettlePayment, SignRebuilt, RecordRebuilt, ConfirmRebuilt, Sync, PaymentStatuses
  <2> QED
    BY <1>6, <2>1, <2>2
<1>7. ASSUME NEW q \in Payments, NEW c \in ReviewCalls,
             \/ Monitor(c, q) \/ Screen(c, q) \/ ScreenRow(c, q) \/ ResolveAlert(c, q)
             \/ (\E i \in DOMAIN alerts[q] : ReadAlert(c, q, i)) \/ StartProcessing(c, q)
             \/ StartRebuild(c, q) \/ VerifyNotLanded(c, q) \/ SubmitRebuilt(c, q)
      PROVE  Blocked(p)'
  BY <1>1, <1>3, <1>4, <1>7
  DEF Monitor, Screen, ScreenRow, ResolveAlert, ReadAlert, StartProcessing, StartRebuild,
      VerifyNotLanded, SubmitRebuilt
<1>8. ASSUME NEW q \in Payments, FlagTransaction(q) \/ CancelPayment(q) \/ PollStatus(q)
      PROVE  Blocked(p)'
  BY <1>2, <1>3, <1>8 DEF FlagTransaction, CancelPayment, PollStatus, Sync, PaymentStatuses
<1> QED
  BY <1>1, <1>5, <1>6, <1>7, <1>8 DEF ReviewNext, CutShort, reviewVars

\* No run of a blocked payment begins, unless it had failed.
LEMMA FlightKept ==
  ASSUME ReviewSound, [ReviewNext]_reviewVars, NEW p \in Payments, Blocked(p), InFlight(p)'
  PROVE  InFlight(p) \/ payment[p].status = "failed"
<1>0. ReviewTypes
  BY DEF ReviewSound
<1> DEFINE InRun(at) == at \in Claiming \cup BeforeClaim
<1> PICK d \in ReviewCalls : call'[d].p = p /\ InRun(call'[d].at)
  BY DEF InFlight, CallsOf, Claiming, Processing, Rebuilding, BeforeClaim
<1> SUFFICES ASSUME call'[d] # call[d] PROVE InFlight(p) \/ payment[p].status = "failed"
  BY DEF InFlight, CallsOf, Claiming
<1>1. ASSUME NEW c \in ReviewCalls, Return(c) PROVE FALSE
  BY <1>0, <1>1, Returned DEF Claiming, Processing, Rebuilding, BeforeClaim
<1>2. ASSUME NEW c \in ReviewCalls, NEW q \in Payments, NEW place \in ReviewPlaces,
             Resume(c, place, q)
      PROVE  c = d /\ q = p /\ InRun(place)
  BY <1>0, <1>2, Resumed
\* A call that is under way goes on.
<1>3. ASSUME NEW c \in ReviewCalls, NEW q \in Payments, NEW place \in ReviewPlaces,
             Resume(c, place, q), InRun(call[c].at), call[c].p = q
      PROVE  InFlight(p)
  BY <1>2, <1>3 DEF InFlight, CallsOf, Claiming
<1>4. ASSUME NEW c \in ReviewCalls, NEW q \in Payments,
             \/ ClaimPayment(c, q) \/ DecryptWallet(c, q) \/ SubmitPayment(c, q)
             \/ SettlePayment(c, q)
      PROVE  InFlight(p)
  BY <1>1, <1>3, <1>4 DEF ClaimPayment, DecryptWallet, SubmitPayment, SettlePayment, CallAt,
     ReviewPlaces, Claiming, Processing, Rebuilding, BeforeClaim
<1>5. ASSUME NEW c \in ReviewCalls, NEW q \in Payments,
             \/ VerifyNotLanded(c, q) \/ Reclaim(c, q) \/ SignRebuilt(c, q)
             \/ SubmitRebuilt(c, q) \/ RecordRebuilt(c, q) \/ ConfirmRebuilt(c, q)
      PROVE  InFlight(p)
  BY <1>1, <1>3, <1>5 DEF VerifyNotLanded, Reclaim, SignRebuilt, SubmitRebuilt, RecordRebuilt,
     ConfirmRebuilt, CallAt, ReviewPlaces, Claiming, Processing, Rebuilding, BeforeClaim
\* None begins.
<1>6. ASSUME NEW c \in ReviewCalls, NEW q \in Payments,
             CreatePayment(c, q) \/ Screen(c, q) \/ StartProcessing(c, q)
      PROVE  FALSE
  <2>1. CASE CreatePayment(c, q) \/ Screen(c, q)
    BY <1>2, <2>1 DEF CreatePayment, Screen, ReviewPlaces, Claiming, Processing, Rebuilding, BeforeClaim
  <2>2. CASE StartProcessing(c, q)
    <3>1. q = p
      BY <1>2, <2>2 DEF StartProcessing, ReviewPlaces, BeforeClaim
    <3> QED
      BY <2>2, <3>1 DEF StartProcessing, Clear, Blocked
  <2> QED
    BY <1>6, <2>1, <2>2
<1>7. ASSUME NEW c \in ReviewCalls, NEW q \in Payments, StartRebuild(c, q)
      PROVE  payment[p].status = "failed"
  BY <1>2, <1>7 DEF StartRebuild, ReviewPlaces, BeforeClaim
<1>8. ASSUME NEW c \in ReviewCalls, NEW q \in Payments, NEW i \in DOMAIN alerts[q],
             ReadAlert(c, q, i)
      PROVE  FALSE
  BY <1>0, <1>8 DEF ReadAlert, ReviewTypes, Claiming, Processing, Rebuilding, BeforeClaim
<1>9. ASSUME NEW c \in ReviewCalls, NEW q \in Payments,
             Monitor(c, q) \/ ScreenRow(c, q) \/ ResolveAlert(c, q) \/ CutShort(c)
      PROVE  FALSE
  BY <1>1, <1>9 DEF Monitor, ScreenRow, ResolveAlert, CutShort
<1>10. ASSUME UNCHANGED call PROVE FALSE
  BY <1>10
<1> QED
  BY <1>1, <1>4, <1>5, <1>6, <1>7, <1>8, <1>9, <1>10
  DEF ReviewNext, CutShort, FlagTransaction, CancelPayment, PollStatus, ReviewFlagged, reviewVars

\* A block stands: whatever handler runs next, the payment stays blocked, and no
\* run of it begins that was not under way, but for the rebuild of one that failed.
THEOREM BlockStandsAlways == ReviewSpec => BlockStands
<1>1. ReviewSound /\ [ReviewNext]_reviewVars =>
        \A p \in Payments : Blocked(p) =>
          /\ Blocked(p)'
          /\ InFlight(p)' => InFlight(p) \/ payment[p].status = "failed"
  BY BlockKept, FlightKept
<1> QED
  BY ReviewSoundAlways, <1>1, PTL DEF ReviewSpec, BlockStands

-----------------------------------------------------------------------------
(* SEP-10 challenges: a text is remembered where it was claimed, at least    *)
(* until the upper time bound of its challenge.                              *)

Claims == [Texts -> Nat]
Sep10Types ==
  /\ clock \in 0..MaxSepTime
  /\ minTime \in [Challenges -> 0..NotBuilt]
  /\ redisClaims \in Claims /\ memoryClaims \in Claims
  /\ redisUp \in BOOLEAN
  /\ verifying \in [VerifyCalls -> Texts \cup {NoText}]
  /\ given \in [{"redis", "memory"} -> Claims]

\* What is verified or was exchanged has been built, not later than now.
BuiltFirst ==
  /\ \A ch \in Challenges : Built(ch) => minTime[ch] <= clock
  /\ \A c \in VerifyCalls : verifying[c] # NoText => Built(Of(verifying[c]))
  /\ \A store \in {"redis", "memory"}, text \in Texts : given[store][text] > 0 => Built(Of(text))

ClaimsLast ==
  \A text \in Texts : /\ given["redis"][text] > 0 => redisClaims[text] >= UpperBound(text)
                      /\ given["memory"][text] > 0 => memoryClaims[text] >= UpperBound(text)

Sep10Sound == Sep10Types /\ BuiltFirst /\ ClaimsLast /\ TextUsedOnce

LEMMA OfText == \A text \in Texts : Of(text) \in Challenges
  BY DEF Texts, Of

\* The claims a token was given for are still there after a later claim.
LEMMA ClaimedLater ==
  ASSUME Sep10Types, NEW claims \in Claims, NEW text \in Texts
  PROVE  /\ ClaimedIn(claims, text) \in Claims
         /\ ClaimedIn(claims, text)[text] = clock + CHALLENGE_TTL
         /\ \A x \in Texts : x # text => ClaimedIn(claims, text)[x] = claims[x]
<1>1. clock + CHALLENGE_TTL \in Nat
  BY Sep10Assumption DEF Sep10Types
<1> QED
  BY <1>1 DEF ClaimedIn, Claims

LEMMA Sep10Start ==
  ASSUME Sep10Init
  PROVE  Sep10Sound
<1>1. /\ Sep10Types
      /\ \A store \in {"redis", "memory"}, text \in Texts : given[store][text] = 0
      /\ \A ch \in Challenges : ~Built(ch)
  BY Sep10Assumption DEF Sep10Init, Sep10Types, Claims, Built, NotBuilt
<1> QED
  BY <1>1 DEF Sep10Init, Sep10Sound, BuiltFirst, ClaimsLast, TextUsedOnce

LEMMA BuildKeeps ==
  ASSUME Sep10Sound, NEW ch \in Challenges, BuildChallenge(ch)
  PROVE  Sep10Sound'
<1>1. /\ Sep10Types /\ UNCHANGED <<clock, redisClaims, memoryClaims, redisUp, verifying, given>>
      /\ minTime' = [minTime EXCEPT ![ch] = clock] /\ ~Built(ch)
  BY DEF BuildChallenge, StoreKept, Sep10Sound
<1>2. /\ minTime' \in [Challenges -> 0..NotBuilt] /\ minTime'[ch] = clock /\ clock # NotBuilt
      /\ \A x \in Challenges : x # ch => minTime'[x] = minTime[x]
  BY <1>1, Sep10Assumption DEF Sep10Types, NotBuilt
<1>3. Sep10Types'
  BY <1>1, <1>2 DEF Sep10Types, NotBuilt
<1>4. \A store \in {"redis", "memory"}, text \in Texts :
        given[store][text] > 0 => Built(Of(text)) /\ minTime'[Of(text)] = minTime[Of(text)]
  BY <1>1, <1>2, OfText DEF Sep10Sound, BuiltFirst
<1>5. \A x \in Challenges : Built(x) => Built(x)'
  BY <1>2 DEF Built, NotBuilt
<1>6. \A x \in Challenges : Built(x)' => minTime'[x] <= clock
  BY <1>1, <1>2 DEF Sep10Sound, Sep10Types, BuiltFirst, Built, NotBuilt
<1>7. \A c \in VerifyCalls : verifying[c] # NoText => Of(verifying[c]) \in Challenges /\ Built(Of(verifying[c]))
  BY <1>1, OfText DEF Sep10Sound, Sep10Types, BuiltFirst
<1>8. BuiltFirst'
  BY <1>1, <1>4, <1>5, <1>6, <1>7, OfText DEF BuiltFirst, Built, NotBuilt
<1>9. ClaimsLast'
  BY <1>1, <1>4 DEF Sep10Sound, ClaimsLast, UpperBound
<1>10. TextUsedOnce'
  BY <1>1 DEF Sep10Sound, TextUsedOnce
<1> QED
  BY <1>3, <1>8, <1>9, <1>10 DEF Sep10Sound

\* A step that leaves the claims and the tokens alone, or forgets what is in the
\* process.
LEMMA QuietKeeps ==
  ASSUME Sep10Sound, UNCHANGED <<minTime, redisClaims>>,
         clock' \in 0..MaxSepTime, clock' >= clock, redisUp' \in BOOLEAN,
         verifying' \in [VerifyCalls -> Texts \cup {NoText}],
         \A c \in VerifyCalls : verifying'[c] # NoText => Built(Of(verifying'[c])),
         \/ UNCHANGED <<memoryClaims, given>>
         \/ /\ memoryClaims' \in Claims
            /\ given' = [given EXCEPT !["memory"] = [text \in Texts |-> 0]]
  PROVE  Sep10Sound'
<1>0. /\ Sep10Types /\ BuiltFirst /\ ClaimsLast /\ TextUsedOnce
      /\ \A ch \in Challenges : minTime[ch] \in Nat
      /\ clock \in Nat /\ clock' \in Nat
  BY Sep10Assumption DEF Sep10Sound, Sep10Types, NotBuilt
<1>1. /\ given' \in [{"redis", "memory"} -> Claims] /\ given'["redis"] = given["redis"]
      /\ given' = given \/ \A text \in Texts : given'["memory"][text] = 0
  BY <1>0 DEF Sep10Types, Claims
<1>2. Sep10Types'
  BY <1>0, <1>1 DEF Sep10Types, NotBuilt
<1>3. \A store \in {"redis", "memory"}, text \in Texts :
        given'[store][text] > 0 => given'[store] = given[store]
  BY <1>1
<1>4. BuiltFirst'
  BY <1>0, <1>3 DEF BuiltFirst, Built, NotBuilt
<1>5. ClaimsLast'
  BY <1>0, <1>1 DEF ClaimsLast, UpperBound
<1>6. TextUsedOnce'
  BY <1>0, <1>1 DEF TextUsedOnce
<1> QED
  BY <1>2, <1>4, <1>5, <1>6 DEF Sep10Sound

LEMMA ClaimKeeps ==
  ASSUME Sep10Sound, NEW c \in VerifyCalls, ClaimOnce(c)
  PROVE  Sep10Sound'
<1>1. /\ Sep10Types /\ BuiltFirst /\ ClaimsLast /\ TextUsedOnce
      /\ UNCHANGED <<clock, minTime, redisUp>>
      /\ verifying' = [verifying EXCEPT ![c] = NoText] /\ verifying[c] # NoText
  BY DEF Sep10Sound, ClaimOnce
<1>2. PICK text \in Texts : text = verifying[c] /\ Built(Of(text))
  BY <1>1 DEF Sep10Types, BuiltFirst
<1>3. /\ verifying' \in [VerifyCalls -> Texts \cup {NoText}]
      /\ \A x \in VerifyCalls : verifying'[x] # NoText => Built(Of(verifying'[x]))
  BY <1>1 DEF Sep10Types, BuiltFirst
<1>4. CASE StoreKept
  BY <1>1, <1>3, <1>4, QuietKeeps DEF Sep10Types, StoreKept
<1> DEFINE claims == IF redisUp THEN redisClaims ELSE memoryClaims
           store == IF redisUp THEN "redis" ELSE "memory"
           more == [given EXCEPT ![store][text] = @ + 1]
<1>5. CASE /\ ~Held(claims, text)
           /\ redisClaims' = (IF redisUp THEN ClaimedIn(claims, text) ELSE redisClaims)
           /\ memoryClaims' = (IF redisUp THEN memoryClaims ELSE ClaimedIn(claims, text))
           /\ \/ given' = (IF clock < UpperBound(text) THEN more ELSE given)
              \/ UNCHANGED given
  <2>1. /\ clock \in Nat /\ CHALLENGE_TTL \in Nat /\ Of(text) \in Challenges
        /\ minTime[Of(text)] \in Nat /\ minTime[Of(text)] <= clock
        /\ UpperBound(text) \in Nat /\ clock + CHALLENGE_TTL >= UpperBound(text)
    BY <1>1, <1>2, Sep10Assumption, OfText DEF Sep10Types, BuiltFirst, NotBuilt, UpperBound
  <2>2. claims \in Claims /\ claims[text] <= clock /\ store \in {"redis", "memory"}
    BY <1>1, <1>5, <2>1 DEF Sep10Types, Held, Claims
  <2>3. /\ redisClaims' \in Claims /\ memoryClaims' \in Claims
        /\ redisUp => /\ redisClaims'[text] = clock + CHALLENGE_TTL
                      /\ \A x \in Texts : x # text => redisClaims'[x] = redisClaims[x]
                      /\ memoryClaims' = memoryClaims
        /\ ~redisUp => /\ memoryClaims'[text] = clock + CHALLENGE_TTL
                       /\ \A x \in Texts : x # text => memoryClaims'[x] = memoryClaims[x]
                       /\ redisClaims' = redisClaims
    BY <1>1, <1>5, <2>2, ClaimedLater DEF Sep10Types
  <2>4. given[store][text] \in Nat /\ (clock < UpperBound(text) => given[store][text] = 0)
    BY <1>1, <2>1, <2>2 DEF Sep10Types, ClaimsLast, Claims
  <2>5. /\ more \in [{"redis", "memory"} -> Claims]
        /\ more[store][text] = given[store][text] + 1
        /\ \A s \in {"redis", "memory"}, x \in Texts :
             s # store \/ x # text => more[s][x] = given[s][x]
    BY <1>1, <2>2, <2>4 DEF Sep10Types, Claims
  <2> HIDE DEF more
  <2>6. /\ given' \in [{"redis", "memory"} -> Claims]
        /\ \A s \in {"redis", "memory"}, x \in Texts :
             s # store \/ x # text => given'[s][x] = given[s][x]
        /\ given'[store][text] = given[store][text] \/ given'[store][text] = 1
    BY <1>1, <1>5, <2>4, <2>5 DEF Sep10Types
  <2>7. Sep10Types'
    BY <1>1, <1>3, <2>3, <2>6 DEF Sep10Types, NotBuilt
  <2>8. \A s \in {"redis", "memory"}, x \in Texts :
          given'[s][x] > 0 => given[s][x] > 0 \/ (s = store /\ x = text)
    BY <2>6
  <2>9. BuiltFirst'
    BY <1>1, <1>2, <1>3, <2>8 DEF BuiltFirst, Built, NotBuilt
  <2>10. ClaimsLast'
    <3>1. ASSUME NEW x \in Texts, x # text
          PROVE  /\ given'["redis"][x] > 0 => redisClaims'[x] >= UpperBound(x)
                 /\ given'["memory"][x] > 0 => memoryClaims'[x] >= UpperBound(x)
      BY <1>1, <2>3, <2>6, <3>1 DEF ClaimsLast
    <3>2. /\ given'["redis"][text] > 0 => redisClaims'[text] >= UpperBound(text)
          /\ given'["memory"][text] > 0 => memoryClaims'[text] >= UpperBound(text)
      BY <1>1, <2>1, <2>3, <2>6 DEF ClaimsLast
    <3> QED
      BY <1>1, <3>1, <3>2 DEF ClaimsLast, UpperBound
  <2>11. TextUsedOnce'
    BY <1>1, <2>2, <2>6 DEF TextUsedOnce
  <2> QED
    BY <2>7, <2>9, <2>10, <2>11 DEF Sep10Sound
<1> QED
  BY <1>1, <1>2, <1>4, <1>5 DEF ClaimOnce

\* Every step keeps it.
LEMMA Sep10Stays ==
  ASSUME Sep10Sound, [Sep10Next]_sep10Vars
  PROVE  Sep10Sound'
<1>0. Sep10Types /\ BuiltFirst /\ clock \in Nat /\ MaxSepTime \in Nat
  BY Sep10Assumption DEF Sep10Sound, Sep10Types
<1>1. CASE RedisGoes \/ RedisReturns
  <2>1. /\ UNCHANGED <<clock, minTime, verifying, redisClaims, memoryClaims, given>>
        /\ redisUp' \in BOOLEAN
    BY <1>1 DEF RedisGoes, RedisReturns, StoreKept
  <2> QED
    BY <1>0, <2>1, QuietKeeps DEF Sep10Types, BuiltFirst
<1>2. CASE Sep10Tick
  BY <1>0, <1>2, QuietKeeps DEF Sep10Tick, StoreKept, Sep10Types, BuiltFirst
<1>3. CASE Restart
  <2>1. /\ verifying' \in [VerifyCalls -> Texts \cup {NoText}]
        /\ \A c \in VerifyCalls : verifying'[c] = NoText
        /\ memoryClaims' \in Claims
    BY <1>3 DEF Restart, Claims
  <2> QED
    BY <1>0, <1>3, <2>1, QuietKeeps DEF Restart, Sep10Types
<1>4. ASSUME NEW ch \in Challenges, BuildChallenge(ch) PROVE Sep10Sound'
  BY <1>4, BuildKeeps
<1>5. ASSUME NEW text \in Texts, NEW c \in VerifyCalls, CheckChallenge(c, text) PROVE Sep10Sound'
  BY <1>0, <1>5, QuietKeeps DEF CheckChallenge, StoreKept, Sep10Types, BuiltFirst
<1>6. ASSUME NEW c \in VerifyCalls, ClaimOnce(c) PROVE Sep10Sound'
  BY <1>6, ClaimKeeps
<1>7. CASE UNCHANGED sep10Vars
  BY <1>0, <1>7, QuietKeeps DEF sep10Vars, Sep10Types, BuiltFirst
<1> QED
  BY <1>1, <1>2, <1>3, <1>4, <1>5, <1>6, <1>7 DEF Sep10Next

\* "Challenge has already been used": while its claims stay in one store, a text
\* of a challenge is exchanged for one token before the upper time bound, however
\* verifications interleave and whenever Redis goes, returns or the process
\* restarts (verifyChallenge, claimOnce).
THEOREM TextsUsedOnce == Sep10Spec => []TextUsedOnce
<1>1. Sep10Init => Sep10Sound
  BY Sep10Start
<1>2. Sep10Sound /\ [Sep10Next]_sep10Vars => Sep10Sound'
  BY Sep10Stays
<1>3. Sep10Sound => TextUsedOnce
  BY DEF Sep10Sound
<1> QED
  BY <1>1, <1>2, <1>3, PTL DEF Sep10Spec

-----------------------------------------------------------------------------
(* Sessions: the inductive invariant. *)

TokenRows == [live : BOOLEAN, from : Nat, root : Nat]
Requests == [at : {"none", "register", "issue", "rotate", "next"}, token : Nat]

AuthTypes ==
  /\ user \in {"none", "active", "suspended", "banned"}
  /\ tokens \in Seq(TokenRows)
  /\ request \in [AuthCalls -> Requests]
  /\ late \in Nat

\* Calls that have passed the check of the user's status.
Passed == {c \in AuthCalls : request[c].at \in {"issue", "rotate", "next"}}

\* The chains: a token comes after the one it replaces, and after the first of
\* its session; only registered users have tokens or wait for one.
Chains ==
  /\ \A t \in 1..Len(tokens) :
       /\ tokens[t].from < t /\ tokens[t].root \in 1..t
       /\ tokens[tokens[t].root].from = 0
  /\ \A c \in AuthCalls : request[c].at \in {"rotate", "next"} => request[c].token \in 1..Len(tokens)
  /\ user = "none" => Len(tokens) = 0 /\ Passed = {}

\* A token that nobody raced for has at most one successor, and none while the
\* one refresh that revoked it has not made it.
Rotated(t) ==
  /\ \A u, v \in 1..Len(tokens) : tokens[u].from = t /\ tokens[v].from = t => u = v
  /\ \A u \in 1..Len(tokens) : tokens[u].from = t => Refreshing(t) = {} /\ ~tokens[t].live
  /\ \A c \in AuthCalls : request[c] = [at |-> "next", token |-> t] =>
       Refreshing(t) = {c} /\ ~tokens[t].live

\* The sessions that were all revoked, with none of them being refreshed, end.
Ended(r) == r \in loggedOut \ escaped
EndedStay ==
  /\ loggedOut \subseteq 1..Len(tokens)
  /\ \A t \in 1..Len(tokens) : Ended(tokens[t].root) => ~tokens[t].live /\ Refreshing(t) = {}

LateBound == user # "active" => Cardinality(Passed) <= late

AuthSound ==
  /\ AuthTypes /\ Chains /\ EndedStay /\ LateBound
  /\ \A t \in 1..Len(tokens) : t \notin raced => Rotated(t)

-----------------------------------------------------------------------------
(* Sessions: every step keeps the invariant. *)

LEMMA PassedFinite ==
  /\ IsFiniteSet(Passed) /\ Cardinality(Passed) \in Nat
  /\ \A S \in SUBSET Passed : Cardinality(S) <= Cardinality(Passed) /\ IsFiniteSet(S)
<1>1. IsFiniteSet(Passed)
  BY AuthAssumption, FS_Subset DEF Passed
<1> QED
  BY <1>1, FS_CardinalityType, FS_Subset

LEMMA TokensAre ==
  ASSUME AuthTypes
  PROVE  /\ Len(tokens) \in Nat /\ DOMAIN tokens = 1..Len(tokens)
         /\ \A t \in 1..Len(tokens) : tokens[t] \in TokenRows
  BY LenProperties, ElementOfSeq DEF AuthTypes

LEMMA RevokedRow ==
  ASSUME NEW row \in TokenRows
  PROVE  /\ [row EXCEPT !.live = FALSE] \in TokenRows
         /\ [row EXCEPT !.live = FALSE].from = row.from
         /\ [row EXCEPT !.live = FALSE].root = row.root
         /\ [row EXCEPT !.live = FALSE].live = FALSE
  BY DEF TokenRows

\* The rows after one of them is revoked.
LEMMA RevokedOne ==
  ASSUME AuthTypes, NEW u \in 1..Len(tokens)
  PROVE  LET one == [tokens EXCEPT ![u].live = FALSE] IN
         /\ one \in Seq(TokenRows) /\ Len(one) = Len(tokens)
         /\ \A t \in 1..Len(tokens) :
              /\ one[t].from = tokens[t].from /\ one[t].root = tokens[t].root
              /\ one[t].live => tokens[t].live
         /\ ~one[u].live
<1> DEFINE row == [tokens[u] EXCEPT !.live = FALSE]
           one == [tokens EXCEPT ![u] = row]
<1>1. [tokens EXCEPT ![u].live = FALSE] = one
  OBVIOUS
<1>2. row \in TokenRows /\ row.from = tokens[u].from /\ row.root = tokens[u].root /\ row.live = FALSE
  BY TokensAre, RevokedRow
<1> HIDE DEF row
<1>3. /\ one \in Seq(TokenRows) /\ Len(one) = Len(tokens)
      /\ \A j \in 1..Len(tokens) : one[j] = IF j = u THEN row ELSE tokens[j]
  BY <1>2, ExceptSeq DEF AuthTypes
<1> HIDE DEF one
<1>4. /\ one \in Seq(TokenRows) /\ Len(one) = Len(tokens)
      /\ \A t \in 1..Len(tokens) :
           /\ one[t].from = tokens[t].from /\ one[t].root = tokens[t].root
           /\ one[t].live => tokens[t].live
      /\ ~one[u].live
  BY <1>2, <1>3
<1> QED
  BY <1>1, <1>4

\* The rows after all of them are revoked.
LEMMA RevokedAll ==
  ASSUME AuthTypes
  PROVE  LET all == [t \in DOMAIN tokens |-> [tokens[t] EXCEPT !.live = FALSE]] IN
         /\ all \in Seq(TokenRows) /\ Len(all) = Len(tokens)
         /\ \A t \in 1..Len(tokens) : /\ all[t].from = tokens[t].from
                                      /\ all[t].root = tokens[t].root /\ ~all[t].live
<1> DEFINE row(t) == [tokens[t] EXCEPT !.live = FALSE]
           all == [t \in DOMAIN tokens |-> row(t)]
<1>1. \A t \in 1..Len(tokens) : /\ row(t) \in TokenRows /\ row(t).from = tokens[t].from
                                /\ row(t).root = tokens[t].root /\ row(t).live = FALSE
  BY TokensAre, RevokedRow
<1> HIDE DEF row
<1>2. /\ all \in Seq(TokenRows) /\ Len(all) = Len(tokens)
      /\ \A t \in 1..Len(tokens) : all[t] = row(t)
  BY <1>1, TokensAre
<1>3. all = [t \in DOMAIN tokens |-> [tokens[t] EXCEPT !.live = FALSE]]
  BY DEF row
<1> HIDE DEF all
<1>4. /\ all \in Seq(TokenRows) /\ Len(all) = Len(tokens)
      /\ \A t \in 1..Len(tokens) : /\ all[t].from = tokens[t].from
                                   /\ all[t].root = tokens[t].root /\ ~all[t].live
  BY <1>1, <1>2
<1> QED
  BY <1>3, <1>4

LEMMA AuthStart ==
  ASSUME AuthInit
  PROVE  AuthSound
<1>1. tokens = <<>> /\ Len(tokens) = 0 /\ tokens \in Seq(TokenRows)
  BY EmptySeq DEF AuthInit
<1>2. \A c \in AuthCalls : request[c] = NoRequest
  BY DEF AuthInit
<1>3. AuthTypes
  BY <1>1 DEF AuthInit, AuthTypes, Requests, NoRequest
<1>4. Passed = {}
  BY <1>2 DEF Passed, NoRequest
<1>5. Chains
  BY <1>1, <1>2, <1>4 DEF Chains, NoRequest
<1>6. EndedStay /\ LateBound
  BY <1>1, <1>4, FS_EmptySet DEF EndedStay, LateBound, AuthInit
<1> QED
  BY <1>1, <1>3, <1>5, <1>6 DEF AuthSound

\* A step that makes no token and ends no session.
LEMMA MoveStep ==
  ASSUME AuthSound, AuthTypes', UNCHANGED <<loggedOut, escaped>>, raced \subseteq raced',
         Len(tokens') = Len(tokens),
         \A t \in 1..Len(tokens) :
           /\ tokens'[t].from = tokens[t].from /\ tokens'[t].root = tokens[t].root
           /\ (tokens'[t].live => tokens[t].live),
         \A c \in AuthCalls : request'[c].at \in {"rotate", "next"} => request'[c].token \in 1..Len(tokens),
         user' = "none" => user = "none" /\ Passed' = {}, LateBound',
         \A t \in 1..Len(tokens) : Refreshing(t)' \subseteq Refreshing(t) \/ tokens[t].live,
         \A t \in 1..Len(tokens) :
           \/ t \in raced'
           \/ /\ Refreshing(t)' \subseteq Refreshing(t) \/ tokens[t].live
              /\ \A c \in AuthCalls :
                   request'[c] = [at |-> "next", token |-> t] => request[c] = [at |-> "next", token |-> t]
           \/ /\ ~tokens'[t].live
              /\ \E c \in AuthCalls : Refreshing(t) = {c} /\ Refreshing(t)' = {c}
  PROVE  AuthSound'
<1>1. AuthTypes /\ Chains /\ EndedStay /\ Len(tokens) \in Nat
  BY TokensAre DEF AuthSound
<1>2. Chains'
  BY <1>1 DEF Chains
<1>3. EndedStay'
  BY <1>1 DEF EndedStay, Ended
<1>4. ASSUME NEW t \in 1..Len(tokens'), t \notin raced' PROVE Rotated(t)'
  <2>1. t \in 1..Len(tokens) /\ Rotated(t)
    BY <1>4 DEF AuthSound
  <2>2. CASE /\ Refreshing(t)' \subseteq Refreshing(t)
             /\ \A c \in AuthCalls :
                  request'[c] = [at |-> "next", token |-> t] => request[c] = [at |-> "next", token |-> t]
    <3>1. \A c \in AuthCalls : request'[c] = [at |-> "next", token |-> t] => c \in Refreshing(t)'
      BY DEF Refreshing
    <3> QED
      BY <2>1, <2>2, <3>1 DEF Rotated
  <2>3. CASE /\ tokens[t].live
             /\ \A c \in AuthCalls :
                  request'[c] = [at |-> "next", token |-> t] => request[c] = [at |-> "next", token |-> t]
    BY <2>1, <2>3 DEF Rotated
  <2>4. CASE /\ ~tokens'[t].live
             /\ \E c \in AuthCalls : Refreshing(t) = {c} /\ Refreshing(t)' = {c}
    <3>1. PICK x \in AuthCalls : Refreshing(t) = {x} /\ Refreshing(t)' = {x}
      BY <2>4
    <3>2. \A c \in AuthCalls : request'[c] = [at |-> "next", token |-> t] => c \in Refreshing(t)'
      BY DEF Refreshing
    <3>3. \A u \in 1..Len(tokens) : tokens[u].from # t
      BY <2>1, <3>1 DEF Rotated
    <3> QED
      BY <2>1, <2>4, <3>1, <3>2, <3>3 DEF Rotated
  <2> QED
    BY <1>4, <2>1, <2>2, <2>3, <2>4
<1> QED
  BY <1>2, <1>3, <1>4 DEF AuthSound

\* All sessions are revoked.
LEMMA RevokeStep ==
  ASSUME AuthSound, RevokeAll, UNCHANGED <<user, request, statusChanges, authCrashes, raced, late>>
  PROVE  AuthSound'
<1>1. AuthTypes /\ Chains /\ EndedStay /\ LateBound /\ Len(tokens) \in Nat
      /\ DOMAIN tokens = 1..Len(tokens)
  BY TokensAre DEF AuthSound
<1>2. /\ tokens' \in Seq(TokenRows) /\ Len(tokens') = Len(tokens)
      /\ \A t \in 1..Len(tokens) : /\ tokens'[t].from = tokens[t].from
                                   /\ tokens'[t].root = tokens[t].root /\ ~tokens'[t].live
  BY <1>1, RevokedAll DEF RevokeAll
<1>3. /\ loggedOut' = loggedOut \cup {tokens[t].root : t \in 1..Len(tokens)}
      /\ escaped' = escaped \cup {r \in {tokens[t].root : t \in 1..Len(tokens)} :
                                    \E t \in 1..Len(tokens) : tokens[t].root = r /\ Refreshing(t) # {}}
  BY <1>1 DEF RevokeAll
<1>4. AuthTypes' /\ Chains' /\ Passed' = Passed
  <2>1. AuthTypes'
    BY <1>1, <1>2 DEF AuthTypes
  <2>2. Passed' = Passed
    BY DEF Passed
  <2>3. Chains'
    BY <1>1, <1>2, <2>2 DEF Chains
  <2> QED
    BY <2>1, <2>2, <2>3
<1>5. LateBound'
  BY <1>1, <1>4 DEF LateBound
<1>6. \A t \in Nat : Refreshing(t)' = Refreshing(t)
  BY DEF Refreshing
<1>7. EndedStay'
  <2>1. loggedOut' \subseteq 1..Len(tokens')
    <3>1. \A t \in 1..Len(tokens) : tokens[t].root \in 1..Len(tokens)
      BY <1>1 DEF Chains
    <3> QED
      BY <1>1, <1>2, <1>3, <3>1 DEF EndedStay
  <2>2. ASSUME NEW t \in 1..Len(tokens), Ended(tokens[t].root)' PROVE Refreshing(t)' = {}
    <3>1. tokens[t].root \in loggedOut' /\ tokens[t].root \notin escaped'
      BY <1>2, <2>2 DEF Ended
    <3>2. Refreshing(t) = {}
      BY <1>3, <3>1
    <3> QED
      BY <1>6, <3>2
  <2> QED
    BY <1>2, <2>1, <2>2 DEF EndedStay
<1>8. ASSUME NEW t \in 1..Len(tokens'), t \notin raced' PROVE Rotated(t)'
  <2>1. t \in 1..Len(tokens) /\ t \in Nat /\ Rotated(t)
    BY <1>1, <1>2, <1>8 DEF AuthSound
  <2> QED
    BY <1>2, <1>6, <2>1 DEF Rotated
<1> QED
  BY <1>4, <1>5, <1>7, <1>8 DEF AuthSound

\* A token is made, the first of a session or the successor of another.
LEMMA CreateStep ==
  ASSUME AuthSound, NEW c \in AuthCalls, NEW from \in 0..Len(tokens), Created(from), Returns(c),
         UNCHANGED <<user, loggedOut, escaped, statusChanges, authCrashes, raced>>,
         \/ from = 0 /\ request[c].at = "issue"
         \/ from > 0 /\ request[c] = [at |-> "next", token |-> from]
  PROVE  AuthSound'
<1> DEFINE id == Len(tokens) + 1
           row == [live |-> TRUE, from |-> from, root |-> IF from = 0 THEN id ELSE tokens[from].root]
<1>1. /\ AuthTypes /\ Chains /\ EndedStay /\ LateBound /\ Len(tokens) \in Nat
      /\ tokens \in Seq(TokenRows) /\ request \in [AuthCalls -> Requests]
      /\ \A t \in 1..Len(tokens) : tokens[t] \in TokenRows
  BY TokensAre DEF AuthSound, AuthTypes
<1>2. row \in TokenRows /\ row.from = from /\ row.root = (IF from = 0 THEN id ELSE tokens[from].root)
  BY <1>1 DEF TokenRows
<1>3. tokens' = Append(tokens, row)
  BY DEF Created
<1> HIDE DEF row
<1>4. /\ tokens' \in Seq(TokenRows) /\ Len(tokens') = id /\ tokens'[id] = row
      /\ \A t \in 1..Len(tokens) : tokens'[t] = tokens[t]
  BY <1>1, <1>2, <1>3, AppendProperties
<1>5. /\ request' = [request EXCEPT ![c] = NoRequest] /\ request'[c] = NoRequest
      /\ request' \in [AuthCalls -> Requests]
      /\ \A x \in AuthCalls : x # c => request'[x] = request[x]
  BY <1>1 DEF Returns, NoRequest, Requests
<1>6. /\ Passed' = Passed \ {c} /\ c \in Passed
      /\ Cardinality(Passed') = Cardinality(Passed) - 1 /\ Cardinality(Passed) \in Nat
  <2>1. Passed' = Passed \ {c}
    BY <1>5 DEF Passed, NoRequest
  <2>2. c \in Passed
    BY DEF Passed
  <2> QED
    BY <2>1, <2>2, PassedFinite, FS_RemoveElement
<1>7. late' \in Nat /\ LateBound'
  <2>1. late \in Nat /\ late' = IF user = "active" \/ late = 0 THEN late ELSE late - 1
    BY <1>1 DEF Created, AuthTypes
  <2>2. user # "active" => Cardinality(Passed) <= late
    BY <1>1 DEF LateBound
  <2>3. late' \in Nat
    BY <2>1
  <2>4. user' # "active" => Cardinality(Passed') <= late'
    BY <1>6, <2>1, <2>2
  <2> QED
    BY <2>3, <2>4 DEF LateBound
<1>8. AuthTypes'
  BY <1>1, <1>4, <1>5, <1>7 DEF AuthTypes
<1>9. \A t \in 1..id : Refreshing(t)' = Refreshing(t) \ {c}
  BY <1>5 DEF Refreshing, NoRequest
<1>10. user # "none"
  BY <1>1, <1>6 DEF Chains
<1>11. Chains'
  <2>1. row.from < id /\ row.root \in 1..id /\ tokens'[row.root].from = 0
    <3>1. CASE from = 0
      BY <1>1, <1>2, <1>4, <3>1
    <3>2. CASE from > 0
      BY <1>1, <1>2, <1>4, <3>2 DEF Chains
    <3> QED
      BY <3>1, <3>2
  <2>2. \A t \in 1..Len(tokens) :
          /\ tokens'[t].from < t /\ tokens'[t].root \in 1..t
          /\ tokens'[tokens'[t].root].from = 0
    BY <1>1, <1>4 DEF Chains
  <2>3. \A x \in AuthCalls : request'[x].at \in {"rotate", "next"} => request'[x].token \in 1..id
    BY <1>1, <1>5 DEF Chains, NoRequest
  <2>4. \A t \in 1..id : t \in 1..Len(tokens) \/ t = id
    BY <1>1
  <2> QED
    BY <1>4, <1>10, <2>1, <2>2, <2>3, <2>4 DEF Chains
<1>12. Refreshing(id) = {} /\ ~Ended(id)
  BY <1>1 DEF Chains, Refreshing, EndedStay, Ended
<1>13. from > 0 => c \in Refreshing(from) /\ ~Ended(tokens[from].root)
  BY <1>1 DEF Refreshing, EndedStay
<1>14. EndedStay'
  <2>1. loggedOut' \subseteq 1..id
    BY <1>1 DEF EndedStay
  <2>2. ~Ended(row.root)
    BY <1>2, <1>12, <1>13
  <2>3. \A t \in 1..Len(tokens) : Ended(tokens[t].root) => ~tokens'[t].live /\ Refreshing(t)' = {}
    BY <1>1, <1>4, <1>9 DEF EndedStay
  <2>4. \A t \in 1..id : t \in 1..Len(tokens) \/ t = id
    BY <1>1
  <2> QED
    BY <1>4, <2>1, <2>2, <2>3, <2>4 DEF EndedStay, Ended
<1>15. ASSUME NEW t \in 1..id, t \notin raced PROVE Rotated(t)'
  <2>1. \A x \in AuthCalls : request'[x] = [at |-> "next", token |-> t] =>
          x # c /\ request[x] = [at |-> "next", token |-> t] /\ x \in Refreshing(t)
    BY <1>5 DEF NoRequest, Refreshing
  <2>2. CASE t = id
    <3>1. \A u \in 1..id : tokens'[u].from # t
      BY <1>1, <1>2, <1>4, <2>2 DEF Chains
    <3> QED
      BY <1>4, <1>12, <2>1, <2>2, <3>1 DEF Rotated
  <2>3. CASE t \in 1..Len(tokens) /\ t # from
    <3>1. Rotated(t) /\ Refreshing(t)' = Refreshing(t) \ {c}
      BY <1>9, <1>15, <2>3 DEF AuthSound
    <3>2. \A u \in 1..id : tokens'[u].from = t => u \in 1..Len(tokens) /\ tokens[u].from = t
      BY <1>1, <1>2, <1>4, <2>3
    <3> QED
      BY <1>4, <2>1, <2>3, <3>1, <3>2 DEF Rotated
  <2>4. CASE t = from /\ t > 0
    <3>1. Rotated(t) /\ Refreshing(t)' = Refreshing(t) \ {c} /\ t \in 1..Len(tokens)
      BY <1>9, <1>15, <2>4 DEF AuthSound
    <3>2. Refreshing(t) = {c} /\ ~tokens[t].live
      BY <2>4, <3>1 DEF Rotated
    <3>3. \A u \in 1..Len(tokens) : tokens[u].from # t
      BY <3>1, <3>2 DEF Rotated
    <3>4. \A u \in 1..id : tokens'[u].from = t => u = id
      BY <1>1, <1>4, <3>3
    <3>5. Refreshing(t)' = {} /\ ~tokens'[t].live
      BY <1>4, <3>1, <3>2
    <3> QED
      BY <1>4, <2>1, <3>1, <3>2, <3>4, <3>5 DEF Rotated
  <2> QED
    BY <1>1, <2>2, <2>3, <2>4
<1> QED
  BY <1>4, <1>7, <1>8, <1>11, <1>14, <1>15 DEF AuthSound

\* A request moves between the places before a refresh.
LEMMA WaitStep ==
  ASSUME AuthSound, NEW c \in AuthCalls, NEW place \in {"none", "register", "issue"},
         request[c].at \in {"none", "register"},
         request' = [request EXCEPT ![c] = [at |-> place, token |-> 0]],
         UNCHANGED <<tokens, loggedOut, escaped, raced, late>>,
         user' \in {"none", "active", "suspended", "banned"},
         \/ user' = "active"
         \/ user' = user /\ place # "issue"
  PROVE  AuthSound'
<1>1. /\ AuthTypes /\ Chains /\ LateBound /\ Len(tokens) \in Nat
      /\ request \in [AuthCalls -> Requests]
  BY TokensAre DEF AuthSound, AuthTypes
<1>2. /\ request' \in [AuthCalls -> Requests] /\ request'[c].at = place
      /\ \A x \in AuthCalls : x # c => request'[x] = request[x]
  BY <1>1 DEF Requests
<1>3. AuthTypes'
  BY <1>1, <1>2 DEF AuthTypes
<1>4. \A t \in 1..Len(tokens) : Refreshing(t)' = Refreshing(t)
  BY <1>2 DEF Refreshing
<1>5. (user' = user /\ place # "issue") => Passed' = Passed
  BY <1>2 DEF Passed
<1>6. LateBound' /\ (user' = "none" => user = "none" /\ Passed' = {})
  BY <1>1, <1>5 DEF LateBound, Chains
<1>7. \A x \in AuthCalls : request'[x].at \in {"rotate", "next"} => request'[x].token \in 1..Len(tokens)
  BY <1>1, <1>2 DEF Chains
<1>8. \A t \in 1..Len(tokens), x \in AuthCalls :
        request'[x] = [at |-> "next", token |-> t] => request[x] = [at |-> "next", token |-> t]
  BY <1>2
<1> QED
  BY <1>3, <1>4, <1>6, <1>7, <1>8, MoveStep

LEMMA RegisterStep ==
  ASSUME AuthSound, NEW c \in AuthCalls, ReadEmail(c) \/ CreateUser(c) \/ ReadForLogin(c)
  PROVE  AuthSound'
<1>1. user \in {"none", "active", "suspended", "banned"}
  BY DEF AuthSound, AuthTypes
<1>2. CASE ReadEmail(c)
  BY <1>1, <1>2, WaitStep DEF ReadEmail, Stands, Goes, KeepLogouts, Rows
<1>3. CASE CreateUser(c)
  BY <1>1, <1>3, WaitStep DEF CreateUser, Stands, Goes, Returns, NoRequest, KeepLogouts, Rows
<1>4. CASE ReadForLogin(c)
  BY <1>1, <1>4, WaitStep DEF ReadForLogin, Stands, Goes, KeepLogouts, Rows
<1> QED
  BY <1>2, <1>3, <1>4

LEMMA IssueStep ==
  ASSUME AuthSound, NEW c \in AuthCalls, IssueSession(c) \/ CreateNext(c)
  PROVE  AuthSound'
<1>1. AuthTypes /\ Chains /\ Len(tokens) \in Nat /\ request[c] \in Requests
  BY TokensAre DEF AuthSound, AuthTypes
<1>2. CASE IssueSession(c)
  <2>1. 0 \in 0..Len(tokens)
    BY <1>1
  <2> QED
    BY <1>2, <2>1, CreateStep DEF IssueSession, Stands, KeepLogouts, Rows
<1>3. CASE CreateNext(c)
  <2>1. /\ request[c].at = "next" /\ request[c].token \in 1..Len(tokens)
        /\ request[c].token \in 0..Len(tokens) /\ request[c].token > 0
    BY <1>1, <1>3 DEF CreateNext, Stands, Chains
  <2>2. request[c] = [at |-> "next", token |-> request[c].token]
    BY <1>1, <2>1 DEF Requests
  <2> QED
    BY <1>3, <2>1, <2>2, CreateStep DEF CreateNext, KeepLogouts, Rows
<1> QED
  BY <1>2, <1>3

LEMMA RefreshStep ==
  ASSUME AuthSound, NEW c \in AuthCalls, NEW t \in Nat, ReadForRefresh(c, t)
  PROVE  AuthSound'
<1>1. /\ AuthTypes /\ Chains /\ LateBound /\ Len(tokens) \in Nat
      /\ request \in [AuthCalls -> Requests] /\ t \in 1..Len(tokens)
  BY TokensAre DEF AuthSound, AuthTypes, ReadForRefresh
<1>2. CASE ~tokens[t].live
  <2>1. RevokeAll /\ UNCHANGED <<user, request, statusChanges, authCrashes, raced, late>>
    BY <1>2 DEF ReadForRefresh, Rows
  <2> QED
    BY <2>1, RevokeStep
<1>3. CASE tokens[t].live
  <2>1. /\ user = "active" /\ request' = [request EXCEPT ![c] = [at |-> "rotate", token |-> t]]
        /\ UNCHANGED <<user, tokens, loggedOut, escaped, raced, late>>
    BY <1>3 DEF ReadForRefresh, Goes, KeepLogouts, Rows
  <2>2. /\ request' \in [AuthCalls -> Requests] /\ request'[c] = [at |-> "rotate", token |-> t]
        /\ \A x \in AuthCalls : x # c => request'[x] = request[x]
    BY <1>1, <2>1 DEF Requests
  <2>3. AuthTypes' /\ LateBound'
    BY <1>1, <2>1, <2>2 DEF AuthTypes, LateBound
  <2>4. \A x \in AuthCalls : request'[x].at \in {"rotate", "next"} => request'[x].token \in 1..Len(tokens)
    BY <1>1, <2>2 DEF Chains
  <2>5. \A u \in 1..Len(tokens) : Refreshing(u)' \subseteq Refreshing(u) \/ tokens[u].live
    BY <1>3, <2>2 DEF Refreshing
  <2>6. \A u \in 1..Len(tokens), x \in AuthCalls :
          request'[x] = [at |-> "next", token |-> u] => request[x] = [at |-> "next", token |-> u]
    BY <2>2
  <2> QED
    BY <2>1, <2>3, <2>4, <2>5, <2>6, MoveStep
<1> QED
  BY <1>2, <1>3

LEMMA RotateStep ==
  ASSUME AuthSound, NEW c \in AuthCalls, Rotate(c)
  PROVE  AuthSound'
<1>1. /\ AuthTypes /\ Chains /\ LateBound /\ Len(tokens) \in Nat
      /\ request \in [AuthCalls -> Requests] /\ request[c].at = "rotate"
  BY TokensAre DEF AuthSound, AuthTypes, Rotate, Stands
<1>2. PICK t \in 1..Len(tokens) : t = request[c].token
  BY <1>1 DEF Chains
<1>3. /\ UNCHANGED <<user, loggedOut, escaped, late>>
      /\ tokens' = [tokens EXCEPT ![t].live = FALSE]
      /\ raced' = (IF Refreshing(t) # {c} THEN raced \cup {t} ELSE raced)
      /\ request' = [request EXCEPT ![c] = [at |-> "next", token |-> t]]
  BY <1>2 DEF Rotate, Goes, KeepLogouts
<1>4. /\ request' \in [AuthCalls -> Requests] /\ request'[c] = [at |-> "next", token |-> t]
      /\ \A x \in AuthCalls : x # c => request'[x] = request[x]
  BY <1>1, <1>3 DEF Requests
<1>5. /\ tokens' \in Seq(TokenRows) /\ Len(tokens') = Len(tokens) /\ ~tokens'[t].live
      /\ \A u \in 1..Len(tokens) :
           /\ tokens'[u].from = tokens[u].from /\ tokens'[u].root = tokens[u].root
           /\ tokens'[u].live => tokens[u].live
  BY <1>1, <1>3, RevokedOne
<1>6. AuthTypes'
  BY <1>1, <1>3, <1>4, <1>5 DEF AuthTypes
<1>7. Passed' = Passed /\ c \in Passed
  BY <1>1, <1>4 DEF Passed
<1>8. LateBound' /\ (user' = "none" => user = "none" /\ Passed' = {})
  BY <1>1, <1>3, <1>7 DEF LateBound, Chains
<1>9. \A u \in Nat : Refreshing(u)' = Refreshing(u)
  BY <1>1, <1>2, <1>4 DEF Refreshing
<1>10. \A x \in AuthCalls : request'[x].at \in {"rotate", "next"} => request'[x].token \in 1..Len(tokens)
  BY <1>1, <1>4 DEF Chains
<1>11. \A u \in 1..Len(tokens) :
         \/ u \in raced'
         \/ /\ Refreshing(u)' \subseteq Refreshing(u)
            /\ \A x \in AuthCalls :
                 request'[x] = [at |-> "next", token |-> u] => request[x] = [at |-> "next", token |-> u]
         \/ /\ ~tokens'[u].live
            /\ \E x \in AuthCalls : Refreshing(u) = {x} /\ Refreshing(u)' = {x}
  <2> SUFFICES ASSUME NEW u \in 1..Len(tokens), u \notin raced'
               PROVE  \/ /\ Refreshing(u)' \subseteq Refreshing(u)
                         /\ \A x \in AuthCalls :
                              request'[x] = [at |-> "next", token |-> u] =>
                                request[x] = [at |-> "next", token |-> u]
                      \/ /\ ~tokens'[u].live
                         /\ \E x \in AuthCalls : Refreshing(u) = {x} /\ Refreshing(u)' = {x}
    OBVIOUS
  <2>1. CASE u = t
    <3>1. Refreshing(u) = {c} /\ Refreshing(u)' = {c}
      BY <1>3, <1>9, <2>1
    <3> QED
      BY <1>5, <2>1, <3>1
  <2>2. CASE u # t
    BY <1>4, <1>9, <2>2
  <2> QED
    BY <2>1, <2>2
<1>12. raced \subseteq raced' /\ \A u \in 1..Len(tokens) : Refreshing(u)' \subseteq Refreshing(u)
  BY <1>3, <1>9
<1> QED
  BY <1>3, <1>5, <1>6, <1>8, <1>10, <1>11, <1>12, MoveStep

LEMMA LogoutStep ==
  ASSUME AuthSound, NEW t \in Nat, Logout(t)
  PROVE  AuthSound'
<1>1. /\ AuthTypes /\ Chains /\ LateBound /\ Len(tokens) \in Nat /\ t \in 1..Len(tokens)
  BY TokensAre DEF AuthSound, Logout
<1>2. /\ UNCHANGED <<user, request, loggedOut, escaped, raced, late>>
      /\ tokens' = [tokens EXCEPT ![t].live = FALSE]
  BY DEF Logout, KeepLogouts, Rows
<1>3. /\ tokens' \in Seq(TokenRows) /\ Len(tokens') = Len(tokens)
      /\ \A u \in 1..Len(tokens) :
           /\ tokens'[u].from = tokens[u].from /\ tokens'[u].root = tokens[u].root
           /\ tokens'[u].live => tokens[u].live
  BY <1>1, <1>2, RevokedOne
<1>4. AuthTypes' /\ LateBound' /\ Passed' = Passed
  BY <1>1, <1>2, <1>3 DEF AuthTypes, LateBound, Passed
<1>5. user' = "none" => user = "none" /\ Passed' = {}
  BY <1>1, <1>2, <1>4 DEF Chains
<1>6. \A u \in 1..Len(tokens) : Refreshing(u)' \subseteq Refreshing(u)
  BY <1>2 DEF Refreshing
<1>7. \A x \in AuthCalls : request'[x].at \in {"rotate", "next"} => request'[x].token \in 1..Len(tokens)
  BY <1>1, <1>2 DEF Chains
<1> QED
  BY <1>2, <1>3, <1>4, <1>5, <1>6, <1>7, MoveStep

LEMMA StatusStep ==
  ASSUME AuthSound, NEW status \in {"active", "suspended", "banned"}, UpdateUserStatus(status)
  PROVE  AuthSound'
<1>1. AuthTypes /\ Chains /\ LateBound /\ Len(tokens) \in Nat
  BY TokensAre DEF AuthSound
<1>2. /\ UNCHANGED <<tokens, request, loggedOut, escaped, raced>> /\ user' = status
      /\ user # "none"
      /\ late' = IF user = "active" THEN Cardinality(Passed) ELSE late
  BY DEF UpdateUserStatus, KeepLogouts, Passed
<1>3. Passed' = Passed /\ late' \in Nat
  BY <1>1, <1>2, PassedFinite DEF Passed, AuthTypes
<1>4. AuthTypes' /\ LateBound'
  <2>1. AuthTypes'
    BY <1>1, <1>2, <1>3 DEF AuthTypes
  <2>2. Cardinality(Passed) <= late' \/ user' = "active"
    BY <1>1, <1>2, PassedFinite DEF LateBound
  <2> QED
    BY <1>3, <2>1, <2>2 DEF LateBound
<1>5. \A u \in 1..Len(tokens) : Refreshing(u)' \subseteq Refreshing(u)
  BY <1>2 DEF Refreshing
<1>6. \A x \in AuthCalls : request'[x].at \in {"rotate", "next"} => request'[x].token \in 1..Len(tokens)
  BY <1>1, <1>2 DEF Chains
<1> QED
  BY <1>2, <1>4, <1>5, <1>6, MoveStep

LEMMA DeathStep ==
  ASSUME AuthSound, AuthCrash
  PROVE  AuthSound'
<1>1. AuthTypes /\ Chains /\ LateBound /\ Len(tokens) \in Nat
  BY TokensAre DEF AuthSound
<1>2. /\ UNCHANGED <<user, tokens, loggedOut, escaped, raced, late>>
      /\ \A c \in AuthCalls : request'[c] = NoRequest
      /\ request' \in [AuthCalls -> Requests]
  BY DEF AuthCrash, KeepLogouts, NoRequest, Requests
<1>3. Passed' = {} /\ \A u \in Nat : Refreshing(u)' = {}
  BY <1>2 DEF Passed, Refreshing, NoRequest
<1>4. AuthTypes' /\ LateBound'
  BY <1>1, <1>2, <1>3, FS_EmptySet DEF AuthTypes, LateBound
<1>5. \A u \in 1..Len(tokens) : Refreshing(u)' \subseteq Refreshing(u)
  BY <1>3
<1>6. \A x \in AuthCalls : request'[x].at = "none"
  BY <1>2 DEF NoRequest
<1> QED
  BY <1>1, <1>2, <1>3, <1>4, <1>5, <1>6, MoveStep

LEMMA AuthStays ==
  ASSUME AuthSound, [AuthNext]_authVars
  PROVE  AuthSound'
<1>1. CASE LogoutEverywhere
  BY <1>1, RevokeStep DEF LogoutEverywhere, Rows
<1>2. CASE AuthCrash
  BY <1>2, DeathStep
<1>3. ASSUME NEW t \in 1..MaxTokens, Logout(t) PROVE AuthSound'
  BY <1>3, LogoutStep
<1>4. ASSUME NEW status \in {"active", "suspended", "banned"}, UpdateUserStatus(status) PROVE AuthSound'
  BY <1>4, StatusStep
<1>5. ASSUME NEW c \in AuthCalls,
             \/ ReadEmail(c) \/ CreateUser(c) \/ ReadForLogin(c) \/ IssueSession(c)
             \/ Rotate(c) \/ CreateNext(c)
      PROVE  AuthSound'
  BY <1>5, RegisterStep, IssueStep, RotateStep
<1>6. ASSUME NEW c \in AuthCalls, NEW t \in 1..MaxTokens, ReadForRefresh(c, t) PROVE AuthSound'
  BY <1>6, RefreshStep
<1>7. CASE UNCHANGED authVars
  BY <1>7 DEF authVars, AuthSound, AuthTypes, Chains, EndedStay, Ended, LateBound, Passed, Rotated, Refreshing
<1> QED
  BY <1>1, <1>2, <1>3, <1>4, <1>5, <1>6, <1>7 DEF AuthNext

LEMMA AuthSoundness == AuthSpec => []AuthSound
  BY AuthStart, AuthStays, PTL DEF AuthSpec

\* Refresh tokens form chains that do not fork, unless two refreshes had read a
\* token before either revoked it, and no session that existed when all were
\* revoked has a live token afterwards, unless it had a refresh in flight then:
\* refreshAccessToken and logout, however their statements interleave.
THEOREM SessionsKept == AuthSpec => []AuthInv
<1>1. AuthSound => AuthInv
  <2> SUFFICES ASSUME AuthSound PROVE AuthInv
    OBVIOUS
  <2>1. /\ AuthTypes /\ Chains /\ EndedStay /\ Len(tokens) \in Nat
        /\ DOMAIN tokens = 1..Len(tokens) /\ tokens \in Seq(TokenRows)
    BY TokensAre DEF AuthSound, AuthTypes
  <2>2. AuthTypeOK
    <3>1. Len(tokens) = 0 => tokens = <<>>
      BY <2>1, EmptySeq
    <3> QED
      BY <2>1, <3>1 DEF AuthTypeOK, Chains
  <2>3. RotatedOnce
    <3> SUFFICES ASSUME NEW t \in DOMAIN tokens \ raced
                 PROVE  Cardinality({u \in DOMAIN tokens : tokens[u].from = t}) <= 1
      BY DEF RotatedOnce
    <3> DEFINE S == {u \in DOMAIN tokens : tokens[u].from = t}
    <3>1. \A u, v \in S : u = v
      BY <2>1 DEF AuthSound, Rotated
    <3>2. CASE S = {}
      BY <3>2, FS_EmptySet
    <3>3. CASE S # {}
      <4>1. PICK u \in S : TRUE
        BY <3>3
      <4>2. S = {u}
        BY <3>1, <4>1
      <4>3. Cardinality({u}) = 1
        BY FS_Singleton
      <4> QED
        BY <4>2, <4>3
    <3> QED
      BY <3>2, <3>3
  <2>4. LoggedOutEverywhere
    BY <2>1 DEF LoggedOutEverywhere, EndedStay, Ended
  <2> QED
    BY <2>2, <2>3, <2>4 DEF AuthInv
<1> QED
  BY <1>1, AuthSoundness, PTL

\* A suspended or banned user gets no token but those of the requests that had
\* passed the check when the status changed (updateUserStatus leaves tokens and
\* requests alone): each of them that issues one takes one off their number.
THEOREM SuspendedGetNone == AuthSpec => SuspendedGetNoMore
<1>1. AuthSound /\ [AuthNext]_authVars =>
        (Len(tokens') > Len(tokens) /\ user # "active" => late > 0)
  <2> SUFFICES ASSUME AuthSound, [AuthNext]_authVars, Len(tokens') > Len(tokens), user # "active"
               PROVE  late > 0
    OBVIOUS
  <2>1. /\ AuthTypes /\ LateBound /\ Len(tokens) \in Nat /\ late \in Nat
    BY TokensAre DEF AuthSound, AuthTypes
  <2>2. tokens' # tokens
    BY <2>1
  <2>3. \A t \in 1..Len(tokens) : tokens' # [tokens EXCEPT ![t].live = FALSE]
    BY <2>1, RevokedOne
  <2>4. ~RevokeAll
    BY <2>1, RevokedAll DEF RevokeAll
  <2>5. PICK c \in AuthCalls : IssueSession(c) \/ CreateNext(c)
    <3>1. \A t \in 1..MaxTokens : ~Logout(t)
      BY <2>1, <2>3, TokensAre DEF Logout
    <3>2. \A c \in AuthCalls, t \in 1..MaxTokens : ~ReadForRefresh(c, t)
      BY <2>2, <2>4 DEF ReadForRefresh
    <3>3. \A c \in AuthCalls : ~Rotate(c)
      BY <2>1, <2>3 DEF Rotate, Stands, AuthSound, Chains
    <3>4. \A c \in AuthCalls : ~ReadEmail(c) /\ ~CreateUser(c) /\ ~ReadForLogin(c)
      BY <2>2 DEF ReadEmail, CreateUser, ReadForLogin
    <3>5. ~LogoutEverywhere /\ ~AuthCrash /\ ~UNCHANGED authVars
      BY <2>2, <2>4 DEF LogoutEverywhere, AuthCrash, authVars
    <3>6. \A status \in {"active", "suspended", "banned"} : ~UpdateUserStatus(status)
      BY <2>2 DEF UpdateUserStatus
    <3> QED
      BY <3>1, <3>2, <3>3, <3>4, <3>5, <3>6 DEF AuthNext
  <2>6. c \in Passed
    BY <2>5 DEF Passed, IssueSession, CreateNext, Stands
  <2>7. Cardinality(Passed) # 0
    BY <2>6, PassedFinite, FS_EmptySet
  <2> QED
    BY <2>1, <2>7, PassedFinite DEF LateBound
<1> QED
  BY <1>1, AuthSoundness, PTL DEF AuthSpec, SuspendedGetNoMore

==============================================================================
