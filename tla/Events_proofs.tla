---------------------------- MODULE Events_proofs ----------------------------
(***************************************************************************)
(* Proofs about the two ways events take: the webhooks that go out, and    *)
(* the Stripe events that come in.                                         *)
(***************************************************************************)
EXTENDS StripeBilling, OutboundWebhooks, TLAPS

-----------------------------------------------------------------------------
(***************************************************************************)
(* An endpoint and its deliveries (OutboundWebhooks): what disables it and *)
(* what enables it again.                                                  *)
(***************************************************************************)

Slot == [at: {"off", "post", "sent", "unsent"}, job: Delivery \cup {NoDelivery}, seen: Nat]
Job == [state: {"none", "waiting", "active", "done", "failed"}, attempts: Nat]

HookTyped ==
  /\ endpoint \in [status: {"ACTIVE", "DISABLED"}, failures: Nat]
  /\ delivery \in [Delivery -> Job]
  /\ sender \in [Sender -> Slot] /\ \A s \in Sender : sender[s].at = "off" => sender[s] = Off
  /\ streak \in 0..FailureLimit /\ overlapped \in BOOLEAN /\ readBefore \subseteq Sender
  /\ edits \in Nat /\ hookFaults \in Nat

\* Whoever is on its way to a disabled endpoint read it before.
Forewarned == endpoint.status = "DISABLED" => Sending \subseteq readBefore

\* The count is covered by the streak, which stays at the limit.
Covered(n) == n <= streak \/ streak = FailureLimit

\* A delivery that is alone read the count that is in the row, and what it will
\* write is covered by the streak.
Alone(s) ==
  /\ \A r \in Sending : r = s
  /\ sender[s].at \in {"post", "unsent"} => sender[s].seen = endpoint.failures
  /\ sender[s].at = "unsent" => Covered(endpoint.failures + 1)

CountHolds ==
  /\ \A s \in Sending : Alone(s)
  /\ (\A s \in Sending : sender[s].at = "post") => Covered(endpoint.failures)

HookInv ==
  /\ HookTyped
  /\ Forewarned
  /\ ~overlapped /\ hookFaults = 0 => CountHolds

-----------------------------------------------------------------------------
LEMMA HookStart == HookInit => HookInv
<1> SUFFICES ASSUME HookInit PROVE HookInv
  OBVIOUS
<1>1. Sending = {} /\ sender \in [Sender -> Slot] /\ \A s \in Sender : sender[s] = Off
  BY DEF HookInit, Sending, Slot, Off
<1>2. delivery \in [Delivery -> Job]
  BY DEF HookInit, Job
<1>3. streak = 0 /\ streak \in 0..FailureLimit /\ endpoint.failures = 0 /\ endpoint.status = "ACTIVE"
  BY HookConstants DEF HookInit
<1>4. HookTyped
  BY <1>1, <1>2, <1>3 DEF HookInit, HookTyped
<1> QED
  BY <1>1, <1>3, <1>4 DEF HookInv, Forewarned, CountHolds, Covered

LEMMA OffIsNoStep ==
  ASSUME HookTyped, NEW s \in Sender
  PROVE  s \in Sending <=> sender[s].at \in {"post", "sent", "unsent"}
  BY DEF HookTyped, Sending, Slot, Off

LEMMA HookStepTyped ==
  ASSUME HookTyped, HookNext
  PROVE  HookTyped'
<1> USE HookConstants DEF HookTyped
<1>1. ASSUME NEW d \in Delivery, EnqueueTopic(d) PROVE HookTyped'
  BY <1>1 DEF EnqueueTopic, Job
<1>2. ASSUME NEW d \in Delivery, RetryDelivery(d) PROVE HookTyped'
  BY <1>2 DEF RetryDelivery, Job
<1>3. ASSUME NEW s \in Sender, NEW d \in Delivery, TakeDelivery(s, d) PROVE HookTyped'
  <2>1. overlapped' \in BOOLEAN
    BY <1>3 DEF TakeDelivery
  <2>2. delivery' \in [Delivery -> Job]
    BY <1>3 DEF TakeDelivery, Job
  <2>3. sender' \in [Sender -> Slot] /\ \A r \in Sender : sender'[r].at = "off" => sender'[r] = Off
    BY <1>3 DEF TakeDelivery, Slot
  <2> QED
    BY <1>3, <2>1, <2>2, <2>3 DEF TakeDelivery
<1>4. ASSUME NEW s \in Sender, Accepted(s) PROVE HookTyped'
  BY <1>4 DEF Accepted, Slot, Off
<1>5. ASSUME NEW s \in Sender, Refuse(s) PROVE HookTyped'
  BY <1>5 DEF Refuse, Longer, Slot, Off
<1>6. ASSUME NEW s \in Sender, RecordSent(s) PROVE HookTyped'
  <2>1. delivery' \in [Delivery -> Job]
    BY <1>6 DEF RecordSent, Job
  <2>2. /\ sender' \in [Sender -> Slot] /\ readBefore' \subseteq Sender
        /\ \A r \in Sender : sender'[r].at = "off" => sender'[r] = Off
    BY <1>6 DEF RecordSent, Finished, Slot, Off
  <2> QED
    BY <1>6, <2>1, <2>2 DEF RecordSent
<1>7. ASSUME NEW s \in Sender, RecordUnsent(s) PROVE HookTyped'
  <2>1. endpoint' \in [status: {"ACTIVE", "DISABLED"}, failures: Nat]
    BY <1>7 DEF RecordUnsent, Slot
  <2>2. delivery' \in [Delivery -> Job]
    <3>1. ASSUME NEW d \in Delivery, Retried(d) PROVE delivery' \in [Delivery -> Job]
      <4>1. [state |-> IF delivery[d].attempts + 1 < MaxSends THEN "waiting" ELSE "failed",
             attempts |-> delivery[d].attempts + 1] \in Job
        BY DEF Job
      <4> QED
        BY <3>1, <4>1 DEF Retried
    <3>2. ASSUME NEW d, d \notin Delivery, Retried(d) PROVE delivery' = delivery
      BY <3>2 DEF Retried
    <3> QED
      BY <1>7, <3>1, <3>2 DEF RecordUnsent
  <2>3. sender' \in [Sender -> Slot] /\ \A r \in Sender : sender'[r].at = "off" => sender'[r] = Off
    BY <1>7 DEF RecordUnsent, Slot, Off
  <2>4. readBefore' \subseteq Sender
    BY <1>7 DEF RecordUnsent, Sending
  <2> QED
    BY <1>7, <2>1, <2>2, <2>3, <2>4 DEF RecordUnsent
<1>8. ASSUME NEW s \in Sender, HookFails(s) PROVE HookTyped'
  <2>1. delivery' \in [Delivery -> Job]
    BY <1>8 DEF HookFails, Job
  <2>2. sender' \in [Sender -> Slot] /\ \A r \in Sender : sender'[r].at = "off" => sender'[r] = Off
    <3>1. CASE sender' = [sender EXCEPT ![s].at = "unsent"]
      BY <3>1 DEF Slot
    <3>2. CASE sender' = [sender EXCEPT ![s] = Off]
      BY <3>2 DEF Slot, Off
    <3> QED
      BY <1>8, <3>1, <3>2 DEF HookFails, Finished
  <2> QED
    BY <1>8, <2>1, <2>2 DEF HookFails, Finished
<1>9. ASSUME NEW new \in {"ACTIVE", "DISABLED"}, SetStatus(new) PROVE HookTyped'
  BY <1>9 DEF SetStatus, Sending
<1> QED
  BY <1>1, <1>2, <1>3, <1>4, <1>5, <1>6, <1>7, <1>8, <1>9
     DEF HookNext, SenderStep, Refused, TimesOut

-----------------------------------------------------------------------------
LEMMA StaysForewarned ==
  ASSUME HookInv, HookNext
  PROVE  Forewarned'
<1> USE DEF HookInv, HookTyped, Forewarned
<1>1. ASSUME NEW d \in Delivery, EnqueueTopic(d) \/ RetryDelivery(d) PROVE Forewarned'
  BY <1>1 DEF EnqueueTopic, RetryDelivery, Sending
<1>2. ASSUME NEW s \in Sender, NEW d \in Delivery, TakeDelivery(s, d) PROVE Forewarned'
  BY <1>2 DEF TakeDelivery, Sending
<1>3. ASSUME NEW s \in Sender, Accepted(s) \/ Refuse(s) PROVE Forewarned'
  <2>1. Sending' \subseteq Sending
    BY <1>3 DEF Accepted, Refuse, Sending, Off, Slot
  <2> QED
    BY <1>3, <2>1 DEF Accepted, Refuse
<1>4. ASSUME NEW s \in Sender, RecordSent(s) PROVE Forewarned'
  <2>1. Sending' \subseteq Sending \ {s}
    BY <1>4 DEF RecordSent, Finished, Sending
  <2> QED
    BY <1>4, <2>1 DEF RecordSent, Finished
<1>5. ASSUME NEW s \in Sender, RecordUnsent(s) PROVE Forewarned'
  <2>1. Sending' \subseteq Sending \ {s}
    BY <1>5 DEF RecordUnsent, Sending
  <2> QED
    BY <1>5, <2>1 DEF RecordUnsent
<1>6. ASSUME NEW s \in Sender, HookFails(s) PROVE Forewarned'
  <2>1. CASE Finished(s)
    <3>1. Sending' \subseteq Sending \ {s}
      BY <2>1 DEF Finished, Sending
    <3> QED
      BY <1>6, <2>1, <3>1 DEF HookFails, Finished
  <2>2. CASE ~Finished(s)
    <3>1. Sending' \subseteq Sending
      BY <1>6, <2>2 DEF HookFails, Sending, Off, Slot
    <3> QED
      BY <1>6, <2>2, <3>1 DEF HookFails
  <2> QED
    BY <2>1, <2>2
<1>7. ASSUME NEW new \in {"ACTIVE", "DISABLED"}, SetStatus(new) PROVE Forewarned'
  BY <1>7 DEF SetStatus, Sending
<1> QED
  BY <1>1, <1>2, <1>3, <1>4, <1>5, <1>6, <1>7 DEF HookNext, SenderStep, Refused, TimesOut

-----------------------------------------------------------------------------
\* While nothing overlapped or failed.
LEMMA CountStays ==
  ASSUME HookInv, HookNext, ~overlapped', hookFaults' = 0
  PROVE  CountHolds'
<1>1. HookTyped /\ HookTyped'
  BY HookStepTyped DEF HookInv
<1>2. ~overlapped /\ hookFaults = 0
  <2>1. overlapped => overlapped'
    BY DEF HookNext, EnqueueTopic, RetryDelivery, TakeDelivery, Accepted, Refused, Refuse, SenderStep,
       TimesOut, RecordSent, RecordUnsent, HookFails, SetStatus
  <2>2. hookFaults' = hookFaults \/ hookFaults' = hookFaults + 1
    BY DEF HookNext, EnqueueTopic, RetryDelivery, TakeDelivery, Accepted, Refused, Refuse, SenderStep,
       TimesOut, RecordSent, RecordUnsent, HookFails, SetStatus
  <2> QED
    BY <1>1, <2>1, <2>2 DEF HookTyped
<1>3. CountHolds /\ endpoint.failures \in Nat /\ streak \in 0..FailureLimit /\ FailureLimit \in Nat
  BY <1>1, <1>2, HookConstants DEF HookInv, HookTyped
<1>4. ASSUME UNCHANGED <<sender, streak>>, endpoint'.failures = endpoint.failures PROVE CountHolds'
  BY <1>3, <1>4 DEF CountHolds, Alone, Covered, Sending
<1>5. ASSUME NEW d \in Delivery, EnqueueTopic(d) \/ RetryDelivery(d) PROVE CountHolds'
  BY <1>4, <1>5 DEF EnqueueTopic, RetryDelivery
<1>6. ASSUME NEW new \in {"ACTIVE", "DISABLED"}, SetStatus(new) PROVE CountHolds'
  BY <1>1, <1>4, <1>6 DEF SetStatus, HookTyped
<1>7. ASSUME NEW s \in Sender, NEW d \in Delivery, TakeDelivery(s, d) PROVE CountHolds'
  <2>1. CASE endpoint.status = "DISABLED"
    BY <1>4, <1>7, <2>1 DEF TakeDelivery
  <2>2. CASE endpoint.status # "DISABLED"
    <3>1. /\ Sending = {} /\ UNCHANGED <<endpoint, streak>>
          /\ sender' = [sender EXCEPT ![s] = [at |-> "post", job |-> d, seen |-> endpoint.failures]]
      BY <1>2, <1>7, <2>2 DEF TakeDelivery
    <3>2. Sending' \subseteq {s} /\ sender'[s].at = "post" /\ sender'[s].seen = endpoint.failures
      BY <1>1, <3>1 DEF Sending, HookTyped
    <3> QED
      BY <1>3, <3>1, <3>2 DEF CountHolds, Alone, Covered
  <2> QED
    BY <2>1, <2>2
\* The only delivery goes on.
<1>8. ASSUME NEW s \in Sender, s \in Sending, sender[s].at = "post", UNCHANGED endpoint,
             NEW step \in {"sent", "unsent"}, sender' = [sender EXCEPT ![s].at = step],
             step = "unsent" => streak' = Longer(streak)
      PROVE  CountHolds'
  <2>1. Sending' = {s} /\ sender'[s].at = step /\ sender'[s].seen = endpoint.failures
    BY <1>1, <1>3, <1>8, OffIsNoStep DEF CountHolds, Alone, Sending, HookTyped, Slot, Off
  <2>2. Covered(endpoint.failures)
    BY <1>3, <1>8 DEF CountHolds, Alone
  <2>3. step = "unsent" => Covered(endpoint.failures + 1)'
    BY <1>3, <1>8, <2>2 DEF Covered, Longer
  <2> QED
    BY <1>8, <2>1, <2>3 DEF CountHolds, Alone, Covered
<1>9. ASSUME NEW s \in Sender, Accepted(s) \/ Refuse(s) PROVE CountHolds'
  BY <1>1, <1>8, <1>9, OffIsNoStep DEF Accepted, Refuse
\* And ends.
<1>10. ASSUME NEW s \in Sender, s \in Sending, sender' = [sender EXCEPT ![s] = Off],
              Covered(endpoint.failures)'
       PROVE  CountHolds'
  <2>1. Sending' = {}
    BY <1>1, <1>3, <1>10 DEF CountHolds, Alone, Sending, HookTyped
  <2> QED
    BY <1>10, <2>1 DEF CountHolds
<1>11. ASSUME NEW s \in Sender, RecordSent(s) PROVE CountHolds'
  <2>1. s \in Sending /\ endpoint'.failures = 0 /\ sender' = [sender EXCEPT ![s] = Off]
    BY <1>1, <1>11, OffIsNoStep DEF RecordSent, Finished, HookTyped
  <2>2. Covered(endpoint.failures)'
    BY <1>1, <2>1 DEF Covered, HookTyped
  <2> QED
    BY <1>10, <2>1, <2>2
<1>12. ASSUME NEW s \in Sender, RecordUnsent(s) PROVE CountHolds'
  <2>1. /\ s \in Sending /\ sender[s].at = "unsent" /\ sender' = [sender EXCEPT ![s] = Off]
        /\ endpoint'.failures = sender[s].seen + 1 /\ streak' = streak
    BY <1>1, <1>12, OffIsNoStep DEF RecordUnsent
  <2>2. Covered(endpoint.failures)'
    BY <1>3, <2>1 DEF CountHolds, Alone, Covered
  <2> QED
    BY <1>10, <2>1, <2>2
<1>13. ASSUME NEW s \in Sender, HookFails(s) PROVE FALSE
  BY <1>1, <1>2, <1>13 DEF HookFails, HookTyped
<1> QED
  BY <1>5, <1>6, <1>7, <1>9, <1>11, <1>12, <1>13 DEF HookNext, SenderStep, Refused, TimesOut

LEMMA HookInvariance == HookSpec => []HookInv
<1>1. ASSUME HookInv, HookNext PROVE HookInv'
  BY <1>1, HookStepTyped, StaysForewarned, CountStays DEF HookInv
<1>2. ASSUME HookInv, UNCHANGED hookVars PROVE HookInv'
  BY <1>2 DEF hookVars, HookInv, HookTyped, Forewarned, CountHolds, Alone, Covered, Sending
<1> QED
  BY <1>1, <1>2, HookStart, PTL DEF HookSpec

-----------------------------------------------------------------------------
\* Deliveries that follow one another disable the endpoint only when as many
\* attempts as the limit failed in a row (processOutboundWebhookJob).
THEOREM DisabledForAReason == HookSpec => DisablingHasReason
<1>1. ASSUME HookInv, NEW s \in Sender, RecordUnsent(s), endpoint.status = "ACTIVE",
             endpoint'.status = "DISABLED"
      PROVE  streak >= FailureLimit \/ overlapped \/ hookFaults > 0
  <2>1. HookTyped /\ s \in Sending /\ sender[s].at = "unsent" /\ sender[s].seen + 1 >= FailureLimit
    BY <1>1, OffIsNoStep DEF RecordUnsent, HookInv
  <2>2. SUFFICES ASSUME ~overlapped, hookFaults = 0 PROVE streak >= FailureLimit
    BY <2>1 DEF HookTyped
  <2>3. sender[s].seen = endpoint.failures /\ Covered(endpoint.failures + 1)
    BY <1>1, <2>1, <2>2 DEF HookInv, CountHolds, Alone
  <2> QED
    BY <2>1, <2>3, HookConstants DEF Covered, HookTyped
<1>2. HookInv /\ [HookNext]_hookVars =>
        [\A s \in Sender :
           endpoint.status = "ACTIVE" /\ RecordUnsent(s) /\ endpoint'.status = "DISABLED" =>
             streak >= FailureLimit \/ overlapped \/ hookFaults > 0]_hookVars
  BY <1>1
<1> QED
  BY <1>2, HookInvariance, PTL DEF DisablingHasReason, HookSpec

\* Only a delivery that began before the endpoint was disabled enables it again
\* (the update of the catch block writes the status from the count it read).
THEOREM EnabledByOldReads == HookSpec => DisabledStays
<1>1. ASSUME HookInv, NEW s \in Sender, RecordUnsent(s), endpoint.status = "DISABLED"
      PROVE  s \in readBefore
  BY <1>1, OffIsNoStep DEF HookInv, Forewarned, RecordUnsent
<1>2. HookInv /\ [HookNext]_hookVars =>
        [\A s \in Sender :
           endpoint.status = "DISABLED" /\ RecordUnsent(s) /\ endpoint'.status = "ACTIVE" =>
             s \in readBefore]_hookVars
  BY <1>1
<1> QED
  BY <1>2, HookInvariance, PTL DEF DisabledStays, HookSpec

-----------------------------------------------------------------------------
(***************************************************************************)
(* Stripe's events (StripeBilling), for any number of them and of requests,*)
(* whatever expires or crashes.                                            *)
(***************************************************************************)

USE BillingConstants

\* What the requests do to pc, job and holder.
RequestsOK ==
  /\ pc \in [Request -> Step] /\ job \in [Request -> Event \cup {NoEvent}]
  /\ \A r \in Request : pc[r] = "idle" <=> job[r] = NoEvent
  /\ holder \in Request \cup {NoOne}

EventsOK ==
  /\ stripe \in Histories /\ watched \in Cache
  /\ row \in [Event -> Row]
  /\ credit \in [Event -> 0..2] /\ applied \in [Event -> 0..2]
  /\ remembered \subseteq Event /\ acked \subseteq Event

ViewsOK ==
  /\ org \in Organization /\ sub \in Subscription
  /\ cache \in View \cup {NoView} /\ filling \in View \cup {NoView}
  /\ excused \in BOOLEAN /\ cancelling \in BOOLEAN
  /\ expiries \in 0..MaxFaults /\ faults \in 0..MaxFaults

LEMMA TypeParts == BillingTypeOK <=> RequestsOK /\ EventsOK /\ ViewsOK
  BY DEF BillingTypeOK, RequestsOK, EventsOK, ViewsOK

LEMMA Goes ==
  ASSUME RequestsOK, NEW r \in Request, pc[r] # "idle", NEW s \in Step \ {"idle"}, GoTo(r, s)
  PROVE  RequestsOK' /\ pc' = [pc EXCEPT ![r] = s] /\ UNCHANGED <<job, holder>>
  BY DEF RequestsOK, GoTo

LEMMA Ends ==
  ASSUME RequestsOK, NEW r \in Request, End(r)
  PROVE  RequestsOK' /\ pc' = [pc EXCEPT ![r] = "idle"] /\ job' = [job EXCEPT ![r] = NoEvent]
  BY DEF RequestsOK, End, Step

LEMMA Busy ==
  ASSUME RequestsOK, NEW r \in Request, pc[r] # "idle"
  PROVE  job[r] \in Event
  BY DEF RequestsOK

LEMMA Counts ==
  ASSUME NEW n \in 0..2
  PROVE  More(n) \in 0..2 /\ More(n) > 0 /\ (More(n) > 1 => n > 0)
  BY DEF More

LEMMA RequestsStep ==
  ASSUME RequestsOK, [Next]_vars
  PROVE  RequestsOK'
<1>1. ASSUME NEW r \in Request, RequestStep(r) \/ CacheFails(r) PROVE RequestsOK'
  <2>1. pc[r] # "idle"
    BY <1>1 DEF RequestStep, ReadIdempotencyKey, FindOrReceive, MarkProcessing, Commit, Rollback,
       MarkFailed, Remember, Invalidate, CacheFails, Committed, At
  <2>2. End(r) \/ \E s \in Step \ {"idle"} : GoTo(r, s)
    BY <1>1 DEF RequestStep, ReadIdempotencyKey, FindOrReceive, MarkProcessing, Commit, Rollback,
       MarkFailed, Remember, Invalidate, CacheFails, Answer200, Step
  <2> QED
    BY <2>1, <2>2, Goes, Ends
<1>2. ASSUME NEW r \in Request, Crash(r) PROVE RequestsOK'
  BY <1>2, Ends DEF Crash, End
<1>3. ASSUME NEW r \in Request, NEW e \in Event, Deliver(r, e) PROVE RequestsOK'
  BY <1>3 DEF Deliver, RequestsOK, Step
<1>4. CASE ReaderStep \/ CancelAtStripe \/ CancelSubscription \/ GraceEnds \/ UNCHANGED vars
  BY <1>4 DEF ReaderStep, StartFill, Fill, EntryExpires, CancelAtStripe, CancelSubscription, GraceEnds,
     vars, requestVars, RequestsOK
<1>5. CASE LockExpires
  BY <1>5 DEF LockExpires, RequestsOK
<1> QED
  BY <1>1, <1>2, <1>3, <1>4, <1>5 DEF Next

LEMMA EventsStep ==
  ASSUME RequestsOK, EventsOK, [Next]_vars
  PROVE  EventsOK'
<1>0. \A r \in Request : pc[r] # "idle" => job[r] \in Event
  BY Busy
<1>1. ASSUME NEW r \in Request, Commit(r) PROVE EventsOK'
  <2>1. job[r] \in Event /\ credit[job[r]] \in 0..2 /\ applied[job[r]] \in 0..2
    BY <1>0, <1>1 DEF Commit, At, EventsOK
  <2>2. More(credit[job[r]]) \in 0..2 /\ More(applied[job[r]]) \in 0..2
    BY <2>1, Counts
  <2> QED
    BY <1>1, <2>1, <2>2 DEF Commit, EventsOK, Row
<1>2. ASSUME NEW r \in Request, RequestStep(r) \/ CacheFails(r) \/ Crash(r), ~Commit(r) PROVE EventsOK'
  BY <1>0, <1>2 DEF RequestStep, ReadIdempotencyKey, FindOrReceive, MarkProcessing, Rollback,
     MarkFailed, Remember, Invalidate, CacheFails, Crash, Committed, At, Answer200, EventsOK, eventVars, Row
<1>3. ASSUME NEW r \in Request, NEW e \in Event, Deliver(r, e) PROVE EventsOK'
  BY <1>3 DEF Deliver, EventsOK, eventVars
<1>4. CASE ReaderStep \/ CancelAtStripe \/ CancelSubscription \/ GraceEnds \/ LockExpires \/ UNCHANGED vars
  BY <1>4 DEF ReaderStep, StartFill, Fill, EntryExpires, CancelAtStripe, CancelSubscription, GraceEnds,
     LockExpires, vars, requestVars, eventVars, EventsOK
<1> QED
  BY <1>1, <1>2, <1>3, <1>4 DEF Next

LEMMA ViewsTyped == ViewsOK => ViewOf(sub) \in View
  BY DEF ViewsOK, ViewOf, View, Subscription, hardLocked

LEMMA ViewsStep ==
  ASSUME RequestsOK, ViewsOK, [Next]_vars
  PROVE  ViewsOK'
<1>0. /\ \A r \in Request : pc[r] # "idle" => job[r] \in Event
      /\ ViewOf(sub) \in View
      /\ Touched(sub.grace) \in Grace
  BY Busy, ViewsTyped DEF ViewsOK, Subscription, Touched, Grace
<1>1. ASSUME NEW r \in Request, Commit(r) PROVE ViewsOK'
  <2> DEFINE d == EventData[job[r]]
  <2>1. d \in EventRecord /\ ApplyToOrganization(d)
    BY <1>0, <1>1 DEF Commit, At
  <2>2. org' \in Organization
    <3>1. org \in Organization /\ d.plan \in Plan /\ Starter \in Plan
      BY <2>1 DEF ViewsOK, EventRecord
    <3>2. \/ org' = org \/ org' = [org EXCEPT !.plan = d.plan, !.customer = TRUE]
          \/ org' = [org EXCEPT !.invoice = "paid"] \/ org' = [org EXCEPT !.invoice = "open"]
          \/ org' = [org EXCEPT !.plan = Starter] \/ org' = [org EXCEPT !.plan = d.plan]
      BY <2>1, Zenon DEF ApplyToOrganization, checkoutSessionCompleted, invoicePaymentSucceeded,
         invoicePaymentFailed, customerSubscriptionDeleted, customerSubscriptionUpdated
    <3> HIDE DEF d
    <3> QED
      BY <3>1, <3>2 DEF Organization
  <2>3. sub' \in Subscription
    BY <1>0, <2>1 DEF ApplyToOrganization, checkoutSessionCompleted, invoicePaymentSucceeded,
       invoicePaymentFailed, customerSubscriptionDeleted, customerSubscriptionUpdated, ViewsOK,
       Organization, Subscription, EventRecord, Status, Grace
  <2> QED
    BY <1>1, <2>2, <2>3 DEF Commit, ViewsOK, cacheVars, boundVars
<1>2. ASSUME NEW r \in Request, RequestStep(r), ~Commit(r) PROVE ViewsOK'
  BY <1>2 DEF RequestStep, ReadIdempotencyKey, FindOrReceive, MarkProcessing, Rollback,
     MarkFailed, Remember, Invalidate, ViewsOK, cacheVars, boundVars
<1>3. ASSUME NEW r \in Request, CacheFails(r) \/ Crash(r) PROVE ViewsOK'
  <2>1. expiries + faults < MaxFaults /\ faults' = faults + 1 /\ expiries' = expiries
    BY <1>3 DEF CacheFails, Crash, FaultsLeft
  <2>2. faults' \in 0..MaxFaults
    BY <2>1 DEF ViewsOK
  <2>3. excused' \in BOOLEAN
    BY <1>3 DEF CacheFails, Crash, ViewsOK
  <2>4. UNCHANGED <<org, sub, cache, filling, cancelling, expiries>>
    BY <1>3 DEF CacheFails, Crash
  <2> QED
    BY <2>2, <2>3, <2>4 DEF ViewsOK
<1>4. ASSUME NEW r \in Request, NEW e \in Event, Deliver(r, e) PROVE ViewsOK'
  BY <1>4 DEF Deliver, ViewsOK, cacheVars, boundVars
<1>5. CASE ReaderStep \/ CancelAtStripe \/ UNCHANGED vars
  BY <1>0, <1>5 DEF ReaderStep, StartFill, Fill, EntryExpires, CancelAtStripe,
     vars, cacheVars, boundVars, ViewsOK
<1>6. CASE LockExpires
  BY <1>6 DEF LockExpires, FaultsLeft, cacheVars, ViewsOK
<1>7. CASE CancelSubscription \/ GraceEnds
  BY <1>0, <1>7 DEF CancelSubscription, GraceEnds, boundVars, ViewsOK, Subscription, Status, Grace
<1> QED
  BY <1>1, <1>2, <1>3, <1>4, <1>5, <1>6, <1>7 DEF Next

\* The rows, the requests and the caches keep their types, and a request is idle
\* exactly while it has no event.
THEOREM BillingTyping == Spec => []BillingTypeOK
<1>1. Init => BillingTypeOK
  <2> SUFFICES ASSUME Init PROVE RequestsOK /\ EventsOK /\ ViewsOK
    BY TypeParts
  <2>1. RequestsOK
    BY DEF Init, RequestsOK, Step
  <2>2. EventsOK
    BY DEF Init, EventsOK, Row
  <2>3. org \in Organization /\ sub \in Subscription
    BY DEF Init, Organization, Subscription, Status, Grace
  <2>4. expiries \in 0..MaxFaults /\ faults \in 0..MaxFaults
    BY DEF Init
  <2>5. cache = NoView /\ filling = NoView /\ excused = FALSE /\ cancelling = FALSE
    BY DEF Init
  <2> QED
    BY <2>1, <2>2, <2>3, <2>4, <2>5 DEF ViewsOK
<1>2. BillingTypeOK /\ [Next]_vars => BillingTypeOK'
  BY TypeParts, RequestsStep, EventsStep, ViewsStep DEF RequestsOK, EventsOK, ViewsOK, BillingTypeOK
<1> QED
  BY <1>1, <1>2, PTL DEF Spec

-----------------------------------------------------------------------------
(* Acknowledgements and the lock *)

\* An event that Stripe forgets, whose row is processed or whose request is past
\* its transaction has been applied.
AckInv ==
  /\ \A e \in acked : applied[e] > 0
  /\ \A e \in Event : row[e] = "processed" => applied[e] > 0
  /\ \A r \in Request : Committed(r) => applied[job[r]] > 0

\* While no lock has run out, one request at most is busy, applied events have
\* processed rows, and no request is on its way to apply one of them again.
LockInv ==
  expiries = 0 =>
    /\ \A r \in Request : pc[r] # "idle" => holder = r
    /\ \A e \in Event : applied[e] > 0 => row[e] = "processed" /\ applied[e] = 1
    /\ \A r \in Request : pc[r] \in {"mark", "apply", "fail"} => applied[job[r]] = 0

BillingInv == RequestsOK /\ EventsOK /\ ViewsOK

LEMMA AckStep ==
  ASSUME BillingInv, AckInv, [Next]_vars
  PROVE  AckInv'
<1>0. /\ RequestsOK /\ EventsOK
      /\ \A r \in Request : pc[r] # "idle" => job[r] \in Event
      /\ \A e \in Event : applied[e] \in 0..2
  BY Busy DEF BillingInv, EventsOK
<1>1. ASSUME NEW r \in Request, Commit(r) PROVE AckInv'
  <2> DEFINE e == job[r]
  <2>1. e \in Event /\ More(applied[e]) > 0
    BY <1>0, <1>1, Counts DEF Commit, At
  <2>2. applied' = [applied EXCEPT ![e] = More(applied[e])] /\ row' = [row EXCEPT ![e] = "processed"]
    BY <1>1 DEF Commit
  <2>3. /\ applied'[e] > 0 /\ row'[e] = "processed"
        /\ \A d \in Event \ {e} : applied'[d] = applied[d] /\ row'[d] = row[d]
    BY <1>0, <2>1, <2>2 DEF EventsOK
  <2>4. pc' = [pc EXCEPT ![r] = "remember"] /\ job' = job /\ acked' = acked
    BY <1>1 DEF Commit, GoTo
  <2>5. \A q \in Request : Committed(q)' => q = r \/ Committed(q)
    BY <1>0, <2>4 DEF Committed, RequestsOK
  <2>6. acked \subseteq Event /\ \A q \in Request : Committed(q) => job[q] \in Event
    BY <1>0 DEF Committed, EventsOK
  <2> QED
    BY <2>1, <2>3, <2>4, <2>5, <2>6 DEF AckInv
<1>2. ASSUME NEW r \in Request, RequestStep(r) \/ CacheFails(r) \/ Crash(r), ~Commit(r) PROVE AckInv'
  <2>1. applied' = applied /\ pc[r] # "idle" /\ job[r] \in Event
    BY <1>0, <1>2 DEF RequestStep, ReadIdempotencyKey, FindOrReceive, MarkProcessing, Rollback,
       MarkFailed, Remember, Invalidate, CacheFails, Crash, Committed, At, eventVars
  <2>2. \A e \in Event : row'[e] = "processed" => row[e] = "processed"
    BY <1>0, <1>2, <2>1 DEF RequestStep, ReadIdempotencyKey, FindOrReceive, MarkProcessing, Rollback,
       MarkFailed, Remember, Invalidate, CacheFails, Crash, eventVars, EventsOK
  <2>3. acked' = acked \/ (acked' = acked \cup {job[r]} /\ (Committed(r) \/ row[job[r]] = "processed"))
    BY <1>2 DEF RequestStep, ReadIdempotencyKey, FindOrReceive, MarkProcessing, Rollback,
       MarkFailed, Remember, Invalidate, CacheFails, Crash, Answer200, AlreadyProcessed, Committed, At
  <2>4. \A q \in Request : Committed(q)' => Committed(q) /\ job'[q] = job[q]
    BY <1>0, <1>2 DEF RequestStep, ReadIdempotencyKey, FindOrReceive, MarkProcessing, Rollback,
       MarkFailed, Remember, Invalidate, CacheFails, Crash, Answer200, GoTo, End, Committed, At, RequestsOK
  <2> QED
    BY <2>1, <2>2, <2>3, <2>4 DEF AckInv
<1>3. ASSUME NEW r \in Request, NEW e \in Event, Deliver(r, e) PROVE AckInv'
  <2>1. UNCHANGED <<acked, applied, row>>
    BY <1>3 DEF Deliver, eventVars
  <2>2. \A q \in Request : Committed(q)' => Committed(q) /\ job'[q] = job[q]
    BY <1>0, <1>3 DEF Deliver, Committed, RequestsOK
  <2> QED
    BY <2>1, <2>2 DEF AckInv
<1>4. CASE ReaderStep \/ CancelAtStripe \/ CancelSubscription \/ GraceEnds \/ LockExpires \/ UNCHANGED vars
  <2>1. UNCHANGED <<pc, job, acked, eventVars>>
    BY <1>4 DEF ReaderStep, StartFill, Fill, EntryExpires, CancelAtStripe, CancelSubscription, GraceEnds,
       LockExpires, vars, requestVars
  <2> QED
    BY <2>1 DEF AckInv, Committed, eventVars
<1> QED
  BY <1>1, <1>2, <1>3, <1>4 DEF Next

LEMMA LockStep ==
  ASSUME BillingInv, AckInv, LockInv, [Next]_vars
  PROVE  LockInv'
<1>0. /\ RequestsOK /\ EventsOK /\ expiries \in Nat
      /\ \A r \in Request : pc[r] # "idle" => job[r] \in Event
      /\ \A e \in Event : applied[e] \in 0..2
  BY Busy DEF BillingInv, EventsOK, ViewsOK
<1>1. CASE LockExpires
  BY <1>0, <1>1 DEF LockExpires, LockInv
<1>2. CASE expiries # 0
  <2>1. expiries' # 0
    <3>1. expiries' = expiries \/ LockExpires
      BY DEF Next, RequestStep, ReadIdempotencyKey, FindOrReceive, MarkProcessing, Commit, Rollback,
         MarkFailed, Remember, Invalidate, CacheFails, Crash, Deliver, ReaderStep, StartFill, Fill,
         EntryExpires, CancelAtStripe, CancelSubscription, GraceEnds, vars, boundVars
    <3> QED
      BY <1>0, <1>2, <3>1 DEF LockExpires
  <2> QED
    BY <2>1 DEF LockInv
<1>3. ASSUME expiries = 0, NEW r \in Request, RequestStep(r) \/ CacheFails(r) \/ Crash(r) PROVE LockInv'
  <2>0. pc[r] # "idle" /\ job[r] \in Event
    BY <1>0, <1>3 DEF RequestStep, ReadIdempotencyKey, FindOrReceive, MarkProcessing, Commit, Rollback,
       MarkFailed, Remember, Invalidate, CacheFails, Crash, Committed, At
  <2>1. holder = r /\ \A q \in Request \ {r} : pc[q] = "idle"
    BY <1>3, <2>0 DEF LockInv
  <2>2. \/ \E s \in Step : pc' = [pc EXCEPT ![r] = s] /\ UNCHANGED <<job, holder>>
        \/ End(r)
    BY <1>3 DEF RequestStep, ReadIdempotencyKey, FindOrReceive, MarkProcessing, Commit, Rollback,
       MarkFailed, Remember, Invalidate, CacheFails, Crash, Answer200, GoTo, End, Step
  <2>3. \A q \in Request : pc'[q] # "idle" => q = r /\ holder' = r /\ job'[r] = job[r]
    BY <1>0, <2>1, <2>2 DEF End, RequestsOK
  <2>4. CASE Commit(r)
    <3>1. applied[job[r]] = 0 /\ More(applied[job[r]]) = 1
      BY <1>3, <2>4 DEF LockInv, Commit, At, More
    <3>2. applied' = [applied EXCEPT ![job[r]] = More(applied[job[r]])]
          /\ row' = [row EXCEPT ![job[r]] = "processed"]
      BY <2>4 DEF Commit
    <3>3. pc'[r] = "remember"
      BY <1>0, <2>4 DEF Commit, GoTo, RequestsOK
    <3> QED
      BY <1>0, <1>3, <2>0, <2>3, <3>1, <3>2, <3>3 DEF LockInv, EventsOK
  <2>5. CASE ~Commit(r)
    <3>1. applied' = applied
      BY <1>3, <2>5 DEF RequestStep, ReadIdempotencyKey, FindOrReceive, MarkProcessing, Rollback,
         MarkFailed, Remember, Invalidate, CacheFails, Crash, eventVars
    <3>2. \/ row' = row
          \/ /\ \E x : row' = [row EXCEPT ![job[r]] = x]
             /\ row[job[r]] # "processed" \/ applied[job[r]] = 0
      BY <1>3, <2>5 DEF RequestStep, ReadIdempotencyKey, FindOrReceive, MarkProcessing, Rollback,
         MarkFailed, Remember, Invalidate, CacheFails, Crash, eventVars, AlreadyProcessed, LockInv, At
    <3>3. pc'[r] \in {"mark", "apply", "fail"} => applied[job[r]] = 0
      <4>1. CASE FindOrReceive(r)
        BY <1>0, <1>3, <2>0, <2>1, <4>1 DEF FindOrReceive, AlreadyProcessed, LockInv, GoTo, Answer200, End, RequestsOK
      <4>2. CASE ~FindOrReceive(r)
        <5>1. pc'[r] \in {"mark", "apply", "fail"} => pc[r] \in {"mark", "apply", "fail"}
          BY <1>0, <1>3, <2>5, <4>2 DEF RequestStep, ReadIdempotencyKey, MarkProcessing, Rollback,
             MarkFailed, Remember, Invalidate, CacheFails, Crash, Answer200, GoTo, End, At, RequestsOK
        <5> QED
          BY <1>3, <5>1 DEF LockInv
      <4> QED
        BY <4>1, <4>2
    <3>4. \A e \in Event : applied[e] > 0 => row'[e] = "processed" /\ applied[e] = 1
      BY <1>0, <1>3, <2>0, <3>2 DEF LockInv, EventsOK
    <3> QED
      BY <1>3, <2>3, <3>1, <3>3, <3>4 DEF LockInv
  <2> QED
    BY <2>4, <2>5
<1>4. ASSUME expiries = 0, NEW r \in Request, NEW e \in Event, Deliver(r, e) PROVE LockInv'
  <2>1. \A q \in Request : pc[q] = "idle"
    BY <1>4 DEF LockInv, Deliver
  <2>2. /\ \A q \in Request : pc'[q] # "idle" => q = r
        /\ pc'[r] = "cached" /\ holder' = r /\ UNCHANGED <<row, applied>>
    BY <1>0, <1>4, <2>1 DEF Deliver, RequestsOK, eventVars
  <2> QED
    BY <1>4, <2>2 DEF LockInv
<1>5. CASE ReaderStep \/ CancelAtStripe \/ CancelSubscription \/ GraceEnds \/ UNCHANGED vars
  <2>1. UNCHANGED <<pc, job, holder, row, applied, expiries>>
    BY <1>5 DEF ReaderStep, StartFill, Fill, EntryExpires, CancelAtStripe, CancelSubscription, GraceEnds,
       vars, requestVars, eventVars, boundVars
  <2> QED
    BY <2>1 DEF LockInv
<1> QED
  BY <1>1, <1>2, <1>3, <1>4, <1>5 DEF Next

-----------------------------------------------------------------------------
(* The caches *)

\* Among the reasons for a stale cache, the requests that will empty it.
StaleInv ==
  cache \notin {NoView, ViewOf(sub)} =>
    excused \/ \E r \in Request : Committed(r) /\ EventData[job[r]].type # "other"

LEMMA StaleStep ==
  ASSUME BillingInv, StaleInv, [Next]_vars
  PROVE  StaleInv'
<1>0. /\ RequestsOK /\ sub \in Subscription /\ watched \in Cache
      /\ \A r \in Request : pc[r] # "idle" => job[r] \in Event
  BY Busy DEF BillingInv, ViewsOK, EventsOK
<1>1. ASSUME UNCHANGED <<cache, sub>>, excused => excused',
             \A q \in Request : Committed(q) /\ EventData[job[q]].type # "other" =>
               Committed(q)' /\ job'[q] = job[q]
      PROVE  StaleInv'
  <2>1. ViewOf(sub)' = ViewOf(sub)
    BY <1>1 DEF ViewOf, hardLocked
  <2> QED
    BY <1>1, <2>1 DEF StaleInv
<1>2. ASSUME NEW r \in Request, Commit(r) PROVE StaleInv'
  <2>1. /\ pc' = [pc EXCEPT ![r] = "remember"] /\ job' = job /\ UNCHANGED <<cache, excused>>
        /\ pc[r] = "apply"
    BY <1>2 DEF Commit, GoTo, At, cacheVars
  <2>2. Committed(r)' /\ \A q \in Request : Committed(q) => Committed(q)'
    BY <1>0, <2>1 DEF Committed, RequestsOK
  <2>3. CASE EventData[job[r]].type = "other"
    <3>1. sub' = sub
      BY <1>2, <2>3 DEF Commit, ApplyToOrganization
    <3> QED
      BY <1>1, <2>1, <2>2, <3>1
  <2> QED
    BY <2>1, <2>2, <2>3 DEF StaleInv
<1>3. ASSUME NEW r \in Request, Invalidate(r) PROVE StaleInv'
  <2>1. CASE watched \in Invalidates(job[r])
    BY <1>3, <2>1 DEF Invalidate, StaleInv
  <2>2. CASE watched \notin Invalidates(job[r])
    <3>1. EventData[job[r]].type = "other" /\ UNCHANGED <<cache, excused, sub>>
      BY <1>0, <1>3, <2>2 DEF Invalidate, Invalidates
    <3>2. \A q \in Request \ {r} : pc'[q] = pc[q] /\ job'[q] = job[q]
      BY <1>0, <1>3 DEF Invalidate, Answer200, End, RequestsOK
    <3> QED
      BY <1>1, <3>1, <3>2 DEF Committed
  <2> QED
    BY <2>1, <2>2
<1>4. ASSUME NEW r \in Request, Crash(r) \/ CacheFails(r) PROVE StaleInv'
  <2>0. UNCHANGED <<cache, sub>>
    BY <1>4 DEF Crash, CacheFails
  <2>a. ASSUME Crash(r) PROVE excused => excused'
    BY <2>a, Zenon DEF Crash
  <2>b. ASSUME CacheFails(r) PROVE excused => excused'
    BY <2>b, Zenon DEF CacheFails
  <2>1. UNCHANGED <<cache, sub>> /\ (excused => excused')
    BY <1>4, <2>0, <2>a, <2>b
  <2>2. CASE excused'
    BY <2>2 DEF StaleInv
  <2>3. CASE ~excused'
    <3>1. \A q \in Request : Committed(q) => Committed(q)' /\ job'[q] = job[q]
      BY <1>0, <1>4, <2>3 DEF Crash, CacheFails, GoTo, Answer200, End, At, Committed, RequestsOK
    <3> QED
      BY <1>1, <2>1, <3>1
  <2> QED
    BY <2>2, <2>3
<1>5. ASSUME NEW r \in Request, RequestStep(r), ~Commit(r), ~Invalidate(r) PROVE StaleInv'
  <2>1. UNCHANGED <<cache, sub, excused>>
    BY <1>5 DEF RequestStep, ReadIdempotencyKey, FindOrReceive, MarkProcessing, Rollback,
       MarkFailed, Remember, cacheVars
  <2>2. \A q \in Request : Committed(q) => Committed(q)' /\ job'[q] = job[q]
    BY <1>0, <1>5 DEF RequestStep, ReadIdempotencyKey, FindOrReceive, MarkProcessing, Rollback,
       MarkFailed, Remember, GoTo, Answer200, End, At, Committed, RequestsOK
  <2> QED
    BY <1>1, <2>1, <2>2
<1>6. ASSUME NEW r \in Request, NEW e \in Event, Deliver(r, e) PROVE StaleInv'
  <2>1. UNCHANGED <<cache, sub, excused>>
    BY <1>6 DEF Deliver, cacheVars
  <2>2. \A q \in Request : Committed(q) => Committed(q)' /\ job'[q] = job[q]
    BY <1>0, <1>6 DEF Deliver, At, Committed, RequestsOK
  <2> QED
    BY <1>1, <2>1, <2>2
<1>7. CASE StartFill \/ CancelAtStripe \/ LockExpires \/ UNCHANGED vars
  <2>1. UNCHANGED <<cache, sub, excused, pc, job>>
    BY <1>7 DEF StartFill, CancelAtStripe, LockExpires, vars, requestVars, cacheVars
  <2> QED
    BY <1>1, <2>1 DEF Committed
<1>8. CASE Fill
  BY <1>8 DEF Fill, StaleInv, ViewOf, hardLocked
<1>9. CASE EntryExpires \/ CancelSubscription
  BY <1>9 DEF EntryExpires, CancelSubscription, StaleInv
<1>10. CASE GraceEnds
  <2>1. /\ UNCHANGED <<cache, pc, job>> /\ (excused => excused')
        /\ sub.status = "past_due" => excused'
        /\ \E g : sub' = [sub EXCEPT !.grace = g]
    BY <1>10 DEF GraceEnds, requestVars
  <2>2. sub.status # "past_due" => ViewOf(sub)' = ViewOf(sub)
    BY <1>0, <2>1 DEF ViewOf, hardLocked, Subscription
  <2> QED
    BY <2>1, <2>2 DEF StaleInv, Committed
<1> QED
  BY <1>2, <1>3, <1>4, <1>5, <1>6, <1>7, <1>8, <1>9, <1>10 DEF Next, ReaderStep

LEMMA BillingInvariance == Spec => [](BillingInv /\ AckInv /\ LockInv /\ StaleInv)
<1>1. Init => AckInv /\ LockInv /\ StaleInv
  BY DEF Init, AckInv, LockInv, StaleInv, Committed
<1>2. BillingTypeOK => BillingInv
  BY TypeParts DEF BillingInv
<1>3. BillingInv /\ AckInv /\ LockInv /\ StaleInv /\ [Next]_vars => AckInv' /\ LockInv' /\ StaleInv'
  BY AckStep, LockStep, StaleStep
<1> QED
  BY <1>1, <1>2, <1>3, BillingTyping, PTL DEF Spec

\* No event is lost: Stripe stops delivering only what has been committed,
\* whatever locks expire, requests die and calls fail.
THEOREM NoEventIsLost == Spec => []AckedWasApplied
<1>1. AckInv => AckedWasApplied
  BY DEF AckInv, AckedWasApplied
<1> QED
  BY <1>1, BillingInvariance, PTL

\* As long as no lock runs out under its request an event is applied once,
\* however often it is delivered and wherever a request dies.
THEOREM AppliedOnce == Spec => []OneChangeUnderTheLock
<1>1. BillingInv /\ LockInv => OneChangeUnderTheLock
  <2> SUFFICES ASSUME BillingInv, LockInv, NEW e \in Event, applied[e] > 1 PROVE expiries > 0
    BY DEF OneChangeUnderTheLock
  <2>1. applied[e] \in 0..2 /\ expiries \in Nat
    BY DEF BillingInv, EventsOK, ViewsOK
  <2> QED
    BY <2>1 DEF LockInv
<1> QED
  BY <1>1, BillingInvariance, PTL

\* Every stale cache has a request that will empty it or one of the excuses.
THEOREM StaleHasReason == Spec => []StaleCacheHasReason
<1>1. StaleInv => StaleCacheHasReason
  BY DEF StaleInv, StaleCacheHasReason
<1> QED
  BY <1>1, BillingInvariance, PTL
=============================================================================
