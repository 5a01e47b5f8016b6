--------------------------- MODULE StripeBilling ---------------------------
(***************************************************************************)
(* The Stripe webhook of apps/api, the subscription rows its events change *)
(* and the two caches read from those rows: the billing snapshot of the    *)
(* API and the billing lock of the worker.                                 *)
(*                                                                         *)
(* A request is split at its awaits; the database transaction that applies *)
(* an event is one step.  One organisation is modelled, the caches of      *)
(* which are kept under references that are written and deleted together.  *)
(* Stripe delivers events in any order, more than once, and again as long  *)
(* as it gets no 200.  Days pass without a clock: a grace period is        *)
(* running or over.                                                        *)
(***************************************************************************)
EXTENDS Naturals, FiniteSets

CONSTANTS
  Event,        \* Stripe events
  EventData,    \* [Event -> EventRecord]
  Histories,    \* the sets of events Stripe may have to deliver
  Request,      \* webhook requests in flight at once
  Plan,
  Starter,      \* the plan of a cancelled organisation
  MaxFaults,    \* bound: locks that expire under their owner, crashes, failed calls
  NoOne,        \* no request
  NoEvent,
  NoView        \* nothing cached

Status == {"trial", "active", "past_due", "paused", "canceled"}
EventType == {"checkout", "paid", "unpaid", "deleted", "updated", "other"}
EventRecord ==
  [type: EventType, plan: Plan, status: Status, downgrade: BOOLEAN]

ASSUME BillingConstants ==
  /\ EventData \in [Event -> EventRecord]
  /\ Histories \subseteq SUBSET Event
  /\ Starter \in Plan
  /\ MaxFaults \in Nat
  /\ NoOne \notin Request /\ NoEvent \notin Event

Cache == {"snapshot", "lock"}

\* "none" and "aged": no date stored, and updatedAt is less or more than the
\* grace days ago; "running" and "over": the stored date is ahead or past.
Grace == {"none", "aged", "running", "over"}
Subscription == [status: Status, plan: Plan, grace: Grace]
Organization == [plan: Plan, customer: BOOLEAN, invoice: {"none", "open", "paid"}]
View == [status: Status, plan: Plan, locked: BOOLEAN]
Row == {"absent", "received", "processing", "processed", "failed"}
Step == {"idle", "cached", "find", "mark", "apply", "fail", "remember", "invalidate"}

VARIABLES
  stripe,       \* the events Stripe delivers
  watched,      \* the cache that is looked at: the two share nothing
  org, sub,     \* the organization and its subscription
  row,          \* [Event -> Row]: BillingEvent.status
  credit,       \* [Event -> 0..2]: BillingCredit rows (2: two or more)
  applied,      \* [Event -> 0..2]: committed transactions of an event
  remembered,   \* events whose idempotency key is set
  acked,        \* events Stripe got a 200 for
  pc, job,      \* [Request -> Step], [Request -> Event \cup {NoEvent}]
  holder,       \* the request Redis takes for the owner of the event lock
  cache,        \* View \cup {NoView}: what is cached
  filling,      \* View \cup {NoView}: what a reader read and has not cached yet
  excused,      \* something besides a webhook left the cache stale
  cancelling,   \* a cancellation past its call of Stripe
  expiries, faults

requestVars == <<pc, job, holder, acked, remembered>>
eventVars == <<row, credit, applied>>
cacheVars == <<cache, filling, excused>>
boundVars == <<expiries, faults>>
vars == <<stripe, watched, org, sub, requestVars, eventVars, cacheVars, cancelling, boundVars>>

\* A past due subscription is locked once its grace period is over.
hardLocked(s) == s.status = "past_due" /\ s.grace \in {"aged", "over"}
ViewOf(s) == [status |-> s.status, plan |-> s.plan, locked |-> hardLocked(s)]

\* Every write of the row moves its updatedAt.
Touched(g) == IF g \in {"none", "aged"} THEN "none" ELSE g

More(n) == IF n = 2 THEN 2 ELSE n + 1

Init ==
  /\ stripe \in Histories /\ watched \in Cache
  /\ org = [plan |-> Starter, customer |-> FALSE, invoice |-> "none"]
  /\ sub = [status |-> "trial", plan |-> Starter, grace |-> "none"]
  /\ row = [e \in Event |-> "absent"]
  /\ credit = [e \in Event |-> 0]
  /\ applied = [e \in Event |-> 0]
  /\ remembered = {} /\ acked = {}
  /\ pc = [r \in Request |-> "idle"]
  /\ job = [r \in Request |-> NoEvent]
  /\ holder = NoOne
  /\ cache = NoView /\ filling = NoView /\ excused = FALSE
  /\ cancelling = FALSE
  /\ expiries = 0 /\ faults = 0

-----------------------------------------------------------------------------
(* The webhook request *)

At(r, s) == pc[r] = s
GoTo(r, s) == pc' = [pc EXCEPT ![r] = s] /\ UNCHANGED <<job, holder>>

\* Mutant: the lock is not released.
MutantNoRelease(r) ==
  /\ pc' = [pc EXCEPT ![r] = "idle"]
  /\ job' = [job EXCEPT ![r] = NoEvent]
  /\ UNCHANGED holder

\* The lock is released by the owner Redis knows, the request ends.
End(r) ==
  /\ pc' = [pc EXCEPT ![r] = "idle"]
  /\ job' = [job EXCEPT ![r] = NoEvent]
  /\ holder' = IF holder = r THEN NoOne ELSE holder
Answer200(r) == End(r) /\ acked' = acked \cup {job[r]}

\* Stripe delivers an event, acknowledged or not, and the request takes the
\* lock of its customer.  A request that cannot take it answers 500.
Deliver(r, e) ==
  /\ e \in stripe /\ At(r, "idle") /\ holder = NoOne
  /\ pc' = [pc EXCEPT ![r] = "cached"]
  /\ job' = [job EXCEPT ![r] = e]
  /\ holder' = r
  /\ UNCHANGED <<stripe, watched, org, sub, acked, remembered, eventVars, cacheVars, cancelling, boundVars>>

\* Mutants: a row is enough; the idempotency key alone is trusted.
MutantReceived(e) == row[e] # "absent"
MutantKeyOnly(e) == e \in remembered

AlreadyProcessed(e) == row[e] = "processed"

\* The idempotency key answers a duplicate, unless the row disagrees.
ReadIdempotencyKey(r) ==
  /\ At(r, "cached")
  /\ \/ job[r] \notin remembered /\ GoTo(r, "find") /\ UNCHANGED <<acked, remembered>>
     \/ /\ job[r] \in remembered /\ AlreadyProcessed(job[r])
        /\ Answer200(r) /\ UNCHANGED remembered
     \/ /\ job[r] \in remembered /\ ~AlreadyProcessed(job[r])
        /\ remembered' = remembered \ {job[r]}
        /\ GoTo(r, "find") /\ UNCHANGED acked
  /\ UNCHANGED <<stripe, watched, org, sub, eventVars, cacheVars, cancelling, boundVars>>

\* The row is found or created; a processed one ends the request, whose
\* write of the idempotency key may fail.
FindOrReceive(r) ==
  /\ At(r, "find")
  /\ \/ /\ AlreadyProcessed(job[r])
        /\ remembered' \in {remembered, remembered \cup {job[r]}}
        /\ Answer200(r) /\ UNCHANGED row
     \/ /\ ~AlreadyProcessed(job[r])
        /\ row' = [row EXCEPT ![job[r]] = IF @ = "absent" THEN "received" ELSE @]
        /\ GoTo(r, "mark") /\ UNCHANGED <<acked, remembered>>
  /\ UNCHANGED <<stripe, watched, org, sub, credit, applied, cacheVars, cancelling, boundVars>>

\* Whatever the status of the row is by now.
MarkProcessing(r) ==
  /\ At(r, "mark")
  /\ row' = [row EXCEPT ![job[r]] = "processing"]
  /\ GoTo(r, "apply")
  /\ UNCHANGED <<stripe, watched, org, sub, acked, remembered, credit, applied, cacheVars, cancelling, boundVars>>

-----------------------------------------------------------------------------
(* processStripeBillingEvent *)

\* The handlers of all types but checkout look the customer up.
KnowsOrganization(d) == d.type \in {"checkout", "other"} \/ org.customer

checkoutSessionCompleted(d) ==
  /\ org' = [org EXCEPT !.plan = d.plan, !.customer = TRUE]
  /\ sub' = [status |-> "active", plan |-> d.plan, grace |-> Touched(sub.grace)]
invoicePaymentSucceeded ==
  /\ org' = [org EXCEPT !.invoice = "paid"]
  /\ sub' = [status |-> "active", plan |-> org.plan, grace |-> "none"]
invoicePaymentFailed ==
  /\ org' = [org EXCEPT !.invoice = "open"]
  /\ sub' = [status |-> "past_due", plan |-> org.plan, grace |-> "running"]
customerSubscriptionDeleted ==
  /\ org' = [org EXCEPT !.plan = Starter]
  /\ sub' = [status |-> "canceled", plan |-> Starter, grace |-> Touched(sub.grace)]
customerSubscriptionUpdated(d) ==
  /\ org' = [org EXCEPT !.plan = d.plan]
  /\ sub' = [status |-> d.status, plan |-> d.plan, grace |-> Touched(sub.grace)]

ApplyToOrganization(d) ==
  \/ d.type = "checkout" /\ checkoutSessionCompleted(d)
  \/ d.type = "paid" /\ invoicePaymentSucceeded
  \/ d.type = "unpaid" /\ invoicePaymentFailed
  \/ d.type = "deleted" /\ customerSubscriptionDeleted
  \/ d.type = "updated" /\ customerSubscriptionUpdated(d)
  \/ d.type = "other" /\ UNCHANGED <<org, sub>>

GrantsCredit(e) == EventData[e].type = "updated" /\ EventData[e].downgrade

\* BillingCredit.stripeEventId is unique.  The handler ignores the conflict,
\* but PostgreSQL has aborted the transaction, whose next query then fails.
CreditConflicts(e) == GrantsCredit(e) /\ credit[e] > 0

Commit(r) ==
  LET e == job[r] IN
  /\ At(r, "apply")
  /\ KnowsOrganization(EventData[e]) /\ ~CreditConflicts(e)
  /\ ApplyToOrganization(EventData[e])
  /\ credit' = [credit EXCEPT ![e] = IF GrantsCredit(e) THEN More(@) ELSE @]
  /\ applied' = [applied EXCEPT ![e] = More(@)]
  /\ row' = [row EXCEPT ![e] = "processed"]
  /\ GoTo(r, "remember")
  /\ UNCHANGED <<stripe, watched, acked, remembered, cacheVars, cancelling, boundVars>>

Rollback(r) ==
  /\ At(r, "apply")
  /\ ~KnowsOrganization(EventData[job[r]]) \/ CreditConflicts(job[r])
  /\ GoTo(r, "fail")
  /\ UNCHANGED <<stripe, watched, org, sub, acked, remembered, eventVars, cacheVars, cancelling, boundVars>>

\* The row is marked failed and the request answers 500.
MarkFailed(r) ==
  /\ At(r, "fail")
  /\ row' = [row EXCEPT ![job[r]] = "failed"]
  /\ End(r)
  /\ UNCHANGED <<stripe, watched, org, sub, acked, remembered, credit, applied, cacheVars, cancelling, boundVars>>

Remember(r) ==
  /\ At(r, "remember")
  /\ remembered' = remembered \cup {job[r]}
  /\ GoTo(r, "invalidate")
  /\ UNCHANGED <<stripe, watched, org, sub, acked, eventVars, cacheVars, cancelling, boundVars>>

\* Mutant: the billing lock of the worker is forgotten.
MutantSnapshotOnly(e) == IF EventData[e].type = "other" THEN {} ELSE {"snapshot"}

\* The caches deleted after an event about an organisation.
Invalidates(e) == IF EventData[e].type = "other" THEN {} ELSE Cache

Invalidate(r) ==
  /\ At(r, "invalidate")
  /\ \/ watched \in Invalidates(job[r]) /\ cache' = NoView /\ excused' = FALSE
     \/ watched \notin Invalidates(job[r]) /\ UNCHANGED <<cache, excused>>
  /\ Answer200(r)
  /\ UNCHANGED <<stripe, watched, org, sub, remembered, eventVars, filling, cancelling, boundVars>>

-----------------------------------------------------------------------------
(* Faults *)

FaultsLeft == expiries + faults < MaxFaults

LockExpires ==
  /\ holder # NoOne /\ FaultsLeft
  /\ holder' = NoOne /\ expiries' = expiries + 1
  /\ UNCHANGED <<stripe, watched, org, sub, pc, job, acked, remembered, eventVars, cacheVars, cancelling, faults>>

Committed(r) == pc[r] \in {"remember", "invalidate"}

\* The request dies.  Its lock keeps others out until it expires: no step of
\* anybody needs that time, so it is free at once.
Crash(r) ==
  /\ pc[r] # "idle" /\ FaultsLeft
  /\ faults' = faults + 1
  /\ pc' = [pc EXCEPT ![r] = "idle"]
  /\ job' = [job EXCEPT ![r] = NoEvent]
  /\ holder' = IF holder = r THEN NoOne ELSE holder
  /\ excused' = (excused \/ Committed(r))
  /\ UNCHANGED <<stripe, watched, org, sub, acked, remembered, eventVars, cache, filling, cancelling, expiries>>

\* The calls after the transaction may fail: it is logged, Stripe gets its 200.
CacheFails(r) ==
  /\ Committed(r) /\ FaultsLeft
  /\ faults' = faults + 1
  /\ \/ At(r, "remember") /\ GoTo(r, "invalidate") /\ UNCHANGED <<acked, excused>>
     \/ At(r, "invalidate") /\ Answer200(r) /\ excused' = TRUE
  /\ UNCHANGED <<stripe, watched, org, sub, remembered, eventVars, cache, filling, cancelling, expiries>>

-----------------------------------------------------------------------------
(* The readers, the cancellation and the passing of time *)

\* A miss of getBillingSnapshot, or of resolveBillingLock in the worker,
\* reads the rows and caches what it read in a later step.
StartFill ==
  /\ cache = NoView /\ filling = NoView
  /\ filling' = ViewOf(sub)
  /\ UNCHANGED <<stripe, watched, org, sub, requestVars, eventVars, cache, excused, cancelling, boundVars>>

Fill ==
  /\ filling # NoView
  /\ cache' = filling /\ filling' = NoView
  /\ excused' = (filling # ViewOf(sub))
  /\ UNCHANGED <<stripe, watched, org, sub, requestVars, eventVars, cancelling, boundVars>>

\* Mutant: the worker's key is set without EX.
MutantNoTtl ==
  /\ cache # NoView /\ watched = "snapshot"
  /\ cache' = NoView /\ excused' = FALSE
  /\ UNCHANGED <<stripe, watched, org, sub, requestVars, eventVars, filling, cancelling, boundVars>>

\* BILLING_SNAPSHOT_CACHE_TTL_SECONDS, BILLING_STATUS_CACHE_TTL_SECONDS
EntryExpires ==
  /\ cache # NoView
  /\ cache' = NoView /\ excused' = FALSE
  /\ UNCHANGED <<stripe, watched, org, sub, requestVars, eventVars, filling, cancelling, boundVars>>

\* cancelBillingForOrganization: the subscription is cancelled at Stripe,
CancelAtStripe ==
  /\ ~cancelling /\ sub.status # "canceled" /\ org.customer
  /\ cancelling' = TRUE
  /\ UNCHANGED <<stripe, watched, org, sub, requestVars, eventVars, cacheVars, boundVars>>

\* then in the database; no cache is deleted.
CancelSubscription ==
  /\ cancelling
  /\ cancelling' = FALSE
  /\ sub' = [sub EXCEPT !.status = "canceled", !.grace = Touched(@)]
  /\ excused' = TRUE
  /\ UNCHANGED <<stripe, watched, org, requestVars, eventVars, cache, filling, boundVars>>

\* The age of updatedAt matters to a past due subscription only.
GraceEnds ==
  /\ sub.grace = "running" \/ (sub.grace = "none" /\ sub.status = "past_due")
  /\ sub' = [sub EXCEPT !.grace = IF @ = "none" THEN "aged" ELSE "over"]
  /\ excused' = (excused \/ sub.status = "past_due")
  /\ UNCHANGED <<stripe, watched, org, requestVars, eventVars, cache, filling, cancelling, boundVars>>

RequestStep(r) ==
  \/ ReadIdempotencyKey(r) \/ FindOrReceive(r) \/ MarkProcessing(r)
  \/ Commit(r) \/ Rollback(r) \/ MarkFailed(r) \/ Remember(r) \/ Invalidate(r)
ReaderStep == StartFill \/ Fill \/ EntryExpires

Next ==
  \/ \E r \in Request : RequestStep(r) \/ Crash(r) \/ CacheFails(r)
  \/ \E r \in Request, e \in Event : Deliver(r, e)
  \/ ReaderStep \/ LockExpires \/ CancelAtStripe \/ CancelSubscription \/ GraceEnds

Spec == Init /\ [][Next]_vars

\* A request that runs goes on, entries expire, started fills end, and Stripe
\* retries an unacknowledged event for days while a lock is held for seconds.
Fairness ==
  /\ \A r \in Request : WF_vars(RequestStep(r))
  /\ WF_vars(Fill) /\ WF_vars(EntryExpires)
  /\ \A e \in Event :
       SF_vars(e \notin acked /\ \E r \in Request : Deliver(r, e))
FairSpec == Spec /\ Fairness

-----------------------------------------------------------------------------
(* Properties *)

BillingTypeOK ==
  /\ stripe \in Histories /\ watched \in Cache
  /\ org \in Organization /\ sub \in Subscription
  /\ row \in [Event -> Row]
  /\ credit \in [Event -> 0..2] /\ applied \in [Event -> 0..2]
  /\ remembered \subseteq Event /\ acked \subseteq Event
  /\ pc \in [Request -> Step]
  /\ job \in [Request -> Event \cup {NoEvent}]
  /\ \A r \in Request : pc[r] = "idle" <=> job[r] = NoEvent
  /\ holder \in Request \cup {NoOne}
  /\ cache \in View \cup {NoView} /\ filling \in View \cup {NoView}
  /\ excused \in BOOLEAN /\ cancelling \in BOOLEAN
  /\ expiries \in 0..MaxFaults /\ faults \in 0..MaxFaults

\* Stripe gets its 200 only for an event whose transaction has been committed:
\* whatever is retried, overlaps or crashes, no event is lost.
AckedWasApplied == \A e \in acked : applied[e] > 0

\* An event changes the organization twice only if a lock did not outlive its
\* request.
OneChangeUnderTheLock == \A e \in Event : applied[e] > 1 => expiries > 0

\* A cache differs from the database only while a webhook is on its way to
\* delete it, or because a fill raced a write, a fault hit the deletion, the
\* organization cancelled by itself, or its grace period ended.
StaleCacheHasReason ==
  cache \notin {NoView, ViewOf(sub)} =>
    excused \/ \E r \in Request : Committed(r)

\* Whatever left a cache stale, it is empty or right again and again.
CachesConverge == []<>(cache \in {NoView, ViewOf(sub)})

\* Every event Stripe has is acknowledged in the end, the ones that arrive
\* before their customer is known included, as long as locks hold.
EventsSettle ==
  \A e \in Event : e \in stripe => <>(e \in acked \/ expiries > 0)

\* A repeated event is ignored and answered with 200
\* (docs/testing/provisioning-acceptance-criteria.md, Test-Case 3): no request
\* for an event that has been applied fails.
RepeatedEventGets200 ==
  [][\A r \in Request :
       pc[r] # "fail" /\ pc'[r] = "fail" => applied[job[r]] = 0]_vars
=============================================================================
