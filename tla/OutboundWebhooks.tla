-------------------------- MODULE OutboundWebhooks --------------------------
(***************************************************************************)
(* processOutboundWebhookJob of apps/worker: the deliveries to one webhook *)
(* endpoint of a tenant, the failures it counts and their disabling of the *)
(* endpoint, which an administrator sets through the API.                  *)
(*                                                                         *)
(* A delivery reads the endpoint, posts, and writes what it read plus one. *)
(***************************************************************************)
EXTENDS Naturals, FiniteSets

CONSTANTS
  Delivery,      \* jobs of the outbound webhook queue
  Sender,        \* processor slots
  FailureLimit,  \* consecutive failures that disable the endpoint (10)
  MaxSends,      \* attempts of a job
  MaxHookFaults, \* bound: failed database calls and crashes
  MaxEdits,      \* bound: edits by the administrator
  NoDelivery

ASSUME HookConstants ==
  /\ {FailureLimit, MaxSends} \subseteq Nat \ {0}
  /\ {MaxHookFaults, MaxEdits} \subseteq Nat
  /\ NoDelivery \notin Delivery

VARIABLES
  endpoint,    \* [status, failures]: the WebhookEndpoint row
  delivery,    \* [Delivery -> [state, attempts]]: the jobs
  sender,      \* [Sender -> [at, job, seen]]; seen: consecutiveFailures as read
  streak,      \* attempts that failed since the last success, up to the limit
  overlapped,  \* a delivery has begun while another was on its way
  readBefore,  \* senders that read the endpoint before it was last disabled
  edits, hookFaults

hookVars == <<endpoint, delivery, sender, streak, overlapped, readBefore, edits, hookFaults>>

Off == [at |-> "off", job |-> NoDelivery, seen |-> 0]
Sending == {s \in Sender : sender[s] # Off}

HookInit ==
  /\ endpoint = [status |-> "ACTIVE", failures |-> 0]
  /\ delivery = [d \in Delivery |-> [state |-> "none", attempts |-> 0]]
  /\ sender = [s \in Sender |-> Off]
  /\ streak = 0 /\ overlapped = FALSE /\ readBefore = {}
  /\ edits = 0 /\ hookFaults = 0

\* enqueueWebhookTopicDeliveries takes active endpoints; retryWebhookDelivery
\* of the API adds a job whatever the status.
EnqueueTopic(d) ==
  /\ delivery[d].state = "none" /\ endpoint.status = "ACTIVE"
  /\ delivery' = [delivery EXCEPT ![d].state = "waiting"]
  /\ UNCHANGED <<endpoint, sender, streak, overlapped, readBefore, edits, hookFaults>>
RetryDelivery(d) ==
  /\ delivery[d].state \in {"done", "failed"} /\ edits < MaxEdits
  /\ delivery' = [delivery EXCEPT ![d] = [state |-> "waiting", attempts |-> 0]]
  /\ edits' = edits + 1
  /\ UNCHANGED <<endpoint, sender, streak, overlapped, readBefore, hookFaults>>

\* Mutant: the job of a disabled endpoint is sent.
MutantAlwaysSends(s, d) ==
  /\ delivery[d].state = "waiting" /\ sender[s] = Off
  /\ delivery' = [delivery EXCEPT ![d].state = "active"]
  /\ sender' = [sender EXCEPT ![s] = [at |-> "post", job |-> d, seen |-> endpoint.failures]]
  /\ overlapped' = (overlapped \/ Sending # {})
  /\ UNCHANGED <<endpoint, streak, readBefore, edits, hookFaults>>

\* The endpoint is read; a disabled one ends the job.
TakeDelivery(s, d) ==
  /\ delivery[d].state = "waiting" /\ sender[s] = Off
  /\ IF endpoint.status = "DISABLED"
     THEN /\ delivery' = [delivery EXCEPT ![d].state = "done"]
          /\ UNCHANGED <<sender, overlapped>>
     ELSE /\ delivery' = [delivery EXCEPT ![d].state = "active"]
          /\ sender' = [sender EXCEPT ![s] =
               [at |-> "post", job |-> d, seen |-> endpoint.failures]]
          /\ overlapped' = (overlapped \/ Sending # {})
  /\ UNCHANGED <<endpoint, streak, readBefore, edits, hookFaults>>

Longer(n) == IF n = FailureLimit THEN n ELSE n + 1

Accepted(s) ==
  /\ sender[s].at = "post"
  /\ sender' = [sender EXCEPT ![s].at = "sent"]
  /\ streak' = 0
  /\ UNCHANGED <<endpoint, delivery, overlapped, readBefore, edits, hookFaults>>

Refuse(s) ==
  /\ sender[s].at = "post"
  /\ sender' = [sender EXCEPT ![s].at = "unsent"]
  /\ streak' = Longer(streak)
  /\ UNCHANGED <<endpoint, delivery, overlapped, readBefore, edits, hookFaults>>

\* An error status, a refused connection, the rate limit of the host.
Refused(s) == Refuse(s)

\* Mutant: fetch without its abort signal.
MutantNoTimer(s) == FALSE /\ Refuse(s)

\* WEBHOOK_TIMEOUT_MS
TimesOut(s) == Refuse(s)

Finished(s) == sender' = [sender EXCEPT ![s] = Off] /\ readBefore' = readBefore \ {s}
Retried(d) ==
  delivery' = [delivery EXCEPT ![d] =
    [state |-> IF @.attempts + 1 < MaxSends THEN "waiting" ELSE "failed",
     attempts |-> @.attempts + 1]]

\* Mutant: a success leaves the count.
MutantNoReset(s) ==
  /\ sender[s].at = "sent"
  /\ delivery' = [delivery EXCEPT ![sender[s].job].state = "done"]
  /\ Finished(s)
  /\ UNCHANGED <<endpoint, streak, overlapped, edits, hookFaults>>

\* A success resets the count; it does not enable the endpoint.
RecordSent(s) ==
  /\ sender[s].at = "sent"
  /\ endpoint' = [endpoint EXCEPT !.failures = 0]
  /\ delivery' = [delivery EXCEPT ![sender[s].job].state = "done"]
  /\ Finished(s)
  /\ UNCHANGED <<streak, overlapped, edits, hookFaults>>

\* A failure writes both columns from the count that was read.
RecordUnsent(s) ==
  LET n == sender[s].seen + 1 off == n >= FailureLimit IN
  /\ sender[s].at = "unsent"
  /\ endpoint' = [status |-> IF off THEN "DISABLED" ELSE "ACTIVE", failures |-> n]
  /\ Retried(sender[s].job)
  /\ sender' = [sender EXCEPT ![s] = Off]
  /\ readBefore' = (IF off /\ endpoint.status = "ACTIVE" THEN Sending ELSE readBefore) \ {s}
  /\ UNCHANGED <<streak, overlapped, edits, hookFaults>>

\* updateTenantWebhookEndpoint: the status only, the count stays.
SetStatus(new) ==
  /\ edits < MaxEdits /\ edits' = edits + 1
  /\ endpoint.status # new
  /\ endpoint' = [endpoint EXCEPT !.status = new]
  /\ readBefore' = IF new = "DISABLED" THEN Sending ELSE readBefore
  /\ UNCHANGED <<delivery, sender, streak, overlapped, hookFaults>>

\* The database fails after the endpoint accepted: the catch counts a failure
\* and the job is sent again.  Or the worker dies, and the job comes back.
HookFails(s) ==
  /\ hookFaults < MaxHookFaults /\ hookFaults' = hookFaults + 1
  /\ \/ /\ sender[s].at = "sent"
        /\ sender' = [sender EXCEPT ![s].at = "unsent"]
        /\ UNCHANGED <<delivery, readBefore>>
     \/ /\ sender[s] # Off /\ Finished(s)
        /\ delivery' = [delivery EXCEPT ![sender[s].job].state = "waiting"]
  /\ UNCHANGED <<endpoint, streak, overlapped, edits>>

SenderStep(s) == TimesOut(s) \/ RecordSent(s) \/ RecordUnsent(s)

HookNext ==
  \/ \E d \in Delivery : EnqueueTopic(d) \/ RetryDelivery(d)
  \/ \E s \in Sender, d \in Delivery : TakeDelivery(s, d)
  \/ \E s \in Sender : Accepted(s) \/ Refused(s) \/ SenderStep(s) \/ HookFails(s)
  \/ \E new \in {"ACTIVE", "DISABLED"} : SetStatus(new)

HookSpec == HookInit /\ [][HookNext]_hookVars

\* The timer ends a request that gets no answer; nothing makes it answer.
HookFairness ==
  \A s \in Sender :
    /\ WF_hookVars(SenderStep(s))
    /\ WF_hookVars(\E d \in Delivery : TakeDelivery(s, d))

-----------------------------------------------------------------------------
\* A delivery disables the endpoint only after as many attempts in a row as
\* the limit failed, unless two deliveries overlapped or the database failed
\* after a success.
DisablingHasReason ==
  [][\A s \in Sender :
       endpoint.status = "ACTIVE" /\ RecordUnsent(s) /\ endpoint'.status = "DISABLED" =>
         streak >= FailureLimit \/ overlapped \/ hookFaults > 0]_hookVars

\* A delivery enables a disabled endpoint only if it read it before.
DisabledStays ==
  [][\A s \in Sender :
       endpoint.status = "DISABLED" /\ RecordUnsent(s) /\ endpoint'.status = "ACTIVE" =>
         s \in readBefore]_hookVars

\* Every delivery ends, whether or not the endpoint ever answers.
DeliveriesEnd ==
  \A d \in Delivery :
    delivery[d].state = "waiting" ~> delivery[d].state \in {"done", "failed"}
=============================================================================
