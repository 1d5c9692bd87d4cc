------------------------------ MODULE Commerce ------------------------------
(* How a prospect becomes a club: checkout (routers/commerce.py), Stripe's  *)
(* webhooks (routers/webhooks.py) and their retries (tasks/                 *)
(* webhook_retry.py), the claim of a paid session (routers/onboarding.py)   *)
(* and the provisioning of the club (services/provisioning.py).             *)
(*                                                                          *)
(* A request or a Celery task is a job of a worker.  A job's database       *)
(* session is one transaction (READ COMMITTED) that holds the rows it wrote *)
(* or selected FOR UPDATE until it ends; others wait for them.  get_db      *)
(* commits after the response has been sent.                                *)
EXTENDS Naturals, FiniteSets

CONSTANTS
    Workers,       \* API requests and Celery tasks at a time
    Claims,        \* club claims (routers/onboarding.py: submit_club_claim)
    Plans,
    Slugs,
    SlugOf,        \* [Claims -> Slugs]: _derive_slug of the club's name
    KnownContacts, \* claims whose contact has an account from before
    None,
    MaxRetries,    \* _MAX_RETRIES
    EventTypes,    \* the types Stripe sends in this instance
    Reported,      \* the subscription statuses updates report in this instance
    Incidents,     \* what may go wrong in this instance
    MaxEvents,     \* bound: events of Stripe
    MaxDeliveries, \* bound: deliveries by Stripe
    MaxIncidents   \* bound: incidents

HandledTypes == {"checkout.session.completed", "customer.subscription.updated",
                 "customer.subscription.deleted", "invoice.payment_failed"}
SubscriptionStatuses == {"active", "past_due", "canceled"}
IncidentKinds == {"db_error", "commit_fails", "broker_down", "redelivery",
                  "worker_lost", "record_fails"}

ASSUME CommerceAssumption ==
    /\ SlugOf \in [Claims -> Slugs]
    /\ KnownContacts \subseteq Claims
    /\ MaxRetries \in Nat
    /\ EventTypes \subseteq HandledTypes
    /\ Reported \subseteq SubscriptionStatuses
    /\ Incidents \subseteq IncidentKinds
    /\ MaxEvents \in Nat /\ MaxDeliveries \in Nat /\ MaxIncidents \in Nat

(* Stripe's idempotency key is claim:plan, and so is a checkout's identity. *)
Checkouts == [claim : Claims, plan : Plans]
Event == [type : HandledTypes, checkout : Checkouts, id : 1 .. MaxEvents,
          status : SubscriptionStatuses]
Message == [event : Event, retries : 0 .. MaxRetries]
Attempt == [event : Event, number : 1 .. MaxRetries + 1,
            outcome : {"success", "fail"}, dead : BOOLEAN]

Lockable ==
    [table : {"event"}, key : Event] \cup
    [table : {"session", "subscription"}, key : Checkouts] \cup
    [table : {"club"}, key : Slugs] \cup [table : {"user"}, key : Claims]
Row(table, key) == [table |-> table, key |-> key]

VARIABLES
    \* Stripe
    offered,      \* checkouts whose URL was handed out
    events,       \* events that have happened
    outstanding,  \* events not yet answered with 2xx
    deliveries,   \* how many there were
    \* the database, committed
    session,      \* [Checkouts -> status]: onboarding_sessions
    expired,      \* sessions past expires_at
    users,        \* claims whose contact has an account
    clubs,
    pools,        \* [Slugs -> Nat]: draft pools
    subscription, \* [Checkouts -> status]: stripe_subscriptions
    processed,    \* processed_stripe_events
    attempts,     \* webhook_delivery_attempts
    \* the workers
    job,          \* [Workers -> Job]
    queue,        \* Celery messages process_stripe_webhook_event
    \* history
    incidents,    \* how many there were
    applied,      \* events whose handler's writes were committed, with how often
    claimed,      \* [Checkouts -> Nat]: committed claims
    lost,         \* events answered with 2xx of which no trace is left
    orphaned      \* checkouts offered whose session was not stored

stripeVars == <<offered, events, outstanding, deliveries>>
onboardingVars == <<session, expired, users, claimed, orphaned>>
clubVars == <<clubs, pools>>
webhookVars == <<subscription, processed, applied>>
historyVars == <<incidents, lost>>
vars == <<stripeVars, onboardingVars, clubVars, webhookVars, attempts, job, queue, historyVars>>

Job == [kind : {"idle", "checkout", "webhook", "task", "claim", "provision"},
        stage : {"mark", "handle", "commit", "record"},
        event : Event \cup {None}, checkout : Checkouts \cup {None},
        retries : 0 .. MaxRetries, outcome : {"success", "fail"},
        found : BOOLEAN, locks : SUBSET Lockable]

Idle == [kind |-> "idle", stage |-> "mark", event |-> None, checkout |-> None,
         retries |-> 0, outcome |-> "fail", found |-> FALSE, locks |-> {}]

TypeOK ==
    /\ offered \subseteq Checkouts
    /\ events \subseteq Event
    /\ outstanding \subseteq events
    /\ deliveries \in 0 .. MaxDeliveries
    /\ session \in [Checkouts -> {"none", "pending", "paid", "claimed"}]
    /\ expired \subseteq Checkouts
    /\ users \subseteq Claims
    /\ clubs \subseteq [slug : Slugs, claim : Claims, plan : Plans, owned : BOOLEAN]
    /\ pools \in [Slugs -> Nat]
    /\ subscription \in [Checkouts -> SubscriptionStatuses \cup {"none"}]
    /\ processed \subseteq events
    /\ attempts \subseteq Attempt
    /\ job \in [Workers -> Job]
    /\ queue \subseteq Message
    /\ incidents \in 0 .. MaxIncidents
    /\ applied \subseteq [event : Event, nth : Nat]
    /\ claimed \in [Checkouts -> Nat]
    /\ lost \subseteq events
    /\ orphaned \subseteq Checkouts

Init ==
    /\ offered = {}
    /\ events = {}
    /\ outstanding = {}
    /\ deliveries = 0
    /\ session = [c \in Checkouts |-> "none"]
    /\ expired = {}
    /\ users = KnownContacts
    /\ clubs = {}
    /\ pools = [s \in Slugs |-> 0]
    /\ subscription = [c \in Checkouts |-> "none"]
    /\ processed = {}
    /\ attempts = {}
    /\ job = [w \in Workers |-> Idle]
    /\ queue = {}
    /\ incidents = 0
    /\ applied = {}
    /\ claimed = [c \in Checkouts |-> 0]
    /\ lost = {}
    /\ orphaned = {}

-----------------------------------------------------------------------------
(* Jobs and their transactions. *)

Free(w, row) == \A v \in Workers \ {w} : row \notin job[v].locks
Begin(w, j) == job[w] = Idle /\ job' = [job EXCEPT ![w] = j]
Continue(w, j) == job' = [job EXCEPT ![w] = j]
End(w) == job' = [job EXCEPT ![w] = Idle]
At(w, kinds, stages) == job[w].kind \in kinds /\ job[w].stage \in stages

Answered(e) == outstanding' = outstanding \ {e}

Incident(kind) ==
    /\ kind \in Incidents
    /\ incidents < MaxIncidents
    /\ incidents' = incidents + 1

-----------------------------------------------------------------------------
(* Stripe: a checkout is paid once, by a customer who was given its URL by  *)
(* a request that is over; its subscription changes later.                  *)
Happens(e) ==
    /\ e.type \in EventTypes
    /\ Cardinality(events) < MaxEvents
    /\ e.id = Cardinality(events) + 1
    /\ events' = events \cup {e}
    /\ outstanding' = outstanding \cup {e}
    /\ UNCHANGED <<offered, deliveries, onboardingVars, clubVars, webhookVars, attempts,
                   job, queue, historyVars>>

Paid(c) == \E e \in events : e.type = "checkout.session.completed" /\ e.checkout = c

Pay(e) ==
    /\ e.type = "checkout.session.completed" /\ e.status = "active"
    /\ e.checkout \in offered /\ ~Paid(e.checkout)
    /\ \A w \in Workers : job[w].kind = "checkout" => job[w].checkout # e.checkout
    /\ Happens(e)

SubscriptionChanges(e) ==
    /\ Paid(e.checkout)
    /\ \/ e.type = "customer.subscription.updated" /\ e.status \in Reported
       \/ e.type = "customer.subscription.deleted" /\ e.status = "canceled"
       \/ e.type = "invoice.payment_failed" /\ e.status = "past_due"
    /\ Happens(e)

-----------------------------------------------------------------------------
(* Mutant of Unsold: the session of a checkout is replaced. *)
UnsoldAlways(c) == TRUE

(* Stripe returns the same checkout for the same claim and plan, so that a  *)
(* second session of it violates a unique index and is answered 500.        *)
Unsold(c) == session[c] = "none"

(* create_checkout_session, up to its response. *)
RequestCheckout(w, c) ==
    /\ Unsold(c)
    /\ Free(w, Row("session", c))
    /\ offered' = offered \cup {c}
    /\ Begin(w, [Idle EXCEPT !.kind = "checkout", !.stage = "commit", !.checkout = c,
                             !.locks = {Row("session", c)}])
    /\ UNCHANGED <<events, outstanding, deliveries, onboardingVars, clubVars,
                   webhookVars, attempts, queue, historyVars>>

(* 24 hours have passed: checked by the clock, no job sets a status. *)
Expire(c) ==
    /\ session[c] # "none"
    /\ c \notin expired
    /\ expired' = expired \cup {c}
    /\ UNCHANGED <<stripeVars, session, users, claimed, orphaned, clubVars, webhookVars,
                   attempts, job, queue, historyVars>>

(* claim_session, up to its response: the session is selected FOR UPDATE,   *)
(* and an account inserted unless the contact has one.  (Another claim that *)
(* is about to insert it makes this one fail; it may be tried again.)       *)
AccountLocks(c) == IF c.claim \in users THEN {} ELSE {Row("user", c.claim)}

(* Mutant of ClaimLocks: the session is selected without FOR UPDATE. *)
ClaimLocksAccount(c) == AccountLocks(c)

ClaimLocks(c) == {Row("session", c)} \cup AccountLocks(c)

Claim(w, c) ==
    /\ \A r \in ClaimLocks(c) : Free(w, r)
    /\ c \notin expired
    /\ session[c] = "paid"
    /\ Begin(w, [Idle EXCEPT !.kind = "claim", !.stage = "commit", !.checkout = c,
                             !.locks = ClaimLocks(c)])
    /\ UNCHANGED <<stripeVars, onboardingVars, clubVars, webhookVars, attempts, queue,
                   historyVars>>

(* Mutant of ClubLocks: the slug is looked up first and inserted later. *)
ClubLocksNone(c) == {}

ClubLocks(c) == {Row("club", SlugOf[c.claim])}

(* provision, up to its response.  The claim must have one session (more    *)
(* than one is an error), which has been claimed.  INSERT ... ON CONFLICT   *)
(* (slug) waits for one of the same slug; a club that is there is returned. *)
Provision(w, c) ==
    /\ {d \in Checkouts : d.claim = c.claim /\ session[d] # "none"} = {c}
    /\ session[c] = "claimed"
    /\ \A r \in ClubLocks(c) : Free(w, r)
    /\ \A b \in clubs : b.slug # SlugOf[c.claim]
    /\ Begin(w, [Idle EXCEPT !.kind = "provision", !.stage = "commit", !.checkout = c,
                             !.found = c.claim \in users,
                             !.locks = ClubLocks(c)])
    /\ UNCHANGED <<stripeVars, onboardingVars, clubVars, webhookVars, attempts, queue,
                   historyVars>>

-----------------------------------------------------------------------------
(* Mutant of Seen: processed events are not looked up. *)
SeenNever(e) == FALSE

Seen(e) == e \in processed

(* stripe_webhook receives an event; Stripe repeats what was not answered   *)
(* with 2xx, and may deliver any event more than once.                      *)
Deliver(w, e) ==
    /\ e \in outstanding \/ "redelivery" \in Incidents
    /\ deliveries < MaxDeliveries
    /\ deliveries' = deliveries + 1
    /\ Begin(w, [Idle EXCEPT !.kind = "webhook", !.event = e])
    /\ UNCHANGED <<offered, events, outstanding, onboardingVars, clubVars, webhookVars,
                   attempts, queue, historyVars>>

(* process_stripe_webhook_event begins: an event that is processed already  *)
(* ends it.                                                                 *)
StartTask(w, m) ==
    /\ job[w] = Idle
    /\ queue' = queue \ {m}
    /\ IF Seen(m.event)
       THEN UNCHANGED job
       ELSE Begin(w, [Idle EXCEPT !.kind = "task", !.event = m.event, !.retries = m.retries])
    /\ UNCHANGED <<stripeVars, onboardingVars, clubVars, webhookVars, attempts, historyVars>>

(* Mutant of EventLocks: the event is looked up first and inserted later. *)
EventLocksNone(e) == {}

EventLocks(e) == {Row("event", e)}

(* _mark_processed: INSERT ... ON CONFLICT DO NOTHING waits for an          *)
(* uncommitted insert of the same event.                                    *)
Mark(w) ==
    /\ At(w, {"webhook", "task"}, {"mark"})
    /\ LET e == job[w].event
       IN  /\ \A r \in EventLocks(e) : Free(w, r)
           /\ IF Seen(e)
              THEN /\ End(w)
                   /\ IF job[w].kind = "webhook" THEN Answered(e) ELSE UNCHANGED outstanding
              ELSE /\ Continue(w, [job[w] EXCEPT !.stage = "handle",
                                                 !.locks = EventLocks(e)])
                   /\ UNCHANGED outstanding
    /\ UNCHANGED <<offered, events, deliveries, onboardingVars, clubVars, webhookVars,
                   attempts, queue, historyVars>>

(* The handler of the event writes its row, which an update finds or does   *)
(* not find; an upsert also waits for an insert of the same row.  The       *)
(* request then answers 200 and will commit; the task's session is closed   *)
(* without a commit.                                                        *)
RowOf(e) == Row(IF e.type = "checkout.session.completed" THEN "session" ELSE "subscription",
                e.checkout)
RowExists(e) == IF e.type = "checkout.session.completed"
                THEN session[e.checkout] # "none" ELSE subscription[e.checkout] # "none"

Handle(w) ==
    /\ At(w, {"webhook", "task"}, {"handle"})
    /\ LET e == job[w].event
           found == RowExists(e)
           writes == found \/ e.type = "customer.subscription.updated"
       IN  /\ writes => Free(w, RowOf(e))
           /\ \/ /\ job[w].kind = "webhook"
                 /\ Answered(e)
                 /\ Continue(w, [job[w] EXCEPT !.stage = "commit", !.found = found,
                                    !.locks = @ \cup IF writes THEN {RowOf(e)} ELSE {}])
              \/ /\ job[w].kind = "task"
                 /\ Continue(w, [job[w] EXCEPT !.stage = "record", !.outcome = "success",
                                               !.locks = {}])
                 /\ UNCHANGED outstanding
    /\ UNCHANGED <<offered, events, deliveries, onboardingVars, clubVars, webhookVars,
                   attempts, queue, historyVars>>

(* Mutant of Enqueue: the error is logged, the event is not enqueued. *)
EnqueueNothing(e, retries) == queue' = queue

Enqueue(e, retries) == queue' = queue \cup {[event |-> e, retries |-> retries]}

(* A statement raises.  The request rolls back and enqueues the task, and   *)
(* answers 202; when the broker is down too it answers 500.                 *)
DatabaseError(w) ==
    /\ At(w, {"webhook", "task"}, {"mark", "handle"})
    /\ Incident("db_error")
    /\ \/ /\ job[w].kind = "webhook"
          /\ \/ Enqueue(job[w].event, 0)
                /\ Answered(job[w].event)
             \/ "broker_down" \in Incidents /\ UNCHANGED <<queue, outstanding>>
          /\ End(w)
       \/ /\ job[w].kind = "task"
          /\ Continue(w, [job[w] EXCEPT !.stage = "record", !.outcome = "fail", !.locks = {}])
          /\ UNCHANGED <<queue, outstanding>>
    /\ UNCHANGED <<offered, events, deliveries, onboardingVars, clubVars, webhookVars,
                   attempts, lost>>

IsLast(retries) == retries >= MaxRetries

(* The task records its attempt, which is best effort; a failure is retried *)
(* until it was the last.                                                   *)
Record(w) ==
    /\ At(w, {"task"}, {"record"})
    /\ LET e == job[w].event
           failed == job[w].outcome = "fail"
           isLast == IsLast(job[w].retries)
       IN  /\ \/ /\ attempts' = attempts \cup
                       {[event |-> e, number |-> job[w].retries + 1,
                         outcome |-> job[w].outcome, dead |-> isLast /\ failed]}
                 /\ UNCHANGED <<incidents, lost>>
              \/ /\ Incident("record_fails")
                 /\ lost' = IF failed /\ ~isLast THEN lost ELSE lost \cup {e}
                 /\ UNCHANGED attempts
           /\ IF failed /\ ~isLast THEN Enqueue(e, job[w].retries + 1) ELSE UNCHANGED queue
    /\ End(w)
    /\ UNCHANGED <<stripeVars, onboardingVars, clubVars, webhookVars>>

-----------------------------------------------------------------------------
(* get_db commits. *)
CommitCheckout(w) ==
    /\ At(w, {"checkout"}, {"commit"})
    /\ session' = [session EXCEPT ![job[w].checkout] = "pending"]
    /\ End(w)
    /\ UNCHANGED <<stripeVars, expired, users, claimed, orphaned, clubVars, webhookVars,
                   attempts, queue, historyVars>>

CommitClaim(w) ==
    /\ At(w, {"claim"}, {"commit"})
    /\ LET c == job[w].checkout
       IN  /\ session' = [session EXCEPT ![c] = "claimed"]
           /\ users' = users \cup {c.claim}
           /\ claimed' = [claimed EXCEPT ![c] = @ + 1]
    /\ End(w)
    /\ UNCHANGED <<stripeVars, expired, orphaned, clubVars, webhookVars, attempts, queue,
                   historyVars>>

CommitProvision(w) ==
    /\ At(w, {"provision"}, {"commit"})
    /\ LET c == job[w].checkout
       IN  /\ clubs' = clubs \cup {[slug |-> SlugOf[c.claim], claim |-> c.claim,
                                    plan |-> c.plan, owned |-> job[w].found]}
           /\ pools' = [pools EXCEPT ![SlugOf[c.claim]] = @ + 1]
    /\ End(w)
    /\ UNCHANGED <<stripeVars, onboardingVars, webhookVars, attempts, queue, historyVars>>

(* What a handler writes: the status is set whatever it was.  Nothing in    *)
(* the code sets stripe_customer_id of a club, so the updates of clubs by   *)
(* customer match none.                                                     *)
EventStatus(e) ==
    CASE e.type = "checkout.session.completed" -> "paid"
      [] e.type = "customer.subscription.updated" -> e.status
      [] e.type = "customer.subscription.deleted" -> "canceled"
      [] e.type = "invoice.payment_failed" -> "past_due"

CommitWebhook(w) ==
    /\ At(w, {"webhook"}, {"commit"})
    /\ LET e == job[w].event
           row == RowOf(e)
           writes == row \in job[w].locks
       IN  /\ processed' = processed \cup {e}
           /\ applied' = applied \cup
                 {[event |-> e, nth |-> Cardinality({a \in applied : a.event = e}) + 1]}
           /\ session' = IF writes /\ row.table = "session"
                         THEN [session EXCEPT ![row.key] = EventStatus(e)] ELSE session
           /\ subscription' = IF writes /\ row.table = "subscription"
                              THEN [subscription EXCEPT ![row.key] = EventStatus(e)]
                              ELSE subscription
    /\ End(w)
    /\ UNCHANGED <<stripeVars, expired, users, claimed, orphaned, clubVars, attempts, queue,
                   historyVars>>

(* The transaction is rolled back: by a commit that fails, or because the   *)
(* worker is lost, in any stage; the message of a task is then delivered    *)
(* again (acks_late).                                                       *)
Rollback(w) ==
    /\ lost' = IF At(w, {"webhook"}, {"commit"}) THEN lost \cup {job[w].event} ELSE lost
    /\ orphaned' = IF job[w].kind = "checkout" THEN orphaned \cup {job[w].checkout}
                   ELSE orphaned
    /\ End(w)
    /\ UNCHANGED <<stripeVars, session, expired, users, claimed, clubVars, webhookVars, attempts>>

CommitFails(w) ==
    /\ job[w].kind # "idle" /\ job[w].stage = "commit"
    /\ Incident("commit_fails")
    /\ Rollback(w)
    /\ UNCHANGED queue

WorkerLost(w) ==
    /\ job[w].kind # "idle"
    /\ Incident("worker_lost")
    /\ Rollback(w)
    /\ IF job[w].kind = "task" THEN Enqueue(job[w].event, job[w].retries) ELSE UNCHANGED queue

-----------------------------------------------------------------------------
Next ==
    \/ \E e \in Event : Pay(e) \/ SubscriptionChanges(e)
    \/ \E c \in Checkouts : Expire(c)
    \/ \E w \in Workers :
          \/ \E c \in Checkouts : RequestCheckout(w, c) \/ Claim(w, c) \/ Provision(w, c)
          \/ \E e \in events : Deliver(w, e)
          \/ \E m \in queue : StartTask(w, m)
          \/ Mark(w) \/ Handle(w) \/ DatabaseError(w) \/ Record(w)
          \/ CommitCheckout(w) \/ CommitWebhook(w) \/ CommitClaim(w) \/ CommitProvision(w)
          \/ CommitFails(w) \/ WorkerLost(w)

Spec == Init /\ [][Next]_vars

-----------------------------------------------------------------------------
(* "Idempotent event processing": however often an event is delivered and   *)
(* retried at a time, its handler's writes are committed once, and they are *)
(* when the event is marked as processed.                                   *)
AppliedOnce ==
    /\ {a.event : a \in applied} = processed
    /\ \A a \in applied : a.nth = 1

(* The webhook sets a session to paid whatever it was, yet a claimed        *)
(* session never goes back: no delivery of its payment comes after.         *)
ClaimedStays == [][\A c \in Checkouts : session[c] = "claimed" => session'[c] = "claimed"]_vars

(* A session is claimed by one request.                                     *)
ClaimedOnce == \A c \in Checkouts : claimed[c] <= 1

(* An event Stripe was told is dealt with is processed, or is about to be,  *)
(* or is a message, or has a recorded attempt that was its last, a dead     *)
(* letter or a success, or is one of those that were lost: by a commit that *)
(* failed after the answer, by a worker that was lost there, or by a last   *)
(* attempt that was not recorded.                                           *)
NoEventForgotten ==
    \A e \in events \ outstanding :
        \/ e \in processed \cup lost
        \/ \E w \in Workers : job[w].event = e /\ (job[w].kind = "task" \/ At(w, {"webhook"}, {"commit"}))
        \/ \E m \in queue : m.event = e
        \/ \E a \in attempts : a.event = e /\ (a.dead \/ a.outcome = "success")

(* "This task re-runs the same handler logic", up to the dead letter: what  *)
(* an attempt recorded as a success did is in the database.                 *)
RetryApplies == \A a \in attempts : a.outcome = "success" => a.event \in processed

(* A payment that was processed shows on its session, unless the session    *)
(* was not stored when the URL was handed out.                              *)
PaymentShows ==
    \A e \in processed : e.type = "checkout.session.completed" /\ e.checkout \notin orphaned
        => session[e.checkout] \in {"paid", "claimed"}

(* Nobody has a club who has not paid and claimed; a slug has one club, and *)
(* a club has one draft pool, however many provision it at a time.          *)
ClubsPaidFor ==
    /\ \A b \in clubs :
          \E c \in Checkouts :
              /\ c.claim = b.claim /\ c.plan = b.plan /\ session[c] = "claimed"
              /\ \E e \in processed : e.type = "checkout.session.completed" /\ e.checkout = c
    /\ \A s \in Slugs : /\ pools[s] <= 1
                        /\ pools[s] = Cardinality({b \in clubs : b.slug = s})

-----------------------------------------------------------------------------
(* The inductive invariant behind them.                                     *)
IsPayment(e) == e.type = "checkout.session.completed"

(* A row is held by one transaction at a time. *)
LocksExclusive ==
    \A v, w \in Workers : v # w => job[v].locks \cap job[w].locks = {}

(* What a transaction has seen of the rows it holds is still so when it     *)
(* commits.                                                                 *)
WebhookHolds(j) ==
    /\ j.event \in events
    /\ j.kind = "webhook" => j.stage \in {"mark", "handle", "commit"}
    /\ j.kind = "task" => j.stage \in {"mark", "handle", "record"}
    /\ j.stage \in {"handle", "commit"} =>
          Row("event", j.event) \in j.locks /\ j.event \notin processed
    /\ j.stage = "handle" => j.locks = {Row("event", j.event)}
    /\ j.stage = "commit" /\ IsPayment(j.event) =>
          IF RowOf(j.event) \in j.locks THEN session[j.event.checkout] # "none"
          ELSE j.event.checkout \in orphaned

TransactionHolds(j) ==
    /\ j.kind \in {"webhook", "task"} => WebhookHolds(j)
    /\ j.kind = "checkout" =>
          /\ j.checkout \in Checkouts /\ Row("session", j.checkout) \in j.locks
          /\ session[j.checkout] = "none"
    /\ j.kind = "claim" =>
          /\ j.checkout \in Checkouts /\ Row("session", j.checkout) \in j.locks
          /\ session[j.checkout] = "paid"
    /\ j.kind = "provision" =>
          /\ j.checkout \in Checkouts /\ Row("club", SlugOf[j.checkout.claim]) \in j.locks
          /\ session[j.checkout] = "claimed"
          /\ \A b \in clubs : b.slug # SlugOf[j.checkout.claim]

JobsHold == \A w \in Workers : TransactionHolds(job[w])

(* A checkout is paid once, and only after its session was stored, unless   *)
(* it was never.                                                            *)
Payments ==
    /\ \A m \in queue : m.event \in events
    /\ \A e, f \in events : IsPayment(e) /\ IsPayment(f) /\ e.checkout = f.checkout => e = f
    /\ \A e \in events : IsPayment(e) => session[e.checkout] # "none" \/ e.checkout \in orphaned
    /\ \A c \in offered : \/ session[c] # "none" \/ c \in orphaned
                          \/ \E w \in Workers : job[w].kind = "checkout" /\ job[w].checkout = c

(* A session is paid or claimed because of an event that was processed.     *)
SessionsPaid ==
    /\ \A c \in Checkouts : session[c] \in {"paid", "claimed"} =>
          \E e \in processed : IsPayment(e) /\ e.checkout = c
    /\ \A c \in Checkouts : claimed[c] = IF session[c] = "claimed" THEN 1 ELSE 0

(* The inductive invariant of the way from checkout to club. *)
CommerceInv ==
    /\ TypeOK
    /\ LocksExclusive
    /\ JobsHold
    /\ Payments
    /\ SessionsPaid
    /\ AppliedOnce
    /\ PaymentShows
    /\ ClubsPaidFor
=============================================================================
