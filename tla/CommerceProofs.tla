--------------------------- MODULE CommerceProofs ---------------------------
(* Theorems about Commerce for any number of claims, plans, slugs, workers, *)
(* events and incidents.                                                    *)
EXTENDS Commerce, FiniteSetTheorems, TLAPS

-----------------------------------------------------------------------------
(* Types. *)

(* The rows that are locked. *)
LEMMA RowType ==
    /\ \A c \in Checkouts : /\ Row("session", c) \in Lockable
                            /\ Row("subscription", c) \in Lockable
                            /\ Row("user", c.claim) \in Lockable
                            /\ Row("club", SlugOf[c.claim]) \in Lockable
    /\ \A e \in Event : Row("event", e) \in Lockable /\ RowOf(e) \in Lockable
<1>1. \A c \in Checkouts : c.claim \in Claims /\ SlugOf[c.claim] \in Slugs
    BY CommerceAssumption DEF Checkouts
<1>2. \A e \in Event : e.checkout \in Checkouts
    BY DEF Event
<1> QED
    BY <1>1, <1>2 DEF Row, RowOf, Lockable

(* A step of a worker changes its job alone. *)
LEMMA JobUpdated ==
    ASSUME job \in [Workers -> Job], NEW w \in Workers, NEW j, job' = [job EXCEPT ![w] = j]
    PROVE  /\ job'[w] = j
           /\ \A v \in Workers \ {w} : job'[v] = job[v]
           /\ j \in Job => job' \in [Workers -> Job]
OBVIOUS

(* Idle workers hold nothing. *)
LEMMA IdleType ==
    /\ Idle \in Job
    /\ Idle.kind = "idle" /\ Idle.event = None /\ Idle.checkout = None /\ Idle.locks = {}
<1>1. 0 \in 0 .. MaxRetries
    BY CommerceAssumption
<1> QED
    BY <1>1 DEF Idle, Job

(* Init has the types. *)
LEMMA TypeInit == Init => TypeOK
<1> SUFFICES ASSUME Init PROVE TypeOK
    OBVIOUS
<1>1. MaxDeliveries \in Nat /\ MaxIncidents \in Nat /\ KnownContacts \subseteq Claims
    BY CommerceAssumption
<1> QED
    BY <1>1, IdleType DEF Init, TypeOK

(* The jobs that a worker begins. *)
LEMMA JobTypes ==
    /\ \A c \in Checkouts, k \in {"checkout", "claim", "provision"}, f \in BOOLEAN,
          locks \in SUBSET Lockable :
          [Idle EXCEPT !.kind = k, !.stage = "commit", !.checkout = c, !.found = f,
                       !.locks = locks] \in Job
    /\ \A c \in Checkouts, k \in {"checkout", "claim", "provision"}, locks \in SUBSET Lockable :
          [Idle EXCEPT !.kind = k, !.stage = "commit", !.checkout = c, !.locks = locks] \in Job
    /\ \A e \in Event : [Idle EXCEPT !.kind = "webhook", !.event = e] \in Job
    /\ \A e \in Event, n \in 0 .. MaxRetries :
          [Idle EXCEPT !.kind = "task", !.event = e, !.retries = n] \in Job
<1>1. 0 \in 0 .. MaxRetries
    BY CommerceAssumption
<1>2. \A c \in Checkouts, k \in {"checkout", "claim", "provision"}, f \in BOOLEAN,
         locks \in SUBSET Lockable :
         [Idle EXCEPT !.kind = k, !.stage = "commit", !.checkout = c, !.found = f,
                      !.locks = locks] \in Job
    BY <1>1 DEF Idle, Job
<1>3. \A c \in Checkouts, k \in {"checkout", "claim", "provision"}, locks \in SUBSET Lockable :
         [Idle EXCEPT !.kind = k, !.stage = "commit", !.checkout = c, !.locks = locks] \in Job
    BY <1>1 DEF Idle, Job
<1>4. \A e \in Event : [Idle EXCEPT !.kind = "webhook", !.event = e] \in Job
    BY <1>1 DEF Idle, Job
<1>5. \A e \in Event, n \in 0 .. MaxRetries :
         [Idle EXCEPT !.kind = "task", !.event = e, !.retries = n] \in Job
    BY <1>1 DEF Idle, Job
<1> QED
    BY <1>2, <1>3, <1>4, <1>5

(* The jobs that a worker goes on with. *)
LEMMA StageTypes ==
    ASSUME NEW j \in Job, NEW locks \in SUBSET Lockable, NEW f \in BOOLEAN
    PROVE  /\ [j EXCEPT !.stage = "handle", !.locks = locks] \in Job
           /\ [j EXCEPT !.stage = "commit", !.found = f, !.locks = locks] \in Job
           /\ \A o \in {"success", "fail"} :
                 [j EXCEPT !.stage = "record", !.outcome = o, !.locks = {}] \in Job
           /\ j.locks \in SUBSET Lockable
BY DEF Job

-----------------------------------------------------------------------------
(* Steps that commit nothing. *)

Quiet ==
    /\ UNCHANGED <<session, processed, clubs, pools, applied, claimed>>
    /\ events \subseteq events'
    /\ orphaned \subseteq orphaned'

(* They keep what is said of the database. *)
LEMMA QuietDatabase ==
    ASSUME CommerceInv, Quiet
    PROVE  SessionsPaid' /\ AppliedOnce' /\ PaymentShows' /\ ClubsPaidFor'
<1>1. SessionsPaid'
    BY DEF CommerceInv, Quiet, SessionsPaid, IsPayment
<1>2. AppliedOnce'
    BY DEF CommerceInv, Quiet, AppliedOnce
<1>3. PaymentShows'
    BY DEF CommerceInv, Quiet, PaymentShows
<1>4. ClubsPaidFor'
    BY DEF CommerceInv, Quiet, ClubsPaidFor
<1> QED
    BY <1>1, <1>2, <1>3, <1>4

(* A transaction keeps what it has seen as long as the rows it holds are    *)
(* not written by others, and claims stay.                                  *)
LEMMA HoldsKept ==
    ASSUME NEW v \in Workers, job'[v] = job[v], TransactionHolds(job[v]),
           events \subseteq events', orphaned \subseteq orphaned',
           \A e \in processed' \ processed : Row("event", e) \notin job[v].locks,
           \A c \in Checkouts : session'[c] # session[c] =>
              Row("session", c) \notin job[v].locks,
           \A c \in Checkouts : session[c] = "claimed" => session'[c] = "claimed",
           \A b \in clubs' \ clubs : Row("club", b.slug) \notin job[v].locks,
           job[v].event \in events => job[v].event.checkout \in Checkouts
    PROVE  TransactionHolds(job[v])'
<1>1. job[v].kind \in {"webhook", "task"} => WebhookHolds(job[v])'
    <2> SUFFICES ASSUME job[v].kind \in {"webhook", "task"}
                 PROVE  WebhookHolds(job[v])'
        OBVIOUS
    <2>1. WebhookHolds(job[v])
        BY DEF TransactionHolds
    <2>2. job[v].event \in events' /\ job[v].event.checkout \in Checkouts
        BY <2>1 DEF WebhookHolds
    <2>3. job[v].stage \in {"handle", "commit"} => job[v].event \notin processed'
        BY <2>1 DEF WebhookHolds
    <2>4. job[v].stage = "commit" /\ IsPayment(job[v].event) =>
             IF RowOf(job[v].event) \in job[v].locks
             THEN session'[job[v].event.checkout] # "none"
             ELSE job[v].event.checkout \in orphaned'
        BY <2>1, <2>2 DEF WebhookHolds, IsPayment, RowOf
    <2> QED
        BY <2>1, <2>2, <2>3, <2>4 DEF WebhookHolds, IsPayment, RowOf, Row
<1>2. job[v].kind = "checkout" => session'[job[v].checkout] = "none"
    BY DEF TransactionHolds
<1>3. job[v].kind = "claim" => session'[job[v].checkout] = "paid"
    BY DEF TransactionHolds
<1>4. job[v].kind = "provision" =>
         /\ session'[job[v].checkout] = "claimed"
         /\ \A b \in clubs' : b.slug # SlugOf[job[v].checkout.claim]
    BY DEF TransactionHolds
<1> QED
    BY <1>1, <1>2, <1>3, <1>4 DEF TransactionHolds

(* Events concern checkouts. *)
LEMMA EventsType ==
    ASSUME TypeOK
    PROVE  \A e \in events : e \in Event /\ e.checkout \in Checkouts
BY DEF TypeOK, Event

(* Rows are taken when they are free. *)
LEMMA LocksKept ==
    ASSUME TypeOK, LocksExclusive, NEW w \in Workers, NEW j,
           job' = [job EXCEPT ![w] = j],
           \A r \in j.locks : r \in job[w].locks \/ Free(w, r)
    PROVE  LocksExclusive'
<1>1. /\ job'[w] = j
      /\ \A v \in Workers \ {w} : job'[v] = job[v]
    BY JobUpdated DEF TypeOK
<1> SUFFICES ASSUME NEW u \in Workers, NEW v \in Workers, u # v, NEW r,
                    r \in job'[u].locks, r \in job'[v].locks
             PROVE  FALSE
    BY DEF LocksExclusive
<1>2. CASE u # w /\ v # w
    BY <1>1, <1>2 DEF LocksExclusive
<1>3. CASE u = w
    BY <1>1, <1>3 DEF LocksExclusive, Free
<1>4. CASE v = w
    BY <1>1, <1>4 DEF LocksExclusive, Free
<1> QED
    BY <1>2, <1>3, <1>4

(* A worker's step that commits nothing. *)
LEMMA QuietWorker ==
    ASSUME CommerceInv, NEW w \in Workers, NEW j, Quiet,
           job' = [job EXCEPT ![w] = j],
           \A r \in j.locks : r \in job[w].locks \/ Free(w, r)
    PROVE  /\ LocksExclusive'
           /\ job'[w] = j /\ \A v \in Workers \ {w} : job'[v] = job[v]
           /\ TransactionHolds(job[w])' => JobsHold'
<1>1. LocksExclusive'
    BY LocksKept DEF CommerceInv
<1>2. /\ job'[w] = j
      /\ \A v \in Workers \ {w} : job'[v] = job[v]
    BY JobUpdated DEF CommerceInv, TypeOK
<1>3. ASSUME NEW v \in Workers \ {w}
      PROVE  TransactionHolds(job[v])'
    <2>1. TransactionHolds(job[v])
        BY DEF CommerceInv, JobsHold
    <2>2. job[v].event \in events => job[v].event.checkout \in Checkouts
        BY EventsType DEF CommerceInv
    <2> QED
        BY <1>2, <2>1, <2>2, HoldsKept DEF Quiet
<1> QED
    BY <1>1, <1>2, <1>3 DEF JobsHold

(* Payments and offers under a worker's step that commits nothing. *)
LEMMA QuietPayments ==
    ASSUME CommerceInv, NEW w \in Workers, Quiet,
           UNCHANGED <<events, offered>>,
           job[w].kind # "checkout",
           \A v \in Workers \ {w} : job'[v] = job[v],
           \A m \in queue' : m.event \in events
    PROVE  Payments'
<1>1. \A m \in queue' : m.event \in events'
    OBVIOUS
<1>2. \A e, f \in events' : IsPayment(e) /\ IsPayment(f) /\ e.checkout = f.checkout => e = f
    BY DEF CommerceInv, Payments
<1>3. \A e \in events' : IsPayment(e) =>
         session'[e.checkout] # "none" \/ e.checkout \in orphaned'
    BY DEF CommerceInv, Payments, Quiet
<1>4. \A c \in offered' : \/ session'[c] # "none" \/ c \in orphaned'
                          \/ \E v \in Workers : job'[v].kind = "checkout" /\ job'[v].checkout = c
    <2> SUFFICES ASSUME NEW c \in offered, session[c] = "none", c \notin orphaned
                 PROVE  \E v \in Workers : job'[v].kind = "checkout" /\ job'[v].checkout = c
        BY DEF Quiet
    <2>1. PICK v \in Workers : job[v].kind = "checkout" /\ job[v].checkout = c
        BY DEF CommerceInv, Payments
    <2>2. job'[v] = job[v]
        BY <2>1
    <2> QED
        BY <2>1, <2>2
<1> QED
    BY <1>1, <1>2, <1>3, <1>4 DEF Payments, IsPayment

-----------------------------------------------------------------------------
(* Types after a step. *)

(* Messages of events that have happened. *)
LEMMA EnqueueType ==
    ASSUME TypeOK, NEW e \in events, NEW n \in 0 .. MaxRetries, Enqueue(e, n)
    PROVE  queue' \subseteq Message
BY EventsType DEF TypeOK, Enqueue, Message

(* Payments set sessions to paid, other events set a subscription. *)
LEMMA EventStatusType ==
    ASSUME NEW e \in Event
    PROVE  /\ EventStatus(e) \in SubscriptionStatuses \/ IsPayment(e)
           /\ IsPayment(e) => EventStatus(e) = "paid"
           /\ RowOf(e).key = e.checkout /\ e.checkout \in Checkouts
           /\ RowOf(e).table = IF IsPayment(e) THEN "session" ELSE "subscription"
BY DEF Event, HandledTypes, EventStatus, IsPayment, RowOf, Row, SubscriptionStatuses

(* The events and checkouts of jobs and messages. *)
LEMMA Concerned ==
    ASSUME CommerceInv
    PROVE  /\ \A w \in Workers :
                 /\ job[w] \in Job
                 /\ job[w].kind \in {"webhook", "task"} => job[w].event \in events
                 /\ job[w].kind \in {"checkout", "claim", "provision"} =>
                       job[w].checkout \in Checkouts
           /\ \A m \in queue : m.event \in events /\ m \in Message
BY DEF CommerceInv, TypeOK, JobsHold, TransactionHolds, WebhookHolds, Payments

(* Steps that begin a job. *)
LEMMA BeginTypes ==
    ASSUME CommerceInv, NEW w \in Workers
    PROVE  /\ \A c \in Checkouts : RequestCheckout(w, c) \/ Claim(w, c) \/ Provision(w, c) => TypeOK'
           /\ \A e \in events : Deliver(w, e) => TypeOK'
           /\ \A m \in queue : StartTask(w, m) => TypeOK'
<1> USE DEF Begin, stripeVars, onboardingVars, clubVars, webhookVars, historyVars
<1>1. TypeOK
    BY DEF CommerceInv
<1>2. ASSUME NEW c \in Checkouts, RequestCheckout(w, c) PROVE TypeOK'
    <2>1. {Row("session", c)} \in SUBSET Lockable
        BY RowType
    <2>2. job' \in [Workers -> Job]
        BY <1>1, <1>2, <2>1, JobTypes, JobUpdated DEF RequestCheckout, TypeOK
    <2> QED
        BY <1>1, <1>2, <2>2 DEF RequestCheckout, TypeOK
<1>3. ASSUME NEW c \in Checkouts, Claim(w, c) PROVE TypeOK'
    <2>1. ClaimLocks(c) \in SUBSET Lockable
        BY RowType DEF ClaimLocks, AccountLocks
    <2>2. job' \in [Workers -> Job]
        BY <1>1, <1>3, <2>1, JobTypes, JobUpdated DEF Claim, TypeOK
    <2> QED
        BY <1>1, <1>3, <2>2 DEF Claim, TypeOK
<1>4. ASSUME NEW c \in Checkouts, Provision(w, c) PROVE TypeOK'
    <2>1. ClubLocks(c) \in SUBSET Lockable
        BY RowType DEF ClubLocks
    <2>2. job' \in [Workers -> Job]
        <3>1. (c.claim \in users) \in BOOLEAN
            OBVIOUS
        <3>2. [Idle EXCEPT !.kind = "provision", !.stage = "commit", !.checkout = c,
                           !.found = c.claim \in users, !.locks = ClubLocks(c)] \in Job
            BY <2>1, <3>1, JobTypes
        <3> QED
            BY <1>1, <1>4, <3>2 DEF Provision, TypeOK
    <2> QED
        BY <1>1, <1>4, <2>2 DEF Provision, TypeOK
<1>5. ASSUME NEW e \in events, Deliver(w, e) PROVE TypeOK'
    <2>1. e \in Event
        BY <1>1, EventsType
    <2>2. job' \in [Workers -> Job]
        BY <1>1, <1>5, <2>1, JobTypes, JobUpdated DEF Deliver, TypeOK
    <2> QED
        BY <1>1, <1>5, <2>2, CommerceAssumption DEF Deliver, TypeOK
<1>6. ASSUME NEW m \in queue, StartTask(w, m) PROVE TypeOK'
    <2>1. m.event \in Event /\ m.retries \in 0 .. MaxRetries
        BY <1>1 DEF TypeOK, Message
    <2>2. job' \in [Workers -> Job]
        <3>1. [Idle EXCEPT !.kind = "task", !.event = m.event, !.retries = m.retries] \in Job
            BY <2>1, JobTypes
        <3> QED
            BY <1>1, <1>6, <3>1 DEF StartTask, TypeOK
    <2> QED
        BY <1>1, <1>6, <2>2 DEF StartTask, TypeOK
<1> QED
    BY <1>2, <1>3, <1>4, <1>5, <1>6

(* Steps of webhook requests and tasks. *)
LEMMA StageStepTypes ==
    ASSUME CommerceInv, NEW w \in Workers
    PROVE  Mark(w) \/ Handle(w) \/ DatabaseError(w) \/ Record(w) => TypeOK'
<1> USE DEF Continue, End, At, Answered, Incident,
            stripeVars, onboardingVars, clubVars, webhookVars, historyVars
<1>1. TypeOK /\ job[w] \in Job
    BY Concerned DEF CommerceInv
<1>2. job[w].kind \in {"webhook", "task"} => job[w].event \in events /\ job[w].event \in Event
    BY Concerned, EventsType DEF CommerceInv
<1>3. job[w].retries \in 0 .. MaxRetries /\ 0 \in 0 .. MaxRetries /\ MaxIncidents \in Nat
    BY <1>1, CommerceAssumption DEF Job
<1>4. ASSUME Mark(w) PROVE TypeOK'
    <2>1. EventLocks(job[w].event) \in SUBSET Lockable
        BY <1>2, <1>4, RowType DEF Mark, EventLocks
    <2>2. job' \in [Workers -> Job]
        <3>1. [job[w] EXCEPT !.stage = "handle", !.locks = EventLocks(job[w].event)] \in Job
            BY <1>1, <2>1, StageTypes
        <3> QED
            BY <1>1, <1>4, <3>1, IdleType DEF Mark, TypeOK
    <2>3. outstanding' \subseteq events
        BY <1>1, <1>4 DEF Mark, TypeOK
    <2> QED
        BY <1>1, <1>4, <2>2, <2>3 DEF Mark, TypeOK
<1>5. ASSUME Handle(w) PROVE TypeOK'
    <2>1. RowOf(job[w].event) \in Lockable /\ job[w].locks \in SUBSET Lockable
        BY <1>1, <1>2, <1>5, RowType, StageTypes DEF Handle
    <2>2. RowExists(job[w].event) \in BOOLEAN
        BY DEF RowExists
    <2>3. job' \in [Workers -> Job]
        <3>1. CASE job[w].kind = "webhook"
            <4> DEFINE Held(writes) == job[w].locks \cup IF writes THEN {RowOf(job[w].event)} ELSE {}
            <4>1. \A f, writes \in BOOLEAN :
                     [job[w] EXCEPT !.stage = "commit", !.found = f, !.locks = Held(writes)] \in Job
                <5>1. \A writes \in BOOLEAN : Held(writes) \in SUBSET Lockable
                    BY <2>1
                <5> HIDE DEF Held
                <5> QED
                    BY <1>1, <5>1, StageTypes
            <4>2. PICK writes \in BOOLEAN :
                     job' = [job EXCEPT ![w] = [job[w] EXCEPT !.stage = "commit",
                                !.found = RowExists(job[w].event), !.locks = Held(writes)]]
                BY <1>1, <1>5, <2>2, <3>1 DEF Handle, Job
            <4> HIDE DEF Held
            <4> QED
                BY <1>1, <2>2, <4>1, <4>2 DEF TypeOK
        <3>2. CASE job[w].kind = "task"
            BY <1>1, <1>5, <3>2, StageTypes, JobUpdated DEF Handle, TypeOK
        <3> QED
            BY <1>5, <3>1, <3>2 DEF Handle
    <2>4. outstanding' \subseteq events
        BY <1>1, <1>5 DEF Handle, TypeOK
    <2> QED
        BY <1>1, <1>5, <2>3, <2>4 DEF Handle, TypeOK
<1>6. ASSUME DatabaseError(w) PROVE TypeOK'
    <2>1. job' \in [Workers -> Job]
        BY <1>1, <1>6, StageTypes, IdleType, JobUpdated DEF DatabaseError, TypeOK
    <2>2. queue' \subseteq Message
        BY <1>1, <1>2, <1>3, <1>6, EnqueueType DEF DatabaseError, TypeOK
    <2>3. incidents' \in 0 .. MaxIncidents /\ outstanding' \subseteq events
        BY <1>1, <1>3, <1>6 DEF DatabaseError, TypeOK
    <2> QED
        BY <1>1, <1>6, <2>1, <2>2, <2>3 DEF DatabaseError, TypeOK
<1>7. ASSUME Record(w) PROVE TypeOK'
    <2>1. job' \in [Workers -> Job]
        BY <1>1, <1>7, IdleType DEF Record, TypeOK
    <2>2. queue' \subseteq Message
        <3>1. CASE job[w].outcome = "fail" /\ ~IsLast(job[w].retries)
            <4>1. job[w].retries + 1 \in 0 .. MaxRetries
                BY <1>3, <3>1, CommerceAssumption DEF IsLast
            <4> QED
                BY <1>1, <1>2, <1>7, <3>1, <4>1, EnqueueType DEF Record
        <3>2. CASE ~(job[w].outcome = "fail" /\ ~IsLast(job[w].retries))
            BY <1>1, <1>7, <3>2 DEF Record, TypeOK
        <3> QED
            BY <3>1, <3>2
    <2>3. attempts' \subseteq Attempt
        <3>1. job[w].retries + 1 \in 1 .. MaxRetries + 1
            BY <1>3, CommerceAssumption
        <3>2. [event |-> job[w].event, number |-> job[w].retries + 1,
               outcome |-> job[w].outcome,
               dead |-> IsLast(job[w].retries) /\ job[w].outcome = "fail"] \in Attempt
            BY <1>1, <1>2, <1>7, <3>1 DEF Record, Attempt, Job, IsLast
        <3> QED
            BY <1>1, <1>7, <3>2 DEF Record, TypeOK
    <2>4. incidents' \in 0 .. MaxIncidents /\ lost' \subseteq events
        BY <1>1, <1>2, <1>3, <1>7 DEF Record, TypeOK
    <2> QED
        BY <1>1, <1>7, <2>1, <2>2, <2>3, <2>4 DEF Record, TypeOK
<1> QED
    BY <1>4, <1>5, <1>6, <1>7

(* Jobs that are rolled back. *)
LEMMA RollbackTypes ==
    ASSUME CommerceInv, NEW w \in Workers
    PROVE  CommitFails(w) \/ WorkerLost(w) => TypeOK'
<1> USE DEF End, At, Incident, stripeVars, onboardingVars, clubVars, webhookVars, historyVars
<1> SUFFICES ASSUME CommitFails(w) \/ WorkerLost(w) PROVE TypeOK'
    OBVIOUS
<1>1. TypeOK /\ job[w] \in Job
    BY Concerned DEF CommerceInv
<1>2. Rollback(w) /\ incidents' \in 0 .. MaxIncidents
    BY <1>1, CommerceAssumption DEF CommitFails, WorkerLost, TypeOK
<1>3. job' \in [Workers -> Job]
    BY <1>1, <1>2, IdleType, JobUpdated DEF Rollback, TypeOK
<1>4. lost' \subseteq events /\ orphaned' \subseteq Checkouts
    BY <1>1, <1>2, Concerned DEF Rollback, TypeOK
<1>5. queue' \subseteq Message
    <2>1. job[w].retries \in 0 .. MaxRetries
        BY <1>1 DEF Job
    <2>2. job[w].kind = "task" => job[w].event \in events
        BY Concerned
    <2> QED
        BY <1>1, <2>1, <2>2, EnqueueType DEF CommitFails, WorkerLost, TypeOK
<1> QED
    BY <1>1, <1>2, <1>3, <1>4, <1>5 DEF Rollback, TypeOK

(* Commits. *)
LEMMA CommitTypes ==
    ASSUME CommerceInv, NEW w \in Workers
    PROVE  CommitCheckout(w) \/ CommitClaim(w) \/ CommitProvision(w) \/ CommitWebhook(w) => TypeOK'
<1> USE DEF End, At, stripeVars, onboardingVars, clubVars, webhookVars, historyVars
<1>1. TypeOK /\ job[w] \in Job
    BY Concerned DEF CommerceInv
<1>2. ASSUME CommitCheckout(w) PROVE TypeOK'
    BY <1>1, <1>2, IdleType, JobUpdated DEF CommitCheckout, TypeOK
<1>3. ASSUME CommitClaim(w) PROVE TypeOK'
    <2>1. job[w].checkout \in Checkouts /\ job[w].checkout.claim \in Claims
        BY <1>3, Concerned DEF CommitClaim, Checkouts
    <2> QED
        BY <1>1, <1>3, <2>1, IdleType, JobUpdated DEF CommitClaim, TypeOK
<1>4. ASSUME CommitProvision(w) PROVE TypeOK'
    <2>1. /\ job[w].checkout \in Checkouts
          /\ job[w].checkout.claim \in Claims /\ job[w].checkout.plan \in Plans
          /\ SlugOf[job[w].checkout.claim] \in Slugs
        BY <1>4, Concerned, CommerceAssumption DEF CommitProvision, Checkouts
    <2>2. job[w].found \in BOOLEAN
        BY <1>1 DEF Job
    <2>3. clubs' \subseteq [slug : Slugs, claim : Claims, plan : Plans, owned : BOOLEAN]
        BY <1>1, <1>4, <2>1, <2>2 DEF CommitProvision, TypeOK
    <2>4. pools' \in [Slugs -> Nat]
        BY <1>1, <1>4, <2>1 DEF CommitProvision, TypeOK
    <2> QED
        BY <1>1, <1>4, <2>3, <2>4, IdleType, JobUpdated DEF CommitProvision, TypeOK
<1>5. ASSUME CommitWebhook(w) PROVE TypeOK'
    <2> DEFINE e == job[w].event
    <2>1. e \in events /\ e \in Event
        BY <1>1, <1>5, Concerned, EventsType DEF CommitWebhook
    <2>2. e \notin processed
        BY <1>5 DEF CommerceInv, JobsHold, TransactionHolds, WebhookHolds, CommitWebhook
    <2>3. {a \in applied : a.event = e} = {}
        BY <2>2 DEF CommerceInv, AppliedOnce
    <2>4. Cardinality({a \in applied : a.event = e}) + 1 = 1
        BY <2>3, FS_EmptySet
    <2>5. applied' \subseteq [event : Event, nth : Nat]
        BY <1>1, <1>5, <2>1, <2>4 DEF CommitWebhook, TypeOK
    <2>6. session' \in [Checkouts -> {"none", "pending", "paid", "claimed"}]
        BY <1>1, <1>5, <2>1, EventStatusType DEF CommitWebhook, TypeOK
    <2>7. subscription' \in [Checkouts -> SubscriptionStatuses \cup {"none"}]
        BY <1>1, <1>5, <2>1, EventStatusType DEF CommitWebhook, TypeOK
    <2>8. job' \in [Workers -> Job]
        BY <1>1, <1>5, IdleType, JobUpdated DEF CommitWebhook, TypeOK
    <2> HIDE DEF e
    <2> QED
        BY <1>1, <1>5, <2>1, <2>5, <2>6, <2>7, <2>8 DEF CommitWebhook, TypeOK, e
<1> QED
    BY <1>2, <1>3, <1>4, <1>5

-----------------------------------------------------------------------------
(* The invariant after a step: one lemma for each kind of step. *)

(* An event of Stripe: a checkout is paid once, when its request is over. *)
LEMMA StripeStep ==
    ASSUME CommerceInv, NEW e \in Event, Pay(e) \/ SubscriptionChanges(e)
    PROVE  CommerceInv'
<1>1. Happens(e) /\ Quiet /\ job' = job /\ events' = events \cup {e}
    BY DEF Pay, SubscriptionChanges, Happens, Quiet,
           onboardingVars, clubVars, webhookVars
<1>2. TypeOK'
    BY <1>1 DEF CommerceInv, TypeOK, Happens, onboardingVars, clubVars, webhookVars, historyVars
<1>3. LocksExclusive'
    BY <1>1 DEF CommerceInv, LocksExclusive
<1>4. JobsHold'
    <2> SUFFICES ASSUME NEW v \in Workers PROVE TransactionHolds(job[v])'
        BY DEF JobsHold
    <2>1. TransactionHolds(job[v]) /\ job'[v] = job[v]
        BY <1>1 DEF CommerceInv, JobsHold
    <2>2. job[v].event \in events => job[v].event.checkout \in Checkouts
        BY EventsType DEF CommerceInv
    <2> QED
        BY <1>1, <2>1, <2>2, HoldsKept DEF Quiet
<1>5. Payments'
    <2>1. IsPayment(e) => /\ ~Paid(e.checkout)
                          /\ session[e.checkout] # "none" \/ e.checkout \in orphaned
        BY DEF CommerceInv, Payments, Pay, SubscriptionChanges, IsPayment
    <2>2. \A d, f \in events' : IsPayment(d) /\ IsPayment(f) /\ d.checkout = f.checkout => d = f
        BY <1>1, <2>1 DEF CommerceInv, Payments, Paid, IsPayment
    <2>3. \A d \in events' : IsPayment(d) => session'[d.checkout] # "none" \/ d.checkout \in orphaned'
        BY <1>1, <2>1 DEF CommerceInv, Payments, Quiet
    <2>4. queue' = queue /\ offered' = offered /\ orphaned' = orphaned /\ session' = session
        BY <1>1 DEF Happens, onboardingVars
    <2> QED
        BY <1>1, <2>2, <2>3, <2>4 DEF CommerceInv, Payments, IsPayment
<1> QED
    BY <1>1, <1>2, <1>3, <1>4, <1>5, QuietDatabase DEF CommerceInv

(* Expiry changes no status. *)
LEMMA ExpireStep ==
    ASSUME CommerceInv, NEW c \in Checkouts, Expire(c)
    PROVE  CommerceInv'
<1> USE DEF Expire, stripeVars, clubVars, webhookVars, historyVars
<1>1. Quiet
    BY DEF Quiet
<1>2. TypeOK' /\ LocksExclusive'
    BY DEF CommerceInv, TypeOK, LocksExclusive
<1>3. JobsHold'
    BY DEF CommerceInv, JobsHold, TransactionHolds, WebhookHolds, IsPayment
<1>4. Payments'
    BY DEF CommerceInv, Payments, IsPayment
<1> QED
    BY <1>1, <1>2, <1>3, <1>4, QuietDatabase DEF CommerceInv

(* A checkout holds its session, which is not stored yet. *)
LEMMA RequestStep ==
    ASSUME CommerceInv, NEW w \in Workers, NEW c \in Checkouts, RequestCheckout(w, c)
    PROVE  CommerceInv'
<1> DEFINE j == [Idle EXCEPT !.kind = "checkout", !.stage = "commit", !.checkout = c,
                             !.locks = {Row("session", c)}]
<1>1. /\ Quiet /\ UNCHANGED <<events, queue, session, orphaned>>
      /\ offered' = offered \cup {c} /\ job[w] = Idle /\ job' = [job EXCEPT ![w] = j]
      /\ session[c] = "none" /\ Free(w, Row("session", c))
    BY DEF RequestCheckout, Begin, Unsold, Quiet, onboardingVars, clubVars, webhookVars
<1>2. /\ j.kind = "checkout" /\ j.checkout = c /\ j.locks = {Row("session", c)}
    BY IdleType DEF Idle
<1> HIDE DEF j
<1>3. \A r \in j.locks : r \in job[w].locks \/ Free(w, r)
    BY <1>1, <1>2
<1>4. /\ LocksExclusive' /\ job'[w] = j /\ \A v \in Workers \ {w} : job'[v] = job[v]
      /\ TransactionHolds(job[w])' => JobsHold'
    BY <1>1, <1>3, QuietWorker
<1>5. TransactionHolds(job[w])'
    BY <1>1, <1>2, <1>4 DEF TransactionHolds
<1>6. Payments'
    <2>1. \A d \in offered' :
             \/ session'[d] # "none" \/ d \in orphaned'
             \/ \E v \in Workers : job'[v].kind = "checkout" /\ job'[v].checkout = d
        <3> SUFFICES ASSUME NEW d \in offered, session[d] = "none", d \notin orphaned
                     PROVE  \E v \in Workers : job'[v].kind = "checkout" /\ job'[v].checkout = d
            BY <1>1, <1>2, <1>4
        <3>1. PICK v \in Workers : job[v].kind = "checkout" /\ job[v].checkout = d
            BY DEF CommerceInv, Payments
        <3>2. v # w
            BY <1>1, <3>1, IdleType
        <3> QED
            BY <1>4, <3>1, <3>2
    <2> QED
        BY <1>1, <2>1 DEF CommerceInv, Payments, IsPayment
<1>7. TypeOK'
    BY BeginTypes
<1> QED
    BY <1>1, <1>4, <1>5, <1>6, <1>7, QuietDatabase DEF CommerceInv

(* A claim holds a paid session. *)
LEMMA ClaimStep ==
    ASSUME CommerceInv, NEW w \in Workers, NEW c \in Checkouts, Claim(w, c)
    PROVE  CommerceInv'
<1> DEFINE j == [Idle EXCEPT !.kind = "claim", !.stage = "commit", !.checkout = c,
                             !.locks = ClaimLocks(c)]
<1>1. /\ Quiet /\ UNCHANGED <<events, offered, queue, session>>
      /\ job[w] = Idle /\ job' = [job EXCEPT ![w] = j]
      /\ session[c] = "paid" /\ \A r \in ClaimLocks(c) : Free(w, r)
    BY DEF Claim, Begin, Quiet, stripeVars, onboardingVars, clubVars, webhookVars
<1>2. /\ j.kind = "claim" /\ j.checkout = c /\ j.locks = ClaimLocks(c)
      /\ Row("session", c) \in j.locks
    BY IdleType DEF Idle, ClaimLocks
<1> HIDE DEF j
<1>3. \A r \in j.locks : r \in job[w].locks \/ Free(w, r)
    BY <1>1, <1>2
<1>4. /\ LocksExclusive' /\ job'[w] = j /\ \A v \in Workers \ {w} : job'[v] = job[v]
      /\ TransactionHolds(job[w])' => JobsHold'
    BY <1>1, <1>3, QuietWorker
<1>5. TransactionHolds(job[w])'
    BY <1>1, <1>2, <1>4 DEF TransactionHolds
<1>6. Payments'
    BY <1>1, <1>4, IdleType, Concerned, QuietPayments
<1>7. TypeOK'
    BY BeginTypes
<1> QED
    BY <1>1, <1>4, <1>5, <1>6, <1>7, QuietDatabase DEF CommerceInv

(* A provisioning holds a slug without a club, for a claimed session. *)
LEMMA ProvisionStep ==
    ASSUME CommerceInv, NEW w \in Workers, NEW c \in Checkouts, Provision(w, c)
    PROVE  CommerceInv'
<1> DEFINE j == [Idle EXCEPT !.kind = "provision", !.stage = "commit", !.checkout = c,
                             !.found = c.claim \in users, !.locks = ClubLocks(c)]
<1>1. /\ Quiet /\ UNCHANGED <<events, offered, queue, session, clubs>>
      /\ job[w] = Idle /\ job' = [job EXCEPT ![w] = j]
      /\ session[c] = "claimed" /\ \A r \in ClubLocks(c) : Free(w, r)
      /\ \A b \in clubs : b.slug # SlugOf[c.claim]
    BY DEF Provision, Begin, Quiet, stripeVars, onboardingVars, clubVars, webhookVars
<1>2. /\ j.kind = "provision" /\ j.checkout = c /\ j.locks = ClubLocks(c)
      /\ Row("club", SlugOf[c.claim]) \in j.locks
    BY IdleType DEF Idle, ClubLocks
<1> HIDE DEF j
<1>3. \A r \in j.locks : r \in job[w].locks \/ Free(w, r)
    BY <1>1, <1>2
<1>4. /\ LocksExclusive' /\ job'[w] = j /\ \A v \in Workers \ {w} : job'[v] = job[v]
      /\ TransactionHolds(job[w])' => JobsHold'
    BY <1>1, <1>3, QuietWorker
<1>5. TransactionHolds(job[w])'
    BY <1>1, <1>2, <1>4 DEF TransactionHolds
<1>6. Payments'
    BY <1>1, <1>4, IdleType, Concerned, QuietPayments
<1>7. TypeOK'
    BY BeginTypes
<1> QED
    BY <1>1, <1>4, <1>5, <1>6, <1>7, QuietDatabase DEF CommerceInv

(* A request or a task that begins, concerns an event that has happened. *)
LEMMA DeliverStep ==
    ASSUME CommerceInv, NEW w \in Workers, NEW e \in events, Deliver(w, e)
    PROVE  CommerceInv'
<1> DEFINE j == [Idle EXCEPT !.kind = "webhook", !.event = e]
<1>1. /\ Quiet /\ UNCHANGED <<events, offered, queue>>
      /\ job[w] = Idle /\ job' = [job EXCEPT ![w] = j]
    BY DEF Deliver, Begin, Quiet, onboardingVars, clubVars, webhookVars
<1>2. j.kind = "webhook" /\ j.stage = "mark" /\ j.event = e /\ j.locks = {}
    BY IdleType DEF Idle
<1> HIDE DEF j
<1>3. /\ LocksExclusive' /\ job'[w] = j /\ \A v \in Workers \ {w} : job'[v] = job[v]
      /\ TransactionHolds(job[w])' => JobsHold'
    BY <1>1, <1>2, QuietWorker
<1>4. TransactionHolds(job[w])'
    BY <1>1, <1>2, <1>3 DEF TransactionHolds, WebhookHolds
<1>5. Payments'
    BY <1>1, <1>3, IdleType, Concerned, QuietPayments
<1>6. TypeOK'
    BY BeginTypes
<1> QED
    BY <1>1, <1>3, <1>4, <1>5, <1>6, QuietDatabase DEF CommerceInv

(* A task begins, or ends, because its event is processed. *)
LEMMA StartTaskStep ==
    ASSUME CommerceInv, NEW w \in Workers, NEW m \in queue, StartTask(w, m)
    PROVE  CommerceInv'
<1> DEFINE j == IF Seen(m.event) THEN Idle
                ELSE [Idle EXCEPT !.kind = "task", !.event = m.event, !.retries = m.retries]
<1>1. /\ Quiet /\ UNCHANGED <<events, offered>> /\ queue' \subseteq queue
      /\ job[w] = Idle
    BY DEF StartTask, Quiet, stripeVars, onboardingVars, clubVars, webhookVars
<1>2. job' = [job EXCEPT ![w] = j]
    BY <1>1 DEF StartTask, Begin, CommerceInv, TypeOK
<1>3. /\ j.locks = {} /\ j.stage = "mark"
      /\ j.kind = "idle" \/ (j.kind = "task" /\ j.event = m.event)
    <2>1. CASE Seen(m.event)
        BY <2>1 DEF Idle
    <2>2. CASE ~Seen(m.event)
        BY <2>2 DEF Idle
    <2> QED
        BY <2>1, <2>2
<1> HIDE DEF j
<1>4. /\ LocksExclusive' /\ job'[w] = j /\ \A v \in Workers \ {w} : job'[v] = job[v]
      /\ TransactionHolds(job[w])' => JobsHold'
    BY <1>1, <1>2, <1>3, QuietWorker
<1>5. TransactionHolds(job[w])'
    BY <1>1, <1>3, <1>4, Concerned DEF TransactionHolds, WebhookHolds
<1>6. Payments'
    BY <1>1, <1>4, IdleType, Concerned, QuietPayments
<1>7. TypeOK'
    BY BeginTypes
<1> QED
    BY <1>1, <1>4, <1>5, <1>6, <1>7, QuietDatabase DEF CommerceInv

(* An event that is marked is not processed, and its row is held. *)
LEMMA MarkStep ==
    ASSUME CommerceInv, NEW w \in Workers, Mark(w)
    PROVE  CommerceInv'
<1> DEFINE e == job[w].event
           j == IF Seen(e) THEN Idle
                ELSE [job[w] EXCEPT !.stage = "handle", !.locks = EventLocks(e)]
<1>1. /\ Quiet /\ UNCHANGED <<events, offered, queue, processed>>
      /\ job' = [job EXCEPT ![w] = j]
      /\ job[w].kind \in {"webhook", "task"}
      /\ \A r \in EventLocks(e) : Free(w, r)
    BY DEF Mark, At, End, Continue, Quiet, onboardingVars, clubVars, webhookVars
<1>2. job[w] \in Job /\ e \in events
    BY <1>1, Concerned
<1>3. \/ j = Idle
      \/ /\ e \notin processed
         /\ j.kind = job[w].kind /\ j.event = e /\ j.stage = "handle" /\ j.locks = {Row("event", e)}
    <2>1. CASE Seen(e)
        BY <2>1
    <2>2. CASE ~Seen(e)
        BY <1>2, <2>2 DEF Job, EventLocks, Seen
    <2> QED
        BY <2>1, <2>2
<1>4. \A r \in j.locks : r \in job[w].locks \/ Free(w, r)
    BY <1>1, <1>3, IdleType DEF EventLocks
<1> HIDE DEF j
<1>5. /\ LocksExclusive' /\ job'[w] = j /\ \A v \in Workers \ {w} : job'[v] = job[v]
      /\ TransactionHolds(job[w])' => JobsHold'
    BY <1>1, <1>4, QuietWorker
<1>6. TransactionHolds(job[w])'
    <2>1. CASE j = Idle
        BY <1>5, <2>1, IdleType DEF TransactionHolds
    <2>2. CASE j # Idle
        BY <1>1, <1>2, <1>3, <1>5, <2>2 DEF TransactionHolds, WebhookHolds
    <2> QED
        BY <2>1, <2>2
<1>7. Payments'
    BY <1>1, <1>5, Concerned, QuietPayments
<1>8. TypeOK'
    BY StageStepTypes
<1> QED
    BY <1>1, <1>5, <1>6, <1>7, <1>8, QuietDatabase DEF CommerceInv

(* A handler that finds the session of a payment holds it; one that does    *)
(* not, knows that it was not stored.                                       *)
LEMMA HandleStep ==
    ASSUME CommerceInv, NEW w \in Workers, Handle(w)
    PROVE  CommerceInv'
<1> DEFINE e == job[w].event
           found == RowExists(e)
           writes == found \/ e.type = "customer.subscription.updated"
           held == job[w].locks \cup IF writes THEN {RowOf(e)} ELSE {}
           j == IF job[w].kind = "webhook"
                THEN [job[w] EXCEPT !.stage = "commit", !.found = found, !.locks = held]
                ELSE [job[w] EXCEPT !.stage = "record", !.outcome = "success", !.locks = {}]
<1>1. /\ Quiet /\ UNCHANGED <<events, offered, queue, processed, session, orphaned>>
      /\ job[w].kind \in {"webhook", "task"} /\ job[w].stage = "handle"
      /\ writes => Free(w, RowOf(e))
    BY DEF Handle, At, Quiet, onboardingVars, clubVars, webhookVars
<1>2. job' = [job EXCEPT ![w] = j]
    <2>1. CASE job[w].kind = "webhook"
        BY <2>1 DEF Handle, Continue
    <2>2. CASE job[w].kind = "task"
        BY <2>2 DEF Handle, Continue
    <2> QED
        BY <1>1, <2>1, <2>2
<1>3. job[w] \in Job /\ e \in events
    BY <1>1, Concerned
<1>4. Row("event", e) \in job[w].locks /\ e \notin processed
    BY <1>1 DEF CommerceInv, JobsHold, TransactionHolds, WebhookHolds
<1>5. \/ j.kind = "webhook" /\ j.stage = "commit" /\ j.event = e /\ j.locks = held
      \/ j.kind = "task" /\ j.stage = "record" /\ j.event = e /\ j.locks = {}
    <2> HIDE DEF held, found
    <2>1. CASE job[w].kind = "webhook"
        BY <1>3, <2>1 DEF Job
    <2>2. CASE job[w].kind = "task"
        BY <1>3, <2>2 DEF Job
    <2> QED
        BY <1>1, <2>1, <2>2
<1> HIDE DEF j
<1>6. \A r \in j.locks : r \in job[w].locks \/ Free(w, r)
    BY <1>1, <1>5
<1>7. /\ LocksExclusive' /\ job'[w] = j /\ \A v \in Workers \ {w} : job'[v] = job[v]
      /\ TransactionHolds(job[w])' => JobsHold'
    BY <1>1, <1>2, <1>6, QuietWorker
<1>8. IsPayment(e) => IF RowOf(e) \in held THEN session[e.checkout] # "none"
                      ELSE e.checkout \in orphaned
    <2> SUFFICES ASSUME IsPayment(e)
                 PROVE  IF RowOf(e) \in held THEN session[e.checkout] # "none"
                        ELSE e.checkout \in orphaned
        OBVIOUS
    <2>1. found = (session[e.checkout] # "none") /\ writes = found
        BY DEF IsPayment, RowExists
    <2>2. CASE found
        BY <2>1, <2>2
    <2>3. CASE ~found
        <3>1. e.checkout \in orphaned
            BY <1>3, <2>1, <2>3 DEF CommerceInv, Payments
        <3>2. RowOf(e) \notin job[w].locks
            <4>1. job[w].locks = {Row("event", e)}
                BY <1>1 DEF CommerceInv, JobsHold, TransactionHolds, WebhookHolds
            <4>2. RowOf(e).table = "session" /\ Row("event", e).table = "event"
                BY DEF IsPayment, RowOf, Row
            <4> QED
                BY <4>1, <4>2
        <3> QED
            BY <3>1, <3>2, <2>1, <2>3
    <2> QED
        BY <2>2, <2>3
<1>9. TransactionHolds(job[w])'
    <2> HIDE DEF held
    <2>1. CASE j.kind = "webhook"
        <3>1. Row("event", e) \in held
            BY <1>4 DEF held
        <3> QED
            BY <1>1, <1>3, <1>4, <1>5, <1>7, <1>8, <2>1, <3>1
            DEF TransactionHolds, WebhookHolds, IsPayment, RowOf, Row
    <2>2. CASE j.kind = "task"
        BY <1>1, <1>3, <1>5, <1>7, <2>2 DEF TransactionHolds, WebhookHolds
    <2> QED
        BY <1>5, <2>1, <2>2
<1>10. Payments'
    BY <1>1, <1>7, Concerned, QuietPayments
<1>11. TypeOK'
    BY StageStepTypes
<1> QED
    BY <1>1, <1>7, <1>9, <1>10, <1>11, QuietDatabase DEF CommerceInv

(* An error ends the transaction and enqueues the event, or not. *)
LEMMA DatabaseErrorStep ==
    ASSUME CommerceInv, NEW w \in Workers, DatabaseError(w)
    PROVE  CommerceInv'
<1> DEFINE j == IF job[w].kind = "webhook" THEN Idle
                ELSE [job[w] EXCEPT !.stage = "record", !.outcome = "fail", !.locks = {}]
<1>1. /\ Quiet /\ UNCHANGED <<events, offered>>
      /\ job[w].kind \in {"webhook", "task"}
      /\ queue' = queue \/ Enqueue(job[w].event, 0)
    BY DEF DatabaseError, At, Quiet, onboardingVars, clubVars, webhookVars
<1>2. job' = [job EXCEPT ![w] = j]
    BY <1>1 DEF DatabaseError, Continue, End
<1>3. job[w] \in Job /\ job[w].event \in events
    BY <1>1, Concerned
<1>4. j.locks = {} /\ (j.kind = "idle" \/ (j.kind = "task" /\ j.stage = "record" /\ j.event = job[w].event))
    <2>1. CASE job[w].kind = "webhook"
        BY <2>1, IdleType
    <2>2. CASE job[w].kind = "task"
        BY <1>3, <2>2 DEF Job
    <2> QED
        BY <1>1, <2>1, <2>2
<1> HIDE DEF j
<1>5. /\ LocksExclusive' /\ job'[w] = j /\ \A v \in Workers \ {w} : job'[v] = job[v]
      /\ TransactionHolds(job[w])' => JobsHold'
    BY <1>1, <1>2, <1>4, QuietWorker
<1>6. TransactionHolds(job[w])'
    BY <1>1, <1>3, <1>4, <1>5 DEF TransactionHolds, WebhookHolds
<1>7. Payments'
    <2>1. \A m \in queue' : m.event \in events
        BY <1>1, <1>3, Concerned DEF Enqueue
    <2> QED
        BY <1>1, <1>5, <2>1, QuietPayments
<1>8. TypeOK'
    BY StageStepTypes
<1> QED
    BY <1>1, <1>5, <1>6, <1>7, <1>8, QuietDatabase DEF CommerceInv

(* A job that ends holds nothing. *)
LEMMA QuietEnd ==
    ASSUME CommerceInv, NEW w \in Workers, Quiet, End(w)
    PROVE  /\ LocksExclusive' /\ JobsHold'
           /\ job'[w] = Idle /\ \A v \in Workers \ {w} : job'[v] = job[v]
<1>1. /\ LocksExclusive' /\ job'[w] = Idle /\ \A v \in Workers \ {w} : job'[v] = job[v]
      /\ TransactionHolds(job[w])' => JobsHold'
    <2>1. \A r \in Idle.locks : r \in job[w].locks \/ Free(w, r)
        BY IdleType
    <2> QED
        BY <2>1, QuietWorker DEF End
<1>2. TransactionHolds(job[w])'
    BY <1>1, IdleType DEF TransactionHolds
<1> QED
    BY <1>1, <1>2

(* The attempt of a task is recorded, the event perhaps enqueued again. *)
LEMMA RecordStep ==
    ASSUME CommerceInv, NEW w \in Workers, Record(w)
    PROVE  CommerceInv'
<1>1. /\ Quiet /\ End(w) /\ UNCHANGED <<events, offered>>
      /\ job[w].kind = "task"
      /\ queue' = queue \/ Enqueue(job[w].event, job[w].retries + 1)
    BY DEF Record, At, Quiet, stripeVars, onboardingVars, clubVars, webhookVars
<1>2. \A m \in queue' : m.event \in events
    BY <1>1, Concerned DEF Enqueue
<1>3. /\ LocksExclusive' /\ JobsHold' /\ \A v \in Workers \ {w} : job'[v] = job[v]
    BY <1>1, QuietEnd
<1>4. Payments'
    BY <1>1, <1>2, <1>3, QuietPayments
<1>5. TypeOK'
    BY StageStepTypes
<1> QED
    BY <1>1, <1>3, <1>4, <1>5, QuietDatabase DEF CommerceInv

(* A checkout that is rolled back leaves its offer without a session. *)
LEMMA RollbackStep ==
    ASSUME CommerceInv, NEW w \in Workers, CommitFails(w) \/ WorkerLost(w)
    PROVE  CommerceInv'
<1>1. /\ Quiet /\ End(w) /\ UNCHANGED <<events, offered, session>>
      /\ job[w].kind = "checkout" => job[w].checkout \in orphaned'
    BY DEF CommitFails, WorkerLost, Rollback, Quiet, stripeVars, clubVars, webhookVars
<1>2. \A m \in queue' : m.event \in events
    BY Concerned DEF CommitFails, WorkerLost, Enqueue
<1>3. /\ LocksExclusive' /\ JobsHold' /\ \A v \in Workers \ {w} : job'[v] = job[v]
    BY <1>1, QuietEnd
<1>4. Payments'
    <2>1. CASE job[w].kind # "checkout"
        BY <1>1, <1>2, <1>3, <2>1, QuietPayments
    <2>2. CASE job[w].kind = "checkout"
        <3>1. \A c \in offered : \/ session[c] # "none" \/ c \in orphaned'
                                 \/ \E v \in Workers : job'[v].kind = "checkout" /\ job'[v].checkout = c
            <4> SUFFICES ASSUME NEW c \in offered, session[c] = "none", c \notin orphaned'
                         PROVE  \E v \in Workers : job'[v].kind = "checkout" /\ job'[v].checkout = c
                OBVIOUS
            <4>1. PICK v \in Workers : job[v].kind = "checkout" /\ job[v].checkout = c
                BY <1>1 DEF CommerceInv, Payments, Quiet
            <4>2. v # w
                BY <1>1, <2>2, <4>1
            <4> QED
                BY <1>3, <4>1, <4>2
        <3>2. \A e \in events' : IsPayment(e) => session'[e.checkout] # "none" \/ e.checkout \in orphaned'
            BY <1>1 DEF CommerceInv, Payments, Quiet
        <3> QED
            BY <1>1, <1>2, <3>1, <3>2 DEF CommerceInv, Payments, IsPayment
    <2> QED
        BY <2>1, <2>2
<1>5. TypeOK'
    BY RollbackTypes
<1> QED
    BY <1>1, <1>3, <1>4, <1>5, QuietDatabase DEF CommerceInv

-----------------------------------------------------------------------------
(* Commits.  What the others have seen stays, because the rows a commit     *)
(* writes are its own, and a claimed session stays claimed.                 *)
LEMMA OthersHold ==
    ASSUME CommerceInv, NEW w \in Workers, End(w),
           UNCHANGED <<events, orphaned>>,
           \A e \in processed' \ processed : Row("event", e) \in job[w].locks,
           \A c \in Checkouts : session'[c] # session[c] => Row("session", c) \in job[w].locks,
           \A c \in Checkouts : session[c] = "claimed" => session'[c] = "claimed",
           \A b \in clubs' \ clubs : Row("club", b.slug) \in job[w].locks
    PROVE  /\ LocksExclusive' /\ JobsHold'
           /\ job'[w] = Idle /\ \A v \in Workers \ {w} : job'[v] = job[v]
<1>1. LocksExclusive'
    BY LocksKept, IdleType DEF CommerceInv, End
<1>2. job'[w] = Idle /\ \A v \in Workers \ {w} : job'[v] = job[v]
    BY JobUpdated DEF CommerceInv, TypeOK, End
<1>3. ASSUME NEW v \in Workers \ {w}
      PROVE  TransactionHolds(job[v])'
    <2>1. TransactionHolds(job[v]) /\ \A r \in job[w].locks : r \notin job[v].locks
        BY DEF CommerceInv, JobsHold, LocksExclusive
    <2>2. job[v].event \in events => job[v].event.checkout \in Checkouts
        BY EventsType DEF CommerceInv
    <2> QED
        BY <1>2, <2>1, <2>2, HoldsKept
<1>4. TransactionHolds(job[w])'
    BY <1>2, IdleType DEF TransactionHolds
<1> QED
    BY <1>1, <1>2, <1>3, <1>4 DEF JobsHold

(* Clubs stay paid for as long as claims stay. *)
LEMMA ClubsKept ==
    ASSUME CommerceInv, UNCHANGED <<clubs, pools>>, processed \subseteq processed',
           \A c \in Checkouts : session[c] = "claimed" => session'[c] = "claimed"
    PROVE  ClubsPaidFor'
<1>1. ASSUME NEW b \in clubs
      PROVE  \E c \in Checkouts :
                /\ c.claim = b.claim /\ c.plan = b.plan /\ session'[c] = "claimed"
                /\ \E e \in processed' : e.type = "checkout.session.completed" /\ e.checkout = c
    BY DEF CommerceInv, ClubsPaidFor
<1>2. \A s \in Slugs : pools[s] <= 1 /\ pools[s] = Cardinality({b \in clubs : b.slug = s})
    BY DEF CommerceInv, ClubsPaidFor
<1> QED
    BY <1>1, <1>2 DEF ClubsPaidFor

(* A session that is stored was not stored, so nothing was processed of it. *)
LEMMA CommitCheckoutStep ==
    ASSUME CommerceInv, NEW w \in Workers, CommitCheckout(w)
    PROVE  CommerceInv'
<1> DEFINE c == job[w].checkout
<1>1. /\ End(w) /\ session' = [session EXCEPT ![c] = "pending"]
      /\ UNCHANGED <<offered, events, queue, orphaned, processed, clubs, pools, applied, claimed>>
    BY DEF CommitCheckout, stripeVars, clubVars, webhookVars
<1>2. c \in Checkouts /\ Row("session", c) \in job[w].locks /\ session[c] = "none"
    BY DEF CommitCheckout, At, CommerceInv, JobsHold, TransactionHolds
<1> HIDE DEF c
<1>3. session'[c] = "pending" /\ \A d \in Checkouts \ {c} : session'[d] = session[d]
    BY <1>1, <1>2 DEF CommerceInv, TypeOK
<1>4. \A d \in Checkouts : session[d] # "none" => session'[d] = session[d]
    BY <1>2, <1>3
<1>5. /\ LocksExclusive' /\ JobsHold'
      /\ job'[w] = Idle /\ \A v \in Workers \ {w} : job'[v] = job[v]
    BY <1>1, <1>2, <1>3, <1>4, OthersHold
<1>6. Payments'
    <2>1. \A d \in offered : \/ session'[d] # "none" \/ d \in orphaned
                             \/ \E v \in Workers : job'[v].kind = "checkout" /\ job'[v].checkout = d
        <3> SUFFICES ASSUME NEW d \in offered, session'[d] = "none", d \notin orphaned
                     PROVE  \E v \in Workers : job'[v].kind = "checkout" /\ job'[v].checkout = d
            OBVIOUS
        <3>1. d \in Checkouts /\ d # c /\ session[d] = "none"
            BY <1>3, <1>4 DEF CommerceInv, TypeOK
        <3>2. PICK v \in Workers : job[v].kind = "checkout" /\ job[v].checkout = d
            BY <3>1 DEF CommerceInv, Payments
        <3>3. v # w
            BY <3>1, <3>2 DEF c
        <3> QED
            BY <1>5, <3>2, <3>3
    <2>2. \A e \in events : IsPayment(e) => session'[e.checkout] # "none" \/ e.checkout \in orphaned
        BY <1>4, EventsType DEF CommerceInv, Payments
    <2> QED
        BY <1>1, <2>1, <2>2 DEF CommerceInv, Payments, IsPayment
<1>7. SessionsPaid'
    BY <1>1, <1>2, <1>3 DEF CommerceInv, SessionsPaid, IsPayment
<1>8. AppliedOnce'
    BY <1>1 DEF CommerceInv, AppliedOnce
<1>9. PaymentShows'
    <2>1. \A e \in processed : e.checkout \in Checkouts
        BY EventsType DEF CommerceInv, TypeOK
    <2> QED
        BY <1>1, <1>4, <2>1 DEF CommerceInv, PaymentShows
<1>10. ClubsPaidFor'
    BY <1>1, <1>2, <1>4, ClubsKept
<1>11. TypeOK'
    BY CommitTypes
<1> QED
    BY <1>5, <1>6, <1>7, <1>8, <1>9, <1>10, <1>11 DEF CommerceInv

(* A session is claimed once: the row was held and paid. *)
LEMMA CommitClaimStep ==
    ASSUME CommerceInv, NEW w \in Workers, CommitClaim(w)
    PROVE  CommerceInv'
<1> DEFINE c == job[w].checkout
<1>1. /\ End(w) /\ session' = [session EXCEPT ![c] = "claimed"]
      /\ claimed' = [claimed EXCEPT ![c] = @ + 1]
      /\ job[w].kind = "claim"
      /\ UNCHANGED <<offered, events, queue, orphaned, processed, clubs, pools, applied>>
    BY DEF CommitClaim, At, stripeVars, clubVars, webhookVars
<1>2. c \in Checkouts /\ Row("session", c) \in job[w].locks /\ session[c] = "paid"
    BY <1>1 DEF CommerceInv, JobsHold, TransactionHolds
<1> HIDE DEF c
<1>3. session'[c] = "claimed" /\ \A d \in Checkouts \ {c} : session'[d] = session[d]
    BY <1>1, <1>2 DEF CommerceInv, TypeOK
<1>4. /\ \A d \in Checkouts : session[d] # "none" <=> session'[d] # "none"
      /\ \A d \in Checkouts : session[d] \in {"paid", "claimed"} <=> session'[d] \in {"paid", "claimed"}
      /\ \A d \in Checkouts : session[d] = "claimed" => session'[d] = "claimed"
    BY <1>2, <1>3
<1>5. /\ LocksExclusive' /\ JobsHold'
      /\ job'[w] = Idle /\ \A v \in Workers \ {w} : job'[v] = job[v]
    BY <1>1, <1>2, <1>3, <1>4, OthersHold
<1>6. Payments'
    <2>1. \A d \in offered : \/ session'[d] # "none" \/ d \in orphaned
                             \/ \E v \in Workers : job'[v].kind = "checkout" /\ job'[v].checkout = d
        <3> SUFFICES ASSUME NEW d \in offered, session[d] = "none", d \notin orphaned
                     PROVE  \E v \in Workers : job'[v].kind = "checkout" /\ job'[v].checkout = d
            BY <1>4 DEF CommerceInv, TypeOK
        <3>1. PICK v \in Workers : job[v].kind = "checkout" /\ job[v].checkout = d
            BY DEF CommerceInv, Payments
        <3>2. v # w
            BY <1>1, <3>1
        <3> QED
            BY <1>5, <3>1, <3>2
    <2>2. \A e \in events : IsPayment(e) => session'[e.checkout] # "none" \/ e.checkout \in orphaned
        BY <1>4, EventsType DEF CommerceInv, Payments
    <2> QED
        BY <1>1, <2>1, <2>2 DEF CommerceInv, Payments, IsPayment
<1>7. SessionsPaid'
    <2>1. \A d \in Checkouts : session'[d] \in {"paid", "claimed"} =>
             \E e \in processed : IsPayment(e) /\ e.checkout = d
        BY <1>4 DEF CommerceInv, SessionsPaid
    <2>2. \A d \in Checkouts : claimed'[d] = IF session'[d] = "claimed" THEN 1 ELSE 0
        BY <1>1, <1>2, <1>3 DEF CommerceInv, SessionsPaid, TypeOK
    <2> QED
        BY <1>1, <2>1, <2>2 DEF SessionsPaid, IsPayment
<1>8. AppliedOnce'
    BY <1>1 DEF CommerceInv, AppliedOnce
<1>9. PaymentShows'
    <2>1. \A e \in processed : e.checkout \in Checkouts
        BY EventsType DEF CommerceInv, TypeOK
    <2> QED
        BY <1>1, <1>4, <2>1 DEF CommerceInv, PaymentShows
<1>10. ClubsPaidFor'
    BY <1>1, <1>2, <1>4, ClubsKept
<1>11. TypeOK'
    BY CommitTypes
<1> QED
    BY <1>5, <1>6, <1>7, <1>8, <1>9, <1>10, <1>11 DEF CommerceInv

(* A slug gets its first club, for a session that is claimed and so paid. *)
LEMMA CommitProvisionStep ==
    ASSUME CommerceInv, NEW w \in Workers, CommitProvision(w)
    PROVE  CommerceInv'
<1> DEFINE c == job[w].checkout
           slug == SlugOf[c.claim]
           club == [slug |-> slug, claim |-> c.claim, plan |-> c.plan, owned |-> job[w].found]
<1>1. /\ End(w) /\ clubs' = clubs \cup {club} /\ pools' = [pools EXCEPT ![slug] = @ + 1]
      /\ job[w].kind = "provision"
      /\ UNCHANGED <<offered, events, queue, orphaned, session, processed, applied, claimed>>
    BY DEF CommitProvision, At, stripeVars, onboardingVars, webhookVars
<1>2. /\ c \in Checkouts /\ Row("club", slug) \in job[w].locks
      /\ session[c] = "claimed" /\ \A b \in clubs : b.slug # slug
    BY <1>1 DEF CommerceInv, JobsHold, TransactionHolds
<1>3. slug \in Slugs
    BY <1>2, CommerceAssumption DEF Checkouts
<1>4. club.slug = slug /\ club.claim = c.claim /\ club.plan = c.plan
    OBVIOUS
<1> HIDE DEF club, slug, c
<1>5. /\ LocksExclusive' /\ JobsHold'
      /\ job'[w] = Idle /\ \A v \in Workers \ {w} : job'[v] = job[v]
    BY <1>1, <1>2, <1>4, OthersHold
<1>6. Payments'
    <2>1. \A d \in offered : \/ session[d] # "none" \/ d \in orphaned
                             \/ \E v \in Workers : job'[v].kind = "checkout" /\ job'[v].checkout = d
        <3> SUFFICES ASSUME NEW d \in offered, session[d] = "none", d \notin orphaned
                     PROVE  \E v \in Workers : job'[v].kind = "checkout" /\ job'[v].checkout = d
            OBVIOUS
        <3>1. PICK v \in Workers : job[v].kind = "checkout" /\ job[v].checkout = d
            BY DEF CommerceInv, Payments
        <3>2. v # w
            BY <1>1, <3>1
        <3> QED
            BY <1>5, <3>1, <3>2
    <2> QED
        BY <1>1, <2>1 DEF CommerceInv, Payments, IsPayment
<1>7. SessionsPaid' /\ AppliedOnce' /\ PaymentShows'
    BY <1>1 DEF CommerceInv, SessionsPaid, AppliedOnce, PaymentShows, IsPayment
<1>8. ClubsPaidFor'
    <2>1. ASSUME NEW b \in clubs'
          PROVE  \E d \in Checkouts :
                    /\ d.claim = b.claim /\ d.plan = b.plan /\ session'[d] = "claimed"
                    /\ \E e \in processed' : e.type = "checkout.session.completed" /\ e.checkout = d
        <3>1. CASE b \in clubs
            BY <1>1, <3>1 DEF CommerceInv, ClubsPaidFor
        <3>2. CASE b = club
            <4>1. \E e \in processed : IsPayment(e) /\ e.checkout = c
                BY <1>2 DEF CommerceInv, SessionsPaid
            <4> QED
                BY <1>1, <1>2, <1>4, <3>2, <4>1 DEF IsPayment
        <3> QED
            BY <1>1, <3>1, <3>2
    <2>2. ASSUME NEW s \in Slugs
          PROVE  pools'[s] <= 1 /\ pools'[s] = Cardinality({b \in clubs' : b.slug = s})
        <3>1. pools[s] \in Nat /\ pools[s] <= 1 /\ pools[s] = Cardinality({b \in clubs : b.slug = s})
            BY DEF CommerceInv, ClubsPaidFor, TypeOK
        <3>2. CASE s = slug
            <4>1. {b \in clubs : b.slug = s} = {} /\ {b \in clubs' : b.slug = s} = {club}
                BY <1>1, <1>2, <1>4, <3>2
            <4>2. Cardinality({b \in clubs : b.slug = s}) = 0
                  /\ Cardinality({b \in clubs' : b.slug = s}) = 1
                BY <4>1, FS_EmptySet, FS_Singleton
            <4>3. pools'[s] = pools[s] + 1
                BY <1>1, <1>3, <3>2 DEF CommerceInv, TypeOK
            <4> QED
                BY <3>1, <4>2, <4>3
        <3>3. CASE s # slug
            <4>1. {b \in clubs' : b.slug = s} = {b \in clubs : b.slug = s}
                BY <1>1, <1>4, <3>3
            <4>2. pools'[s] = pools[s]
                BY <1>1, <1>3, <3>3 DEF CommerceInv, TypeOK
            <4> QED
                BY <3>1, <4>1, <4>2
        <3> QED
            BY <3>2, <3>3
    <2> QED
        BY <2>1, <2>2 DEF ClubsPaidFor
<1>9. TypeOK'
    BY CommitTypes
<1> QED
    BY <1>5, <1>6, <1>7, <1>8, <1>9 DEF CommerceInv

(* An event is applied for the first time; its payment never reverts a      *)
(* claimed session, whose payment was processed before.                     *)
LEMMA CommitWebhookStep ==
    ASSUME CommerceInv, NEW w \in Workers, CommitWebhook(w)
    PROVE  /\ CommerceInv'
           /\ \A c \in Checkouts : session[c] = "claimed" => session'[c] = "claimed"
<1> DEFINE e == job[w].event
           c == e.checkout
           writes == RowOf(e) \in job[w].locks
           pays == writes /\ IsPayment(e)
<1>1. /\ End(w) /\ job[w].kind = "webhook" /\ job[w].stage = "commit"
      /\ processed' = processed \cup {e}
      /\ applied' = applied \cup
            {[event |-> e, nth |-> Cardinality({a \in applied : a.event = e}) + 1]}
      /\ UNCHANGED <<offered, events, queue, orphaned, clubs, pools, claimed>>
    BY DEF CommitWebhook, At, stripeVars, clubVars
<1>2. e \in events /\ e \in Event /\ c \in Checkouts
    BY <1>1, Concerned, EventsType DEF CommerceInv
<1>3. /\ Row("event", e) \in job[w].locks /\ e \notin processed
      /\ IsPayment(e) => IF writes THEN session[c] # "none" ELSE c \in orphaned
    BY <1>1 DEF CommerceInv, JobsHold, TransactionHolds, WebhookHolds
<1>4. session' = IF pays THEN [session EXCEPT ![c] = "paid"] ELSE session
    BY <1>2, EventStatusType DEF CommitWebhook
<1>5. pays => Row("session", c) \in job[w].locks /\ session[c] # "none"
    BY <1>3 DEF RowOf, IsPayment
<1>6. pays => session[c] # "claimed"
    <2> SUFFICES ASSUME pays, session[c] = "claimed" PROVE FALSE
        OBVIOUS
    <2>1. PICK f \in processed : IsPayment(f) /\ f.checkout = c
        BY <1>2 DEF CommerceInv, SessionsPaid
    <2>2. f = e
        BY <1>2, <2>1 DEF CommerceInv, Payments, TypeOK
    <2> QED
        BY <1>3, <2>1, <2>2
<1> HIDE DEF pays, writes, c, e
<1>7. /\ pays => session'[c] = "paid"
      /\ \A d \in Checkouts : ~(pays /\ d = c) => session'[d] = session[d]
    BY <1>2, <1>4 DEF CommerceInv, TypeOK
<1>8. /\ \A d \in Checkouts : session[d] # "none" => session'[d] # "none"
      /\ \A d \in Checkouts : session[d] \in {"paid", "claimed"} => session'[d] \in {"paid", "claimed"}
      /\ \A d \in Checkouts : session[d] = "claimed" <=> session'[d] = "claimed"
    BY <1>6, <1>7
<1>9. /\ LocksExclusive' /\ JobsHold'
      /\ job'[w] = Idle /\ \A v \in Workers \ {w} : job'[v] = job[v]
    <2>1. \A d \in Checkouts : session'[d] # session[d] => Row("session", d) \in job[w].locks
        BY <1>5, <1>7
    <2>2. \A f \in processed' \ processed : Row("event", f) \in job[w].locks
        BY <1>1, <1>3
    <2> QED
        BY <1>1, <1>8, <2>1, <2>2, OthersHold
<1>10. Payments'
    <2>1. \A d \in offered : \/ session'[d] # "none" \/ d \in orphaned
                             \/ \E v \in Workers : job'[v].kind = "checkout" /\ job'[v].checkout = d
        <3> SUFFICES ASSUME NEW d \in offered, session'[d] = "none", d \notin orphaned
                     PROVE  \E v \in Workers : job'[v].kind = "checkout" /\ job'[v].checkout = d
            OBVIOUS
        <3>1. session[d] = "none"
            BY <1>8 DEF CommerceInv, TypeOK
        <3>2. PICK v \in Workers : job[v].kind = "checkout" /\ job[v].checkout = d
            BY <3>1 DEF CommerceInv, Payments
        <3>3. v # w
            BY <1>1, <3>2
        <3> QED
            BY <1>9, <3>2, <3>3
    <2>2. \A f \in events : IsPayment(f) => session'[f.checkout] # "none" \/ f.checkout \in orphaned
        BY <1>8, EventsType DEF CommerceInv, Payments
    <2> QED
        BY <1>1, <2>1, <2>2 DEF CommerceInv, Payments, IsPayment
<1>11. SessionsPaid'
    <2>1. \A d \in Checkouts : session'[d] \in {"paid", "claimed"} =>
             \E f \in processed' : IsPayment(f) /\ f.checkout = d
        <3> SUFFICES ASSUME NEW d \in Checkouts, session'[d] \in {"paid", "claimed"}
                     PROVE  \E f \in processed' : IsPayment(f) /\ f.checkout = d
            OBVIOUS
        <3>1. CASE pays /\ d = c
            BY <1>1, <3>1 DEF pays, c
        <3>2. CASE ~(pays /\ d = c)
            BY <1>1, <1>7, <3>2 DEF CommerceInv, SessionsPaid
        <3> QED
            BY <3>1, <3>2
    <2>2. \A d \in Checkouts : claimed'[d] = IF session'[d] = "claimed" THEN 1 ELSE 0
        BY <1>1, <1>8 DEF CommerceInv, SessionsPaid
    <2> QED
        BY <2>1, <2>2 DEF SessionsPaid, IsPayment
<1>12. AppliedOnce'
    <2>1. {a \in applied : a.event = e} = {}
        BY <1>3 DEF CommerceInv, AppliedOnce
    <2>2. Cardinality({a \in applied : a.event = e}) + 1 = 1
        BY <2>1, FS_EmptySet
    <2>3. PICK first : first = [event |-> e, nth |-> 1]
        OBVIOUS
    <2>4. applied' = applied \cup {first} /\ first.event = e /\ first.nth = 1
        BY <1>1, <2>2, <2>3
    <2>5. ASSUME NEW f
          PROVE  f \in {a.event : a \in applied'} <=> f \in {a.event : a \in applied} \cup {e}
        BY <2>4
    <2>6. {a.event : a \in applied'} = processed'
        BY <1>1, <2>5 DEF CommerceInv, AppliedOnce
    <2>7. \A a \in applied' : a.nth = 1
        BY <2>4 DEF CommerceInv, AppliedOnce
    <2> QED
        BY <2>6, <2>7 DEF AppliedOnce
<1>13. PaymentShows'
    <2> SUFFICES ASSUME NEW f \in processed', IsPayment(f), f.checkout \notin orphaned
                 PROVE  session'[f.checkout] \in {"paid", "claimed"}
        BY <1>1 DEF PaymentShows, IsPayment
    <2>1. CASE f \in processed
        <3>1. f.checkout \in Checkouts
            BY <2>1, EventsType DEF CommerceInv, TypeOK
        <3> QED
            BY <1>8, <2>1, <3>1 DEF CommerceInv, PaymentShows, IsPayment
    <2>2. CASE f = e
        BY <1>3, <1>7, <2>2 DEF pays, c
    <2> QED
        BY <1>1, <2>1, <2>2
<1>14. ClubsPaidFor'
    BY <1>1, <1>8, ClubsKept
<1>15. TypeOK'
    BY CommitTypes
<1> QED
    BY <1>8, <1>9, <1>10, <1>11, <1>12, <1>13, <1>14, <1>15 DEF CommerceInv

-----------------------------------------------------------------------------
(* Init satisfies the invariant. *)
LEMMA CommerceInit == Init => CommerceInv
<1> SUFFICES ASSUME Init PROVE CommerceInv
    OBVIOUS
<1>1. \A w \in Workers : job[w] = Idle
    BY DEF Init
<1>2. LocksExclusive /\ JobsHold
    BY <1>1, IdleType DEF LocksExclusive, JobsHold, TransactionHolds
<1>3. Payments /\ SessionsPaid /\ PaymentShows
    BY DEF Init, Payments, SessionsPaid, PaymentShows
<1>4. AppliedOnce
    BY DEF Init, AppliedOnce
<1>5. ClubsPaidFor
    <2>1. \A s \in Slugs : {b \in clubs : b.slug = s} = {} /\ pools[s] = 0
        BY DEF Init
    <2> QED
        BY <2>1, FS_EmptySet DEF Init, ClubsPaidFor
<1> QED
    BY <1>2, <1>3, <1>4, <1>5, TypeInit DEF CommerceInv

(* Every step of the specification keeps the invariant and the claims. *)
LEMMA CommerceStep ==
    ASSUME CommerceInv, [Next]_vars
    PROVE  /\ CommerceInv'
           /\ \A c \in Checkouts : session[c] = "claimed" => session'[c] = "claimed"
<1> DEFINE ClaimsKept == \A c \in Checkouts : session[c] = "claimed" => session'[c] = "claimed"
<1>1. CASE UNCHANGED vars
    <2>1. Quiet /\ UNCHANGED vars
        BY <1>1 DEF vars, stripeVars, onboardingVars, clubVars, webhookVars, Quiet
    <2>2. TypeOK' /\ LocksExclusive' /\ JobsHold' /\ Payments'
        BY <2>1 DEF vars, stripeVars, onboardingVars, clubVars, webhookVars, historyVars,
                    CommerceInv, TypeOK, LocksExclusive, JobsHold, TransactionHolds,
                    WebhookHolds, Payments, IsPayment
    <2> QED
        BY <2>1, <2>2, QuietDatabase DEF CommerceInv, Quiet
<1>2. ASSUME NEW e \in Event, Pay(e) \/ SubscriptionChanges(e)
      PROVE  CommerceInv' /\ ClaimsKept
    BY <1>2, StripeStep DEF Pay, SubscriptionChanges, Happens, onboardingVars
<1>3. ASSUME NEW c \in Checkouts, Expire(c)
      PROVE  CommerceInv' /\ ClaimsKept
    BY <1>3, ExpireStep DEF Expire
<1>4. ASSUME NEW w \in Workers, NEW c \in Checkouts,
             RequestCheckout(w, c) \/ Claim(w, c) \/ Provision(w, c)
      PROVE  CommerceInv' /\ ClaimsKept
    BY <1>4, RequestStep, ClaimStep, ProvisionStep
    DEF RequestCheckout, Claim, Provision, onboardingVars
<1>5. ASSUME NEW w \in Workers, \/ \E e \in events : Deliver(w, e)
                                \/ \E m \in queue : StartTask(w, m)
      PROVE  CommerceInv' /\ ClaimsKept
    BY <1>5, DeliverStep, StartTaskStep DEF Deliver, StartTask, onboardingVars
<1>6. ASSUME NEW w \in Workers, Mark(w) \/ Handle(w) \/ DatabaseError(w) \/ Record(w)
      PROVE  CommerceInv' /\ ClaimsKept
    BY <1>6, MarkStep, HandleStep, DatabaseErrorStep, RecordStep
    DEF Mark, Handle, DatabaseError, Record, onboardingVars
<1>7. ASSUME NEW w \in Workers, CommitFails(w) \/ WorkerLost(w)
      PROVE  CommerceInv' /\ ClaimsKept
    BY <1>7, RollbackStep DEF CommitFails, WorkerLost, Rollback
<1>8. ASSUME NEW w \in Workers, CommitCheckout(w)
      PROVE  CommerceInv' /\ ClaimsKept
    <2>1. session[job[w].checkout] = "none"
        BY <1>8 DEF CommitCheckout, At, CommerceInv, JobsHold, TransactionHolds
    <2>2. ClaimsKept
        BY <1>8, <2>1 DEF CommitCheckout, CommerceInv, TypeOK
    <2> QED
        BY <1>8, <2>2, CommitCheckoutStep
<1>9. ASSUME NEW w \in Workers, CommitClaim(w)
      PROVE  CommerceInv' /\ ClaimsKept
    <2>1. ClaimsKept
        BY <1>9 DEF CommitClaim, CommerceInv, TypeOK
    <2> QED
        BY <1>9, <2>1, CommitClaimStep
<1>10. ASSUME NEW w \in Workers, CommitProvision(w)
       PROVE  CommerceInv' /\ ClaimsKept
    BY <1>10, CommitProvisionStep DEF CommitProvision, onboardingVars
<1>11. ASSUME NEW w \in Workers, CommitWebhook(w)
       PROVE  CommerceInv' /\ ClaimsKept
    BY <1>11, CommitWebhookStep
<1> QED
    BY <1>1, <1>2, <1>3, <1>4, <1>5, <1>6, <1>7, <1>8, <1>9, <1>10, <1>11 DEF Next

(* The inductive invariant holds, however many workers handle requests,     *)
(* deliveries and retries at a time, and whatever fails.                    *)
THEOREM CommerceInvariant == Spec => []CommerceInv
<1>1. CommerceInv /\ [Next]_vars => CommerceInv'
    BY CommerceStep
<1> QED
    BY <1>1, CommerceInit, PTL DEF Spec

(* However often Stripe delivers an event and the task retries it, at the   *)
(* same time or after, its writes are committed once, with its mark.        *)
THEOREM EventsAppliedOnce == Spec => []AppliedOnce
<1>1. CommerceInv => AppliedOnce
    BY DEF CommerceInv
<1> QED
    BY <1>1, CommerceInvariant, PTL

(* claim_session claims a session once, however many requests try it.       *)
THEOREM SessionsClaimedOnce == Spec => []ClaimedOnce
<1>1. CommerceInv => ClaimedOnce
    <2> SUFFICES ASSUME CommerceInv, NEW c \in Checkouts PROVE claimed[c] <= 1
        BY DEF ClaimedOnce
    <2>1. claimed[c] = IF session[c] = "claimed" THEN 1 ELSE 0
        BY DEF CommerceInv, SessionsPaid
    <2> QED
        BY <2>1
<1> QED
    BY <1>1, CommerceInvariant, PTL

(* No webhook reverts a session that has been claimed, although its handler *)
(* sets "paid" without looking at the status.                               *)
THEOREM ClaimsStay == Spec => ClaimedStays
<1>1. CommerceInv /\ [Next]_vars =>
         [\A c \in Checkouts : session[c] = "claimed" => session'[c] = "claimed"]_vars
    BY CommerceStep
<1> QED
    BY <1>1, CommerceInvariant, PTL DEF Spec, ClaimedStays

(* A payment whose event is processed shows on its session, unless the      *)
(* commit of create_checkout_session was lost after its URL was sent.       *)
THEOREM PaymentsShow == Spec => []PaymentShows
<1>1. CommerceInv => PaymentShows
    BY DEF CommerceInv
<1> QED
    BY <1>1, CommerceInvariant, PTL

(* provision() makes one club and one pool of a slug, and only for a claim  *)
(* that was paid and claimed, however many requests provision it at a time. *)
THEOREM ClubsArePaidFor == Spec => []ClubsPaidFor
<1>1. CommerceInv => ClubsPaidFor
    BY DEF CommerceInv
<1> QED
    BY <1>1, CommerceInvariant, PTL

-----------------------------------------------------------------------------
(* Events Stripe was answered. *)

(* A job that an answered event depends on. *)
Carries(j, e) == j.event = e /\ (j.kind = "task" \/ (j.kind = "webhook" /\ j.stage = "commit"))

Remembered(e) ==
    \/ e \in processed \cup lost
    \/ \E w \in Workers : Carries(job[w], e)
    \/ \E m \in queue : m.event = e
    \/ \E a \in attempts : a.event = e /\ (a.dead \/ a.outcome = "success")

LEMMA ForgottenMeans == NoEventForgotten <=> \A e \in events \ outstanding : Remembered(e)
BY DEF NoEventForgotten, Remembered, Carries, At

(* What a step must see to: the event its job carries, and the messages it  *)
(* takes.                                                                   *)
LEMMA RememberedStep ==
    ASSUME NEW e, NEW w \in Workers, Remembered(e),
           processed \subseteq processed', lost \subseteq lost', attempts \subseteq attempts',
           \A v \in Workers \ {w} : job'[v] = job[v],
           Carries(job[w], e) => Remembered(e)',
           \A m \in queue \ queue' : m.event = e => Remembered(e)'
    PROVE  Remembered(e)'
<1>1. CASE e \in processed \cup lost
    BY <1>1 DEF Remembered
<1>2. CASE \E v \in Workers : Carries(job[v], e)
    BY <1>2 DEF Remembered, Carries
<1>3. CASE \E m \in queue : m.event = e
    BY <1>3 DEF Remembered
<1>4. CASE \E a \in attempts : a.event = e /\ a.dead
    BY <1>4 DEF Remembered
<1> QED
    BY <1>1, <1>2, <1>3, <1>4 DEF Remembered

(* Steps that take no message, drop no job that carries an event, and       *)
(* answer nothing.                                                          *)
LEMMA NothingAnswered ==
    ASSUME NoEventForgotten, NEW w \in Workers,
           UNCHANGED <<events, outstanding, attempts, lost, queue>>,
           processed \subseteq processed',
           \A v \in Workers \ {w} : job'[v] = job[v],
           \A e \in events : Carries(job[w], e) => Remembered(e)'
    PROVE  NoEventForgotten'
<1> SUFFICES ASSUME NEW e \in events \ outstanding PROVE Remembered(e)'
    BY ForgottenMeans DEF NoEventForgotten, Remembered, Carries, At
<1>1. Remembered(e)
    BY ForgottenMeans
<1> QED
    BY <1>1, RememberedStep

LEMMA ForgottenBegin ==
    ASSUME CommerceInv, NoEventForgotten, NEW w \in Workers,
           \/ \E c \in Checkouts : RequestCheckout(w, c) \/ Claim(w, c) \/ Provision(w, c)
           \/ \E e \in events : Deliver(w, e)
    PROVE  NoEventForgotten'
<1>1. /\ UNCHANGED <<events, outstanding, attempts, lost, queue, processed>>
      /\ job[w] = Idle /\ \E j : job' = [job EXCEPT ![w] = j]
    BY DEF RequestCheckout, Claim, Provision, Deliver, Begin, stripeVars, webhookVars, historyVars
<1>2. \A v \in Workers \ {w} : job'[v] = job[v]
    BY <1>1, JobUpdated DEF CommerceInv, TypeOK
<1>3. \A e \in events : ~Carries(job[w], e)
    BY <1>1, IdleType DEF Carries
<1> QED
    BY <1>1, <1>2, <1>3, NothingAnswered

(* Its message becomes the task, or the event is processed. *)
LEMMA ForgottenStartTask ==
    ASSUME CommerceInv, NoEventForgotten, NEW w \in Workers, NEW m \in queue, StartTask(w, m)
    PROVE  NoEventForgotten'
<1>1. /\ UNCHANGED <<events, outstanding, attempts, lost, processed>>
      /\ job[w] = Idle /\ queue' = queue \ {m} /\ \E j : job' = [job EXCEPT ![w] = j]
    <2>1. job' = job => job' = [job EXCEPT ![w] = job[w]]
        BY DEF CommerceInv, TypeOK
    <2> QED
        BY <2>1 DEF StartTask, Begin, stripeVars, webhookVars, historyVars
<1>2. \A v \in Workers \ {w} : job'[v] = job[v]
    BY <1>1, JobUpdated DEF CommerceInv, TypeOK
<1>3. m.event \in processed \/ Carries(job'[w], m.event)
    <2> DEFINE j == [Idle EXCEPT !.kind = "task", !.event = m.event, !.retries = m.retries]
    <2>1. CASE Seen(m.event)
        BY <2>1 DEF Seen
    <2>2. CASE ~Seen(m.event)
        <3>1. job' = [job EXCEPT ![w] = j]
            BY <2>2 DEF StartTask, Begin
        <3>2. job'[w] = j
            BY <3>1, JobUpdated DEF CommerceInv, TypeOK
        <3>3. j.kind = "task" /\ j.event = m.event
            BY DEF Idle
        <3> QED
            BY <3>2, <3>3 DEF Carries
    <2> QED
        BY <2>1, <2>2
<1>4. Remembered(m.event)'
    BY <1>1, <1>3 DEF Remembered
<1> SUFFICES ASSUME NEW e \in events \ outstanding PROVE Remembered(e)'
    BY <1>1, ForgottenMeans DEF NoEventForgotten, Remembered, Carries, At
<1>5. Remembered(e)
    BY ForgottenMeans
<1>6. ~Carries(job[w], e)
    BY <1>1, IdleType DEF Carries
<1>7. CASE e = m.event
    BY <1>4, <1>7
<1>8. CASE e # m.event
    BY <1>1, <1>2, <1>5, <1>6, <1>8, RememberedStep
<1> QED
    BY <1>7, <1>8

(* A webhook is answered when its event is processed, or when it will       *)
(* commit.                                                                  *)
LEMMA ForgottenMark ==
    ASSUME CommerceInv, NoEventForgotten, NEW w \in Workers, Mark(w)
    PROVE  NoEventForgotten'
<1>0. PICK d : d = job[w].event
    OBVIOUS
<1>1. /\ UNCHANGED <<events, attempts, lost, processed, queue>>
      /\ outstanding' = outstanding \/ (Seen(d) /\ outstanding' = outstanding \ {d})
      /\ \E j : job' = [job EXCEPT ![w] = j]
      /\ job[w].kind \in {"webhook", "task"} /\ job[w].stage = "mark"
    BY <1>0 DEF Mark, At, End, Continue, Answered, webhookVars, historyVars
<1>2. \A v \in Workers \ {w} : job'[v] = job[v]
    BY <1>0, <1>1, JobUpdated DEF CommerceInv, TypeOK
<1>3. CASE Seen(d)
    <2>1. Remembered(d)'
        BY <1>0, <1>1, <1>3 DEF Remembered, Seen
    <2> SUFFICES ASSUME NEW e \in events \ outstanding' PROVE Remembered(e)'
        BY <1>0, <1>1 DEF NoEventForgotten, Remembered, Carries, At
    <2>2. CASE e = d
        BY <1>0, <2>1, <2>2
    <2>3. CASE e # d
        <3>1. Remembered(e) /\ ~Carries(job[w], e)
            BY <1>0, <1>1, <2>3, ForgottenMeans DEF Carries
        <3> QED
            BY <1>0, <1>1, <1>2, <3>1, RememberedStep
    <2> QED
        BY <1>0, <2>2, <2>3
<1>4. CASE ~Seen(d)
    <2>1. job' = [job EXCEPT ![w] = [job[w] EXCEPT !.stage = "handle", !.locks = EventLocks(d)]]
        BY <1>0, <1>4 DEF Mark, Continue
    <2>2. job'[w] = [job[w] EXCEPT !.stage = "handle", !.locks = EventLocks(d)]
        BY <1>0, <2>1, JobUpdated DEF CommerceInv, TypeOK
    <2>3. job'[w].kind = job[w].kind /\ job'[w].event = job[w].event
        BY <1>0, <2>2, Concerned DEF Job
    <2>4. \A e \in events : Carries(job[w], e) => Remembered(e)'
        BY <1>0, <1>1, <2>3 DEF Carries, Remembered
    <2>5. outstanding' = outstanding
        BY <1>0, <1>1, <1>4
    <2> QED
        BY <1>0, <1>1, <1>2, <2>4, <2>5, NothingAnswered
<1> QED
    BY <1>0, <1>3, <1>4

LEMMA ForgottenHandle ==
    ASSUME CommerceInv, NoEventForgotten, NEW w \in Workers, Handle(w)
    PROVE  NoEventForgotten'
<1>0. PICK d : d = job[w].event
    OBVIOUS
<1>1. /\ UNCHANGED <<events, attempts, lost, processed, queue>>
      /\ outstanding' = outstanding \/ outstanding' = outstanding \ {d}
      /\ job[w].kind \in {"webhook", "task"} /\ job[w].stage = "handle"
    BY <1>0 DEF Handle, At, Answered, webhookVars, historyVars
<1>2. /\ Carries(job'[w], d)
      /\ \A v \in Workers \ {w} : job'[v] = job[v]
    <2>1. CASE job[w].kind = "webhook"
        <3>1. PICK locks : job' = [job EXCEPT ![w] = [job[w] EXCEPT !.stage = "commit",
                                      !.found = RowExists(d), !.locks = locks]]
            BY <1>0, <2>1 DEF Handle, Continue
        <3>2. /\ job'[w] = [job[w] EXCEPT !.stage = "commit", !.found = RowExists(d),
                                          !.locks = locks]
              /\ \A v \in Workers \ {w} : job'[v] = job[v]
            BY <1>0, <3>1, JobUpdated DEF CommerceInv, TypeOK
        <3> QED
            BY <1>0, <2>1, <3>2, Concerned DEF Job, Carries
    <2>2. CASE job[w].kind = "task"
        <3>1. job' = [job EXCEPT ![w] = [job[w] EXCEPT !.stage = "record",
                                            !.outcome = "success", !.locks = {}]]
            BY <1>0, <2>2 DEF Handle, Continue
        <3>2. /\ job'[w] = [job[w] EXCEPT !.stage = "record", !.outcome = "success", !.locks = {}]
              /\ \A v \in Workers \ {w} : job'[v] = job[v]
            BY <1>0, <3>1, JobUpdated DEF CommerceInv, TypeOK
        <3> QED
            BY <1>0, <2>2, <3>2, Concerned DEF Job, Carries
    <2> QED
        BY <1>0, <1>1, <2>1, <2>2
<1>3. Remembered(d)'
    BY <1>0, <1>2 DEF Remembered
<1> SUFFICES ASSUME NEW e \in events \ outstanding' PROVE Remembered(e)'
    BY <1>0, <1>1 DEF NoEventForgotten, Remembered, Carries, At
<1>4. CASE e = d
    BY <1>0, <1>3, <1>4
<1>5. CASE e # d
    <2>1. Remembered(e) /\ ~Carries(job[w], e)
        BY <1>0, <1>1, <1>5, ForgottenMeans DEF Carries
    <2> QED
        BY <1>0, <1>1, <1>2, <2>1, RememberedStep
<1> QED
    BY <1>0, <1>4, <1>5

(* What is enqueued is a message. *)
LEMMA Enqueued ==
    ASSUME NEW e, NEW n, Enqueue(e, n)
    PROVE  queue \subseteq queue' /\ \E m \in queue' : m.event = e
<1>1. PICK m : m = [event |-> e, retries |-> n]
    OBVIOUS
<1>2. m \in queue' /\ m.event = e /\ queue \subseteq queue'
    BY <1>1 DEF Enqueue
<1> QED
    BY <1>2

(* A webhook that fails is answered when its event is a message. *)
LEMMA ForgottenDatabaseError ==
    ASSUME CommerceInv, NoEventForgotten, NEW w \in Workers, DatabaseError(w)
    PROVE  NoEventForgotten'
<1>0. PICK d : d = job[w].event
    OBVIOUS
<1>1. /\ UNCHANGED <<events, attempts, lost, processed>> /\ queue \subseteq queue'
      /\ \/ outstanding' = outstanding
         \/ outstanding' = outstanding \ {d} /\ \E m \in queue' : m.event = d
      /\ job[w].kind \in {"webhook", "task"} /\ job[w].stage \in {"mark", "handle"}
      /\ \E j : job' = [job EXCEPT ![w] = j]
    <2>1. Enqueue(d, 0) => queue \subseteq queue' /\ \E m \in queue' : m.event = d
        BY Enqueued
    <2> QED
        BY <1>0, <2>1 DEF DatabaseError, At, End, Continue, Answered, webhookVars, historyVars
<1>2. \A v \in Workers \ {w} : job'[v] = job[v]
    BY <1>0, <1>1, JobUpdated DEF CommerceInv, TypeOK
<1>3. job[w].kind = "task" => Carries(job'[w], d)
    <2> SUFFICES ASSUME job[w].kind = "task" PROVE Carries(job'[w], d)
        OBVIOUS
    <2>1. job' = [job EXCEPT ![w] = [job[w] EXCEPT !.stage = "record", !.outcome = "fail",
                                        !.locks = {}]]
        BY <1>0 DEF DatabaseError, Continue
    <2>2. job'[w] = [job[w] EXCEPT !.stage = "record", !.outcome = "fail", !.locks = {}]
        BY <1>0, <2>1, JobUpdated DEF CommerceInv, TypeOK
    <2> QED
        BY <1>0, <2>2, Concerned DEF Job, Carries
<1> SUFFICES ASSUME NEW e \in events \ outstanding' PROVE Remembered(e)'
    BY <1>0, <1>1 DEF NoEventForgotten, Remembered, Carries, At
<1>4. CASE e \in outstanding
    BY <1>0, <1>1, <1>4 DEF Remembered
<1>5. CASE e \notin outstanding
    <2>1. Remembered(e) /\ (Carries(job[w], e) => Carries(job'[w], e))
        BY <1>0, <1>1, <1>3, <1>5, ForgottenMeans DEF Carries
    <2>2. Carries(job[w], e) => Remembered(e)'
        BY <1>0, <2>1 DEF Remembered
    <2> QED
        BY <1>0, <1>1, <1>2, <2>1, <2>2, RememberedStep
<1> QED
    BY <1>0, <1>4, <1>5

(* A task that is over leaves a message, its last attempt or a lost event. *)
LEMMA ForgottenRecord ==
    ASSUME CommerceInv, NoEventForgotten, NEW w \in Workers, Record(w)
    PROVE  NoEventForgotten'
<1>0. PICK d : d = job[w].event
    OBVIOUS
<1> DEFINE failed == job[w].outcome = "fail"
           last == IsLast(job[w].retries)
<1>1. /\ UNCHANGED <<events, outstanding, processed>>
      /\ queue \subseteq queue' /\ lost \subseteq lost' /\ attempts \subseteq attempts'
      /\ \A v \in Workers \ {w} : job'[v] = job[v]
    <2>1. queue \subseteq queue' /\ lost \subseteq lost' /\ attempts \subseteq attempts'
        BY <1>0 DEF Record, Enqueue
    <2> QED
        BY <1>0, <2>1, JobUpdated DEF Record, End, CommerceInv, TypeOK, stripeVars, webhookVars
<1>2. Remembered(d)'
    <2>1. CASE failed /\ ~last
        <3>1. \E m \in queue' : m.event = d
            BY <1>0, <2>1, Enqueued DEF Record
        <3> QED
            BY <1>0, <3>1 DEF Remembered
    <2>2. CASE ~failed \/ last
        <3>1. PICK a : a = [event |-> job[w].event, number |-> job[w].retries + 1,
                            outcome |-> job[w].outcome, dead |-> last /\ failed]
            OBVIOUS
        <3>2. a.event = d /\ (a.dead <=> last /\ failed) /\ a.outcome = job[w].outcome
            BY <1>0, <3>1
        <3>3. a \in attempts' \/ d \in lost'
            BY <1>0, <2>2, <3>1 DEF Record
        <3>4. job[w].outcome \in {"success", "fail"}
            BY DEF CommerceInv, TypeOK, Job
        <3> QED
            BY <1>0, <2>2, <3>2, <3>3, <3>4 DEF Remembered
    <2> QED
        BY <1>0, <2>1, <2>2
<1> SUFFICES ASSUME NEW e \in events \ outstanding PROVE Remembered(e)'
    BY <1>0, <1>1 DEF NoEventForgotten, Remembered, Carries, At
<1>3. Remembered(e) /\ (Carries(job[w], e) => e = d)
    BY <1>0, ForgottenMeans DEF Carries
<1> QED
    BY <1>0, <1>1, <1>2, <1>3, RememberedStep

(* A transaction that ends leaves its event processed, lost or a message. *)
LEMMA ForgottenEnd ==
    ASSUME CommerceInv, NoEventForgotten, NEW w \in Workers,
           \/ CommitCheckout(w) \/ CommitClaim(w) \/ CommitProvision(w) \/ CommitWebhook(w)
           \/ CommitFails(w) \/ WorkerLost(w)
    PROVE  NoEventForgotten'
<1>0. PICK d : d = job[w].event
    OBVIOUS
<1>1. /\ UNCHANGED <<events, outstanding, attempts>> /\ processed \subseteq processed'
      /\ lost \subseteq lost' /\ queue \subseteq queue' /\ End(w)
    BY <1>0 DEF CommitCheckout, CommitClaim, CommitProvision, CommitWebhook, CommitFails, WorkerLost,
           Rollback, Enqueue, stripeVars, webhookVars, historyVars
<1>2. \A v \in Workers \ {w} : job'[v] = job[v]
    BY <1>0, <1>1, JobUpdated DEF End, CommerceInv, TypeOK
<1>3. Carries(job[w], d) => Remembered(d)'
    <2> SUFFICES ASSUME Carries(job[w], d)
                 PROVE  d \in processed' \cup lost' \/ \E m \in queue' : m.event = d
        BY <1>0 DEF Remembered
    <2>1. job[w].kind = "task" => job[w].stage # "commit"
        BY <1>0 DEF CommerceInv, JobsHold, TransactionHolds, WebhookHolds
    <2>2. job[w].kind = "task" \/ (job[w].kind = "webhook" /\ job[w].stage = "commit")
        BY <1>0 DEF Carries
    <2>3. CASE CommitCheckout(w) \/ CommitClaim(w) \/ CommitProvision(w)
        BY <1>0, <2>2, <2>3 DEF CommitCheckout, CommitClaim, CommitProvision, At
    <2>4. CASE CommitWebhook(w)
        BY <1>0, <2>4 DEF CommitWebhook
    <2>5. CASE CommitFails(w)
        BY <1>0, <2>1, <2>2, <2>5 DEF CommitFails, Rollback, At
    <2>6. CASE WorkerLost(w)
        BY <1>0, <2>2, <2>6, Enqueued DEF WorkerLost, Rollback, At
    <2> QED
        BY <1>0, <2>3, <2>4, <2>5, <2>6
<1> SUFFICES ASSUME NEW e \in events \ outstanding PROVE Remembered(e)'
    BY <1>0, <1>1 DEF NoEventForgotten, Remembered, Carries, At
<1>4. Remembered(e) /\ (Carries(job[w], e) => e = d)
    BY <1>0, ForgottenMeans DEF Carries
<1> QED
    BY <1>0, <1>1, <1>2, <1>3, <1>4, RememberedStep

LEMMA ForgottenStep ==
    ASSUME CommerceInv, NoEventForgotten, [Next]_vars
    PROVE  NoEventForgotten'
<1>1. CASE UNCHANGED vars \/ \E c \in Checkouts : Expire(c)
    BY <1>1 DEF vars, Expire, stripeVars, webhookVars, historyVars, NoEventForgotten, At
<1>2. ASSUME NEW d \in Event, Pay(d) \/ SubscriptionChanges(d)
      PROVE  NoEventForgotten'
    <2>1. /\ events' = events \cup {d} /\ outstanding' = outstanding \cup {d}
          /\ UNCHANGED <<processed, lost, job, queue, attempts>>
        BY <1>2 DEF Pay, SubscriptionChanges, Happens, webhookVars, historyVars
    <2> QED
        BY <2>1 DEF NoEventForgotten, At
<1>3. ASSUME NEW w \in Workers, NEW c \in Checkouts,
             RequestCheckout(w, c) \/ Claim(w, c) \/ Provision(w, c)
      PROVE  NoEventForgotten'
    BY <1>3, ForgottenBegin
<1>4. ASSUME NEW w \in Workers, \/ \E e \in events : Deliver(w, e)
                                \/ \E m \in queue : StartTask(w, m)
      PROVE  NoEventForgotten'
    BY <1>4, ForgottenBegin, ForgottenStartTask
<1>5. ASSUME NEW w \in Workers, Mark(w) \/ Handle(w) \/ DatabaseError(w) \/ Record(w)
      PROVE  NoEventForgotten'
    BY <1>5, ForgottenMark, ForgottenHandle, ForgottenDatabaseError, ForgottenRecord
<1>6. ASSUME NEW w \in Workers,
             \/ CommitCheckout(w) \/ CommitClaim(w) \/ CommitProvision(w) \/ CommitWebhook(w)
             \/ CommitFails(w) \/ WorkerLost(w)
      PROVE  NoEventForgotten'
    BY <1>6, ForgottenEnd
<1> QED
    BY <1>1, <1>2, <1>3, <1>4, <1>5, <1>6 DEF Next

(* Stripe is not told that an event is dealt with, unless it is processed,  *)
(* about to be, a message, on record as a dead letter or a success, or one  *)
(* of those that were lost in the ways NoEventForgotten lists.              *)
THEOREM EventsRemembered == Spec => []NoEventForgotten
<1>1. Init => NoEventForgotten
    BY DEF Init, NoEventForgotten
<1>2. CommerceInv /\ NoEventForgotten /\ [Next]_vars => NoEventForgotten'
    BY ForgottenStep
<1> QED
    BY <1>1, <1>2, CommerceInvariant, PTL DEF Spec
=============================================================================
