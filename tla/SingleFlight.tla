---------------------------- MODULE SingleFlight ----------------------------
(* Process-local request coalescing, api/app/services/single_flight.py.     *)
(* Each caller is one asyncio task that calls SingleFlight.run once.  The   *)
(* event loop interleaves tasks only at awaits, so one action is the code   *)
(* between two awaits.  The asyncio.Lock is never held across an await: it  *)
(* is always free when a task asks for it, and asking never suspends.       *)
(* A future is named by the caller that created it, its leader.             *)
EXTENDS Naturals, FiniteSets

CONSTANTS
    Callers,       \* tasks calling run()
    Keys,          \* request keys
    Cancellable,   \* tasks that somebody may cancel (disconnect, shutdown)
    NoFut, NoKey   \* no future, no key

ASSUME CancellableAssumption == Cancellable \subseteq Callers
ASSUME NoneAssumption == NoFut \notin Callers /\ NoKey \notin Keys

VARIABLES
    inflight,      \* [Keys -> Callers \cup {NoFut}]: self._inflight
    fut,           \* [Callers -> status]: the future each leader created
    pc,            \* where each task is suspended
    waitsOn,       \* the future a follower awaits
    key,           \* the key each task called with
    cancelled,     \* tasks on which cancel() was called
    outcome,       \* how run() ended for each task
    joinedRunning  \* history: tasks that called while the computation ran

vars == <<inflight, fut, pc, waitsOn, key, cancelled, outcome, joinedRunning>>

Pcs == {"idle", "computing", "following", "ended"}
FutStatuses == {"none", "pending", "result", "exception", "cancelled"}
Outcomes == {"none", "result", "exception", "cancelled", "invalid_state"}

TypeOK ==
    /\ inflight \in [Keys -> Callers \cup {NoFut}]
    /\ fut \in [Callers -> FutStatuses]
    /\ pc \in [Callers -> Pcs]
    /\ waitsOn \in [Callers -> Callers \cup {NoFut}]
    /\ key \in [Callers -> Keys \cup {NoKey}]
    /\ cancelled \subseteq Callers
    /\ outcome \in [Callers -> Outcomes]
    /\ joinedRunning \subseteq Callers

Init ==
    /\ inflight = [k \in Keys |-> NoFut]
    /\ fut = [c \in Callers |-> "none"]
    /\ pc = [c \in Callers |-> "idle"]
    /\ waitsOn = [c \in Callers |-> NoFut]
    /\ key = [c \in Callers |-> NoKey]
    /\ cancelled = {}
    /\ outcome = [c \in Callers |-> "none"]
    /\ joinedRunning = {}

-----------------------------------------------------------------------------
(* run(): under the lock, look the key up; the first caller creates the     *)
(* future and goes on to compute, the others await that future.             *)
Lead(c, k) ==
    /\ pc[c] = "idle"
    /\ inflight[k] = NoFut
    /\ inflight' = [inflight EXCEPT ![k] = c]
    /\ fut' = [fut EXCEPT ![c] = "pending"]
    /\ pc' = [pc EXCEPT ![c] = "computing"]
    /\ key' = [key EXCEPT ![c] = k]
    /\ UNCHANGED <<waitsOn, cancelled, outcome, joinedRunning>>

Follow(c, k) ==
    /\ pc[c] = "idle"
    /\ inflight[k] # NoFut
    /\ waitsOn' = [waitsOn EXCEPT ![c] = inflight[k]]
    /\ pc' = [pc EXCEPT ![c] = "following"]
    /\ key' = [key EXCEPT ![c] = k]
    /\ joinedRunning' = IF pc[inflight[k]] = "computing"
                        THEN joinedRunning \cup {c} ELSE joinedRunning
    /\ UNCHANGED <<inflight, fut, cancelled, outcome>>

(* Mutant of Drop: no finally clause. *)
DropNever(c) == UNCHANGED inflight

(* finally: drop the entry, only if it is still this leader's future. *)
Drop(c) ==
    inflight' = [inflight EXCEPT ![key[c]] = IF @ = c THEN NoFut ELSE @]

(* Mutant of Settle: a failure is raised and not put into the future. *)
SettleSilently(c, r) ==
    /\ pc[c] = "computing"
    /\ r = "cancelled" <=> c \in cancelled
    /\ pc' = [pc EXCEPT ![c] = "ended"]
    /\ fut' = [fut EXCEPT ![c] = IF r = "result" THEN "result" ELSE @]
    /\ outcome' = [outcome EXCEPT ![c] = r]
    /\ Drop(c)
    /\ UNCHANGED <<waitsOn, key, cancelled, joinedRunning>>

(* The computation of leader c ends with r: a result, an exception, or the  *)
(* CancelledError thrown into it.  Settling a future that is already done   *)
(* raises InvalidStateError, which is then how run() ends; the clause       *)
(* `finally` runs in every case.                                            *)
Settle(c, r) ==
    /\ pc[c] = "computing"
    /\ r = "cancelled" <=> c \in cancelled
    /\ pc' = [pc EXCEPT ![c] = "ended"]
    /\ IF fut[c] = "pending"
       THEN /\ fut' = [fut EXCEPT ![c] = IF r = "result" THEN "result" ELSE "exception"]
            /\ outcome' = [outcome EXCEPT ![c] = r]
       ELSE /\ outcome' = [outcome EXCEPT ![c] = "invalid_state"]
            /\ fut' = fut
    /\ Drop(c)
    /\ UNCHANGED <<waitsOn, key, cancelled, joinedRunning>>

(* Mutant of Resume: the finally clause is shared by the followers. *)
ResumeDrops(c) ==
    /\ pc[c] = "following"
    /\ fut[waitsOn[c]] # "pending"
    /\ pc' = [pc EXCEPT ![c] = "ended"]
    /\ outcome' = [outcome EXCEPT ![c] =
          IF c \in cancelled THEN "cancelled" ELSE fut[waitsOn[c]]]
    /\ inflight' = [inflight EXCEPT ![key[c]] = NoFut]
    /\ UNCHANGED <<fut, waitsOn, key, cancelled, joinedRunning>>

(* The event loop resumes a follower whose future is done. *)
Resume(c) ==
    /\ pc[c] = "following"
    /\ fut[waitsOn[c]] # "pending"
    /\ pc' = [pc EXCEPT ![c] = "ended"]
    /\ outcome' = [outcome EXCEPT ![c] =
          IF c \in cancelled THEN "cancelled" ELSE fut[waitsOn[c]]]
    /\ UNCHANGED <<inflight, fut, waitsOn, key, cancelled, joinedRunning>>

(* task.cancel(): a task awaiting a pending future cancels that future      *)
(* itself, and `await fut` awaits the shared one, without a shield.         *)
Cancel(c) ==
    /\ c \in Cancellable \ cancelled
    /\ pc[c] \in {"computing", "following"}
    /\ cancelled' = cancelled \cup {c}
    /\ fut' = IF pc[c] = "following" /\ fut[waitsOn[c]] = "pending"
              THEN [fut EXCEPT ![waitsOn[c]] = "cancelled"] ELSE fut
    /\ UNCHANGED <<inflight, pc, waitsOn, key, outcome, joinedRunning>>

Finished == (\A c \in Callers : pc[c] = "ended") /\ UNCHANGED vars

Next ==
    \/ \E c \in Callers, k \in Keys : Lead(c, k) \/ Follow(c, k)
    \/ \E c \in Callers, r \in {"result", "exception", "cancelled"} : Settle(c, r)
    \/ \E c \in Callers : Resume(c) \/ Cancel(c)
    \/ Finished

(* The event loop runs every ready task, and every computation ends. *)
Fairness ==
    \A c \in Callers :
        /\ WF_vars(\E r \in {"result", "exception", "cancelled"} : Settle(c, r))
        /\ WF_vars(Resume(c))

Spec == Init /\ [][Next]_vars /\ Fairness

-----------------------------------------------------------------------------
(* The herd is mitigated: two calls never compute the same key at once,     *)
(* whichever callers were cancelled in the meantime.                        *)
OneComputationPerKey ==
    \A c, d \in Callers :
        pc[c] = "computing" /\ pc[d] = "computing" /\ key[c] = key[d] => c = d

(* Nobody is answered from a call that had already ended when he called:    *)
(* "once the first call completes, the entry is dropped".                   *)
NoStaleAnswer ==
    \A c \in Callers : waitsOn[c] # NoFut => c \in joinedRunning

(* As long as nobody is cancelled, a caller ends as the call he shares      *)
(* ended: the exception of a failed call reaches every waiter.              *)
SharedOutcome ==
    \A c \in Callers :
        pc[c] = "ended" /\ waitsOn[c] # NoFut /\ cancelled = {} =>
            /\ outcome[c] \in {"result", "exception"}
            /\ outcome[c] = "result" <=> outcome[waitsOn[c]] = "result"

(* A failure or a cancellation of the leader leaves no waiter hanging. *)
EveryCallEnds == \A c \in Callers : pc[c] # "idle" ~> pc[c] = "ended"
=============================================================================
