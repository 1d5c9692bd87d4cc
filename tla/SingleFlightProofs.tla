------------------------- MODULE SingleFlightProofs -------------------------
(* Theorems about SingleFlight for any number of callers and keys, whoever  *)
(* is cancelled.                                                            *)
EXTENDS SingleFlight, TLAPS

(* The entry of a key is the call that computes it, and a computing call    *)
(* has an entry: `finally` drops the entry in the step that ends the call.  *)
EntryComputes ==
    /\ \A k \in Keys : inflight[k] # NoFut =>
          pc[inflight[k]] = "computing" /\ key[inflight[k]] = k
    /\ \A c \in Callers : pc[c] = "computing" =>
          key[c] \in Keys /\ inflight[key[c]] = c

(* Followers wait for leaders, which wait for nobody.                       *)
FollowersOfLeaders ==
    \A c \in Callers :
        /\ pc[c] \in {"idle", "computing"} => waitsOn[c] = NoFut
        /\ pc[c] = "following" => waitsOn[c] # NoFut
        /\ waitsOn[c] # NoFut =>
              waitsOn[waitsOn[c]] = NoFut /\ pc[waitsOn[c]] \in {"computing", "ended"}

(* Until somebody is cancelled, a future is settled as its leader ended,    *)
(* when he ends, and so do his followers.                                   *)
SettledAsEnded ==
    cancelled = {} =>
        \A c \in Callers :
            /\ waitsOn[c] = NoFut /\ pc[c] = "computing" => fut[c] = "pending"
            /\ waitsOn[c] = NoFut /\ pc[c] = "ended" =>
                  outcome[c] \in {"result", "exception"} /\ fut[c] = outcome[c]
            /\ waitsOn[c] # NoFut /\ pc[c] = "ended" =>
                  pc[waitsOn[c]] = "ended" /\ outcome[c] = fut[waitsOn[c]]

(* The inductive invariant of SingleFlight.run. *)
FlightInv ==
    /\ TypeOK
    /\ EntryComputes
    /\ FollowersOfLeaders
    /\ NoStaleAnswer
    /\ SettledAsEnded

LEMMA FlightInit == Init => FlightInv
BY NoneAssumption
   DEF Init, FlightInv, TypeOK, EntryComputes, FollowersOfLeaders, NoStaleAnswer, SettledAsEnded,
       Pcs, FutStatuses, Outcomes

LEMMA TypeStep == TypeOK /\ FollowersOfLeaders /\ [Next]_vars => TypeOK'
<1> SUFFICES ASSUME TypeOK, FollowersOfLeaders, [Next]_vars PROVE TypeOK'
    OBVIOUS
<1> USE DEF TypeOK, Pcs, FutStatuses, Outcomes
<1>1. ASSUME NEW c \in Callers, NEW k \in Keys, Lead(c, k) PROVE TypeOK'
    BY <1>1 DEF Lead
<1>2. ASSUME NEW c \in Callers, NEW k \in Keys, Follow(c, k) PROVE TypeOK'
    BY <1>2 DEF Follow
<1>3. ASSUME NEW c \in Callers, NEW r \in {"result", "exception", "cancelled"}, Settle(c, r)
      PROVE  TypeOK'
    BY <1>3 DEF Settle, Drop
<1>4. ASSUME NEW c \in Callers, Resume(c) PROVE TypeOK'
    <2>1. fut[waitsOn[c]] \in FutStatuses /\ fut[waitsOn[c]] # "pending"
        BY <1>4 DEF Resume, FollowersOfLeaders
    <2>2. \A d \in Callers : outcome'[d] \in Outcomes
        BY <1>4, <2>1 DEF Resume
    <2> QED
        BY <1>4, <2>2 DEF Resume
<1>5. ASSUME NEW c \in Callers, Cancel(c) PROVE TypeOK'
    BY <1>5 DEF Cancel
<1>6. CASE UNCHANGED vars
    BY <1>6 DEF vars
<1> QED
    BY <1>1, <1>2, <1>3, <1>4, <1>5, <1>6 DEF Next, Finished

LEMMA EntryStep == TypeOK /\ EntryComputes /\ [Next]_vars => EntryComputes'
<1> SUFFICES ASSUME TypeOK, EntryComputes, [Next]_vars PROVE EntryComputes'
    OBVIOUS
<1> USE NoneAssumption DEF TypeOK, EntryComputes
<1>1. ASSUME NEW c \in Callers, NEW k \in Keys, Lead(c, k) PROVE EntryComputes'
    BY <1>1 DEF Lead
<1>2. ASSUME NEW c \in Callers, NEW k \in Keys, Follow(c, k) PROVE EntryComputes'
    BY <1>2 DEF Follow
<1>3. ASSUME NEW c \in Callers, NEW r \in {"result", "exception", "cancelled"}, Settle(c, r)
      PROVE  EntryComputes'
    BY <1>3 DEF Settle, Drop
<1>4. ASSUME NEW c \in Callers, Resume(c) \/ Cancel(c) PROVE EntryComputes'
    BY <1>4 DEF Resume, Cancel
<1>5. CASE UNCHANGED vars
    BY <1>5 DEF vars
<1> QED
    BY <1>1, <1>2, <1>3, <1>4, <1>5 DEF Next, Finished

LEMMA FollowersStep ==
    TypeOK /\ EntryComputes /\ FollowersOfLeaders /\ NoStaleAnswer /\ [Next]_vars
    => FollowersOfLeaders' /\ NoStaleAnswer'
<1> SUFFICES ASSUME TypeOK, EntryComputes, FollowersOfLeaders, NoStaleAnswer, [Next]_vars
             PROVE  FollowersOfLeaders' /\ NoStaleAnswer'
    OBVIOUS
<1> USE NoneAssumption DEF TypeOK, FollowersOfLeaders, NoStaleAnswer
<1>1. ASSUME NEW c \in Callers, NEW k \in Keys, Lead(c, k)
      PROVE  FollowersOfLeaders' /\ NoStaleAnswer'
    BY <1>1 DEF Lead
<1>2. ASSUME NEW c \in Callers, NEW k \in Keys, Follow(c, k)
      PROVE  FollowersOfLeaders' /\ NoStaleAnswer'
    <2>1. /\ inflight[k] \in Callers /\ inflight[k] # c
          /\ pc[inflight[k]] = "computing" /\ waitsOn[inflight[k]] = NoFut
        BY <1>2 DEF Follow, EntryComputes
    <2> QED
        BY <1>2, <2>1 DEF Follow
<1>3. ASSUME NEW c \in Callers, NEW r \in {"result", "exception", "cancelled"}, Settle(c, r)
      PROVE  FollowersOfLeaders' /\ NoStaleAnswer'
    BY <1>3 DEF Settle
<1>4. ASSUME NEW c \in Callers, Resume(c)
      PROVE  FollowersOfLeaders' /\ NoStaleAnswer'
    BY <1>4 DEF Resume
<1>5. ASSUME NEW c \in Callers, Cancel(c)
      PROVE  FollowersOfLeaders' /\ NoStaleAnswer'
    BY <1>5 DEF Cancel
<1>6. CASE UNCHANGED vars
    BY <1>6 DEF vars
<1> QED
    BY <1>1, <1>2, <1>3, <1>4, <1>5, <1>6 DEF Next, Finished

LEMMA SettledStep ==
    TypeOK /\ EntryComputes /\ FollowersOfLeaders /\ SettledAsEnded /\ [Next]_vars
    => SettledAsEnded'
<1> SUFFICES ASSUME TypeOK, EntryComputes, FollowersOfLeaders, SettledAsEnded, [Next]_vars,
                    cancelled' = {}
             PROVE  SettledAsEnded'
    BY DEF SettledAsEnded
<1> USE NoneAssumption DEF TypeOK, FollowersOfLeaders, SettledAsEnded
<1>1. ASSUME NEW c \in Callers, NEW k \in Keys, Lead(c, k) PROVE SettledAsEnded'
    BY <1>1 DEF Lead
<1>2. ASSUME NEW c \in Callers, NEW k \in Keys, Follow(c, k) PROVE SettledAsEnded'
    <2>1. inflight[k] # NoFut /\ inflight[k] # c /\ pc[inflight[k]] = "computing"
        BY <1>2 DEF Follow, EntryComputes
    <2> QED
        BY <1>2, <2>1 DEF Follow
<1>3. ASSUME NEW c \in Callers, NEW r \in {"result", "exception", "cancelled"}, Settle(c, r)
      PROVE  SettledAsEnded'
    <2>1. cancelled = {} /\ r \in {"result", "exception"}
        BY <1>3 DEF Settle
    <2>2. waitsOn[c] = NoFut /\ fut[c] = "pending"
        BY <1>3, <2>1 DEF Settle
    <2> QED
        BY <1>3, <2>1, <2>2 DEF Settle
<1>4. ASSUME NEW c \in Callers, Resume(c) PROVE SettledAsEnded'
    <2>1. cancelled = {} /\ waitsOn[c] # NoFut
        BY <1>4 DEF Resume
    <2>2. pc[waitsOn[c]] = "ended" /\ waitsOn[c] # c
        BY <1>4, <2>1 DEF Resume
    <2> QED
        BY <1>4, <2>1, <2>2 DEF Resume
<1>5. ASSUME NEW c \in Callers, Cancel(c) PROVE FALSE
    BY <1>5 DEF Cancel
<1>6. CASE UNCHANGED vars
    BY <1>6 DEF vars
<1> QED
    BY <1>1, <1>2, <1>3, <1>4, <1>5, <1>6 DEF Next, Finished

(* The inductive invariant holds whatever the callers do and whoever is     *)
(* cancelled at whatever await.                                             *)
THEOREM FlightInvariant == Spec => []FlightInv
<1>1. FlightInv /\ [Next]_vars => FlightInv'
    BY TypeStep, EntryStep, FollowersStep, SettledStep DEF FlightInv
<1> QED
    BY <1>1, FlightInit, PTL DEF Spec

(* run() never computes a key twice at a time, for any number of callers.   *)
THEOREM HerdMitigated == Spec => []OneComputationPerKey
<1>1. FlightInv => OneComputationPerKey
    BY DEF FlightInv, EntryComputes, OneComputationPerKey
<1> QED
    BY <1>1, FlightInvariant, PTL

(* Nobody is answered by run() from a call that was over when he called.    *)
THEOREM AnswersFresh == Spec => []NoStaleAnswer
<1>1. FlightInv => NoStaleAnswer
    BY DEF FlightInv
<1> QED
    BY <1>1, FlightInvariant, PTL

(* As long as nobody is cancelled, every waiter ends as its leader ended.   *)
THEOREM OutcomeShared == Spec => []SharedOutcome
<1>1. FlightInv => SharedOutcome
    BY DEF FlightInv, TypeOK, FollowersOfLeaders, SettledAsEnded, SharedOutcome
<1> QED
    BY <1>1, FlightInvariant, PTL
=============================================================================
