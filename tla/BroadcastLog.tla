---------------------------- MODULE BroadcastLog ----------------------------
(* What the realtime bridge promises (api/app/realtime/streams.py, lines 8  *)
(* and 48-49): one log for all processes, and "every process receives every *)
(* event independently", in the order of the log, from the moment it        *)
(* attached: each reader reads the log one entry after the other and        *)
(* never skips or repeats an entry; no entry is appended twice.             *)
EXTENDS Naturals, Sequences

CONSTANTS Readers, Entries

VARIABLES
    log,       \* all entries, in the order everybody sees them
    attached,  \* the readers that are attached
    position   \* how far each reader has read

vars == <<log, attached, position>>

Init ==
    /\ log = <<>>
    /\ attached = {}
    /\ position = [r \in Readers |-> 0]

Publish(e) ==
    /\ \A n \in 1 .. Len(log) : log[n] # e
    /\ log' = Append(log, e)
    /\ UNCHANGED <<attached, position>>

(* A reader starts at the end of the log. *)
Attach(r) ==
    /\ r \notin attached
    /\ attached' = attached \cup {r}
    /\ position' = [position EXCEPT ![r] = Len(log)]
    /\ UNCHANGED log

Read(r) ==
    /\ r \in attached
    /\ position[r] < Len(log)
    /\ position' = [position EXCEPT ![r] = @ + 1]
    /\ UNCHANGED <<log, attached>>

Detach(r) ==
    /\ r \in attached
    /\ attached' = attached \ {r}
    /\ UNCHANGED <<log, position>>

Next ==
    \/ \E e \in Entries : Publish(e)
    \/ \E r \in Readers : Attach(r) \/ Read(r) \/ Detach(r)

Spec == Init /\ [][Next]_vars
=============================================================================
