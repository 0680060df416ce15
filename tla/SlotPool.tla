------------------------------ MODULE SlotPool ------------------------------
(***************************************************************************)
(* What the request scheduler promises to the HTTP handlers, without any   *)
(* counter, lock or condition variable: a bounded set of slot holders, a   *)
(* set of requests waiting for a slot, a limit that the configuration may  *)
(* change at any time, and a gate that shutdown closes for good.           *)
(* RequestScheduler implements this specification.                         *)
(***************************************************************************)
EXTENDS Integers, FiniteSets

CONSTANTS Requests,     \* request tasks
          Limits        \* values max_concurrent may take; -1 means unlimited

VARIABLES holders,      \* requests that own a slot
          waiters,      \* admitted requests that own none yet
          limit,        \* max_concurrent in force
          closed        \* shutdown has begun: nobody is admitted any more

vars == <<holders, waiters, limit, closed>>

Free == limit = -1 \/ Cardinality(holders) < limit

Init == /\ holders = {} /\ waiters = {}
        /\ limit \in Limits
        /\ closed = FALSE

(* A request is admitted straight into a free slot, or queued. *)
Start(r) == /\ ~closed /\ Free
            /\ r \notin holders \cup waiters
            /\ holders' = holders \cup {r}
            /\ UNCHANGED <<waiters, limit, closed>>

Queue(r) == /\ ~closed /\ ~Free
            /\ r \notin holders \cup waiters
            /\ waiters' = waiters \cup {r}
            /\ UNCHANGED <<holders, limit, closed>>

Grant(r) == /\ r \in waiters /\ Free
            /\ waiters' = waiters \ {r}
            /\ holders' = holders \cup {r}
            /\ UNCHANGED <<limit, closed>>

(* A holder returns its slot. *)
Leave(r) == /\ r \in holders
            /\ holders' = holders \ {r}
            /\ UNCHANGED <<waiters, limit, closed>>

(* Waiting requests are cancelled, possibly several in one step. *)
GiveUp(R) == /\ R \subseteq waiters /\ R # {}
             /\ waiters' = waiters \ R
             /\ UNCHANGED <<holders, limit>>

Resize(l) == /\ limit' = l
             /\ UNCHANGED <<holders, waiters, closed>>

Close == closed' = TRUE

Next == \/ \E r \in Requests : Start(r) \/ Queue(r) \/ Grant(r) \/ Leave(r)
        \/ \E R \in SUBSET Requests : GiveUp(R) /\ (UNCHANGED closed \/ Close)
        \/ \E l \in Limits : Resize(l)
        \/ Close /\ UNCHANGED <<holders, waiters, limit>>

(* A slot that stays free while somebody waits is eventually handed out. *)
Spec == Init /\ [][Next]_vars /\ WF_vars(\E r \in Requests : Grant(r))
=============================================================================
