----------------------- MODULE RequestSchedulerProofs -----------------------
(***************************************************************************)
(* For every set of requests and every set of limits: the counters of the  *)
(* scheduler are exact, the drain reaches every stream, wait_idle's        *)
(* verdict is final, only a raised limit leaves a waiter asleep beside a   *)
(* free slot, and every step is a step of SlotPool.                        *)
(***************************************************************************)
EXTENDS RequestScheduler, FiniteSetTheorems, TLAPS

-----------------------------------------------------------------------------
(* Sets of requests selected by control state are finite. *)
LEMMA AtFinite == \A S : IsFiniteSet(At(S)) /\ Cardinality(At(S)) \in Nat
<1> TAKE S
<1>1. At(S) \in SUBSET Requests
  BY DEF At
<1>2. IsFiniteSet(At(S))
  BY <1>1, FS_Subset, RequestsAssumption
<1> QED
  BY <1>2, FS_CardinalityType

(* What NotifyAll and Cancel return. *)
LEMMA NotifyAllType ==
  ASSUME NEW p \in [Requests -> PCs]
  PROVE  /\ NotifyAll(p) \in [Requests -> PCs]
         /\ \A r \in Requests :
              /\ NotifyAll(p)[r] # "waiting"
              /\ p[r] # "waiting" => NotifyAll(p)[r] = p[r]
              /\ p[r] = "waiting" => NotifyAll(p)[r] = "notified"
  BY DEF NotifyAll, PCs

LEMMA CancelType ==
  ASSUME TypeOK, NEW R
  PROVE  /\ Cancel(R) \in [Requests -> PCs]
         /\ \A r \in Requests \ R : Cancel(R)[r] = pc[r]
         /\ \A r \in Requests \cap R :
              /\ pc[r] \in {"waiting", "notified"} => Cancel(R)[r] = "cancelled"
              /\ pc[r] = "running" => Cancel(R)[r] = "stopping"
              /\ pc[r] = "reading" => Cancel(R)[r] = "idle"
              /\ pc[r] \in {"idle", "cancelled", "stopping"} => Cancel(R)[r] = pc[r]
  BY DEF Cancel, TypeOK, PCs

(* A cancellation moves no request in or out, and gives nobody a slot. *)
LEMMA CancelKeepsSets ==
  ASSUME TypeOK, NEW R, pc' = Cancel(R)
  PROVE  Holders' = Holders /\ Inside' = Inside
  BY CancelType DEF Holders, Inside, At, TypeOK, PCs

-----------------------------------------------------------------------------
(* TypeOK is inductive. *)
LEMMA TypeStep == TypeOK /\ [Next]_vars => TypeOK'
<1> SUFFICES ASSUME TypeOK, [Next]_vars PROVE TypeOK'
  OBVIOUS
<1> USE DEF TypeOK
<1>1. ASSUME NEW r \in Requests, RequestStep(r) PROVE TypeOK'
  <2>1. CASE Receive(r)
    BY <2>1 DEF Receive, PCs
  <2>2. CASE Refuse(r)
    BY <2>2 DEF Refuse, PCs
  <2>3. CASE Reject(r)
    BY <2>3 DEF Reject, PCs
  <2>4. CASE Admit(r)
    BY <2>4 DEF Admit, PCs
  <2>5. CASE Resume(r)
    BY <2>5 DEF Resume, PCs
  <2>6. CASE Unwind(r)
    BY <2>6 DEF Unwind, PCs, Less
  <2>7. CASE Finish(r)
    <3>1. [pc EXCEPT ![r] = "idle"] \in [Requests -> PCs]
      BY DEF PCs
    <3>2. pc' \in [Requests -> PCs]
      BY <2>7, <3>1, NotifyAllType DEF Finish
    <3>3. active' \in Nat /\ pending' \in Nat
      BY <2>7 DEF Finish, Less
    <3>4. tracked' \subseteq Streaming /\ UNCHANGED <<limit, queueLimit, wakeQueued, closing, phase>>
      BY <2>7 DEF Finish
    <3> QED
      BY <3>2, <3>3, <3>4
  <2>8. CASE CancelTask(r)
    BY <2>8, CancelType DEF CancelTask
  <2> QED
    BY <1>1, <2>1, <2>2, <2>3, <2>4, <2>5, <2>6, <2>7, <2>8 DEF RequestStep
<1>2. ASSUME NEW l \in Limits, NEW q \in QueueLimits, ReloadLimits(l, q)
      PROVE  TypeOK'
  BY <1>2, ReloadAssumption DEF ReloadLimits
<1>3. CASE WakeForConfig
  BY <1>3, NotifyAllType DEF WakeForConfig
<1>4. CASE RequestShutdown
  BY <1>4 DEF RequestShutdown, Phases
<1>5. CASE BeginDrain
  BY <1>5, CancelType DEF BeginDrain, Phases
<1>6. CASE DrainedIdle
  BY <1>6 DEF DrainedIdle, Phases
<1>7. CASE DrainTimeout
  BY <1>7, CancelType DEF DrainTimeout, Phases
<1>8. CASE CancelLeftover
  BY <1>8, CancelType DEF CancelLeftover, Phases
<1>9. CASE UNCHANGED vars
  BY <1>9 DEF vars
<1> QED
  BY <1>1, <1>2, <1>3, <1>4, <1>5, <1>6, <1>7, <1>8, <1>9 DEF Next, ShutdownStep

LEMMA TypeInit == Init => TypeOK
<1> SUFFICES ASSUME Init PROVE TypeOK
  OBVIOUS
<1>1. pc \in [Requests -> PCs] /\ phase \in Phases
  BY DEF Init, PCs, Phases
<1>2. active \in Nat /\ pending \in Nat /\ tracked \subseteq Streaming
  BY DEF Init
<1>3. wakeQueued \in BOOLEAN /\ closing \in BOOLEAN
  BY Zenon DEF Init
<1> QED
  BY <1>1, <1>2, <1>3 DEF Init, TypeOK

(* Every reachable state is well typed. *)
THEOREM TypeCorrect == Spec => []TypeOK
  BY TypeInit, TypeStep, PTL DEF Spec

-----------------------------------------------------------------------------
(* The counters move with the sets they count. *)
LEMMA AccountingStep ==
  TypeOK /\ SlotAccounting /\ [Next]_vars => SlotAccounting'
<1> SUFFICES ASSUME TypeOK, SlotAccounting, [Next]_vars PROVE SlotAccounting'
  OBVIOUS
<1>fin. /\ IsFiniteSet(Holders) /\ Cardinality(Holders) \in Nat
        /\ IsFiniteSet(Inside) /\ Cardinality(Inside) \in Nat
  BY AtFinite DEF Holders, Inside
<1>same. ASSUME Holders' = Holders, Inside' = Inside, UNCHANGED <<active, pending>>
         PROVE  SlotAccounting'
  BY <1>same DEF SlotAccounting
<1>1. ASSUME NEW r \in Requests, RequestStep(r) PROVE SlotAccounting'
  <2>1. CASE Receive(r) \/ Refuse(r) \/ Reject(r)
    <3>1. Holders' = Holders /\ Inside' = Inside /\ UNCHANGED <<active, pending>>
      BY <2>1 DEF Receive, Refuse, Reject, Holders, Inside, At, TypeOK
    <3> QED
      BY <3>1, <1>same
  <2>2. CASE Admit(r)
    <3>1. r \notin Holders /\ r \notin Inside
      BY <2>2 DEF Admit, Holders, Inside, At
    <3>2. Inside' = Inside \cup {r} /\ pending' = pending + 1
      BY <2>2 DEF Admit, Inside, At, TypeOK
    <3>3. CASE HasRoom
      <4>1. Holders' = Holders \cup {r} /\ active' = active + 1
        BY <2>2, <3>3 DEF Admit, Holders, At, TypeOK
      <4> QED
        BY <3>1, <3>2, <4>1, <1>fin, FS_AddElement DEF SlotAccounting
    <3>4. CASE ~HasRoom
      <4>1. Holders' = Holders /\ active' = active
        BY <2>2, <3>4 DEF Admit, Holders, At, TypeOK
      <4> QED
        BY <3>1, <3>2, <4>1, <1>fin, FS_AddElement DEF SlotAccounting
    <3> QED
      BY <3>3, <3>4
  <2>3. CASE Resume(r)
    <3>1. r \notin Holders /\ Inside' = Inside /\ pending' = pending
      BY <2>3 DEF Resume, Holders, Inside, At, TypeOK
    <3>2. CASE HasRoom
      <4>1. Holders' = Holders \cup {r} /\ active' = active + 1
        BY <2>3, <3>2 DEF Resume, Holders, At, TypeOK
      <4> QED
        BY <3>1, <4>1, <1>fin, FS_AddElement DEF SlotAccounting
    <3>3. CASE ~HasRoom
      <4>1. Holders' = Holders /\ active' = active
        BY <2>3, <3>3 DEF Resume, Holders, At, TypeOK
      <4> QED
        BY <3>1, <4>1 DEF SlotAccounting
    <3> QED
      BY <3>2, <3>3
  <2>4. CASE Unwind(r)
    <3>1. r \in Inside /\ Inside' = Inside \ {r} /\ Holders' = Holders
      BY <2>4 DEF Unwind, Holders, Inside, At, TypeOK
    <3>2. Cardinality(Inside') = pending - 1 /\ pending - 1 \in Nat
      <4>1. IsFiniteSet(Inside') /\ Cardinality(Inside') = Cardinality(Inside) - 1
        BY <3>1, <1>fin, FS_RemoveElement
      <4>2. Cardinality(Inside') \in Nat
        BY <4>1, FS_CardinalityType
      <4> QED
        BY <4>1, <4>2 DEF SlotAccounting
    <3> QED
      BY <2>4, <3>1, <3>2 DEF Unwind, Less, SlotAccounting, TypeOK
  <2>5. CASE Finish(r)
    <3> DEFINE p == [pc EXCEPT ![r] = "idle"]
    <3>0. p \in [Requests -> PCs] /\ p[r] = "idle" /\ \A q \in Requests \ {r} : p[q] = pc[q]
      BY DEF TypeOK, PCs
    <3>a. pc' = NotifyAll(p)
      BY <2>5 DEF Finish
    <3>b. /\ \A q \in Requests : p[q] # "waiting" => pc'[q] = p[q]
          /\ \A q \in Requests : p[q] = "waiting" => pc'[q] = "notified"
      BY <3>0, <3>a, NotifyAllType
    <3>1. r \in Inside /\ r \in Holders
      BY <2>5 DEF Finish, Holders, Inside, At
    <3>2. Inside' = Inside \ {r} /\ Holders' = Holders \ {r}
      BY <3>0, <3>b DEF Holders, Inside, At
    <3>3. Cardinality(Inside') = pending - 1 /\ pending - 1 \in Nat
      <4>1. IsFiniteSet(Inside') /\ Cardinality(Inside') = Cardinality(Inside) - 1
        BY <3>1, <3>2, <1>fin, FS_RemoveElement
      <4>2. Cardinality(Inside') \in Nat
        BY <4>1, FS_CardinalityType
      <4> QED
        BY <4>1, <4>2 DEF SlotAccounting
    <3>4. Cardinality(Holders') = active - 1 /\ active - 1 \in Nat
      <4>1. IsFiniteSet(Holders') /\ Cardinality(Holders') = Cardinality(Holders) - 1
        BY <3>1, <3>2, <1>fin, FS_RemoveElement
      <4>2. Cardinality(Holders') \in Nat
        BY <4>1, FS_CardinalityType
      <4> QED
        BY <4>1, <4>2 DEF SlotAccounting
    <3> QED
      BY <2>5, <3>3, <3>4 DEF Finish, Less, SlotAccounting, TypeOK
  <2>6. CASE CancelTask(r)
    BY <2>6, CancelKeepsSets, <1>same DEF CancelTask
  <2> QED
    BY <1>1, <2>1, <2>2, <2>3, <2>4, <2>5, <2>6 DEF RequestStep
<1>2. ASSUME NEW l \in Limits, NEW q \in QueueLimits, ReloadLimits(l, q)
      PROVE  SlotAccounting'
  BY <1>2, <1>same DEF ReloadLimits, Holders, Inside, At
<1>3. CASE WakeForConfig
  <2>1. Holders' = Holders /\ Inside' = Inside
    BY <1>3, NotifyAllType DEF WakeForConfig, Holders, Inside, At, TypeOK
  <2> QED
    BY <1>3, <2>1, <1>same DEF WakeForConfig
<1>4. CASE RequestShutdown \/ DrainedIdle
  BY <1>4, <1>same DEF RequestShutdown, DrainedIdle, Holders, Inside, At
<1>5. CASE BeginDrain
  BY <1>5, CancelKeepsSets, <1>same DEF BeginDrain
<1>6. CASE DrainTimeout
  BY <1>6, CancelKeepsSets, <1>same DEF DrainTimeout
<1>7. CASE CancelLeftover
  BY <1>7, CancelKeepsSets, <1>same DEF CancelLeftover
<1>8. CASE UNCHANGED vars
  BY <1>8, <1>same DEF vars, Holders, Inside, At
<1> QED
  BY <1>1, <1>2, <1>3, <1>4, <1>5, <1>6, <1>7, <1>8 DEF Next, ShutdownStep

LEMMA AccountingInit == Init => SlotAccounting
<1> SUFFICES ASSUME Init PROVE SlotAccounting
  OBVIOUS
<1>1. Holders = {} /\ Inside = {}
  BY DEF Init, Holders, Inside, At
<1> QED
  BY <1>1, FS_EmptySet DEF Init, SlotAccounting

(* active and pending count the holders and the admitted requests exactly. *)
THEOREM AccountingCorrect == Spec => []SlotAccounting
<1>1. TypeOK /\ SlotAccounting /\ [Next]_vars => (TypeOK /\ SlotAccounting)'
  BY TypeStep, AccountingStep
<1>2. Init => TypeOK /\ SlotAccounting
  BY TypeInit, AccountingInit
<1> QED
  BY <1>1, <1>2, PTL DEF Spec

-----------------------------------------------------------------------------
(***************************************************************************)
(* The drain.  DrainReachesStreams is not inductive: it needs to know that *)
(* a stream inside the system is tracked as long as the drain has not      *)
(* begun, and IdleVerdictStable that every phase of the drain is closed.   *)
(***************************************************************************)
Uncancelled == At({"waiting", "notified", "running"})

DrainInv ==
  /\ phase \in {"draining", "idle", "forced"} => closing
  /\ ~closing => Streaming \cap Uncancelled \subseteq tracked
  /\ DrainReachesStreams
  /\ IdleVerdictStable

LEMMA DrainStep ==
  TypeOK /\ SlotAccounting /\ DrainInv /\ [Next]_vars => DrainInv'
<1> SUFFICES ASSUME TypeOK, SlotAccounting, DrainInv, [Next]_vars PROVE DrainInv'
  OBVIOUS
<1> USE DEF DrainInv, DrainReachesStreams, IdleVerdictStable
<1>1. ASSUME NEW r \in Requests, RequestStep(r) PROVE DrainInv'
  <2>1. CASE Receive(r) \/ Refuse(r) \/ Reject(r) \/ Unwind(r)
    <3>1. /\ UNCHANGED <<phase, closing>>
          /\ Uncancelled' \subseteq Uncancelled /\ Inside' \subseteq Inside
          /\ tracked \cap Uncancelled' \subseteq tracked'
      BY <2>1 DEF Receive, Refuse, Reject, Unwind, Uncancelled, Inside, At, TypeOK
    <3> QED
      BY <3>1 DEF Uncancelled
  <2>2. CASE Admit(r)
    <3>1. /\ ~closing /\ UNCHANGED <<phase, closing>>
          /\ Uncancelled' \subseteq Uncancelled \cup {r}
          /\ tracked' = IF r \in Streaming THEN tracked \cup {r} ELSE tracked
      BY <2>2 DEF Admit, Uncancelled, At, TypeOK
    <3> QED
      BY <3>1 DEF Uncancelled
  <2>3. CASE Resume(r)
    <3>1. /\ UNCHANGED <<phase, closing, tracked>>
          /\ Uncancelled' = Uncancelled /\ Inside' = Inside
      BY <2>3 DEF Resume, Uncancelled, Inside, At, TypeOK
    <3> QED
      BY <3>1 DEF Uncancelled
  <2>4. CASE Finish(r)
    <3> DEFINE p == [pc EXCEPT ![r] = "idle"]
    <3>0. p \in [Requests -> PCs] /\ p[r] = "idle" /\ \A q \in Requests \ {r} : p[q] = pc[q]
      BY DEF TypeOK, PCs
    <3>a. pc' = NotifyAll(p)
      BY <2>4 DEF Finish
    <3>b. /\ \A q \in Requests : p[q] # "waiting" => pc'[q] = p[q]
          /\ \A q \in Requests : p[q] = "waiting" => pc'[q] = "notified"
      BY <3>0, <3>a, NotifyAllType
    <3>1. Uncancelled' \subseteq Uncancelled \ {r} /\ Inside' \subseteq Inside
      BY <3>0, <3>b DEF Uncancelled, Inside, At
    <3>2. UNCHANGED <<phase, closing>> /\ tracked' = tracked \ {r}
      BY <2>4 DEF Finish
    <3> QED
      BY <3>1, <3>2 DEF Uncancelled
  <2>5. CASE CancelTask(r)
    <3>1. UNCHANGED <<phase, closing, tracked>> /\ Inside' = Inside
      BY <2>5, CancelKeepsSets DEF CancelTask
    <3>2. Uncancelled' \subseteq Uncancelled
      BY <2>5, CancelType DEF CancelTask, Uncancelled, At, TypeOK, PCs
    <3> QED
      BY <3>1, <3>2 DEF Uncancelled
  <2> QED
    BY <1>1, <2>1, <2>2, <2>3, <2>4, <2>5 DEF RequestStep
<1>2. ASSUME NEW l \in Limits, NEW q \in QueueLimits, ReloadLimits(l, q)
      PROVE  DrainInv'
  BY <1>2 DEF ReloadLimits, Uncancelled, Inside, At
<1>3. CASE WakeForConfig
  <2>1. UNCHANGED <<phase, closing, tracked>>
    BY <1>3 DEF WakeForConfig
  <2>2. Uncancelled' = Uncancelled /\ Inside' = Inside
    BY <1>3, NotifyAllType DEF WakeForConfig, Uncancelled, Inside, At, TypeOK
  <2> QED
    BY <2>1, <2>2 DEF Uncancelled
<1>4. CASE RequestShutdown
  BY <1>4 DEF RequestShutdown, Uncancelled, Inside, At
<1>5. CASE BeginDrain
  <2>1. closing' /\ phase' = "draining"
    BY <1>5 DEF BeginDrain
  <2>2. Uncancelled' \cap tracked = {} /\ Uncancelled' \subseteq Uncancelled
    BY <1>5, CancelType DEF BeginDrain, Uncancelled, At, TypeOK, PCs
  <2>3. Streaming \cap Uncancelled' = {}
    <3>1. CASE closing
      BY <3>1, <2>2 DEF Uncancelled
    <3>2. CASE ~closing
      BY <3>2, <2>2
    <3> QED
      BY <3>1, <3>2
  <2> QED
    BY <2>1, <2>3 DEF Uncancelled
<1>6. CASE DrainedIdle
  <2>1. Inside = {}
    <3>1. IsFiniteSet(Inside) /\ Cardinality(Inside) = 0
      BY <1>6, AtFinite DEF DrainedIdle, SlotAccounting, Inside
    <3> QED
      BY <3>1, FS_EmptySet
  <2>2. Inside' = Inside /\ Uncancelled' = Uncancelled /\ UNCHANGED <<tracked, closing>> /\ closing
    BY <1>6 DEF DrainedIdle, Inside, Uncancelled, At
  <2> QED
    BY <2>1, <2>2 DEF Uncancelled
<1>7. CASE DrainTimeout
  <2>1. closing /\ closing' /\ phase' = "forced"
    BY <1>7 DEF DrainTimeout
  <2>2. Uncancelled' \subseteq Uncancelled
    BY <1>7, CancelType DEF DrainTimeout, Uncancelled, At, TypeOK, PCs
  <2> QED
    BY <2>1, <2>2 DEF Uncancelled
<1>8. CASE CancelLeftover
  <2>1. Uncancelled' = {} /\ phase' = "stopped"
    BY <1>8, CancelType DEF CancelLeftover, Uncancelled, At, TypeOK, PCs
  <2> QED
    BY <2>1 DEF Uncancelled
<1>9. CASE UNCHANGED vars
  BY <1>9 DEF vars, Uncancelled, Inside, At
<1> QED
  BY <1>1, <1>2, <1>3, <1>4, <1>5, <1>6, <1>7, <1>8, <1>9 DEF Next, ShutdownStep

LEMMA DrainInit == Init => DrainInv
  BY DEF Init, DrainInv, DrainReachesStreams, IdleVerdictStable, Uncancelled, At

LEMMA DrainInvariant == Spec => []DrainInv
<1>1. TypeOK /\ SlotAccounting /\ DrainInv /\ [Next]_vars
        => (TypeOK /\ SlotAccounting /\ DrainInv)'
  BY TypeStep, AccountingStep, DrainStep
<1>2. Init => TypeOK /\ SlotAccounting /\ DrainInv
  BY TypeInit, AccountingInit, DrainInit
<1> QED
  BY <1>1, <1>2, PTL DEF Spec

(* After mark_shutting_down and cancel_all, no stream runs or waits on     *)
(* without CancelledError on its way.                                      *)
THEOREM DrainCorrect == Spec => []DrainReachesStreams
<1>1. DrainInv => DrainReachesStreams
  BY DEF DrainInv
<1> QED
  BY <1>1, DrainInvariant, PTL

(* An idle verdict of wait_idle stays true while the upstreams shut down.  *)
THEOREM IdleVerdictCorrect == Spec => []IdleVerdictStable
<1>1. DrainInv => IdleVerdictStable
  BY DEF DrainInv
<1> QED
  BY <1>1, DrainInvariant, PTL

-----------------------------------------------------------------------------
(* A slot is freed only by Finish, which notifies every waiter, and a      *)
(* waiter goes to sleep only when it has just seen that there is no room;  *)
(* a reload is the one step that makes room without notifying.             *)
LEMMA StrandStep ==
  ASSUME TypeOK, [Next]_vars
  PROVE  Stranded' => Stranded \/ Raised
<1> SUFFICES ASSUME ~Stranded, Stranded' PROVE Raised
  OBVIOUS
<1> USE DEF Stranded, Raised
<1>0. active \in Nat /\ limit \in Int
  BY LimitsAssumption DEF TypeOK
<1>1. ASSUME NEW r \in Requests, RequestStep(r) PROVE Raised
  <2>1. CASE Receive(r) \/ Refuse(r) \/ Reject(r) \/ Unwind(r)
    BY <2>1 DEF Receive, Refuse, Reject, Unwind, At, HasRoom, TypeOK
  <2>2. CASE Admit(r) \/ Resume(r)
    <3>1. limit' = limit
      BY <2>2 DEF Admit, Resume
    <3>2. CASE HasRoom
      <4>1. active' = active + 1 /\ At({"waiting"})' = At({"waiting"})
        BY <2>2, <3>2 DEF Admit, Resume, At, TypeOK
      <4> QED
        BY <1>0, <3>1, <3>2, <4>1 DEF HasRoom
    <3>3. CASE ~HasRoom
      <4>1. active' = active
        BY <2>2, <3>3 DEF Admit, Resume
      <4> QED
        BY <3>1, <3>3, <4>1 DEF HasRoom
    <3> QED
      BY <3>2, <3>3
  <2>3. CASE Finish(r)
    <3>1. [pc EXCEPT ![r] = "idle"] \in [Requests -> PCs]
      BY DEF TypeOK, PCs
    <3>2. At({"waiting"})' = {}
      BY <2>3, <3>1, NotifyAllType DEF Finish, At
    <3> QED
      BY <3>2
  <2>4. CASE CancelTask(r)
    <3>1. UNCHANGED <<active, limit>>
      BY <2>4 DEF CancelTask
    <3>2. At({"waiting"})' \subseteq At({"waiting"})
      BY <2>4, CancelType DEF CancelTask, At, TypeOK, PCs
    <3> QED
      BY <3>1, <3>2 DEF HasRoom
  <2> QED
    BY <1>1, <2>1, <2>2, <2>3, <2>4 DEF RequestStep
<1>2. ASSUME NEW l \in Limits, NEW q \in QueueLimits, ReloadLimits(l, q)
      PROVE  Raised
  <2>1. limit' = l /\ active' = active /\ At({"waiting"})' = At({"waiting"})
    BY <1>2 DEF ReloadLimits, At
  <2>2. l \in Int
    BY LimitsAssumption
  <2> QED
    BY <1>0, <2>1, <2>2 DEF HasRoom
<1>3. CASE WakeForConfig
  <2>1. At({"waiting"})' = {}
    BY <1>3, NotifyAllType DEF WakeForConfig, At, TypeOK
  <2> QED
    BY <2>1
<1>4. CASE RequestShutdown \/ DrainedIdle
  BY <1>4 DEF RequestShutdown, DrainedIdle, At, HasRoom
<1>5. CASE BeginDrain \/ DrainTimeout \/ CancelLeftover
  <2>1. PICK R : pc' = Cancel(R)
    BY <1>5 DEF BeginDrain, DrainTimeout, CancelLeftover
  <2>2. At({"waiting"})' \subseteq At({"waiting"})
    BY <2>1, CancelType DEF At, TypeOK, PCs
  <2>3. UNCHANGED <<active, limit>>
    BY <1>5 DEF BeginDrain, DrainTimeout, CancelLeftover
  <2> QED
    BY <2>2, <2>3 DEF HasRoom
<1>6. CASE UNCHANGED vars
  BY <1>6 DEF vars, At, HasRoom
<1> QED
  BY <1>1, <1>2, <1>3, <1>4, <1>5, <1>6 DEF Next, ShutdownStep

(* As deployed, where no reload wakes anybody, and on the loop alike: a    *)
(* waiter comes to sleep beside a free slot only when the limit is raised. *)
THEOREM WakingCorrect == Spec => OnlyReloadStrands
<1>1. TypeOK /\ [Next]_vars
        => (Stranded' => Stranded \/ Raised)
  BY StrandStep
<1>2. Spec => []TypeOK
  BY TypeCorrect
<1> QED
  BY <1>1, <1>2, PTL DEF Spec, OnlyReloadStrands

-----------------------------------------------------------------------------
Waiters == At({"waiting", "notified"})

LEMMA PoolInit == Init => Pool!Init
<1> SUFFICES ASSUME Init PROVE Pool!Init
  OBVIOUS
<1>1. Holders = {} /\ Waiters = {} /\ limit \in Limits
  BY DEF Init, Holders, Waiters, At
<1>2. closing = FALSE
  BY Zenon DEF Init
<1> QED
  BY <1>1, <1>2 DEF Pool!Init, Waiters

(* Cancelling tasks takes waiters out and leaves the holders alone. *)
LEMMA CancelIsGiveUp ==
  ASSUME TypeOK, NEW R, pc' = Cancel(R), UNCHANGED limit, closing' = closing
  PROVE  [Pool!Next]_(Pool!vars)
<1>1. Holders' = Holders /\ Waiters' = Waiters \ R
  BY CancelKeepsSets, CancelType DEF Waiters, At, TypeOK, PCs
<1>2. CASE Waiters \cap R = {}
  BY <1>1, <1>2 DEF Pool!vars, Waiters
<1>3. CASE Waiters \cap R # {}
  <2>1. Pool!GiveUp(Waiters \cap R)
    BY <1>1, <1>3 DEF Pool!GiveUp, Waiters
  <2>2. Waiters \cap R \in SUBSET Requests
    BY DEF Waiters, At
  <2> QED
    BY <2>1, <2>2 DEF Pool!Next
<1> QED
  BY <1>2, <1>3

(* Each action is one of SlotPool's, or leaves its four variables alone. *)
LEMMA PoolStep ==
  ASSUME TypeOK, SlotAccounting, [Next]_vars
  PROVE  [Pool!Next]_(Pool!vars)
<1>0. HasRoom <=> Pool!Free
  BY DEF HasRoom, Pool!Free, SlotAccounting, Pool!Cardinality, Cardinality
<1>stutter. ASSUME Holders' = Holders, Waiters' = Waiters, UNCHANGED <<limit, closing>>
            PROVE  [Pool!Next]_(Pool!vars)
  BY <1>stutter DEF Waiters, Pool!vars
<1>1. ASSUME NEW r \in Requests, RequestStep(r) PROVE [Pool!Next]_(Pool!vars)
  <2>1. CASE Receive(r) \/ Refuse(r) \/ Reject(r) \/ Unwind(r)
    <3>1. Holders' = Holders /\ Waiters' = Waiters /\ UNCHANGED <<limit, closing>>
      BY <2>1 DEF Receive, Refuse, Reject, Unwind, Holders, Waiters, At, TypeOK
    <3> QED
      BY <3>1, <1>stutter
  <2>2. CASE Admit(r)
    <3>1. r \notin Holders \cup Waiters /\ ~closing /\ UNCHANGED <<limit, closing>>
      BY <2>2 DEF Admit, Holders, Waiters, At
    <3>2. CASE HasRoom
      <4>1. Holders' = Holders \cup {r} /\ Waiters' = Waiters
        BY <2>2, <3>2 DEF Admit, Holders, Waiters, At, TypeOK
      <4>2. Pool!Start(r)
        BY <3>1, <3>2, <4>1, <1>0 DEF Pool!Start, Waiters
      <4> QED
        BY <4>2 DEF Pool!Next
    <3>3. CASE ~HasRoom
      <4>1. Holders' = Holders /\ Waiters' = Waiters \cup {r}
        BY <2>2, <3>3 DEF Admit, Holders, Waiters, At, TypeOK
      <4>2. Pool!Queue(r)
        BY <3>1, <3>3, <4>1, <1>0 DEF Pool!Queue, Waiters
      <4> QED
        BY <4>2 DEF Pool!Next
    <3> QED
      BY <3>2, <3>3
  <2>3. CASE Resume(r)
    <3>1. r \in Waiters /\ UNCHANGED <<limit, closing>>
      BY <2>3 DEF Resume, Waiters, At
    <3>2. CASE HasRoom
      <4>1. Holders' = Holders \cup {r} /\ Waiters' = Waiters \ {r}
        BY <2>3, <3>2 DEF Resume, Holders, Waiters, At, TypeOK
      <4>2. Pool!Grant(r)
        BY <3>1, <3>2, <4>1, <1>0 DEF Pool!Grant, Waiters
      <4> QED
        BY <4>2 DEF Pool!Next
    <3>3. CASE ~HasRoom
      <4>1. Holders' = Holders /\ Waiters' = Waiters
        BY <2>3, <3>3 DEF Resume, Holders, Waiters, At, TypeOK
      <4> QED
        BY <3>1, <4>1, <1>stutter
    <3> QED
      BY <3>2, <3>3
  <2>4. CASE Finish(r)
    <3> DEFINE p == [pc EXCEPT ![r] = "idle"]
    <3>0. p \in [Requests -> PCs] /\ p[r] = "idle" /\ \A q \in Requests \ {r} : p[q] = pc[q]
      BY DEF TypeOK, PCs
    <3>a. pc' = NotifyAll(p)
      BY <2>4 DEF Finish
    <3>b. /\ \A q \in Requests : p[q] # "waiting" => pc'[q] = p[q]
          /\ \A q \in Requests : p[q] = "waiting" => pc'[q] = "notified"
      BY <3>0, <3>a, NotifyAllType
    <3>1. r \in Holders /\ r \notin Waiters
      BY <2>4 DEF Finish, Holders, Waiters, At
    <3>2. Holders' = Holders \ {r} /\ Waiters' = Waiters
      BY <3>0, <3>1, <3>b DEF Holders, Waiters, At
    <3>3. Pool!Leave(r)
      BY <2>4, <3>1, <3>2 DEF Finish, Pool!Leave, Waiters
    <3> QED
      BY <3>3 DEF Pool!Next
  <2>5. CASE CancelTask(r)
    BY <2>5, CancelIsGiveUp DEF CancelTask
  <2> QED
    BY <1>1, <2>1, <2>2, <2>3, <2>4, <2>5 DEF RequestStep
<1>2. ASSUME NEW l \in Limits, NEW q \in QueueLimits, ReloadLimits(l, q)
      PROVE  [Pool!Next]_(Pool!vars)
  <2>1. Pool!Resize(l)
    BY <1>2 DEF ReloadLimits, Pool!Resize, Holders, At
  <2> QED
    BY <2>1 DEF Pool!Next
<1>3. CASE WakeForConfig
  <2>1. Holders' = Holders /\ Waiters' = Waiters
    BY <1>3, NotifyAllType DEF WakeForConfig, Holders, Waiters, At, TypeOK
  <2> QED
    BY <1>3, <2>1, <1>stutter DEF WakeForConfig
<1>4. CASE RequestShutdown \/ DrainedIdle
  BY <1>4, <1>stutter DEF RequestShutdown, DrainedIdle, Holders, Waiters, At
<1>5. CASE BeginDrain
  <2>1. Holders' = Holders /\ Waiters' = Waiters \ tracked
    BY <1>5, CancelKeepsSets, CancelType DEF BeginDrain, Waiters, At, TypeOK, PCs
  <2>2. Pool!Close /\ UNCHANGED limit
    BY <1>5 DEF BeginDrain, Pool!Close
  <2>3. CASE Waiters \cap tracked = {}
    BY <2>1, <2>2, <2>3 DEF Pool!Next, Waiters
  <2>4. CASE Waiters \cap tracked # {}
    <3>1. Pool!GiveUp(Waiters \cap tracked)
      BY <2>1, <2>2, <2>4 DEF Pool!GiveUp, Waiters
    <3>2. Waiters \cap tracked \in SUBSET Requests
      BY DEF Waiters, At
    <3> QED
      BY <2>2, <3>1, <3>2 DEF Pool!Next
  <2> QED
    BY <2>3, <2>4
<1>6. CASE DrainTimeout
  BY <1>6, CancelIsGiveUp DEF DrainTimeout
<1>7. CASE CancelLeftover
  BY <1>7, CancelIsGiveUp DEF CancelLeftover
<1>8. CASE UNCHANGED vars
  BY <1>8, <1>stutter DEF vars, Holders, Waiters, At
<1> QED
  BY <1>1, <1>2, <1>3, <1>4, <1>5, <1>6, <1>7, <1>8 DEF Next, ShutdownStep

(* The safety part of ImplementsSlotPool: counters, condition variable and *)
(* tracker together behave as a bounded set of slot holders.               *)
THEOREM PoolSafety == Spec => Pool!Init /\ [][Pool!Next]_(Pool!vars)
<1>1. TypeOK /\ SlotAccounting /\ [Next]_vars => (TypeOK /\ SlotAccounting)'
  BY TypeStep, AccountingStep
<1>2. Init => TypeOK /\ SlotAccounting
  BY TypeInit, AccountingInit
<1>3. TypeOK /\ SlotAccounting /\ [Next]_vars => [Pool!Next]_(Pool!vars)
  BY PoolStep
<1> QED
  BY <1>1, <1>2, <1>3, PoolInit, PTL DEF Spec
=============================================================================
