--------------------------- MODULE ZenClientProofs ---------------------------
(***************************************************************************)
(* For every finite set of requests, all pools of nodes and every number   *)
(* of retries and changes: the client holds the only session that is open, *)
(* attempts go to usable nodes, and the state file has what memory has     *)
(* once the writers are done, but for the cases that are named.            *)
(***************************************************************************)
EXTENDS ZenClient, FiniteSetTheorems, TLAPS

-----------------------------------------------------------------------------
(* Data *)

(* A set of natural numbers has its least element. *)
LEMMA MinIsIn ==
  ASSUME NEW S \in SUBSET Nat, S # {}
  PROVE  Min(S) \in S
<1>1. PICK x \in S : \A y \in S : ~(<<y, x>> \in OpToRel(<, Nat))
  BY NatLessThanWellFounded, WFMin
<1>2. \A y \in S : x =< y
  <2> SUFFICES ASSUME NEW y \in S PROVE x =< y
    OBVIOUS
  <2>1. ~(y < x)
    BY <1>1 DEF OpToRel
  <2> QED
    BY <2>1
<1> QED
  BY <1>2 DEF Min

LEMMA PoolLength ==
  ASSUME NEW p \in Pools
  PROVE  p \in Seq(Nodes) /\ Len(p) \in Nat \ {0} /\ DOMAIN p = 1..Len(p)
  BY ZenAssumption

(* The types in four parts. *)
NodeTypes ==
  /\ pool \in Pools /\ current \in 1..Len(pool) /\ muted \subseteq Nodes
  /\ astray \in BOOLEAN

Saves == [at : {"none", "queued", "read"}, current : Nat \ {0}, muted : SUBSET Nodes]

SaveTypes ==
  /\ disk \in [current : Nat \ {0}, muted : SUBSET Nodes]
  /\ save \in [Writers -> Saves] /\ behind \in BOOLEAN

HttpTypes ==
  http \in {0} \cup Sessions /\ open \subseteq Sessions

Points == {"new", "fetch", "pause", "fetchAgain", "connecting", "streaming",
           "muted", "switched", "ended"}

RequestTypes ==
  /\ pc \in [Requests -> Points]
  /\ attempt \in [Requests -> 0..RetryCount]
  /\ fallback \in [Requests -> BOOLEAN]
  /\ sess \in [Requests -> {0} \cup Sessions]

LEMMA TypeParts ==
  /\ TypeOK <=> /\ NodeTypes /\ SaveTypes /\ HttpTypes /\ RequestTypes
                /\ changes \in 0..MaxChanges
  /\ TypeOK' <=> /\ NodeTypes' /\ SaveTypes' /\ HttpTypes' /\ RequestTypes'
                 /\ changes' \in 0..MaxChanges
  BY DEF TypeOK, NodeTypes, SaveTypes, Saves, HttpTypes, RequestTypes, Points

-----------------------------------------------------------------------------
(* Sessions.  There are two more numbers than requests: one that no        *)
(* request waits with and that is not open can always be found.            *)

SessionInv == HttpTypes /\ RequestTypes /\ NoSessionLeaks

LEMMA SessionCount ==
  /\ Cardinality(Requests) \in Nat
  /\ IsFiniteSet(Sessions) /\ Cardinality(Sessions) = Cardinality(Requests) + 2
  /\ Sessions \subseteq Nat \ {0}
<1>1. Cardinality(Requests) \in Nat
  BY ZenAssumption, FS_CardinalityType
<1>2. IsFiniteSet(Sessions) /\ Cardinality(Sessions) = Cardinality(Requests) + 2
  BY <1>1, FS_Interval DEF Sessions
<1> QED
  BY <1>1, <1>2 DEF Sessions

LEMMA FreshIsIn ==
  ASSUME SessionInv PROVE Fresh \in Sessions
<1> DEFINE T == {sess[r] : r \in Requests}
           U == T \cup {http}
<1>1. IsFiniteSet(T) /\ Cardinality(T) <= Cardinality(Requests)
  <2>1. sess \in Surjection(Requests, T)
    BY DEF Surjection, SessionInv, RequestTypes
  <2> QED
    BY <2>1, ZenAssumption, FS_Surjection
<1>2. IsFiniteSet(U) /\ Cardinality(U) <= Cardinality(Requests) + 1
  <2>1. Cardinality(T) \in Nat
    BY <1>1, FS_CardinalityType
  <2>2. /\ IsFiniteSet(U)
        /\ Cardinality(U) = IF http \in T THEN Cardinality(T) ELSE Cardinality(T) + 1
    BY <1>1, FS_AddElement
  <2> HIDE DEF T, U
  <2> QED
    BY <1>1, <2>1, <2>2, SessionCount
<1>3. ~(Sessions \subseteq U)
  <2> SUFFICES ASSUME Sessions \in SUBSET U PROVE FALSE
    OBVIOUS
  <2>1. Cardinality(Sessions) <= Cardinality(U)
    BY <1>2, FS_Subset
  <2>2. Cardinality(U) \in Nat
    BY <1>2, FS_CardinalityType
  <2> QED
    BY <1>2, <2>1, <2>2, SessionCount
<1>4. open \cup T \subseteq U
  BY DEF SessionInv, NoSessionLeaks
<1>5. Sessions \ (open \cup T) # {}
  BY <1>3, <1>4
<1>6. Sessions \ (open \cup T) \in SUBSET Nat
  BY SessionCount
<1>7. Min(Sessions \ (open \cup T)) \in Sessions \ (open \cup T)
  BY <1>5, <1>6, MinIsIn
<1> QED
  BY <1>7 DEF Fresh

LEMMA EnsureKeeps ==
  ASSUME SessionInv, NEW r \in Requests, NEW h, NEW o, Ensure(r, h, o),
         (h = http /\ o = open) \/ (h = 0 /\ o = AfterReset)
  PROVE  HttpTypes' /\ NoSessionLeaks' /\ sess' \in [Requests -> {0} \cup Sessions]
<1>1. http' \in Sessions
  BY FreshIsIn DEF Ensure, SessionInv, HttpTypes
<1>2. open' = {http'}
  BY DEF Ensure, SessionInv, NoSessionLeaks, AfterReset
<1>3. 0 \notin Sessions
  BY SessionCount
<1> QED
  BY <1>1, <1>2, <1>3 DEF Ensure, HttpTypes, NoSessionLeaks, SessionInv, RequestTypes

LEMMA AttemptKeeps ==
  ASSUME SessionInv, NEW r \in Requests, NEW h, NEW o,
         NEW f \in BOOLEAN, NEW n \in 0..RetryCount, Attempt(r, h, o, f, n),
         (h = http /\ o = open) \/ (h = 0 /\ o = AfterReset)
  PROVE  SessionInv'
<1>1. HttpTypes' /\ NoSessionLeaks' /\ sess' \in [Requests -> {0} \cup Sessions]
  BY EnsureKeeps DEF Attempt
<1>2. /\ pc' \in [Requests -> Points] /\ attempt' \in [Requests -> 0..RetryCount]
      /\ fallback' \in [Requests -> BOOLEAN]
  BY DEF Attempt, SessionInv, RequestTypes, Points
<1> QED
  BY <1>1, <1>2 DEF SessionInv, RequestTypes

LEMMA EndKeeps ==
  ASSUME SessionInv, NEW r \in Requests, End(r),
         UNCHANGED httpVars \/ (http' = 0 /\ open' = AfterReset)
  PROVE  SessionInv'
<1>1. HttpTypes' /\ NoSessionLeaks'
  BY DEF SessionInv, HttpTypes, NoSessionLeaks, AfterReset, httpVars
<1>2. RequestTypes'
  <2>1. 0 \in 0..RetryCount
    BY ZenAssumption
  <2> QED
    BY <2>1 DEF SessionInv, RequestTypes, End, Points
<1> QED
  BY <1>1, <1>2 DEF SessionInv

LEMMA ResetKeeps ==
  ASSUME SessionInv, NEW r \in Requests, NEW b, ResetAndRetry(r, b)
  PROVE  SessionInv'
<1>1. CASE End(r) /\ http' = 0 /\ open' = AfterReset
  BY <1>1, EndKeeps
<1>2. CASE ~(b \/ attempt[r] = RetryCount)
  <2>1. attempt[r] + 1 \in 0..RetryCount
    BY <1>2, ZenAssumption DEF SessionInv, RequestTypes
  <2>2. fallback[r] \in BOOLEAN
    BY DEF SessionInv, RequestTypes
  <2>3. Attempt(r, 0, AfterReset, fallback[r], attempt[r] + 1)
    BY <1>2 DEF ResetAndRetry
  <2> QED
    BY <2>1, <2>2, <2>3, AttemptKeeps
<1> QED
  BY <1>1, <1>2 DEF ResetAndRetry

LEMMA SessionStep == SessionInv /\ [Next]_vars => SessionInv'
<1> SUFFICES ASSUME SessionInv, [Next]_vars PROVE SessionInv'
  OBVIOUS
<1>0. 0 \in 0..RetryCount
  BY ZenAssumption
<1>1. ASSUME NEW r \in Requests, Begin(r) PROVE SessionInv'
  <2>1. CASE Attempt(r, http, open, FALSE, 0)
    BY <1>0, <2>1, AttemptKeeps
  <2>2. CASE /\ pc' = [pc EXCEPT ![r] = "fetch"] /\ Ensure(r, http, open)
             /\ UNCHANGED <<attempt, fallback>>
    BY <2>2, EnsureKeeps DEF SessionInv, RequestTypes, Points
  <2> QED
    BY <1>1, <2>1, <2>2 DEF Begin
<1>2. ASSUME NEW r \in Requests, FetchFails(r) PROVE SessionInv'
  BY <1>2 DEF FetchFails, SessionInv, HttpTypes, RequestTypes, Points,
              NoSessionLeaks, AfterReset
<1>10. ASSUME NEW r \in Requests, FetchAgain(r) PROVE SessionInv'
  BY <1>10, EnsureKeeps DEF FetchAgain, SessionInv, RequestTypes, Points
<1>3. ASSUME NEW r \in Requests, Fetched(r) \/ Unsupported(r) PROVE SessionInv'
  BY <1>0, <1>3, AttemptKeeps, EndKeeps DEF Fetched, Unsupported
<1>4. ASSUME NEW r \in Requests, Connect(r) \/ Blame(r) \/ Switch(r) PROVE SessionInv'
  BY <1>4 DEF Connect, Blame, Switch, SessionInv, HttpTypes, RequestTypes, Points,
              NoSessionLeaks, httpVars
<1>5. ASSUME NEW r \in Requests, Answered(r) \/ Cancel(r) PROVE SessionInv'
  BY <1>5, EndKeeps DEF Answered, Cancel
<1>6. ASSUME NEW r \in Requests, PlainError(r) \/ Switched(r) PROVE SessionInv'
  BY <1>6, ResetKeeps DEF PlainError, Switched
<1>7. CASE Restart
  <2>1. HttpTypes' /\ NoSessionLeaks'
    BY <1>7 DEF Restart, HttpTypes, NoSessionLeaks
  <2>2. pc' \in [Requests -> Points] /\ fallback' \in [Requests -> BOOLEAN]
    BY <1>7 DEF Restart, SessionInv, RequestTypes, Points
  <2>3. /\ attempt' \in [Requests -> 0..RetryCount]
        /\ sess' \in [Requests -> {0} \cup Sessions]
    BY <1>0, <1>7 DEF Restart
  <2> QED
    BY <2>1, <2>2, <2>3 DEF SessionInv, RequestTypes
<1>8. CASE UNCHANGED <<httpVars, requestVars>>
  BY <1>8 DEF SessionInv, HttpTypes, RequestTypes, NoSessionLeaks, httpVars, requestVars
<1>9. \/ Reload \/ UNCHANGED vars \/ (\E n \in Nodes : Expire(n))
      \/ \E w \in Writers : SaveStep(w)
      => UNCHANGED <<httpVars, requestVars>>
  BY DEF Reload, vars, Expire, SaveStep, SaveReads, SaveWrites, SaveFails
<1> QED
  BY <1>1, <1>2, <1>3, <1>4, <1>5, <1>6, <1>7, <1>8, <1>9, <1>10 DEF Next, Progress

LEMMA SessionInit == Init => SessionInv
<1> SUFFICES ASSUME Init PROVE SessionInv
  OBVIOUS
<1>1. attempt \in [Requests -> 0..RetryCount]
  BY ZenAssumption DEF Init
<1>2. HttpTypes /\ NoSessionLeaks
  BY DEF Init, HttpTypes, NoSessionLeaks
<1> QED
  BY <1>1, <1>2 DEF Init, SessionInv, RequestTypes, Points

(* Whichever requests reset the transport in the midst of the others, no   *)
(* session stays open that the client has let go of.                       *)
THEOREM SessionsCorrect == Spec => []NoSessionLeaks
<1>1. SessionInv => NoSessionLeaks
  BY DEF SessionInv
<1> QED
  BY <1>1, SessionInit, SessionStep, PTL DEF Spec
-----------------------------------------------------------------------------
(* Nodes.  switch_next looks at every node once, so that it finds one that *)
(* is not muted if there is any.                                           *)
LEMMA AfterIsIn ==
  ASSUME NodeTypes, NEW k \in Nat
  PROVE  After(k) \in 1..Len(pool)
<1> DEFINE L == Len(pool)
<1>1. L \in Nat \ {0} /\ current \in 1..L
  BY PoolLength DEF NodeTypes
<1> HIDE DEF L
<1>2. (current + k - 1) % L \in 0..(L - 1)
  BY <1>1
<1> QED
  BY <1>1, <1>2 DEF After, L

LEMMA AfterReaches ==
  ASSUME NodeTypes, NEW i \in 1..Len(pool)
  PROVE  \E k \in 1..Len(pool) : After(k) = i
<1> DEFINE L == Len(pool)
<1>1. L \in Nat \ {0} /\ current \in 1..L /\ i \in 1..L
  BY PoolLength DEF NodeTypes
<1>2. CASE i > current
  <2>1. i - current \in 1..L
    BY <1>1, <1>2
  <2>2. (current + (i - current) - 1) % L = i - 1
    <3> HIDE DEF L
    <3>1. current + (i - current) - 1 = i - 1 /\ i - 1 \in 0..(L - 1)
      BY <1>1
    <3> QED
      BY <1>1, <3>1
  <2>3. After(i - current) = (i - 1) + 1
    BY <2>2 DEF After
  <2> QED
    BY <1>1, <2>1, <2>3
<1>3. CASE i <= current
  <2>1. i - current + L \in 1..L
    BY <1>1, <1>3
  <2>2. (current + (i - current + L) - 1) % L = i - 1
    <3> HIDE DEF L
    <3>1. current + (i - current + L) - 1 = L * 1 + (i - 1) /\ i - 1 \in 0..(L - 1)
      BY <1>1
    <3>2. (L * 1 + (i - 1)) % L = i - 1
      BY <1>1, <3>1
    <3> QED
      BY <3>1, <3>2
  <2>3. After(i - current + L) = (i - 1) + 1
    BY <2>2 DEF After
  <2> QED
    BY <1>1, <2>1, <2>3
<1> QED
  BY <1>1, <1>2, <1>3

LEMMA NextNodeIs ==
  ASSUME NodeTypes
  PROVE  /\ NextNode \in 1..Len(pool)
         /\ AllMuted => NextNode = current
         /\ ~AllMuted => pool[NextNode] \notin muted
<1> DEFINE steps == {k \in 1..Len(pool) : pool[After(k)] \notin muted}
<1>1. Len(pool) \in Nat \ {0} /\ DOMAIN pool = 1..Len(pool)
  BY PoolLength DEF NodeTypes
<1>2. CASE AllMuted
  <2>1. ASSUME NEW k \in 1..Len(pool) PROVE pool[After(k)] \in muted
    BY <1>1, <1>2, AfterIsIn DEF AllMuted
  <2>2. steps = {}
    BY <2>1
  <2>3. NextNode = current
    BY <2>2 DEF NextNode
  <2> QED
    BY <1>2, <2>3 DEF NodeTypes
<1>3. CASE ~AllMuted
  <2>1. PICK i \in 1..Len(pool) : pool[i] \notin muted
    BY <1>1, <1>3 DEF AllMuted
  <2>2. PICK k \in 1..Len(pool) : After(k) = i
    BY AfterReaches
  <2>3. k \in steps
    BY <2>1, <2>2
  <2>4. steps \in SUBSET Nat /\ steps # {}
    BY <1>1, <2>3
  <2>5. Min(steps) \in steps
    <3> HIDE DEF steps
    <3> QED
      BY <2>4, MinIsIn
  <2>6. NextNode = After(Min(steps))
    BY <2>4 DEF NextNode
  <2>7. Min(steps) \in Nat /\ pool[After(Min(steps))] \notin muted
    BY <1>1, <2>5
  <2> QED
    BY <1>3, <2>6, <2>7, AfterIsIn
<1> QED
  BY <1>2, <1>3

(* The invariant behind CurrentIsUsable is the property with the types of  *)
(* the nodes.                                                              *)
NodeStep == Reload \/ Restart \/ (\E n \in Nodes : Expire(n))
            \/ \E r \in Requests : Blame(r) \/ Switch(r) \/ Cancel(r)

LEMMA OtherSteps ==
  ASSUME [Next]_vars PROVE NodeStep \/ UNCHANGED nodeVars
<1>1. ASSUME NEW r \in Requests, Begin(r) \/ Progress(r)
      PROVE  Blame(r) \/ Switch(r) \/ UNCHANGED nodeVars
  BY <1>1 DEF Begin, Progress, FetchFails, FetchAgain, Fetched, Connect, Answered, Unsupported,
              PlainError, Switched
<1>2. ASSUME NEW w \in Writers, SaveStep(w) PROVE UNCHANGED nodeVars
  BY <1>2 DEF SaveStep, SaveReads, SaveWrites, SaveFails
<1>3. CASE UNCHANGED vars
  BY <1>3 DEF vars
<1> QED
  BY <1>1, <1>2, <1>3 DEF Next, NodeStep

LEMMA NodeTypesStep ==
  ASSUME NodeTypes, SaveTypes, [Next]_vars PROVE NodeTypes'
<1>1. CASE UNCHANGED nodeVars
  BY <1>1 DEF NodeTypes, nodeVars
<1>2. CASE Reload
  <2>1. Len(pool') \in Nat \ {0}
    BY <1>2, PoolLength DEF Reload
  <2> QED
    BY <1>2, <2>1 DEF Reload, NodeTypes
<1>3. CASE Restart
  <2>1. Len(pool') \in Nat \ {0} /\ pool' \in Pools
    BY <1>3, PoolLength DEF Restart
  <2>2. current' \in 1..Len(pool')
    BY <1>3, <2>1 DEF Restart, SaveTypes
  <2> QED
    BY <1>3, <2>1, <2>2 DEF Restart, NodeTypes, SaveTypes
<1>4. ASSUME NEW n \in Nodes, Expire(n) PROVE NodeTypes'
  BY <1>4 DEF Expire, NodeTypes
<1>5. ASSUME NEW r \in Requests, Blame(r) PROVE NodeTypes'
  <2>1. pool[current] \in Nodes
    BY PoolLength DEF NodeTypes
  <2> QED
    BY <1>5, <2>1 DEF Blame, WithCurrent, NodeTypes
<1>6. ASSUME NEW r \in Requests, Switch(r) PROVE NodeTypes'
  <2>1. astray' \in BOOLEAN
    BY <1>6 DEF Switch, AllMuted
  <2>2. current' \in 1..Len(pool)
    BY <1>6, NextNodeIs DEF Switch
  <2> QED
    BY <1>6, <2>1, <2>2 DEF Switch, NodeTypes
<1>7. ASSUME NEW r \in Requests, Cancel(r) PROVE NodeTypes'
  BY <1>7 DEF Cancel, NodeTypes
<1> QED
  BY <1>1, <1>2, <1>3, <1>4, <1>5, <1>6, <1>7, OtherSteps DEF NodeStep

LEMMA SavesOf ==
  ASSUME SaveTypes, NEW w \in Writers
  PROVE  /\ NoSave \in Saves /\ [NoSave EXCEPT !.at = "queued"] \in Saves
         /\ save[w] \in Saves
         /\ Read(w) \in [current : Nat \ {0}, muted : SUBSET Nodes]
  BY DEF SaveTypes, Saves, NoSave, Read

LEMMA StartSaveTypes ==
  ASSUME SaveTypes, NEW w \in Writers, StartSave(w)
  PROVE  save' \in [Writers -> Saves]
  BY SavesOf DEF SaveTypes, StartSave

LEMMA SaveTypesStep ==
  ASSUME NodeTypes, SaveTypes, [Next]_vars PROVE SaveTypes'
<1>1. CASE UNCHANGED saveVars
  BY <1>1 DEF SaveTypes, saveVars
<1>2. CASE Reload
  BY <1>2, StartSaveTypes DEF Reload, SaveTypes, Writers
<1>3. CASE Restart
  <2>1. NoSave \in Saves
    BY DEF NoSave, Saves
  <2>2. behind' \in BOOLEAN
    BY <1>3 DEF Restart
  <2> QED
    BY <1>3, <2>1, <2>2 DEF Restart, SaveTypes
<1>4. ASSUME NEW n \in Nodes, Expire(n) PROVE SaveTypes'
  <2>1. ASSUME NEW w \in Writers PROVE [save[w] EXCEPT !.muted = @ \ {n}] \in Saves
    BY SavesOf DEF Saves
  <2>2. save' \in [Writers -> Saves]
    BY <1>4, <2>1 DEF Expire
  <2>3. disk' \in [current : Nat \ {0}, muted : SUBSET Nodes]
    BY <1>4 DEF Expire, SaveTypes
  <2> QED
    BY <1>4, <2>2, <2>3 DEF Expire, SaveTypes
<1>5. ASSUME NEW w \in Writers, SaveReads(w) PROVE SaveTypes'
  <2>1. current \in Nat \ {0}
    BY PoolLength DEF NodeTypes
  <2>2. [at |-> "read", current |-> current, muted |-> muted] \in Saves
    BY <2>1 DEF NodeTypes, Saves
  <2> QED
    BY <1>5, <2>2 DEF SaveReads, SaveTypes
<1>6. ASSUME NEW w \in Writers, SaveWrites(w) PROVE SaveTypes'
  <2>1. behind' \in BOOLEAN
    BY <1>6 DEF SaveWrites
  <2> QED
    BY <1>6, <2>1, SavesOf DEF SaveWrites, SaveTypes
<1>7. ASSUME NEW w \in Writers, SaveFails(w) PROVE SaveTypes'
  BY <1>7, SavesOf DEF SaveFails, SaveTypes
<1>8. ASSUME NEW r \in Requests, Blame(r) \/ Switch(r) PROVE SaveTypes'
  BY <1>8, StartSaveTypes DEF Blame, Switch, SaveTypes, Writers
<1>9. ASSUME NEW r \in Requests, Cancel(r) PROVE SaveTypes'
  BY <1>9, SavesOf DEF Cancel, SaveTypes, Writers
<1>10. ASSUME NEW r \in Requests, Begin(r) \/ Progress(r)
       PROVE  Blame(r) \/ Switch(r) \/ UNCHANGED saveVars
  BY <1>10 DEF Begin, Progress, FetchFails, FetchAgain, Fetched, Connect, Answered, Unsupported,
               PlainError, Switched
<1>11. CASE UNCHANGED vars
  BY <1>1, <1>11 DEF vars
<1> QED
  BY <1>1, <1>2, <1>3, <1>4, <1>5, <1>6, <1>7, <1>8, <1>9, <1>10, <1>11
  DEF Next, SaveStep

LEMMA NodesInit == Init => NodeTypes /\ SaveTypes
<1> SUFFICES ASSUME Init PROVE NodeTypes /\ SaveTypes
  OBVIOUS
<1>1. NodeTypes
  <2>1. 1 \in 1..Len(pool)
    BY PoolLength DEF Init
  <2> QED
    BY <2>1 DEF Init, NodeTypes
<1>2. NoSave \in Saves
  BY DEF NoSave, Saves
<1>3. disk \in [current : Nat \ {0}, muted : SUBSET Nodes]
  BY DEF Init
<1> QED
  BY <1>2, <1>1, <1>3 DEF Init, SaveTypes

LEMMA ChangesStep ==
  ASSUME changes \in 0..MaxChanges, [Next]_vars PROVE changes' \in 0..MaxChanges
<1>1. CASE changes < MaxChanges /\ changes' = changes + 1
  BY <1>1, ZenAssumption
<1>2. CASE Reload \/ Restart \/ \E n \in Nodes : Expire(n)
  BY <1>1, <1>2 DEF Reload, Restart, Expire
<1>3. CASE \/ \E r \in Requests : Begin(r) \/ Progress(r) \/ Cancel(r)
           \/ \E w \in Writers : SaveStep(w)
           \/ UNCHANGED vars
  BY <1>3 DEF Begin, Progress, FetchFails, FetchAgain, Fetched, Connect, Answered, Unsupported,
              PlainError, Blame, Switch, Switched, Cancel, SaveStep, SaveReads,
              SaveWrites, SaveFails, vars
<1> QED
  BY <1>2, <1>3 DEF Next

(* The types: the index is one of the pool's whatever pool comes, and a    *)
(* session for a request can always be found.                              *)
THEOREM TypeCorrect == Spec => []TypeOK
<1> DEFINE Inv == SessionInv /\ NodeTypes /\ SaveTypes /\ changes \in 0..MaxChanges
<1>1. Init => Inv
  BY SessionInit, NodesInit, ZenAssumption DEF Init
<1>2. Inv /\ [Next]_vars => Inv'
  BY SessionStep, NodeTypesStep, SaveTypesStep, ChangesStep
<1>3. Inv => TypeOK
  BY TypeParts DEF SessionInv
<1> QED
  BY <1>1, <1>2, <1>3, PTL DEF Spec

-----------------------------------------------------------------------------
LEMMA UsableStep ==
  ASSUME NodeTypes, RequestTypes, CurrentIsUsable, [Next]_vars
  PROVE  CurrentIsUsable'
<1> USE DEF CurrentIsUsable
<1>1. CASE Reload \/ Restart
  BY <1>1 DEF Reload, Restart
<1>2. ASSUME NEW n \in Nodes, Expire(n) PROVE CurrentIsUsable'
  BY <1>2 DEF Expire, requestVars
<1>3. ASSUME NEW r \in Requests, Blame(r) PROVE CurrentIsUsable'
  BY <1>3 DEF Blame, RequestTypes
<1>4. ASSUME NEW r \in Requests, Switch(r) PROVE CurrentIsUsable'
  BY <1>4, NextNodeIs DEF Switch
<1>5. ASSUME NEW r \in Requests, Cancel(r) PROVE CurrentIsUsable'
  BY <1>5 DEF Cancel, End, RequestTypes
<1>6. CASE UNCHANGED nodeVars /\ \A r \in Requests : pc[r] = "muted" => pc'[r] = "muted"
  BY <1>6 DEF nodeVars
<1>7. ASSUME NEW r \in Requests,
             \/ Begin(r) \/ FetchFails(r) \/ FetchAgain(r) \/ Fetched(r) \/ Connect(r) \/ Answered(r)
             \/ Unsupported(r) \/ PlainError(r) \/ Switched(r)
      PROVE  /\ UNCHANGED nodeVars
             /\ \A q \in Requests : pc[q] = "muted" => pc'[q] = "muted"
  BY <1>7 DEF Begin, FetchFails, FetchAgain, Fetched, Connect, Answered, Unsupported, PlainError,
              Switched, ResetAndRetry, Attempt, End, RequestTypes
<1>8. CASE (\E w \in Writers : SaveStep(w)) \/ UNCHANGED vars
  BY <1>6, <1>8
  DEF SaveStep, SaveReads, SaveWrites, SaveFails, vars, nodeVars, requestVars
<1> QED
  BY <1>1, <1>2, <1>3, <1>4, <1>5, <1>6, <1>7, <1>8 DEF Next, Progress

(* A node is muted, or the index moved, only by steps that leave a usable  *)
(* node or are among the named exceptions.                                 *)
THEOREM UsableCorrect == Spec => []CurrentIsUsable
<1> DEFINE Inv == SessionInv /\ NodeTypes /\ SaveTypes /\ CurrentIsUsable
<1>1. Init => Inv
  BY SessionInit, NodesInit DEF Init, CurrentIsUsable
<1>2. Inv /\ [Next]_vars => Inv'
  BY SessionStep, NodeTypesStep, SaveTypesStep, UsableStep DEF SessionInv
<1> QED
  BY <1>1, <1>2, PTL DEF Spec
-----------------------------------------------------------------------------
(***************************************************************************)
(* The inductive invariant behind StateReachesDisk: as long as no save was *)
(* lost or overtaken, some writer is at work while the file is behind, and *)
(* a writer that has read something old is not the last one.               *)
(***************************************************************************)
Memory == [current |-> current, muted |-> muted]

AtWork(w) == save[w].at # "none"

DiskInv ==
  ~behind =>
    /\ disk = Memory \/ \E w \in Writers : AtWork(w)
    /\ \A w \in Writers : save[w].at = "read" =>
         \/ Read(w) = Memory
         \/ \E v \in Writers : save[v].at = "queued"
         \/ \E v \in Writers \ {w} : save[v].at = "read"

LEMMA QueuedIsWork ==
  ASSUME SaveTypes, NEW w \in Writers, StartSave(w) PROVE DiskInv'
<1>1. save'[w].at = "queued"
  BY DEF StartSave, SaveTypes, NoSave
<1> QED
  BY <1>1 DEF DiskInv, AtWork

LEMMA DiskSaves ==
  ASSUME NodeTypes, SaveTypes, DiskInv, NEW w \in Writers, SaveStep(w)
  PROVE  DiskInv'
<1>1. CASE SaveReads(w)
  <2>1. save'[w] = [at |-> "read", current |-> current, muted |-> muted]
    BY <1>1 DEF SaveReads, SaveTypes
  <2>2. Memory' = Memory /\ save'[w].at = "read" /\ Read(w)' = Memory'
    BY <1>1, <2>1 DEF SaveReads, nodeVars, Memory, Read
  <2> QED
    BY <2>2 DEF DiskInv, AtWork
<1>2. CASE SaveWrites(w)
  <2> SUFFICES ASSUME ~behind' PROVE DiskInv'
    BY DEF DiskInv
  <2>1. /\ \A v \in Writers \ {w} : save[v].at # "read"
        /\ behind => disk' = Memory
        /\ disk' = Read(w) /\ save[w].at = "read" /\ Memory' = Memory
    BY <1>2 DEF SaveWrites, Memory, nodeVars
  <2>2. save' = [save EXCEPT ![w] = NoSave]
    BY <1>2 DEF SaveWrites
  <2>3. \A v \in Writers : save'[v].at # "read"
    BY <2>1, <2>2 DEF NoSave, SaveTypes
  <2>4. disk' = Memory' \/ \E v \in Writers : save'[v].at # "none"
    <3>1. CASE behind
      BY <2>1, <3>1
    <3>2. CASE ~behind
      <4>1. Read(w) = Memory \/ \E v \in Writers \ {w} : save[v].at = "queued"
        BY <2>1, <3>2 DEF DiskInv
      <4>2. \A v \in Writers \ {w} : save'[v] = save[v]
        BY <2>2 DEF SaveTypes
      <4> QED
        BY <2>1, <4>1, <4>2
    <3> QED
      BY <3>1, <3>2
  <2> QED
    BY <2>3, <2>4 DEF DiskInv, AtWork
<1>3. CASE SaveFails(w)
  BY <1>3 DEF SaveFails, DiskInv
<1> QED
  BY <1>1, <1>2, <1>3 DEF SaveStep

LEMMA DiskExpire ==
  ASSUME NodeTypes, SaveTypes, DiskInv, NEW n \in Nodes, Expire(n)
  PROVE  DiskInv'
<1>1. ASSUME NEW w \in Writers
      PROVE  /\ save'[w].at = save[w].at
             /\ save'[w].current = save[w].current
             /\ save'[w].muted = save[w].muted \ {n}
  BY SavesOf DEF Expire, Saves
<1>2. ASSUME disk = Memory PROVE disk' = Memory'
  <2>1. disk' = [disk EXCEPT !.muted = disk.muted \ {n}]
    BY DEF Expire
  <2>2. disk' = [current |-> current, muted |-> muted \ {n}]
    BY <1>2, <2>1 DEF Memory
  <2>3. current' = current /\ muted' = muted \ {n}
    BY DEF Expire
  <2> QED
    BY <2>2, <2>3 DEF Memory
<1>3. ASSUME NEW w \in Writers, Read(w) = Memory PROVE Read(w)' = Memory'
  BY <1>1, <1>3 DEF Expire, Memory, Read
<1>4. behind' = behind
  BY DEF Expire
<1> QED
  BY <1>1, <1>2, <1>3, <1>4 DEF DiskInv, AtWork

LEMMA DiskStep ==
  ASSUME NodeTypes, SaveTypes, DiskInv, [Next]_vars PROVE DiskInv'
<1>1. CASE UNCHANGED <<current, muted, saveVars>>
  <2>1. Memory' = Memory /\ \A w \in Writers : Read(w)' = Read(w)
    BY <1>1 DEF Memory, Read, saveVars
  <2> QED
    BY <1>1, <2>1 DEF DiskInv, AtWork, saveVars
<1>2. CASE Reload
  BY <1>2, QueuedIsWork DEF Reload, Writers
<1>3. CASE Restart
  <2> SUFFICES ASSUME ~behind' PROVE DiskInv'
    BY DEF DiskInv
  <2>1. disk' = Memory'
    BY <1>3 DEF Restart, Memory, SaveTypes
  <2>2. \A w \in Writers : save'[w].at = "none"
    BY <1>3 DEF Restart, NoSave
  <2> QED
    BY <2>1, <2>2 DEF DiskInv
<1>4. ASSUME NEW r \in Requests, Blame(r) PROVE DiskInv'
  BY <1>4, QueuedIsWork DEF Blame, Writers
<1>5. ASSUME NEW r \in Requests, Switch(r) PROVE DiskInv'
  <2>1. CASE AllMuted
    BY <1>1, <1>5, <2>1, NextNodeIs DEF Switch, saveVars
  <2>2. CASE ~AllMuted
    BY <1>5, <2>2, QueuedIsWork DEF Switch, Writers
  <2> QED
    BY <2>1, <2>2
<1>6. ASSUME NEW r \in Requests, Cancel(r) PROVE DiskInv'
  <2>1. CASE behind' = TRUE
    BY <2>1 DEF DiskInv
  <2>2. CASE UNCHANGED <<save, behind>>
    BY <1>1, <1>6, <2>2 DEF Cancel, saveVars
  <2> QED
    BY <1>6, <2>1, <2>2 DEF Cancel
<1>7. ASSUME NEW r \in Requests, Begin(r) \/ Progress(r)
      PROVE  Blame(r) \/ Switch(r) \/ UNCHANGED <<nodeVars, saveVars>>
  BY <1>7 DEF Begin, Progress, FetchFails, FetchAgain, Fetched, Connect, Answered, Unsupported,
              PlainError, Switched
<1>8. CASE UNCHANGED <<nodeVars, saveVars>> \/ UNCHANGED vars
  BY <1>1, <1>8 DEF vars, nodeVars
<1> QED
  BY <1>2, <1>3, <1>4, <1>5, <1>6, <1>7, <1>8, DiskSaves, DiskExpire DEF Next

(* Once the writers are done the file has what memory has, unless a save   *)
(* was lost or overtaken.                                                  *)
THEOREM DiskCorrect == Spec => []StateReachesDisk
<1> DEFINE Inv == SessionInv /\ NodeTypes /\ SaveTypes /\ DiskInv
<1>1. Init => Inv
  <2>1. Init => DiskInv
    BY DEF Init, DiskInv, Memory, NoSave
  <2> QED
    BY <2>1, SessionInit, NodesInit
<1>2. Inv /\ [Next]_vars => Inv'
  BY SessionStep, NodeTypesStep, SaveTypesStep, DiskStep
<1>3. Inv => StateReachesDisk
  BY DEF DiskInv, StateReachesDisk, Memory, AtWork, NoSave
<1> QED
  BY <1>1, <1>2, <1>3, PTL DEF Spec
=============================================================================
