-------------------------- MODULE SessionPoolProofs --------------------------
(***************************************************************************)
(* For every set of accounts, requests and maintenance loops, every list   *)
(* restored, every limit and in-flight cap, and both kinds of request that *)
(* use the pool (SessionRetry for Qwen, MutedRetry for DeepSeek): the list *)
(* holds one session per account, the in-flight counts are exact, a switch *)
(* never returns the account it excludes, and no request tries too often.  *)
(*                                                                         *)
(* The arguments come in two halves.  One is about the list: cleaning and  *)
(* adding keep it free of repetitions.  The other is about tasks: a step   *)
(* changes the locals of one task and the count of one account.            *)
(***************************************************************************)
EXTENDS SessionRetry, MutedRetry, FiniteSetTheorems, TLAPS

-----------------------------------------------------------------------------
(* No account has two sessions in s. *)
Distinct(s) == \A i, j \in 1..Len(s) : s[i] = s[j] => i = j

(* How many positions a list has. *)
LEMMA FirstNumbers ==
  ASSUME NEW n \in Nat
  PROVE  IsFiniteSet(1..n) /\ Cardinality(1..n) = n
<1>1. PICK a \in Int : a = 1
  OBVIOUS
<1>2. IsFiniteSet(a..n) /\ Cardinality(a..n) = IF a > n THEN 0 ELSE n - a + 1
  BY FS_Interval
<1> QED
  BY <1>1, <1>2

(* A list without repetitions is as long as its set of members is large.  *)
LEMMA MembersCounted ==
  ASSUME NEW s \in Seq(Accounts), Distinct(s)
  PROVE  Len(s) = Cardinality(Members(s))
<1> DEFINE T == Members(s)
<1>1. Len(s) \in Nat /\ s \in [1..Len(s) -> T] /\ \A i \in 1..Len(s) : s[i] \in T
  BY DEF Members
<1>2. s \in Bijection(1..Len(s), T)
  BY <1>1 DEF Distinct, Members, Bijection, Injection, Surjection, IsInjective
<1>3. IsFiniteSet(1..Len(s)) /\ Cardinality(1..Len(s)) = Len(s)
  BY <1>1, FirstNumbers
<1>4. ExistsBijection(1..Len(s), T)
  BY <1>2 DEF ExistsBijection
<1> HIDE DEF T
<1>5. Cardinality(T) = Len(s)
  BY <1>3, <1>4, FS_Bijection
<1> QED
  BY <1>5 DEF T

(* The rank of a position among those kept numbers them without gaps.     *)
LEMMA Ranks ==
  ASSUME NEW n \in Nat, NEW kept \in SUBSET (1..n)
  PROVE  LET rank(i) == Cardinality({j \in kept : j <= i})
         IN /\ Cardinality(kept) \in Nat
            /\ \A i \in kept : rank(i) \in 1..Cardinality(kept)
            /\ \A i, j \in kept : rank(i) = rank(j) => i = j
            /\ \A k \in 1..Cardinality(kept) : \E i \in kept : rank(i) = k
<1> DEFINE upto(i) == {j \in kept : j <= i}
           rank(i) == Cardinality(upto(i))
           f == [i \in kept |-> rank(i)]
           N == Cardinality(kept)
<1>1. IsFiniteSet(kept) /\ N \in Nat
  <2>1. IsFiniteSet(1..n)
    BY FS_Interval
  <2>2. IsFiniteSet(kept)
    BY <2>1, FS_Subset
  <2> QED
    BY <2>2, FS_CardinalityType
<1>2. ASSUME NEW i \in kept
      PROVE  /\ upto(i) \subseteq kept /\ IsFiniteSet(upto(i)) /\ i \in upto(i)
             /\ rank(i) \in 1..N
  <2>1. upto(i) \subseteq kept /\ i \in upto(i)
    BY <1>2
  <2>2. IsFiniteSet(upto(i)) /\ rank(i) <= N /\ rank(i) \in Nat
    BY <1>1, <2>1, FS_Subset, FS_CardinalityType
  <2>3. rank(i) # 0
    <3>1. upto(i) # {}
      BY <2>1
    <3> HIDE DEF upto
    <3> QED
      BY <2>2, <3>1, FS_EmptySet
  <2> QED
    BY <1>1, <2>1, <2>2, <2>3
<1>3. ASSUME NEW i \in kept, NEW j \in kept, i < j
      PROVE  rank(i) # rank(j)
  <2>0. kept \subseteq Nat /\ i \in Nat /\ j \in Nat
    OBVIOUS
  <2>1. upto(i) \subseteq upto(j) /\ j \in upto(j) /\ j \notin upto(i)
    <3>1. \A x \in upto(i) : x \in kept /\ x <= j
      BY <1>3, <2>0
    <3>2. j <= j /\ ~(j <= i)
      BY <1>3, <2>0
    <3> QED
      BY <3>1, <3>2, Zenon
  <2>2. IsFiniteSet(upto(j))
    BY <1>2
  <2> HIDE DEF upto
  <2> QED
    BY <2>1, <2>2, FS_Subset
<1>4. \A i, j \in kept : rank(i) = rank(j) => i = j
  <2> SUFFICES ASSUME NEW i \in kept, NEW j \in kept, rank(i) = rank(j)  PROVE i = j
    OBVIOUS
  <2>1. i < j \/ j < i \/ i = j
    OBVIOUS
  <2> HIDE DEF rank
  <2> QED
    BY <1>3, <2>1
<1> HIDE DEF upto, rank
<1>5. f \in Injection(kept, 1..N)
  BY <1>2, <1>4 DEF Injection, IsInjective
<1>6. IsFiniteSet(1..N) /\ Cardinality(1..N) = N
  BY <1>1, FirstNumbers
<1>7. f \in Surjection(kept, 1..N)
  BY <1>5, <1>6, FS_Injection
<1>8. \A k \in 1..N : \E i \in kept : rank(i) = k
  BY <1>7 DEF Surjection
<1> QED
  BY <1>1, <1>2, <1>4, <1>8 DEF rank, upto

(* What the filter of the list comprehensions returns: the members that   *)
(* are not filtered out, each as often as before.                          *)
LEMMA WithoutFacts ==
  ASSUME NEW s \in Seq(Accounts), NEW out
  PROVE  /\ Without(s, out) \in Seq(Accounts)
         /\ Members(Without(s, out)) = Members(s) \ out
         /\ Distinct(s) => Distinct(Without(s, out))
<1> DEFINE kept == {i \in 1..Len(s) : s[i] \notin out}
           rank(i) == Cardinality({j \in kept : j <= i})
           nth(k) == CHOOSE i \in kept : rank(i) = k
           N == Cardinality(kept)
           r == [k \in 1..N |-> s[nth(k)]]
<1>1. Len(s) \in Nat /\ kept \in SUBSET (1..Len(s)) /\ \A i \in 1..Len(s) : s[i] \in Accounts
  OBVIOUS
<1>2. Without(s, out) = r
  BY DEF Without
<1>3. \A i : i \in kept <=> i \in 1..Len(s) /\ s[i] \notin out
  OBVIOUS
<1> HIDE DEF kept
<1>4. /\ N \in Nat
      /\ \A i \in kept : rank(i) \in 1..N
      /\ \A i, j \in kept : rank(i) = rank(j) => i = j
      /\ \A k \in 1..N : \E i \in kept : rank(i) = k
  BY <1>1, Ranks
<1> HIDE DEF rank, N
<1>5. \A k \in 1..N : nth(k) \in kept /\ rank(nth(k)) = k
  BY <1>4
<1>6. \A i \in kept : nth(rank(i)) = i
  BY <1>4, <1>5
<1> HIDE DEF nth
<1>7. r \in Seq(Accounts) /\ Len(r) = N /\ \A k \in 1..N : r[k] = s[nth(k)]
  BY <1>1, <1>3, <1>4, <1>5
<1>8. Members(r) = Members(s) \ out
  <2>1. ASSUME NEW x \in Members(r)  PROVE x \in Members(s) \ out
    <3>1. PICK k \in 1..N : x = r[k]
      BY <1>7 DEF Members
    <3>2. nth(k) \in kept /\ x = s[nth(k)]
      BY <1>5, <1>7, <3>1
    <3> QED
      BY <1>3, <3>2 DEF Members
  <2>2. ASSUME NEW x \in Members(s) \ out  PROVE x \in Members(r)
    <3>1. PICK i \in 1..Len(s) : x = s[i]
      BY DEF Members
    <3>2. i \in kept
      BY <1>3, <3>1
    <3>3. rank(i) \in 1..N /\ r[rank(i)] = x
      BY <1>4, <1>6, <1>7, <3>1, <3>2
    <3> QED
      BY <1>7, <3>3 DEF Members
  <2> QED
    BY <2>1, <2>2
<1>9. Distinct(s) => Distinct(r)
  <2> SUFFICES ASSUME Distinct(s), NEW k \in 1..N, NEW l \in 1..N, r[k] = r[l]
               PROVE  k = l
    BY <1>7 DEF Distinct
  <2>1. s[nth(k)] = s[nth(l)] /\ nth(k) \in 1..Len(s) /\ nth(l) \in 1..Len(s)
    BY <1>3, <1>5, <1>7
  <2>2. nth(k) = nth(l)
    BY <2>1 DEF Distinct
  <2> QED
    BY <1>5, <2>2
<1> HIDE DEF r
<1> QED
  BY <1>2, <1>7, <1>8, <1>9

(* What replace_or_append returns: one member more, and still no account   *)
(* twice.                                                                  *)
LEMMA WithSessionFacts ==
  ASSUME NEW s \in Seq(Accounts), NEW u \in Accounts
  PROVE  /\ WithSession(s, u) \in Seq(Accounts)
         /\ Members(WithSession(s, u)) = Members(s) \cup {u}
         /\ Distinct(s) => Distinct(WithSession(s, u))
<1>1. CASE u \in Members(s)
  BY <1>1 DEF WithSession
<1>2. CASE u \notin Members(s)
  <2> DEFINE t == Append(s, u)
  <2>1. WithSession(s, u) = t
    BY <1>2 DEF WithSession
  <2>2. /\ t \in Seq(Accounts) /\ Len(s) \in Nat /\ Len(t) = Len(s) + 1
        /\ \A i \in 1..Len(s) : t[i] = s[i]
        /\ t[Len(t)] = u
    OBVIOUS
  <2> HIDE DEF t
  <2>3. \A i \in 1..Len(t) : i \in 1..Len(s) \/ i = Len(t)
    BY <2>2
  <2>4. Members(t) = Members(s) \cup {u}
    <3>1. Len(t) \in 1..Len(t) /\ 1..Len(s) \subseteq 1..Len(t)
      BY <2>2
    <3>2. ASSUME NEW x \in Members(t)  PROVE x \in Members(s) \cup {u}
      <4>1. PICK i \in 1..Len(t) : x = t[i]
        BY DEF Members
      <4> QED
        BY <2>2, <2>3, <4>1 DEF Members
    <3>3. ASSUME NEW x \in Members(s)  PROVE x \in Members(t)
      <4>1. PICK i \in 1..Len(s) : x = s[i]
        BY DEF Members
      <4>2. i \in 1..Len(t) /\ x = t[i]
        BY <2>2, <3>1, <4>1
      <4> QED
        BY <4>2 DEF Members
    <3>4. u \in Members(t)
      BY <2>2, <3>1 DEF Members
    <3> QED
      BY <3>2, <3>3, <3>4
  <2>5. Distinct(s) => Distinct(t)
    <3>1. \A i \in 1..Len(s) : s[i] # u
      BY <1>2 DEF Members
    <3> SUFFICES ASSUME Distinct(s), NEW i \in 1..Len(t), NEW j \in 1..Len(t), t[i] = t[j]
                 PROVE  i = j
      BY DEF Distinct
    <3> QED
      BY <2>2, <2>3, <3>1 DEF Distinct
  <2> QED
    BY <2>1, <2>2, <2>4, <2>5
<1> QED
  BY <1>1, <1>2

-----------------------------------------------------------------------------
(* Indices count from 1. *)
Position == Nat \ {0}

(* The list of sessions and what refers to it. *)
ListOK ==
  /\ sessions \in Seq(Accounts) /\ Distinct(sessions)
  /\ bad \subseteq Members(sessions)
  /\ index \in Position
  /\ stale \subseteq Tasks

(* Where an index may be put, and what is found there. *)
LEMMA IndexFacts ==
  ASSUME NEW s \in Seq(Accounts), NEW i, NEW name
  PROVE  /\ AtIndex(s, i) \in Accounts \cup {NoOne}
         /\ 1..Len(s) \subseteq Position
         /\ i \in Position => FixedIndex(s, i, name) \subseteq Position
<1>1. 1..Len(s) \subseteq Position
  BY DEF Position
<1>2. AtIndex(s, i) \in Accounts \cup {NoOne}
  BY DEF AtIndex
<1>3. ASSUME i \in Position
      PROVE  FixedIndex(s, i, name) \subseteq Position
  <2>1. 1 \in Position
    BY DEF Position
  <2>2. FixedIndex(s, i, name) \in {{1}, 1..Len(s), {i}}
    BY DEF FixedIndex
  <2> QED
    BY <1>1, <1>3, <2>1, <2>2
<1> QED
  BY <1>1, <1>2, <1>3

(* Cleaning keeps the list in order, with or without repair of the index. *)
LEMMA DropBadKeeps ==
  ASSUME ListOK, NEW marked, NEW name, NEW always \in BOOLEAN, NEW leaving,
         DropBad(marked, name, always, leaving)
  PROVE  ListOK'
<1> DEFINE gone == bad \cup marked
           kept == Without(sessions, gone)
<1>1. /\ sessions' = kept /\ bad' = {}
      /\ index' \in FixedIndex(kept, index, name) \/ index' = index
      /\ stale' \subseteq stale \cup Holding
  <2>1. /\ sessions' = kept /\ bad' = {}
        /\ index' \in IF always \/ kept # sessions
                        THEN FixedIndex(kept, index, name) ELSE {index}
        /\ stale' = (stale \cup {t \in Holding : who[t] \in gone}) \ leaving
    BY DEF DropBad
  <2> QED
    BY <2>1
<1>2. kept \in Seq(Accounts) /\ Distinct(kept)
  BY WithoutFacts DEF ListOK
<1> HIDE DEF kept
<1>3. FixedIndex(kept, index, name) \subseteq Position
  BY <1>2, IndexFacts DEF ListOK
<1>4. Holding \subseteq Tasks
  BY DEF Holding
<1> QED
  BY <1>1, <1>2, <1>3, <1>4 DEF ListOK

(* A save that leaves the index where it is. *)
LEMMA SaveMetaKeeps ==
  ASSUME ListOK, SaveMeta, index' = index
  PROVE  ListOK'
<1> DEFINE kept == Without(sessions, bad)
<1>1. sessions' = kept /\ bad' = {} /\ stale' \subseteq stale \cup Holding
  BY DEF SaveMeta
<1>2. kept \in Seq(Accounts) /\ Distinct(kept)
  BY WithoutFacts DEF ListOK
<1>3. Holding \subseteq Tasks
  BY DEF Holding
<1> HIDE DEF kept
<1> QED
  BY <1>1, <1>2, <1>3 DEF ListOK

(* The cleanups of get_valid_session and the maintenance loop. *)
LEMMA PruneKeeps ==
  ASSUME ListOK, Prune
  PROVE  ListOK'
  BY DropBadKeeps DEF Prune

(* A save, which may drop sessions that were marked invalid. *)
LEMMA PersistKeeps ==
  ASSUME ListOK, NEW marked, NEW leaving, Persist(marked, leaving)
  PROVE  ListOK'
  BY DropBadKeeps DEF Persist

(* So does adding a session, if the index is then put into range.         *)
LEMMA AddSessionKeeps ==
  ASSUME ListOK, NEW t \in Tasks, who[t] \in Accounts, AddSession(t), index' \in Position
  PROVE  ListOK'
<1> DEFINE list == WithSession(sessions, who[t])
           kept == Without(list, bad \ {who[t]})
<1>1. /\ sessions' = kept /\ bad' = {}
      /\ stale' \subseteq stale \cup Holding
  BY DEF AddSession
<1>2. list \in Seq(Accounts) /\ Distinct(list)
  BY WithSessionFacts DEF ListOK
<1> HIDE DEF list
<1>3. kept \in Seq(Accounts) /\ Distinct(kept)
  BY <1>2, WithoutFacts
<1>4. Holding \subseteq Tasks
  BY DEF Holding
<1> HIDE DEF kept
<1> QED
  BY <1>1, <1>3, <1>4 DEF ListOK

(* What is added is a list again. *)
LEMMA AddedSession ==
  ASSUME ListOK, NEW t \in Tasks, who[t] \in Accounts, AddSession(t)
  PROVE  sessions' \in Seq(Accounts)
<1> DEFINE list == WithSession(sessions, who[t])
<1>1. list \in Seq(Accounts)
  BY WithSessionFacts DEF ListOK
<1> HIDE DEF list
<1>2. sessions' = Without(list, bad \ {who[t]})
  BY DEF AddSession, list
<1> QED
  BY <1>1, <1>2, WithoutFacts

-----------------------------------------------------------------------------
(* What tasks remember; PCs are the labels of the module that uses the     *)
(* pool.                                                                   *)
LocalTypes(PCs) ==
  /\ pc \in [Tasks -> PCs]
  /\ then \in [Tasks -> {"select", "reselect", "login"}]
  /\ goal \in [Tasks -> Goals]
  /\ who \in [Tasks -> Accounts \cup {NoOne}]
  /\ avoid \in [Tasks -> Accounts \cup {NoOne}]
  /\ before \in [Tasks -> Accounts \cup {NoOne}]
  /\ skip \in [Tasks -> SUBSET Accounts]

(* t is suspended at one of the labels L, or in the save before one. *)
Heading(t, L) == pc[t] \in L \/ (pc[t] = "saving" /\ then[t] \in L)

(* Past its choice, a task has an account in its hands. *)
AccountOK(t) ==
  Heading(t, {"login"}) \/ pc[t] \in {"append", "adopt", "commit", "streaming"}
    => who[t] \in Accounts

(* A maintenance loop only ever logs accounts in. *)
KeeperOK(t) ==
  /\ pc[t] = "idle" \/ Heading(t, {"login"}) \/ pc[t] = "append"
  /\ pc[t] # "idle" => goal[t] = "replenish"

(* The labels of switch_to_next, from its prune to its result. *)
Switching == {"reselect", "login", "append", "adopt", "next", "fallback"}

(* Only a switch on behalf of a retry has the goal "retry". *)
GoalOK(r) ==
  /\ goal[r] # "replenish"
  /\ goal[r] = "retry" => Heading(r, Switching \cup {"switch", "commit", "returned"})

(* The excluded account counts as tried for as long as the switch lasts,   *)
(* and is not the account the switch has in its hands.                     *)
AvoidOK(r) ==
  avoid[r] # NoOne =>
    /\ Heading(r, Switching) => avoid[r] \in skip[r]
    /\ Heading(r, {"login", "append", "adopt", "commit", "returned"}) => who[r] # avoid[r]

(* What is known of a task. *)
TaskOK(t) ==
  /\ AccountOK(t)
  /\ t \in Keepers => KeeperOK(t)
  /\ t \in Requests => GoalOK(t) /\ AvoidOK(t)

(* Nobody's locals change but those of t. *)
Local(t) ==
  \A x \in Tasks \ {t} :
    /\ pc'[x] = pc[x] /\ then'[x] = then[x] /\ goal'[x] = goal[x]
    /\ who'[x] = who[x] /\ avoid'[x] = avoid[x] /\ skip'[x] = skip[x]

(* What a step of t may do to the leases. *)
LeaseKept(t) ==
  /\ pc[t] = "streaming" <=> pc'[t] = "streaming"
  /\ pc[t] = "streaming" => who'[t] = who[t]
  /\ inflight' = inflight

LeaseBegun(t) ==
  /\ t \in Requests
  /\ pc[t] # "streaming" /\ pc'[t] = "streaming"
  /\ inflight' = [inflight EXCEPT ![who'[t]] = @ + 1]

LeaseEnded(t) ==
  /\ t \in Requests
  /\ pc[t] = "streaming" /\ pc'[t] # "streaming"
  /\ inflight' = [inflight EXCEPT ![who[t]] = IF @ > 0 THEN @ - 1 ELSE 0]

LeaseMove(t) == LeaseKept(t) \/ LeaseBegun(t) \/ LeaseEnded(t)

(* What every step of one task does. *)
Good(t, PCs) == LocalTypes(PCs)' /\ Local(t) /\ TaskOK(t)' /\ LeaseMove(t)

(* Inductive for the pool, whoever uses it. *)
Counted ==
  /\ blocked \subseteq Accounts /\ muted \subseteq Accounts
  /\ inflight \in [Accounts -> Nat]
  /\ lock \in Requests \cup {NoOne}

PoolOK(PCs) ==
  /\ ListOK /\ Counted /\ LocalTypes(PCs)
  /\ \A t \in Tasks : TaskOK(t)
  /\ LeaseAccounting

-----------------------------------------------------------------------------
(* A maintenance loop is no request, and nobody is no task. *)
LEMMA Disjoint ==
  /\ Tasks = Requests \cup Keepers
  /\ \A t \in Requests : t \in Tasks /\ t \notin Keepers
  /\ NoOne \notin Tasks
  BY PoolAssumption DEF Tasks

(* Counting up or down keeps a count a natural number, of no account even. *)
LEMMA Counts ==
  ASSUME NEW f \in [Accounts -> Nat], NEW u
  PROVE  /\ [f EXCEPT ![u] = @ + 1] \in [Accounts -> Nat]
         /\ [f EXCEPT ![u] = IF @ > 0 THEN @ - 1 ELSE 0] \in [Accounts -> Nat]
<1>1. CASE u \in Accounts
  BY <1>1
<1>2. CASE u \notin Accounts
  BY <1>2
<1> QED
  BY <1>1, <1>2

(* However a lease begins or ends, the counts are natural numbers. *)
LEMMA LeaseTypes ==
  ASSUME NEW t \in Tasks, inflight \in [Accounts -> Nat], LeaseMove(t)
  PROVE  inflight' \in [Accounts -> Nat]
  BY Counts DEF LeaseMove, LeaseKept, LeaseBegun, LeaseEnded

(* Forgetting is local, and leaves no excluded account. *)
LEMMA Forgotten ==
  ASSUME NEW t \in Tasks, NEW PCs, LocalTypes(PCs), Forget(t)
  PROVE  /\ then' \in [Tasks -> {"select", "reselect", "login"}]
         /\ goal' \in [Tasks -> Goals]
         /\ avoid' \in [Tasks -> Accounts \cup {NoOne}]
         /\ before' \in [Tasks -> Accounts \cup {NoOne}]
         /\ skip' \in [Tasks -> SUBSET Accounts]
         /\ goal'[t] = "lease" /\ avoid'[t] = NoOne
         /\ \A x \in Tasks \ {t} : /\ then'[x] = then[x] /\ goal'[x] = goal[x]
                                  /\ avoid'[x] = avoid[x] /\ skip'[x] = skip[x]
<1> USE DEF LocalTypes, Forget, Goals
<1>1. /\ then' \in [Tasks -> {"select", "reselect", "login"}]
      /\ \A x \in Tasks \ {t} : then'[x] = then[x]
  OBVIOUS
<1>2. /\ goal' \in [Tasks -> Goals] /\ goal'[t] = "lease"
      /\ \A x \in Tasks \ {t} : goal'[x] = goal[x]
  OBVIOUS
<1>3. /\ avoid' \in [Tasks -> Accounts \cup {NoOne}] /\ avoid'[t] = NoOne
      /\ \A x \in Tasks \ {t} : avoid'[x] = avoid[x]
  OBVIOUS
<1>4. before' \in [Tasks -> Accounts \cup {NoOne}]
  OBVIOUS
<1>5. /\ skip' \in [Tasks -> SUBSET Accounts]
      /\ \A x \in Tasks \ {t} : skip'[x] = skip[x]
  OBVIOUS
<1> QED
  BY <1>1, <1>2, <1>3, <1>4, <1>5

(* A task at rest, or a request about to start over, forgets its account.  *)
LEMMA Rests ==
  ASSUME NEW t \in Tasks, NEW PCs, LocalTypes(PCs), PoolPCs \subseteq PCs,
         NEW label \in {"idle", "ask"}, label = "ask" => t \notin Keepers,
         Goto(t, label), who' = [who EXCEPT ![t] = NoOne], Forget(t), LeaseMove(t)
  PROVE  Good(t, PCs)
<1>1. /\ pc' \in [Tasks -> PCs] /\ pc'[t] = label
      /\ \A x \in Tasks \ {t} : pc'[x] = pc[x]
  BY DEF LocalTypes, Goto, PoolPCs
<1>2. /\ who' \in [Tasks -> Accounts \cup {NoOne}]
      /\ \A x \in Tasks \ {t} : who'[x] = who[x]
  BY DEF LocalTypes
<1>3. LocalTypes(PCs)'
  BY <1>1, <1>2, Forgotten DEF LocalTypes
<1>4. Local(t)
  BY <1>1, <1>2, Forgotten DEF Local
<1>5. TaskOK(t)'
  BY <1>1, Forgotten DEF TaskOK, AccountOK, KeeperOK, GoalOK, AvoidOK, Heading
<1> QED
  BY <1>3, <1>4, <1>5 DEF Good

(* _ensure_cleanup, whether it saves or not. *)
LEMMA Tidied ==
  ASSUME NEW t \in Tasks, NEW PCs, LocalTypes(PCs), PoolPCs \subseteq PCs,
         NEW label \in {"select", "reselect", "login"}, Tidy(t, label),
         sessions' \in Seq(Accounts)
  PROVE  /\ pc' \in [Tasks -> PCs]
         /\ then' \in [Tasks -> {"select", "reselect", "login"}]
         /\ before' \in [Tasks -> Accounts \cup {NoOne}]
         /\ pc'[t] = label \/ (pc'[t] = "saving" /\ then'[t] = label)
         /\ \A x \in Tasks \ {t} : pc'[x] = pc[x] /\ then'[x] = then[x]
<1>1. CASE Goto(t, label) /\ UNCHANGED <<then, before>>
  BY <1>1 DEF LocalTypes, Goto, PoolPCs
<1>2. CASE /\ Goto(t, "saving")
           /\ then' = [then EXCEPT ![t] = label]
           /\ before' = [before EXCEPT ![t] = AtIndex(sessions', index')]
  <2>1. PICK s, i : s = sessions' /\ i = index'
    OBVIOUS
  <2>2. AtIndex(s, i) \in Accounts \cup {NoOne}
    BY <2>1, IndexFacts
  <2>3. before' \in [Tasks -> Accounts \cup {NoOne}]
    BY <1>2, <2>1, <2>2 DEF LocalTypes
  <2> QED
    BY <1>2, <2>3 DEF LocalTypes, Goto, PoolPCs
<1> QED
  BY <1>1, <1>2 DEF Tidy

(* Handing a session over may begin a lease. *)
LEMMA HandedOver ==
  ASSUME NEW t \in Requests, NEW PCs, LocalTypes(PCs), PoolPCs \subseteq PCs,
         pc[t] # "streaming", who' = who, HandOver(t, who[t])
  PROVE  /\ pc' \in [Tasks -> PCs]
         /\ LeaseMove(t)
         /\ pc'[t] = IF goal[t] = "lease" THEN "streaming" ELSE "returned"
         /\ \A x \in Tasks \ {t} : pc'[x] = pc[x]
<1> USE Disjoint
    DEF LocalTypes, HandOver, Goto, LeaseMove, LeaseBegun, LeaseKept, PoolPCs
<1>1. CASE goal[t] = "lease"
  BY <1>1
<1>2. CASE goal[t] # "lease"
  BY <1>2
<1> QED
  BY <1>1, <1>2

(* Whom the selection and the pick for a login may choose. *)
LEMMA Candidates ==
  /\ sessions \in Seq(Accounts) => \A t \in Tasks : LeastBusy(t) \subseteq Accounts
  /\ \A t \in Tasks : avoid[t] \notin LeastBusy(t)
  /\ \A s : Eligible(s) \subseteq Accounts \ s
<1>1. \A s \in Seq(Accounts) : Members(s) \subseteq Accounts
  BY DEF Members
<1>2. \A t \in Tasks : LeastBusy(t) \subseteq Members(sessions) \ {avoid[t]}
  BY DEF LeastBusy, Selectable, Active
<1> QED
  BY <1>1, <1>2 DEF Eligible

(* Every step of the pool keeps the list in order. *)
LEMMA PoolList ==
  ASSUME ListOK, NEW t \in Tasks, AccountOK(t), PoolStep(t)
  PROVE  ListOK'
<1>1. ASSUME UNCHANGED <<sessions, bad>>, index' \in 1..Len(sessions) \/ index' = index,
             stale' \subseteq stale
      PROVE  ListOK'
  <2>1. index' \in Position
    BY <1>1, IndexFacts DEF ListOK
  <2> QED
    BY <1>1, <2>1 DEF ListOK
<1>2. CASE Ask(t) \/ Switch(t)
  BY <1>2, PruneKeeps DEF Ask, Switch
<1>3. CASE EndSave(t)
  <2>1. DropBad({}, before[t], FALSE, {}) \/ UNCHANGED <<sessions, bad, index, stale>>
    BY <1>3 DEF EndSave
  <2>2. CASE UNCHANGED <<sessions, bad, index, stale>>
    BY <1>1, <2>2
  <2> QED
    BY <2>1, <2>2, DropBadKeeps
<1>4. CASE Select(t) \/ SelectAndCommit(t)
  <2>1. UNCHANGED <<sessions, bad>> /\ stale' = stale \ {t} /\ index' \in 1..Len(sessions)
    BY <1>4 DEF Select, SelectAndCommit, LeaseStep
  <2> QED
    BY <1>1, <2>1
<1>5. CASE SelectNone(t) \/ PickLogin(t) \/ PickNobody(t) \/ GiveUp(t) \/ LoginWaits(t)
           \/ LoginFailed(t)
  <2>1. UNCHANGED <<sessions, bad, index, stale>>
    BY <1>5 DEF SelectNone, PickLogin, PickNobody, GiveUp, LoginWaits, LoginFailed, pool
  <2> QED
    BY <1>1, <2>1
<1>6. CASE Commit(t)
  <2>1. (SaveMeta \/ UNCHANGED <<sessions, bad, stale>>) /\ index' = index
    BY <1>6 DEF Commit
  <2> QED
    BY <1>1, <2>1, SaveMetaKeeps
<1>7. CASE LoginOk(t)
  <2>1. AddSession(t) /\ who[t] \in Accounts /\ index' \in 1..Len(sessions')
    BY <1>7 DEF LoginOk, AccountOK, Heading
  <2>2. sessions' \in Seq(Accounts)
    BY <2>1, AddedSession
  <2>3. 1..Len(sessions') \subseteq Position
    BY <2>2 DEF Position
  <2> QED
    BY <2>1, <2>3, AddSessionKeeps
<1>8. CASE ReplenishOk(t) \/ LoginAppend(t)
  <2>1. AddSession(t) /\ who[t] \in Accounts /\ FixIndexAfterAdd(t)
    BY <1>8 DEF ReplenishOk, LoginAppend, AccountOK, Heading
  <2>2. sessions' \in Seq(Accounts)
    BY <2>1, AddedSession
  <2>3. PICK s : s = sessions'
    OBVIOUS
  <2>4. index' \in FixedIndex(s, index, AtIndex(WithSession(sessions, who[t]), index))
    BY <2>1, <2>3 DEF FixIndexAfterAdd
  <2>5. index' \in Position
    BY <2>2, <2>3, <2>4, IndexFacts DEF ListOK
  <2> QED
    BY <2>1, <2>5, AddSessionKeeps
<1>9. CASE Adopt(t)
  <2>1. /\ UNCHANGED <<sessions, bad, stale>>
        /\ index' \in 1..Len(sessions) \/ index' = 1
    BY <1>9 DEF Adopt
  <2>2. index' \in Position
    BY <2>1, IndexFacts DEF ListOK, Position
  <2> QED
    BY <2>1, <2>2 DEF ListOK
<1> QED
  BY <1>2, <1>3, <1>4, <1>5, <1>6, <1>7, <1>8, <1>9 DEF PoolStep

(* Every step of the pool is local to its task and keeps what is known of  *)
(* it.                                                                     *)
LEMMA PoolGood ==
  ASSUME NEW t \in Tasks, NEW PCs, LocalTypes(PCs), PoolPCs \subseteq PCs,
         TaskOK(t), ListOK, ListOK', PoolStep(t)
  PROVE  Good(t, PCs)
<1> USE Disjoint
    DEF Good, LocalTypes, Local, TaskOK, AccountOK, KeeperOK, GoalOK, AvoidOK,
        Heading, Switching, LeaseMove, LeaseKept, LeaseBegun,
        PoolPCs, Goals, Goto, task, pool
<1>0. sessions \in Seq(Accounts) /\ sessions' \in Seq(Accounts)
  BY DEF ListOK
<1>1. CASE Ask(t)
  <2>1. /\ pc[t] = "ask" /\ Tidy(t, "select")
        /\ UNCHANGED <<avoid, skip, goal, inflight, who>>
    BY <1>1 DEF Ask
  <2>2. LocalTypes(PCs)'
    BY <1>0, <2>1, Tidied
  <2>3. Local(t)
    BY <1>0, <2>1, Tidied
  <2>4. TaskOK(t)'
    BY <1>0, <2>1, Tidied
  <2>5. LeaseMove(t)
    BY <1>0, <2>1, Tidied
  <2> QED
    BY <2>2, <2>3, <2>4, <2>5
<1>2. CASE EndSave(t)
  BY <1>2 DEF EndSave
<1>3. CASE Select(t)
  <2>1. PICK u \in LeastBusy(t) : LeaseStep(t, u)
    BY <1>3 DEF Select
  <2>2. u \in Accounts
    BY <1>0, <2>1, Candidates
  <2>3. /\ pc[t] = "select" /\ UNCHANGED task
        /\ pc' = [pc EXCEPT ![t] = "streaming"]
        /\ who' = [who EXCEPT ![t] = u] /\ who'[t] = u
        /\ inflight' = [inflight EXCEPT ![u] = @ + 1]
    BY <1>3, <2>1 DEF Select, LeaseStep
  <2>4. LocalTypes(PCs)'
    BY <2>2, <2>3
  <2>5. Local(t)
    BY <2>3
  <2>6. LeaseMove(t)
    BY <2>3
  <2>7. TaskOK(t)'
    BY <2>2, <2>3
  <2> QED
    BY <2>4, <2>5, <2>6, <2>7
<1>4. CASE SelectNone(t)
  BY <1>4 DEF SelectNone
<1>5. CASE Switch(t)
  <2>1. /\ pc[t] = "switch" /\ Tidy(t, "reselect")
        /\ skip' = [skip EXCEPT ![t] = {avoid[t]} \ {NoOne}]
        /\ UNCHANGED <<avoid, goal, inflight, who>>
    BY <1>5 DEF Switch
  <2>2. \/ pc'[t] = "reselect"
        \/ pc'[t] = "saving" /\ then'[t] = "reselect"
    BY <1>0, <2>1, Tidied
  <2>3. LocalTypes(PCs)'
    <3>1. skip' \in [Tasks -> SUBSET Accounts]
      BY <2>1
    <3> QED
      BY <1>0, <2>1, <3>1, Tidied
  <2>4. Local(t)
    BY <1>0, <2>1, Tidied
  <2>5. skip'[t] = {avoid[t]} \ {NoOne} /\ goal'[t] = goal[t] /\ avoid'[t] = avoid[t]
    BY <2>1
  <2>6. t \notin Keepers
    BY <2>1
  <2>7. TaskOK(t)'
    <3>1. GoalOK(t)'
      BY <2>1, <2>2, <2>5, <2>6
    <3>2. AvoidOK(t)'
      BY <2>2, <2>5
    <3>3. AccountOK(t)'
      BY <2>2
    <3> QED
      BY <2>6, <3>1, <3>2, <3>3
  <2>8. LeaseMove(t)
    BY <2>1, <2>2
  <2> QED
    BY <2>3, <2>4, <2>7, <2>8
<1>6. CASE SelectAndCommit(t)
  <2>1. PICK u \in LeastBusy(t) : who' = [who EXCEPT ![t] = u]
    BY <1>6 DEF SelectAndCommit
  <2>2. u \in Accounts /\ u # avoid[t]
    BY <1>0, <2>1, Candidates
  <2>3. /\ pc[t] \in {"reselect", "fallback"} /\ UNCHANGED <<task, inflight>>
        /\ pc' = [pc EXCEPT ![t] = "commit"]
    BY <1>6 DEF SelectAndCommit
  <2>4. LocalTypes(PCs)'
    BY <2>1, <2>2, <2>3
  <2>5. Local(t)
    BY <2>1, <2>3
  <2>6. TaskOK(t)'
    BY <2>1, <2>2, <2>3
  <2>7. LeaseMove(t)
    BY <2>3
  <2> QED
    BY <2>4, <2>5, <2>6, <2>7
<1>7. CASE Commit(t) \/ LoginOk(t) \/ Adopt(t)
  <2>1. /\ HandOver(t, who[t]) /\ UNCHANGED <<who, then, avoid, before, goal>>
        /\ skip' = [skip EXCEPT ![t] = {}]
        /\ pc[t] \in {"commit", "login", "adopt"} /\ goal[t] # "replenish"
        /\ t \in Requests
    BY <1>7 DEF Commit, LoginOk, Adopt
  <2>2. /\ pc' \in [Tasks -> PCs]
        /\ LeaseMove(t)
        /\ pc'[t] = IF goal[t] = "lease" THEN "streaming" ELSE "returned"
        /\ \A x \in Tasks \ {t} : pc'[x] = pc[x]
    <3> HIDE DEF LocalTypes, PoolPCs, LeaseMove
    <3> QED
      BY <2>1, HandedOver
  <2>3. skip' \in [Tasks -> SUBSET Accounts] /\ \A x \in Tasks \ {t} : skip'[x] = skip[x]
    BY <2>1
  <2>4. LocalTypes(PCs)'
    BY <2>1, <2>2, <2>3
  <2>5. Local(t)
    BY <2>1, <2>2, <2>3
  <2>6. TaskOK(t)'
    BY <2>1, <2>2
  <2> QED
    BY <2>2, <2>4, <2>5, <2>6
<1>8. CASE PickLogin(t)
  <2>1. PICK u \in Eligible(skip[t]) :
          /\ who' = [who EXCEPT ![t] = u]
          /\ skip' = [skip EXCEPT ![t] = @ \cup {u}]
    BY <1>8 DEF PickLogin
  <2>2. u \in Accounts /\ u \notin skip[t]
    BY <2>1, Candidates
  <2>3. t \in Requests /\ Heading(t, {"reselect", "next"})
    BY <1>8 DEF PickLogin
  <2>4. /\ avoid' = avoid /\ goal' = goal /\ inflight' = inflight
        /\ Tidy(t, "login")
    BY <1>8 DEF PickLogin
  <2>5. who'[t] = u /\ skip'[t] = skip[t] \cup {u}
    BY <2>1
  <2>6. skip' \in [Tasks -> SUBSET Accounts] /\ who' \in [Tasks -> Accounts \cup {NoOne}]
    BY <2>1, <2>2
  <2>7. LocalTypes(PCs)' /\ Heading(t, {"login"})'
    BY <1>0, <2>4, <2>6, Tidied
  <2>8. Local(t)
    BY <1>0, <2>1, <2>4, Tidied
  <2>9. TaskOK(t)'
    BY <1>0, <2>2, <2>3, <2>4, <2>5, Tidied
  <2>10. LeaseMove(t)
    BY <1>0, <2>3, <2>4, Tidied
  <2> QED
    BY <2>7, <2>8, <2>9, <2>10
<1>9. CASE PickNobody(t)
  BY <1>9 DEF PickNobody
<1>10. CASE GiveUp(t)
  BY <1>10 DEF GiveUp
<1>11. CASE ReplenishOk(t)
  <2>1. /\ Goto(t, "idle") /\ who' = [who EXCEPT ![t] = NoOne] /\ Forget(t)
        /\ inflight' = inflight /\ pc[t] \in {"login", "append"}
    BY <1>11 DEF ReplenishOk, EndReplenish
  <2>2. LeaseMove(t)
    BY <2>1
  <2> HIDE DEF Good, LocalTypes, LeaseMove, PoolPCs, Goto
  <2> QED
    BY <2>1, <2>2, Rests
<1>12. CASE LoginWaits(t)
  BY <1>12 DEF LoginWaits
<1>13. CASE LoginAppend(t)
  BY <1>13 DEF LoginAppend
<1>14. CASE LoginFailed(t)
  <2>1. CASE goal[t] = "replenish"
    <3>1. /\ Goto(t, "idle") /\ who' = [who EXCEPT ![t] = NoOne] /\ Forget(t)
          /\ inflight' = inflight /\ pc[t] = "login"
      BY <1>14, <2>1 DEF LoginFailed, EndFailedLogin, EndReplenish
    <3>2. LeaseMove(t)
      BY <3>1
    <3> HIDE DEF Good, LocalTypes, LeaseMove, PoolPCs, Goto
    <3> QED
      BY <3>1, <3>2, Rests
  <2>2. CASE goal[t] # "replenish"
    BY <1>14, <2>2 DEF LoginFailed, EndFailedLogin
  <2> QED
    BY <2>1, <2>2
<1> QED
  BY <1>1, <1>2, <1>3, <1>4, <1>5, <1>6, <1>7, <1>8, <1>9, <1>10, <1>11,
     <1>12, <1>13, <1>14 DEF PoolStep

(* Only a request takes the lock, and no step of the pool bars an account. *)
LEMMA PoolLocks ==
  ASSUME NEW t \in Tasks, TaskOK(t), PoolStep(t)
  PROVE  /\ lock' \in {lock, NoOne} \cup Requests
         /\ UNCHANGED <<blocked, muted>>
<1> USE DEF pool
<1>1. CASE SelectAndCommit(t)
  <2>1. t \in Requests
    BY <1>1, Disjoint DEF SelectAndCommit, TaskOK, KeeperOK, Heading
  <2> QED
    BY <1>1, <2>1 DEF SelectAndCommit
<1>2. CASE Commit(t) \/ LoginOk(t) \/ Adopt(t) \/ Select(t)
  BY <1>2 DEF Commit, LoginOk, Adopt, Select
<1>3. CASE \/ Ask(t) \/ EndSave(t) \/ SelectNone(t) \/ Switch(t) \/ PickLogin(t)
           \/ PickNobody(t) \/ GiveUp(t) \/ ReplenishOk(t) \/ LoginWaits(t)
           \/ LoginAppend(t) \/ LoginFailed(t)
  BY <1>3 DEF Ask, EndSave, SelectNone, Switch, PickLogin, PickNobody, GiveUp, ReplenishOk,
              LoginWaits, LoginAppend, LoginFailed
<1> QED
  BY <1>1, <1>2, <1>3 DEF PoolStep

-----------------------------------------------------------------------------
(* The requests that lease the session of u. *)
Leases(u) == {r \in Requests : pc[r] = "streaming" /\ who[r] = u}

(* One request more or less leases the session, and it is counted.         *)
LEMMA LeaseChange ==
  ASSUME NEW t \in Tasks, inflight \in [Accounts -> Nat], Local(t), LeaseMove(t),
         LeaseAccounting
  PROVE  LeaseAccounting'
<1> USE Disjoint
<1> SUFFICES ASSUME NEW u \in Accounts
             PROVE  inflight'[u] = Cardinality(Leases(u)')
  BY DEF LeaseAccounting, Leases
<1>1. inflight[u] = Cardinality(Leases(u)) /\ inflight[u] \in Nat
  BY DEF LeaseAccounting, Leases
<1>2. IsFiniteSet(Leases(u))
  BY PoolAssumption, FS_Subset DEF Leases
<1>3. \A r \in Requests \ {t} : r \in Leases(u)' <=> r \in Leases(u)
  BY DEF Leases, Local
<1>4. Leases(u) \subseteq Requests /\ Leases(u)' \subseteq Requests
  BY DEF Leases
<1>5. CASE LeaseKept(t)
  <2>1. Leases(u)' = Leases(u)
    BY <1>3, <1>4, <1>5 DEF LeaseKept, Leases
  <2> QED
    BY <1>1, <1>5, <2>1 DEF LeaseKept
<1>6. CASE LeaseBegun(t)
  <2>1. t \notin Leases(u)
    BY <1>6 DEF LeaseBegun, Leases
  <2>2. CASE who'[t] = u
    <3>1. Leases(u)' = Leases(u) \cup {t}
      BY <1>3, <1>4, <1>6, <2>2 DEF LeaseBegun, Leases
    <3>2. inflight'[u] = inflight[u] + 1
      BY <1>6, <2>2 DEF LeaseBegun
    <3> QED
      BY <1>1, <1>2, <2>1, <3>1, <3>2, FS_AddElement
  <2>3. CASE who'[t] # u
    <3>1. Leases(u)' = Leases(u)
      BY <1>3, <1>4, <2>1, <2>3 DEF Leases
    <3>2. inflight'[u] = inflight[u]
      BY <1>6, <2>3 DEF LeaseBegun
    <3> QED
      BY <1>1, <3>1, <3>2
  <2> QED
    BY <2>2, <2>3
<1>7. CASE LeaseEnded(t)
  <2>1. t \notin Leases(u)'
    BY <1>7 DEF LeaseEnded, Leases
  <2>2. CASE who[t] = u
    <3>1. t \in Leases(u) /\ Leases(u)' = Leases(u) \ {t}
      BY <1>3, <1>4, <1>7, <2>1, <2>2 DEF LeaseEnded, Leases
    <3>2. Cardinality(Leases(u)') = Cardinality(Leases(u)) - 1
      BY <1>2, <3>1, FS_RemoveElement
    <3>3. Cardinality(Leases(u)') \in Nat
      BY <1>2, <3>1, FS_RemoveElement, FS_CardinalityType
    <3>4. inflight'[u] = IF inflight[u] > 0 THEN inflight[u] - 1 ELSE 0
      BY <1>7, <2>2 DEF LeaseEnded
    <3> QED
      BY <1>1, <3>2, <3>3, <3>4
  <2>3. CASE who[t] # u
    <3>1. Leases(u)' = Leases(u)
      BY <1>3, <1>4, <2>1, <2>3 DEF Leases
    <3>2. inflight'[u] = inflight[u]
      BY <1>7, <2>3 DEF LeaseEnded
    <3> QED
      BY <1>1, <3>1, <3>2
  <2> QED
    BY <2>2, <2>3
<1> QED
  BY <1>5, <1>6, <1>7 DEF LeaseMove

-----------------------------------------------------------------------------
(* The pool's invariant is kept by each kind of step that touches it.      *)
LEMMA PoolBegins ==
  ASSUME NEW PCs, PoolPCs \subseteq PCs, PoolInit
  PROVE  PoolOK(PCs)
<1> USE DEF PoolInit
<1>1. ListOK
  <2>1. PICK s \in InitialLists : s = sessions
    OBVIOUS
  <2>2. s \in Seq(Accounts) /\ Distinct(s)
    BY <2>1, PoolAssumption DEF Distinct
  <2> QED
    BY <2>1, <2>2 DEF ListOK, Position
<1>2. Counted
  BY DEF Counted
<1>3. LocalTypes(PCs)
  BY DEF LocalTypes, PoolPCs, Goals
<1>4. \A t \in Tasks : TaskOK(t)
  BY DEF TaskOK, AccountOK, KeeperOK, GoalOK, AvoidOK, Heading, Switching
<1>5. LeaseAccounting
  <2>1. \A u : Leases(u) = {}
    BY Disjoint DEF Leases
  <2> QED
    BY <2>1, FS_EmptySet DEF LeaseAccounting, Leases
<1> QED
  BY <1>1, <1>2, <1>3, <1>4, <1>5 DEF PoolOK

(* A good step of one task leaves the others as they were. *)
LEMMA GoodKeeps ==
  ASSUME NEW t \in Tasks, NEW PCs, PoolOK(PCs), Good(t, PCs), ListOK',
         lock' \in {lock, NoOne} \cup Requests,
         blocked' \subseteq Accounts, muted' \subseteq Accounts
  PROVE  PoolOK(PCs)'
<1>1. LocalTypes(PCs)' /\ Local(t) /\ TaskOK(t)' /\ LeaseMove(t)
  BY DEF Good
<1>2. ASSUME NEW x \in Tasks \ {t}
      PROVE  TaskOK(x)'
  BY <1>1, <1>2
     DEF PoolOK, Local, TaskOK, AccountOK, KeeperOK, GoalOK, AvoidOK, Heading
<1>3. LeaseAccounting'
  BY <1>1, LeaseChange DEF PoolOK, Counted
<1>4. Counted'
  BY <1>1, LeaseTypes DEF PoolOK, Counted
<1> QED
  BY <1>1, <1>2, <1>3, <1>4 DEF PoolOK

(* A step of the pool. *)
LEMMA PoolKeeps ==
  ASSUME NEW t \in Tasks, NEW PCs, PoolPCs \subseteq PCs, PoolOK(PCs), PoolStep(t)
  PROVE  PoolOK(PCs)'
<1>1. ListOK /\ LocalTypes(PCs) /\ TaskOK(t) /\ Counted
  BY DEF PoolOK
<1>2. ListOK'
  BY <1>1, PoolList DEF TaskOK
<1>3. Good(t, PCs)
  BY <1>1, <1>2, PoolGood
<1> QED
  BY <1>1, <1>2, <1>3, PoolLocks, GoodKeeps DEF Counted

(* A request that gives its lease back, if it has one, and forgets. *)
LEMMA LeaveKeeps ==
  ASSUME NEW r \in Requests, NEW PCs, PoolPCs \subseteq PCs, PoolOK(PCs),
         NEW label \in {"idle", "ask"},
         Goto(r, label), who' = [who EXCEPT ![r] = NoOne], Forget(r),
         EndLease(r) \/ (pc[r] # "streaming" /\ inflight' = inflight),
         lock' \in {lock, NoOne}, stale' = stale \ {r}, UNCHANGED pool
  PROVE  PoolOK(PCs)'
<1>1. ListOK /\ LocalTypes(PCs) /\ Counted
  BY DEF PoolOK
<1>2. ListOK'
  BY <1>1 DEF ListOK, pool
<1>3. pc'[r] = label
  BY <1>1, Disjoint DEF LocalTypes, Goto
<1>4. LeaseMove(r)
  BY <1>3 DEF EndLease, LeaseMove, LeaseKept, LeaseEnded
<1>5. Good(r, PCs)
  BY <1>1, <1>4, Disjoint, Rests
<1> QED
  BY <1>1, <1>2, <1>5, Disjoint, GoodKeeps DEF Counted, pool

(* A cancellation. *)
LEMMA CancelKeeps ==
  ASSUME NEW r \in Requests, NEW PCs, PoolPCs \subseteq PCs, PoolOK(PCs), CancelRequest(r)
  PROVE  PoolOK(PCs)'
  BY LeaveKeeps DEF CancelRequest

(* A step that changes nothing but the list and the barred accounts. *)
LEMMA ListKeeps ==
  ASSUME NEW PCs, PoolOK(PCs), ListOK', blocked' \subseteq Accounts, muted' \subseteq Accounts,
         UNCHANGED <<task, inflight, lock, pc, who>>
  PROVE  PoolOK(PCs)'
<1> USE DEF PoolOK, task
<1>1. Counted'
  BY DEF Counted
<1>2. LocalTypes(PCs)'
  BY DEF LocalTypes
<1>3. \A t \in Tasks : TaskOK(t)'
  BY DEF TaskOK, AccountOK, KeeperOK, GoalOK, AvoidOK, Heading
<1>4. LeaseAccounting'
  BY DEF LeaseAccounting
<1> QED
  BY <1>1, <1>2, <1>3, <1>4

(* A token expires, a block or a mute runs out. *)
LEMMA AccountKeeps ==
  ASSUME NEW u \in Accounts, NEW PCs, PoolOK(PCs), Expire(u) \/ Forgive(u)
  PROVE  PoolOK(PCs)'
<1>1. ListOK /\ Counted
  BY DEF PoolOK
<1>2. CASE Expire(u)
  BY <1>1, <1>2, ListKeeps DEF Expire, ListOK, Active, Counted
<1>3. CASE Forgive(u)
  BY <1>1, <1>3, ListKeeps DEF Forgive, ListOK, Counted
<1> QED
  BY <1>2, <1>3

(* Nothing happens to the pool. *)
LEMMA StutterKeeps ==
  ASSUME NEW PCs, PoolOK(PCs), UNCHANGED poolVars
  PROVE  PoolOK(PCs)'
<1>1. ListOK' /\ blocked' \subseteq Accounts /\ muted' \subseteq Accounts
  BY DEF PoolOK, ListOK, Counted, poolVars, pool
<1> QED
  BY <1>1, ListKeeps DEF poolVars

(* A maintenance loop cleans up, or begins to log an account in. *)
LEMMA KeeperKeeps ==
  ASSUME NEW k \in Keepers, NEW PCs, PoolPCs \subseteq PCs, PoolOK(PCs),
         KeeperCleanup(k) \/ KeeperLogin(k)
  PROVE  PoolOK(PCs)'
<1> USE Disjoint
<1>0. k \in Tasks /\ k \notin Requests /\ ListOK /\ LocalTypes(PCs) /\ Counted
  BY DEF PoolOK
<1>1. CASE KeeperCleanup(k)
  <2>1. ListOK'
    BY <1>0, <1>1, PruneKeeps DEF KeeperCleanup
  <2> QED
    BY <1>0, <1>1, <2>1, ListKeeps DEF KeeperCleanup, Counted
<1>2. CASE KeeperLogin(k)
  <2>1. /\ pc[k] = "idle" /\ Tidy(k, "login")
        /\ goal' = [goal EXCEPT ![k] = "replenish"]
        /\ UNCHANGED <<pool, avoid, skip, inflight, lock, stale>>
    BY <1>2 DEF KeeperLogin
  <2>2. PICK s : s = {}
    OBVIOUS
  <2>3. PICK u \in Eligible(s) : who' = [who EXCEPT ![k] = u]
    BY <1>2, <2>2 DEF KeeperLogin
  <2>4. u \in Accounts
    BY <2>3, Candidates
  <2>5. ListOK' /\ sessions' \in Seq(Accounts)
    BY <1>0, <2>1 DEF ListOK, pool
  <2>6. /\ who' \in [Tasks -> Accounts \cup {NoOne}]
        /\ goal' \in [Tasks -> Goals] /\ goal'[k] = "replenish"
    BY <1>0, <2>1, <2>3, <2>4 DEF LocalTypes, Goals
  <2>7. LocalTypes(PCs)' /\ Heading(k, {"login"})' /\ pc'[k] # "streaming"
    BY <1>0, <2>1, <2>5, <2>6, Tidied DEF LocalTypes, Heading
  <2>8. Local(k)
    BY <1>0, <2>1, <2>3, <2>5, Tidied DEF LocalTypes, Local
  <2>9. TaskOK(k)'
    BY <1>0, <2>3, <2>4, <2>6, <2>7 DEF LocalTypes, TaskOK, AccountOK, KeeperOK, Heading
  <2>10. LeaseMove(k)
    BY <2>1, <2>7 DEF LeaseMove, LeaseKept
  <2> QED
    BY <1>0, <2>1, <2>5, <2>7, <2>8, <2>9, <2>10, GoodKeeps DEF Good, Counted, pool
<1> QED
  BY <1>1, <1>2

(* What the invariant of the pool says of its properties. *)
LEMMA PoolFacts ==
  ASSUME NEW PCs, PoolOK(PCs)
  PROVE  /\ PoolTypeOK /\ pc \in [Tasks -> PCs]
         /\ LeaseAccounting /\ OneSessionPerAccount /\ SwitchAvoidsExcluded
<1>1. PoolTypeOK /\ pc \in [Tasks -> PCs]
  BY DEF PoolOK, ListOK, Counted, LocalTypes, PoolTypeOK, Position
<1>2. OneSessionPerAccount
  BY MembersCounted DEF PoolOK, ListOK, OneSessionPerAccount
<1>3. SwitchAvoidsExcluded
  BY Disjoint DEF PoolOK, TaskOK, AvoidOK, Heading, SwitchAvoidsExcluded
<1> QED
  BY <1>1, <1>2, <1>3 DEF PoolOK

-----------------------------------------------------------------------------
(* SessionRetry.  Between attempts the count may exceed the limit; the     *)
(* handlers of the errors look at it before the next one.                  *)
BoundOK(r) ==
  \/ pc[r] \in {"caught", "toggling"} \/ goal[r] = "retry"
  \/ retries[r] <= RetryLimit \/ retries[r] = 1

(* The counts of retries are in range, and bounded between attempts.       *)
RetriesOK ==
  /\ retries \in [Requests -> 0..(RetryLimit + 2)]
  /\ error \in [Requests -> Errors \cup {"none"}]
  /\ \A r \in Requests : BoundOK(r)

(* Inductive for SessionRetry. *)
Inv == PoolOK(RetryPCs) /\ RetriesOK

(* The labels of a Qwen request are those of the pool and two more. *)
LEMMA RetryLabels ==
  PoolPCs \subseteq RetryPCs /\ {"caught", "toggling"} \subseteq RetryPCs
  BY DEF RetryPCs

(* The name at the current index, when there is one. *)
LEMMA CurrentIsAccount ==
  ASSUME ListOK
  PROVE  CurrentName \in Accounts \cup {NoOne}
  BY IndexFacts DEF ListOK, CurrentName

(* Calling switch_to_next gives the session up. *)
LEMMA SwitchCalled ==
  ASSUME NEW r \in Requests, NEW PCs, PoolPCs \subseteq PCs, LocalTypes(PCs),
         NEW name \in Accounts \cup {NoOne},
         Goto(r, "switch"), who' = [who EXCEPT ![r] = NoOne],
         avoid' = [avoid EXCEPT ![r] = name], goal' = [goal EXCEPT ![r] = "retry"],
         UNCHANGED <<then, skip, before>>, LeaseMove(r)
  PROVE  Good(r, PCs)
<1> USE Disjoint DEF LocalTypes, Goto
<1>1. LocalTypes(PCs)'
  BY DEF PoolPCs, Goals
<1>2. Local(r)
  BY DEF Local
<1>3. TaskOK(r)'
  BY DEF TaskOK, AccountOK, GoalOK, AvoidOK, Heading, Switching
<1> QED
  BY <1>1, <1>2, <1>3 DEF Good

(* An error ends the stream. *)
LEMMA FailKeeps ==
  ASSUME NEW r \in Requests, NEW k \in Errors, PoolOK(RetryPCs), Fail(r, k)
  PROVE  PoolOK(RetryPCs)'
<1> USE Disjoint
<1>0. r \in Tasks /\ ListOK /\ Counted /\ LocalTypes(RetryPCs) /\ TaskOK(r)
  BY DEF PoolOK
<1>1. /\ \/ Persist(IF r \in stale THEN {} ELSE {who[r]}, {r})
         \/ stale' = stale \ {r} /\ UNCHANGED <<sessions, bad, index>>
      /\ EndLease(r) /\ pc[r] = "streaming" /\ pc' = [pc EXCEPT ![r] = "caught"]
      /\ UNCHANGED <<blocked, muted, task, lock, who>>
  BY DEF Fail, Goto
<1>2. ListOK'
  BY <1>0, <1>1, PersistKeeps DEF ListOK
<1>3. LeaseMove(r)
  BY <1>0, <1>1 DEF EndLease, LeaseMove, LeaseEnded, LocalTypes
<1>4. LocalTypes(RetryPCs)' /\ Local(r)
  BY <1>0, <1>1, RetryLabels DEF LocalTypes, Local, task
<1>5. TaskOK(r)'
  BY <1>0, <1>1 DEF TaskOK, AccountOK, GoalOK, AvoidOK, Heading, Switching, LocalTypes, task
<1> QED
  BY <1>0, <1>1, <1>2, <1>3, <1>4, <1>5, GoodKeeps DEF Good, Counted

(* The steps of a Qwen request outside the pool. *)
LEMMA RetryKeeps ==
  ASSUME NEW r \in Requests, PoolOK(RetryPCs), RetryStep(r)
  PROVE  PoolOK(RetryPCs)'
<1> USE Disjoint, RetryLabels
<1>0. r \in Tasks /\ ListOK /\ Counted /\ LocalTypes(RetryPCs) /\ TaskOK(r)
  BY DEF PoolOK
<1>1. CASE Start(r) \/ NoSession(r)
  <2>1. PICK label \in {"ask", "caught"} : Goto(r, label)
    BY <1>1 DEF Start, NoSession
  <2>2. /\ pc[r] = "idle" \/ (pc[r] = "returned" /\ goal[r] = "lease")
        /\ UNCHANGED <<pool, task, inflight, lock, who, stale>>
    BY <1>1 DEF Start, NoSession
  <2>3. ListOK'
    BY <1>0, <2>2 DEF ListOK, pool
  <2>4. LocalTypes(RetryPCs)' /\ Local(r)
    BY <1>0, <2>1, <2>2 DEF LocalTypes, Local, Goto, task, PoolPCs
  <2>5. TaskOK(r)' /\ LeaseMove(r)
    BY <1>0, <2>1, <2>2 DEF TaskOK, AccountOK, GoalOK, AvoidOK, Heading, Switching, Goto,
                            LocalTypes, task, LeaseMove, LeaseKept
  <2> QED
    BY <1>0, <2>2, <2>3, <2>4, <2>5, GoodKeeps DEF Good, Counted, pool
<1>2. CASE AccountError(r)
  <2>1. PICK name \in Accounts \cup {NoOne} : name = CurrentName
    BY <1>0, CurrentIsAccount
  <2>2. /\ blocked' \subseteq Accounts /\ CallSwitch(r, name) /\ pc[r] = "caught"
        /\ SaveMeta \/ UNCHANGED <<sessions, bad, stale>>
        /\ UNCHANGED <<index, muted, inflight, lock>>
    BY <1>0, <1>2, <2>1 DEF AccountError, BlockCurrent, Counted
  <2>3. ListOK'
    BY <1>0, <2>2, SaveMetaKeeps DEF ListOK
  <2>4. LeaseMove(r)
    BY <1>0, <2>2 DEF CallSwitch, Goto, LocalTypes, LeaseMove, LeaseKept
  <2>5. Good(r, RetryPCs)
    BY <1>0, <2>2, <2>4, SwitchCalled DEF CallSwitch
  <2> QED
    BY <1>0, <2>2, <2>3, <2>5, GoodKeeps DEF Counted
<1>3. CASE ChatNotFound(r)
  <2>1. PICK name \in Accounts \cup {NoOne} : name = CurrentName
    BY <1>0, CurrentIsAccount
  <2>2. /\ pc[r] = "caught" /\ pc' = [pc EXCEPT ![r] = "toggling"]
        /\ avoid' = [avoid EXCEPT ![r] = name]
        /\ UNCHANGED <<pool, then, skip, before, goal, inflight, lock, who, stale>>
    BY <1>3, <2>1 DEF ChatNotFound, Goto
  <2>3. ListOK'
    BY <1>0, <2>2 DEF ListOK, pool
  <2>4. LocalTypes(RetryPCs)' /\ Local(r)
    BY <1>0, <2>2 DEF LocalTypes, Local
  <2>5. TaskOK(r)' /\ LeaseMove(r)
    BY <1>0, <2>2 DEF TaskOK, AccountOK, GoalOK, AvoidOK, Heading, Switching,
                      LocalTypes, LeaseMove, LeaseKept
  <2> QED
    BY <1>0, <2>2, <2>3, <2>4, <2>5, GoodKeeps DEF Good, Counted, pool
<1>4. CASE InvalidateCurrent(r)
  <2>1. PICK name : name = avoid[r]
    OBVIOUS
  <2>2. /\ Persist({CurrentName}, {}) \/ UNCHANGED <<sessions, bad, index, stale>>
        /\ pc[r] = "toggling" /\ CallSwitch(r, name)
        /\ UNCHANGED <<blocked, muted, inflight, lock>>
    BY <1>4, <2>1 DEF InvalidateCurrent
  <2>3. ListOK'
    BY <1>0, <2>2, PersistKeeps DEF ListOK
  <2>4. name \in Accounts \cup {NoOne}
    BY <1>0, <2>1 DEF LocalTypes
  <2>5. LeaseMove(r)
    BY <1>0, <2>2 DEF CallSwitch, Goto, LocalTypes, LeaseMove, LeaseKept
  <2>6. Good(r, RetryPCs)
    BY <1>0, <2>2, <2>4, <2>5, SwitchCalled DEF CallSwitch
  <2> QED
    BY <1>0, <2>2, <2>3, <2>6, GoodKeeps DEF Counted
<1>5. ASSUME Raise(r) \/ Again(r), pc[r] # "streaming"
      PROVE  PoolOK(RetryPCs)'
  <2>1. PICK label \in {"idle", "ask"} : Goto(r, label)
    BY <1>5 DEF Raise, Again
  <2>2. /\ who' = [who EXCEPT ![r] = NoOne] /\ Forget(r)
        /\ stale' = stale \ {r}
        /\ UNCHANGED <<pool, inflight, lock>>
    BY <1>5 DEF Raise, Again
  <2> QED
    BY <1>0, <1>5, <2>1, <2>2, LeaveKeeps
<1>6. CASE AfterSwitch(r) \/ OtherError(r)
  BY <1>5, <1>6 DEF AfterSwitch, OtherError
<1>7. CASE Finish(r)
  BY <1>0, <1>7, LeaveKeeps DEF Finish
<1>8. ASSUME NEW k \in Errors, Fail(r, k)
      PROVE  PoolOK(RetryPCs)'
  BY <1>8, FailKeeps
<1> QED
  BY <1>1, <1>2, <1>3, <1>4, <1>6, <1>7, <1>8 DEF RetryStep

(* A step that leaves the counts of retries alone. *)
LEMMA RetriesAlone ==
  ASSUME RetriesOK, UNCHANGED own,
         \A r \in Requests : BoundOK(r) => BoundOK(r)'
  PROVE  RetriesOK'
  BY DEF RetriesOK, own

(* A step of the pool does not give a request another goal. *)
LEMMA PoolRetries ==
  ASSUME NEW t \in Tasks, PoolOK(RetryPCs), RetriesOK, PoolStep(t), UNCHANGED own
  PROVE  RetriesOK'
<1> USE Disjoint
<1>1. ListOK /\ LocalTypes(RetryPCs) /\ TaskOK(t)
  BY DEF PoolOK
<1>2. ListOK'
  BY <1>1, PoolList DEF TaskOK
<1>3. Good(t, RetryPCs)
  BY <1>1, <1>2, RetryLabels, PoolGood
<1>4. ASSUME NEW r \in Requests \ {t}, BoundOK(r)
      PROVE  BoundOK(r)'
  BY <1>3, <1>4 DEF Good, Local, BoundOK, own
<1>5. ASSUME t \in Requests, BoundOK(t)
      PROVE  BoundOK(t)'
  <2>1. /\ pc[t] \notin {"caught", "toggling"}
        /\ goal' = goal \/ goal[t] = "replenish"
    BY DEF PoolStep, Ask, EndSave, Select, SelectNone, Switch, SelectAndCommit, Commit,
           PickLogin, PickNobody, GiveUp, LoginOk, ReplenishOk, LoginWaits, LoginAppend,
           Adopt, LoginFailed, EndFailedLogin, task
  <2>2. goal[t] # "replenish"
    BY <1>1, <1>5 DEF TaskOK, GoalOK
  <2> QED
    BY <1>5, <2>1, <2>2 DEF BoundOK, own
<1> QED
  BY <1>4, <1>5, RetriesAlone

(* The count grows when an attempt fails, and is looked at before the next. *)
LEMMA RetryCounts ==
  ASSUME NEW r \in Requests, PoolOK(RetryPCs), RetriesOK,
         RetryStep(r) \/ (CancelRequest(r) /\ ForgetRetries(r))
  PROVE  RetriesOK'
<1> USE Disjoint, RetryAssumption DEF RetriesOK
<1>0. LocalTypes(RetryPCs) /\ TaskOK(r) /\ r \in Tasks /\ retries[r] \in 0..(RetryLimit + 2)
  BY DEF PoolOK
<1>1. ASSUME NEW n \in 0..(RetryLimit + 2), retries' = [retries EXCEPT ![r] = n],
             NEW e \in Errors \cup {"none"}, error' = [error EXCEPT ![r] = e],
             \A x \in Requests \ {r} : pc'[x] = pc[x] /\ goal'[x] = goal[x],
             BoundOK(r)'
      PROVE  RetriesOK'
  BY <1>1 DEF BoundOK
<1>2. ASSUME NEW label, Goto(r, label)
      PROVE  pc'[r] = label /\ \A x \in Requests \ {r} : pc'[x] = pc[x]
  BY <1>0, <1>2 DEF LocalTypes, Goto
<1>3. Forget(r) => \A x \in Requests \ {r} : goal'[x] = goal[x]
  BY <1>0, Forgotten
<1>4. /\ error = [error EXCEPT ![r] = error[r]] /\ error[r] \in Errors \cup {"none"}
      /\ retries = [retries EXCEPT ![r] = retries[r]]
  OBVIOUS
<1>5. ASSUME Forget(r), ForgetRetries(r), Goto(r, "idle")
      PROVE  RetriesOK'
  <2>1. BoundOK(r)'
    BY <1>5 DEF BoundOK, ForgetRetries
  <2>2. PICK n \in 0..(RetryLimit + 2) : n = 0
    OBVIOUS
  <2> QED
    BY <1>1, <1>2, <1>3, <1>5, <2>1, <2>2 DEF ForgetRetries
<1>6. ASSUME Again(r), retries[r] <= RetryLimit \/ retries[r] = 1
      PROVE  RetriesOK'
  <2>1. BoundOK(r)'
    BY <1>6 DEF BoundOK, Again
  <2>2. /\ retries' = [retries EXCEPT ![r] = retries[r]]
        /\ error' = [error EXCEPT ![r] = "none"]
        /\ Forget(r) /\ Goto(r, "ask")
    BY <1>4, <1>6 DEF Again
  <2> QED
    BY <1>0, <1>1, <1>2, <1>3, <2>1, <2>2
<1>7. ASSUME NEW k \in Errors, Goto(r, "caught"), goal' = goal, goal[r] # "retry",
             pc[r] \notin {"caught", "toggling"},
             retries' = [retries EXCEPT ![r] = @ + 1], error' = [error EXCEPT ![r] = k]
      PROVE  RetriesOK'
  <2>1. retries[r] <= RetryLimit \/ retries[r] = 1
    BY <1>7 DEF BoundOK
  <2>2. PICK n \in 0..(RetryLimit + 2) : n = retries[r] + 1
    BY <1>0, <2>1
  <2>3. BoundOK(r)'
    BY <1>2, <1>7 DEF BoundOK
  <2> QED
    BY <1>1, <1>2, <1>7, <2>2, <2>3
<1>8. CASE Start(r)
  BY <1>2, <1>8 DEF Start, BoundOK, own, task
<1>9. CASE NoSession(r)
  BY <1>7, <1>9 DEF NoSession, task, Errors
<1>10. CASE AccountError(r)
  <2>1. /\ Goto(r, "switch") /\ goal' = [goal EXCEPT ![r] = "retry"]
        /\ error' = [error EXCEPT ![r] = "token"] /\ retries' = retries
    BY <1>10 DEF AccountError, CallSwitch
  <2>2. goal'[r] = "retry" /\ \A x \in Requests \ {r} : goal'[x] = goal[x]
    BY <1>0, <2>1 DEF LocalTypes
  <2>3. BoundOK(r)'
    BY <2>2 DEF BoundOK
  <2> QED
    BY <1>0, <1>1, <1>2, <1>4, <2>1, <2>2, <2>3 DEF Errors
<1>11. CASE ChatNotFound(r)
  BY <1>2, <1>11 DEF ChatNotFound, BoundOK, own
<1>12. CASE InvalidateCurrent(r)
  <2>1. /\ Goto(r, "switch") /\ goal' = [goal EXCEPT ![r] = "retry"]
        /\ error' = error /\ retries' = retries
    BY <1>12 DEF InvalidateCurrent, CallSwitch, own
  <2>2. goal'[r] = "retry" /\ \A x \in Requests \ {r} : goal'[x] = goal[x]
    BY <1>0, <2>1 DEF LocalTypes
  <2>3. BoundOK(r)'
    BY <2>2 DEF BoundOK
  <2> QED
    BY <1>0, <1>1, <1>2, <1>4, <2>1, <2>2, <2>3
<1>13. CASE AfterSwitch(r)
  BY <1>5, <1>6, <1>13 DEF AfterSwitch, Raise
<1>14. CASE OtherError(r)
  <2>1. Raise(r) \/ (Again(r) /\ (retries[r] <= RetryLimit \/ retries[r] = 1))
    BY <1>0, <1>14 DEF OtherError
  <2> QED
    BY <1>5, <1>6, <2>1 DEF Raise
<1>15. CASE Finish(r)
  BY <1>5, <1>15 DEF Finish
<1>16. ASSUME NEW k \in Errors, Fail(r, k)
       PROVE  RetriesOK'
  <2>1. pc[r] = "streaming" /\ goal[r] # "retry"
    BY <1>0, <1>16 DEF Fail, TaskOK, GoalOK, Heading, Switching
  <2> QED
    BY <1>7, <1>16, <2>1 DEF Fail, task
<1>17. CASE CancelRequest(r) /\ ForgetRetries(r)
  BY <1>5, <1>17 DEF CancelRequest
<1> QED
  BY <1>8, <1>9, <1>10, <1>11, <1>12, <1>13, <1>14, <1>15, <1>16, <1>17 DEF RetryStep

(* The invariant holds at first, and every step keeps it. *)
LEMMA Initially == Init => Inv
<1> SUFFICES ASSUME Init PROVE Inv
  OBVIOUS
<1>1. PoolOK(RetryPCs)
  BY PoolBegins, RetryLabels DEF Init
<1>2. RetriesOK
  BY RetryAssumption DEF Init, RetriesOK, BoundOK
<1> QED
  BY <1>1, <1>2 DEF Inv

LEMMA StepKeeps == Inv /\ [Next]_vars => Inv'
<1> SUFFICES ASSUME Inv, [Next]_vars PROVE Inv'
  OBVIOUS
<1> USE Disjoint, RetryLabels DEF Inv
<1>1. ASSUME NEW t \in Tasks, PoolStep(t), UNCHANGED own
      PROVE  Inv'
  BY <1>1, PoolKeeps, PoolRetries
<1>2. ASSUME NEW r \in Requests, RetryStep(r)
      PROVE  Inv'
  BY <1>2, RetryKeeps, RetryCounts
<1>3. ASSUME NEW r \in Requests, CancelRequest(r), ForgetRetries(r)
      PROVE  Inv'
  BY <1>3, CancelKeeps, RetryCounts
<1>4. ASSUME NEW k \in Keepers, KeeperCleanup(k) \/ KeeperLogin(k), UNCHANGED own
      PROVE  Inv'
  <2>1. \A r \in Requests : pc'[r] = pc[r] /\ goal'[r] = goal[r]
    BY <1>4 DEF KeeperCleanup, KeeperLogin, Tidy, Goto, task, PoolOK, LocalTypes
  <2>2. RetriesOK'
    BY <1>4, <2>1, RetriesAlone DEF BoundOK, own
  <2> QED
    BY <1>4, <2>2, KeeperKeeps
<1>5. ASSUME NEW u \in Accounts, Expire(u) \/ Forgive(u), UNCHANGED own
      PROVE  Inv'
  <2>1. UNCHANGED <<pc, goal>>
    BY <1>5 DEF Expire, Forgive, task
  <2>2. RetriesOK'
    BY <1>5, <2>1, RetriesAlone DEF BoundOK, own
  <2> QED
    BY <1>5, <2>2, AccountKeeps
<1>6. CASE UNCHANGED vars
  <2>1. UNCHANGED poolVars /\ UNCHANGED <<pc, goal, own>>
    BY <1>6 DEF vars, poolVars, task
  <2>2. RetriesOK'
    BY <2>1, RetriesAlone DEF BoundOK, own
  <2> QED
    BY <2>1, <2>2, StutterKeeps
<1> QED
  BY <1>1, <1>2, <1>3, <1>4, <1>5, <1>6 DEF Next

(* Hence it always holds. *)
LEMMA Always == Spec => []Inv
  BY Initially, StepKeeps, PTL DEF Spec

(* Type correctness.  In particular the index never falls off the front of *)
(* the list, no loop ever commits a session, and a task past its choice    *)
(* names an account of the login pool.                                     *)
THEOREM TypeCorrect == Spec => []TypeOK
<1>1. Inv => TypeOK
  BY PoolFacts DEF Inv, RetriesOK, TypeOK
<1> QED
  BY <1>1, Always, PTL

(* However logins of one account overlap with cleanups, saves and switches *)
(* (replace_or_append, clean_expired in core/session), the list never      *)
(* holds two sessions of it.                                               *)
THEOREM ListCorrect == Spec => []OneSessionPerAccount
<1>1. Inv => OneSessionPerAccount
  BY PoolFacts DEF Inv
<1> QED
  BY <1>1, Always, PTL

(* The in-flight count of an account is the number of requests that lease  *)
(* its session, however their leases ended (_inflight in core/session/pool *)
(* .py, lease_valid_session).                                              *)
THEOREM LeaseCorrect == Spec => []LeaseAccounting
<1>1. Inv => LeaseAccounting
  BY PoolFacts DEF Inv
<1> QED
  BY <1>1, Always, PTL

(* switch_to_next never returns the account it was told to exclude, nor    *)
(* does a login it makes (core/session/pool_switch.py).                    *)
THEOREM SwitchCorrect == Spec => []SwitchAvoidsExcluded
<1>1. Inv => SwitchAvoidsExcluded
  BY PoolFacts DEF Inv
<1> QED
  BY <1>1, Always, PTL

(* No order of failures and switches gives a request more attempts than    *)
(* max_retry_on_error grants (server/retry/session_retry.py).              *)
THEOREM BoundCorrect == Spec => []AttemptsBounded
<1>1. Inv => AttemptsBounded
  BY Disjoint, RetryAssumption
     DEF Inv, PoolOK, TaskOK, GoalOK, RetriesOK, BoundOK, Heading, Switching, AttemptsBounded
<1> QED
  BY <1>1, Always, PTL

-----------------------------------------------------------------------------
(* MutedRetry.  Inductive: the pool is as it should be, and attempts are  *)
(* counted.                                                                *)
MutedInv ==
  /\ PoolOK(PoolPCs)
  /\ attempt \in [Requests -> 0..MaxMuteSwitch]

(* Taking a muted account out keeps the list in order. *)
LEMMA MutedListKeeps ==
  ASSUME ListOK, muted \subseteq Accounts, NEW u \in Accounts, HandleAccountMuted(u)
  PROVE  ListOK' /\ muted' \subseteq Accounts
<1>1. PICK out : out = {u}
  OBVIOUS
<1> DEFINE list == Without(sessions, out)
           kept == Without(list, bad)
           valid == {i \in 1..Len(list) : list[i] \notin bad}
<1>2. /\ muted' = muted \cup {u}
      /\ index' \in IF valid = {} THEN {1} ELSE valid
      /\ sessions' = kept /\ bad' = {}
      /\ stale' = stale \cup {t \in Holding : who[t] \in bad \cup {u}}
  BY <1>1 DEF HandleAccountMuted
<1>3. list \in Seq(Accounts) /\ Distinct(list)
  BY WithoutFacts DEF ListOK
<1> HIDE DEF list
<1>4. kept \in Seq(Accounts) /\ Distinct(kept)
  BY <1>3, WithoutFacts
<1>5. index' \in Position
  BY <1>2, <1>3 DEF Position
<1>6. stale' \subseteq Tasks
  BY <1>2 DEF ListOK, Holding
<1> HIDE DEF kept
<1> QED
  BY <1>2, <1>4, <1>5, <1>6 DEF ListOK

(* The steps of a request that meets muted accounts. *)
LEMMA ChatKeeps ==
  ASSUME NEW r \in Requests, PoolOK(PoolPCs), ChatStep(r)
  PROVE  PoolOK(PoolPCs)'
<1> USE Disjoint
<1>0. r \in Tasks /\ ListOK /\ Counted /\ LocalTypes(PoolPCs) /\ TaskOK(r)
  BY DEF PoolOK
<1>1. CASE StartChat(r)
  <2>1. /\ pc[r] = "idle" /\ pc' = [pc EXCEPT ![r] = "ask"]
        /\ UNCHANGED <<pool, task, inflight, lock, who, stale>>
    BY <1>1 DEF StartChat, Goto
  <2>2. ListOK'
    BY <1>0, <2>1 DEF ListOK, pool
  <2>3. LocalTypes(PoolPCs)' /\ Local(r)
    BY <1>0, <2>1 DEF LocalTypes, Local, task, PoolPCs
  <2>4. TaskOK(r)' /\ LeaseMove(r)
    BY <1>0, <2>1 DEF TaskOK, AccountOK, GoalOK, AvoidOK, Heading, Switching,
                      LocalTypes, task, LeaseMove, LeaseKept
  <2> QED
    BY <1>0, <2>1, <2>2, <2>3, <2>4, GoodKeeps DEF Good, Counted, pool
<1>2. CASE FinishChat(r)
  BY <1>0, <1>2, LeaveKeeps DEF FinishChat, End
<1>3. CASE Exhausted(r)
  BY <1>0, <1>3, LeaveKeeps DEF Exhausted, End
<1>4. CASE Muted(r)
  <2>1. PICK name : name = who[r]
    OBVIOUS
  <2>2. /\ pc[r] = "streaming" /\ HandleAccountMuted(name) /\ EndLease(r)
        /\ Goto(r, "switch") /\ who' = [who EXCEPT ![r] = NoOne]
        /\ avoid' = [avoid EXCEPT ![r] = name] /\ goal' = [goal EXCEPT ![r] = "retry"]
        /\ UNCHANGED <<blocked, then, skip, before, lock>>
    BY <1>4, <2>1 DEF Muted
  <2>3. name \in Accounts
    BY <1>0, <2>1, <2>2 DEF TaskOK, AccountOK
  <2>4. ListOK' /\ muted' \subseteq Accounts
    BY <1>0, <2>2, <2>3, MutedListKeeps DEF Counted
  <2>5. LeaseMove(r)
    BY <1>0, <2>2 DEF EndLease, Goto, LocalTypes, LeaseMove, LeaseEnded
  <2>6. Good(r, PoolPCs)
    BY <1>0, <2>2, <2>3, <2>5, SwitchCalled
  <2> QED
    BY <1>0, <2>2, <2>4, <2>6, GoodKeeps DEF Counted
<1>5. CASE NextAttempt(r)
  <2>1. PICK label \in {"idle", "ask"} : Goto(r, label)
    BY <1>5 DEF NextAttempt, End
  <2>2. /\ pc[r] = "returned" /\ who' = [who EXCEPT ![r] = NoOne] /\ Forget(r)
        /\ stale' = stale \ {r} /\ UNCHANGED <<pool, inflight, lock>>
    BY <1>5 DEF NextAttempt, End
  <2> QED
    BY <1>0, <2>1, <2>2, LeaveKeeps
<1>6. CASE Cancel(r)
  BY <1>6, CancelKeeps DEF Cancel
<1> QED
  BY <1>1, <1>2, <1>3, <1>4, <1>5, <1>6 DEF ChatStep

(* A login that meets a muted account. *)
LEMMA LoginMutedKeeps ==
  ASSUME NEW t \in Tasks, PoolOK(PoolPCs), LoginMuted(t)
  PROVE  PoolOK(PoolPCs)'
<1> USE Disjoint
<1>0. ListOK /\ Counted /\ LocalTypes(PoolPCs) /\ TaskOK(t)
  BY DEF PoolOK
<1>1. PICK name : name = who[t]
  OBVIOUS
<1>2. /\ pc[t] = "login" /\ HandleAccountMuted(name) /\ EndFailedLogin(t)
      /\ UNCHANGED <<blocked, inflight, lock>>
  BY <1>1 DEF LoginMuted
<1>3. name \in Accounts
  BY <1>0, <1>1, <1>2 DEF TaskOK, AccountOK, Heading
<1>4. ListOK' /\ muted' \subseteq Accounts
  BY <1>0, <1>2, <1>3, MutedListKeeps DEF Counted
<1>5. Good(t, PoolPCs)
  <2>1. CASE goal[t] = "replenish"
    <3>1. Goto(t, "idle") /\ who' = [who EXCEPT ![t] = NoOne] /\ Forget(t)
      BY <1>2, <2>1 DEF EndFailedLogin, EndReplenish
    <3>2. LeaseMove(t)
      BY <1>0, <1>2, <3>1 DEF LeaseMove, LeaseKept, Goto, LocalTypes
    <3> QED
      BY <1>0, <3>1, <3>2, Rests
  <2>2. CASE goal[t] # "replenish"
    <3>1. pc' = [pc EXCEPT ![t] = "next"] /\ UNCHANGED <<task, who, inflight>>
      BY <1>2, <2>2 DEF EndFailedLogin, Goto
    <3>2. LocalTypes(PoolPCs)' /\ Local(t)
      BY <1>0, <3>1 DEF LocalTypes, Local, task, PoolPCs
    <3>3. TaskOK(t)' /\ LeaseMove(t)
      BY <1>0, <1>2, <2>2, <3>1
         DEF TaskOK, AccountOK, KeeperOK, GoalOK, AvoidOK, Heading, Switching,
             LocalTypes, task, LeaseMove, LeaseKept
    <3> QED
      BY <3>2, <3>3 DEF Good
  <2> QED
    BY <2>1, <2>2
<1> QED
  BY <1>0, <1>2, <1>4, <1>5, GoodKeeps DEF Counted

(* The attempts of a request are counted up to _MAX_MUTE_SWITCH. *)
LEMMA AttemptCounts ==
  ASSUME attempt \in [Requests -> 0..MaxMuteSwitch], [MutedNext]_mutedVars
  PROVE  attempt' \in [Requests -> 0..MaxMuteSwitch]
<1> USE MuteSwitchAssumption
<1>1. ASSUME NEW r \in Requests, ChatStep(r)
      PROVE  attempt' \in [Requests -> 0..MaxMuteSwitch]
  BY <1>1 DEF ChatStep, StartChat, FinishChat, Exhausted, Muted, NextAttempt, Cancel, End
<1>2. CASE UNCHANGED attempt
  BY <1>2
<1> QED
  BY <1>1, <1>2 DEF MutedNext, LoginMuted, mutedVars

(* The invariant holds at first, and every step keeps it. *)
LEMMA MutedInitially == MutedInit => MutedInv
<1> SUFFICES ASSUME MutedInit PROVE MutedInv
  OBVIOUS
<1>1. PoolOK(PoolPCs)
  BY PoolBegins DEF MutedInit
<1> QED
  BY <1>1, MuteSwitchAssumption DEF MutedInit, MutedInv

LEMMA MutedStepKeeps == MutedInv /\ [MutedNext]_mutedVars => MutedInv'
<1> SUFFICES ASSUME MutedInv, [MutedNext]_mutedVars PROVE PoolOK(PoolPCs)'
  BY AttemptCounts DEF MutedInv
<1> USE DEF MutedInv
<1>1. ASSUME NEW t \in Tasks, PoolStep(t)
      PROVE  PoolOK(PoolPCs)'
  BY <1>1, PoolKeeps
<1>2. ASSUME NEW t \in Tasks, LoginMuted(t)
      PROVE  PoolOK(PoolPCs)'
  BY <1>2, LoginMutedKeeps
<1>3. ASSUME NEW r \in Requests, ChatStep(r)
      PROVE  PoolOK(PoolPCs)'
  BY <1>3, ChatKeeps
<1>4. ASSUME NEW k \in Keepers, KeeperCleanup(k) \/ KeeperLogin(k)
      PROVE  PoolOK(PoolPCs)'
  BY <1>4, KeeperKeeps
<1>5. ASSUME NEW u \in Accounts, Expire(u) \/ Forgive(u)
      PROVE  PoolOK(PoolPCs)'
  BY <1>5, AccountKeeps
<1>6. CASE UNCHANGED mutedVars
  BY <1>6, StutterKeeps DEF mutedVars
<1> QED
  BY <1>1, <1>2, <1>3, <1>4, <1>5, <1>6 DEF MutedNext

(* Hence it always holds. *)
LEMMA MutedAlways == MutedSpec => []MutedInv
  BY MutedInitially, MutedStepKeeps, PTL DEF MutedSpec

(* Type correctness: among others, no request makes more attempts than     *)
(* _MAX_MUTE_SWITCH, and only accounts of the login pool are ever muted.   *)
THEOREM MutedTypeCorrect == MutedSpec => []MutedTypeOK
<1>1. MutedInv => MutedTypeOK
  BY PoolFacts DEF MutedInv, MutedTypeOK
<1> QED
  BY <1>1, MutedAlways, PTL

(* What holds of the pool under Qwen requests holds of it under DeepSeek   *)
(* requests: handle_account_muted, which takes an account out under the    *)
(* requests that lease it, disturbs neither the list nor the counts.       *)
THEOREM MutedPoolCorrect ==
  MutedSpec => [](LeaseAccounting /\ OneSessionPerAccount /\ SwitchAvoidsExcluded)
<1>1. MutedInv => LeaseAccounting /\ OneSessionPerAccount /\ SwitchAvoidsExcluded
  BY PoolFacts DEF MutedInv
<1> QED
  BY <1>1, MutedAlways, PTL
=============================================================================
