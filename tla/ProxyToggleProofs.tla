-------------------------- MODULE ProxyToggleProofs --------------------------
(***************************************************************************)
(* For every set of requests, every retry limit and any number of          *)
(* restarts: the file keeps the setting, requests that were served are     *)
(* forgotten, and a block that carries its setting makes the toggle leave  *)
(* that setting.                                                           *)
(***************************************************************************)
EXTENDS ProxyToggle, TLAPS

-----------------------------------------------------------------------------
(* The manager's operators *)

(* There are two settings, so the other one is well defined. *)
LEMMA NotOther ==
  ASSUME NEW v \in Settings PROVE Not(v) \in Settings /\ Not(v) # v
  BY DEF Settings, Not

Toggles == [enabled : Settings, seen : SUBSET Requests]

LEMMA SmBlockType ==
  ASSUME NEW t \in Toggles, NEW r \in Requests, NEW v \in Settings
  PROVE  SmBlock(t, r, v) \in Toggles
  BY NotOther DEF SmBlock, Toggles

LEMMA ReleaseType ==
  ASSUME NEW t \in Toggles, NEW r \in Requests
  PROVE  /\ ReleaseTask(t, r) \in Toggles
         /\ ReleaseTask(t, r).enabled = t.enabled
         /\ ReleaseTask(t, r).seen = t.seen \ {r}
  BY DEF ReleaseTask, Toggles

(* A released request is heard whatever the manager knew of it: on_sm_block *)
(* turns away from the setting it names.                                   *)
LEMMA HeardAfterRelease ==
  ASSUME NEW t \in Toggles, NEW r \in Requests, NEW v \in Settings
  PROVE  /\ SmBlock(ReleaseTask(t, r), r, v) \in Toggles
         /\ SmBlock(ReleaseTask(t, r), r, v).enabled = Not(v)
         /\ SmBlock(ReleaseTask(t, r), r, v).seen = t.seen \cup {r}
<1>1. r \notin ReleaseTask(t, r).seen
  BY ReleaseType
<1>2. SmBlock(ReleaseTask(t, r), r, v)
        = [enabled |-> Not(v), seen |-> ReleaseTask(t, r).seen \cup {r}]
  BY <1>1 DEF SmBlock
<1>3. ReleaseTask(t, r).seen \cup {r} = t.seen \cup {r}
  BY ReleaseType
<1>4. SmBlock(ReleaseTask(t, r), r, v) \in Toggles
  BY ReleaseType, SmBlockType
<1> QED
  BY <1>2, <1>3, <1>4

LEMMA SeenInside ==
  ASSUME NEW t \in Toggles, NEW r \in Requests, NEW v \in Settings
  PROVE  SmBlock(t, r, v).seen \subseteq t.seen \cup {r}
  BY DEF SmBlock, Toggles

(* A block that goes through all three calls of on_sm_block. *)
LEMMA ToldIs ==
  ASSUME TypeOK, NEW r \in Requests
  PROVE  /\ ReadUsed(r) \in Settings
         /\ Told(r) \in Toggles
         /\ Told(r).enabled = Not(ReadUsed(r))
         /\ Told(r).seen \subseteq toggle.seen \cup {r}
<1> DEFINE v == ReadUsed(r)
           t1 == SmBlock(toggle, r, v)
           t2 == SmBlock(t1, r, v)
<1>1. v \in Settings
  BY DEF TypeOK, ReadUsed
<1>2. toggle \in Toggles
  BY DEF TypeOK, Toggles
<1>3. t1 \in Toggles /\ t2 \in Toggles
  BY <1>1, <1>2, SmBlockType
<1>4. t2.seen \subseteq toggle.seen \cup {r}
  <2>1. t1.seen \subseteq toggle.seen \cup {r}
    BY <1>1, <1>2, SeenInside
  <2>2. t2.seen \subseteq t1.seen \cup {r}
    BY <1>1, <1>3, SeenInside
  <2> QED
    BY <2>1, <2>2
<1>5. Told(r) = SmBlock(ReleaseTask(t2, r), r, v)
  BY DEF Told
<1> HIDE DEF v, t1, t2
<1>6. /\ Told(r) \in Toggles /\ Told(r).enabled = Not(v)
      /\ Told(r).seen = t2.seen \cup {r}
  BY <1>1, <1>3, <1>5, HeardAfterRelease
<1> QED
  BY <1>1, <1>4, <1>6 DEF v

-----------------------------------------------------------------------------
(* Steps of one request *)

Points == {"new", "creating", "posting", "reporting", "again"} \cup Ended

LEMMA RetryTypes ==
  ASSUME TypeOK, NEW r \in Requests, NEW from, Retry(r, from)
  PROVE  /\ pc' \in [Requests -> Points]
         /\ retries' \in [Requests -> 0..RetryLimit]
         /\ pc[r] \in from /\ pc'[r] \in {"again", "exhausted"}
         /\ \A q \in Requests \ {r} : pc'[q] = pc[q]
<1> USE ToggleAssumption DEF TypeOK, Points, Ended
<1>1. CASE retries[r] < RetryLimit
  <2>1. retries[r] + 1 \in 0..RetryLimit
    BY <1>1
  <2> QED
    BY <1>1, <2>1 DEF Retry, Step
<1>2. CASE ~(retries[r] < RetryLimit)
  BY <1>2 DEF Retry, Step
<1> QED
  BY <1>1, <1>2

LEMMA PersistTypes ==
  ASSUME TypeOK, toggle' \in Toggles, WritePersist(toggle'.enabled)
  PROVE  /\ file' \in Settings \cup {"none"} /\ saved' \in BOOLEAN
         /\ saved' => file' = toggle'.enabled
  BY DEF TypeOK, WritePersist, Toggles

(* initialize: a file that was read gives the setting, else it is off. *)
LEMMA AsFiled ==
  ASSUME NEW t, NEW f \in Settings \cup {"none"},
         t = [enabled |-> IF f = "on" THEN "on" ELSE "off", seen |-> {}]
  PROVE  t \in Toggles /\ (f = "none" => t.enabled = "off")
                      /\ (f # "none" => t.enabled = f)
  BY DEF Toggles, Settings

LEMMA TypeInit == Init => TypeOK
<1> SUFFICES ASSUME Init PROVE TypeOK
  OBVIOUS
<1>1. toggle \in Toggles /\ (saved => file = toggle.enabled)
  BY AsFiled DEF Init
<1>2. retries \in [Requests -> 0..RetryLimit] /\ crashes \in 0..MaxCrashes
  BY ToggleAssumption DEF Init
<1> QED
  BY <1>1, <1>2 DEF Init, TypeOK, Toggles, Settings

LEMMA TypeStep == TypeOK /\ [Next]_vars => TypeOK'
<1> SUFFICES ASSUME TypeOK, [Next]_vars PROVE TypeOK'
  OBVIOUS
<1> USE ToggleAssumption DEF Ended
<1>1. CASE OtherTraffic
  BY <1>1 DEF OtherTraffic, TypeOK
<1>2. ASSUME NEW r \in Requests, CreateChat(r) \/ PostChat(r) PROVE TypeOK'
  BY <1>2 DEF CreateChat, PostChat, GetProxy, Step, TypeOK
<1>3. ASSUME NEW r \in Requests, PostBlocked(r) PROVE TypeOK'
  BY <1>3 DEF PostBlocked, Step, TypeOK
<1>4. ASSUME NEW r \in Requests, Blocked(r) PROVE TypeOK'
  <2>1. toggle' \in Toggles
    BY <1>4, ToldIs DEF Blocked
  <2>2. /\ file' \in Settings \cup {"none"} /\ saved' \in BOOLEAN
        /\ saved' => file' = toggle'.enabled
    BY <1>4, <2>1, PersistTypes DEF Blocked
  <2>3. pc' \in [Requests -> Points] /\ retries' \in [Requests -> 0..RetryLimit]
    BY <1>4, RetryTypes DEF Blocked
  <2> QED
    BY <1>4, <2>1, <2>2, <2>3 DEF Blocked, TypeOK, Toggles, Points
<1>5. ASSUME NEW r \in Requests, Lost(r) PROVE TypeOK'
  <2>1. toggle' \in Toggles
    BY <1>5, ToldIs, HeardAfterRelease DEF Lost, TypeOK, Toggles
  <2>2. /\ file' \in Settings \cup {"none"} /\ saved' \in BOOLEAN
        /\ saved' => file' = toggle'.enabled
    BY <1>5, <2>1, PersistTypes DEF Lost
  <2>3. pc' \in [Requests -> Points] /\ retries' \in [Requests -> 0..RetryLimit]
    BY <1>5, RetryTypes DEF Lost
  <2> QED
    BY <1>5, <2>1, <2>2, <2>3 DEF Lost, TypeOK, Toggles, Points
<1>6. ASSUME NEW r \in Requests, Failed(r) \/ Leave(r) PROVE TypeOK'
  <2>1. toggle' \in Toggles /\ toggle'.enabled = toggle.enabled
    BY <1>6, ReleaseType DEF Failed, Leave, TypeOK, Toggles
  <2>2. pc' \in [Requests -> Points] /\ retries' \in [Requests -> 0..RetryLimit]
    BY <1>6, RetryTypes DEF Failed, Leave, Step, TypeOK, Points
  <2> QED
    BY <1>6, <2>1, <2>2 DEF Failed, Leave, TypeOK, Toggles, Points
<1>7. ASSUME NEW r \in Requests, LeaveBetween(r) PROVE TypeOK'
  BY <1>7 DEF LeaveBetween, Step, TypeOK
<1>8. CASE Restart
  <2>1. /\ toggle' \in Toggles
        /\ file = "none" => toggle'.enabled = "off"
        /\ file # "none" => toggle'.enabled = file
    BY <1>8, AsFiled DEF Restart, TypeOK
  <2>2. saved' \in BOOLEAN /\ file' \in Settings \cup {"none"}
    BY <1>8 DEF Restart, TypeOK, Settings
  <2>3. saved' => file' = toggle'.enabled
    BY <1>8, <2>1 DEF Restart, TypeOK
  <2>4. /\ pc' \in [Requests -> Points] /\ used' \in [Requests -> Settings]
        /\ carried' \in [Requests -> Settings \cup {"unknown"}]
    BY <1>8 DEF Restart, TypeOK, Settings, Points
  <2>5. crashes' \in 0..MaxCrashes /\ lastUsed' \in Settings
    BY <1>8 DEF Restart, TypeOK, Settings
  <2> QED
    BY <1>8, <2>1, <2>2, <2>3, <2>4, <2>5 DEF Restart, TypeOK, Toggles, Points
<1>9. CASE UNCHANGED vars
  BY <1>9 DEF vars, TypeOK
<1> QED
  BY <1>1, <1>2, <1>3, <1>4, <1>5, <1>6, <1>7, <1>8, <1>9 DEF Next

(* The types, with the file that was written last holding the setting. *)
THEOREM TypeCorrect == Spec => []TypeOK
  BY TypeInit, TypeStep, PTL DEF Spec

-----------------------------------------------------------------------------
LEMMA ForgottenStep ==
  TypeOK /\ ServedIsForgotten /\ [Next]_vars => ServedIsForgotten'
<1> SUFFICES ASSUME TypeOK, ServedIsForgotten, [Next]_vars PROVE ServedIsForgotten'
  OBVIOUS
<1> USE DEF ServedIsForgotten
<1>1. CASE OtherTraffic
  BY <1>1 DEF OtherTraffic
<1>2. ASSUME NEW r \in Requests,
             CreateChat(r) \/ PostChat(r) \/ PostBlocked(r) \/ LeaveBetween(r)
      PROVE  ServedIsForgotten'
  BY <1>2 DEF CreateChat, PostChat, PostBlocked, LeaveBetween, Step, TypeOK
<1>3. ASSUME NEW r \in Requests, Blocked(r) \/ Lost(r) PROVE ServedIsForgotten'
  <2>1. toggle'.seen \subseteq toggle.seen \cup {r}
    BY <1>3, ToldIs, HeardAfterRelease DEF Blocked, Lost, TypeOK, Toggles
  <2>2. /\ pc'[r] \in {"again", "exhausted"}
        /\ \A q \in Requests \ {r} : pc'[q] = pc[q]
    BY <1>3, RetryTypes DEF Blocked, Lost
  <2> QED
    BY <2>1, <2>2
<1>4. ASSUME NEW r \in Requests, Failed(r) \/ Leave(r) PROVE ServedIsForgotten'
  <2>1. toggle'.seen = toggle.seen \ {r}
    BY <1>4, ReleaseType DEF Failed, Leave, TypeOK, Toggles
  <2>2. \A q \in Requests \ {r} : pc'[q] = pc[q]
    BY <1>4, RetryTypes DEF Failed, Leave, Step, TypeOK
  <2> QED
    BY <2>1, <2>2
<1>5. CASE Restart
  BY <1>5 DEF Restart
<1>6. CASE UNCHANGED vars
  BY <1>6 DEF vars
<1> QED
  BY <1>1, <1>2, <1>3, <1>4, <1>5, <1>6 DEF Next

(* A request that was served is not kept in the manager's memory. *)
THEOREM ForgottenCorrect == Spec => []ServedIsForgotten
<1>1. Init => ServedIsForgotten
  BY DEF Init, ServedIsForgotten
<1>2. TypeOK /\ ServedIsForgotten /\ [Next]_vars => (TypeOK /\ ServedIsForgotten)'
  BY TypeStep, ForgottenStep
<1> QED
  BY <1>1, <1>2, TypeInit, PTL DEF Spec

-----------------------------------------------------------------------------
(* What a block carries is the setting its request went out with, as long  *)
(* as it is on its way to the manager.                                     *)
CarriesItsOwn ==
  \A r \in Requests : pc[r] = "reporting" => carried[r] \in {used[r], "unknown"}

LEMMA CarriesStep == TypeOK /\ CarriesItsOwn /\ [Next]_vars => CarriesItsOwn'
<1> SUFFICES ASSUME TypeOK, CarriesItsOwn, [Next]_vars PROVE CarriesItsOwn'
  OBVIOUS
<1> USE DEF CarriesItsOwn
<1>1. CASE OtherTraffic
  BY <1>1 DEF OtherTraffic
<1>2. ASSUME NEW r \in Requests,
             CreateChat(r) \/ PostChat(r) \/ PostBlocked(r) \/ Leave(r) \/ LeaveBetween(r)
      PROVE  CarriesItsOwn'
  BY <1>2 DEF CreateChat, PostChat, PostBlocked, Leave, LeaveBetween, GetProxy, Step, TypeOK
<1>3. ASSUME NEW r \in Requests, Blocked(r) \/ Lost(r) \/ Failed(r) PROVE CarriesItsOwn'
  BY <1>3, RetryTypes DEF Blocked, Lost, Failed
<1>4. CASE Restart
  BY <1>4 DEF Restart
<1>5. CASE UNCHANGED vars
  BY <1>5 DEF vars
<1> QED
  BY <1>1, <1>2, <1>3, <1>4, <1>5 DEF Next

LEMMA BlockLeaves ==
  ASSUME TypeOK, CarriesItsOwn, [Next]_vars, NEW r \in Requests,
         pc[r] = "reporting", carried[r] # "unknown", pc'[r] \in {"again", "exhausted"}
  PROVE  toggle'.enabled # used[r]
<1>1. CASE Blocked(r)
  <2>1. ReadUsed(r) = used[r]
    BY DEF ReadUsed, CarriesItsOwn
  <2> QED
    BY <1>1, <2>1, ToldIs, NotOther DEF Blocked
<1>2. CASE OtherTraffic \/ UNCHANGED vars
  BY <1>2 DEF OtherTraffic, vars
<1>3. ASSUME NEW q \in Requests, Blocked(q) \/ Lost(q) \/ Failed(q) PROVE q = r /\ Blocked(r)
  BY <1>3, RetryTypes DEF Blocked, Lost, Failed
<1>4. ASSUME NEW q \in Requests,
             CreateChat(q) \/ PostChat(q) \/ PostBlocked(q) \/ Leave(q) \/ LeaveBetween(q)
      PROVE  FALSE
  BY <1>4 DEF CreateChat, PostChat, PostBlocked, Leave, LeaveBetween, Step, TypeOK
<1>5. CASE Restart
  BY <1>5 DEF Restart
<1> QED
  BY <1>1, <1>2, <1>3, <1>4, <1>5 DEF Next

(* A block that carries its setting is never answered by staying there. *)
THEOREM BlockCorrect == Spec => BlockedPathIsLeft
<1>1. Init => CarriesItsOwn
  BY DEF Init, CarriesItsOwn
<1>2. TypeOK /\ CarriesItsOwn /\ [Next]_vars => (TypeOK /\ CarriesItsOwn)'
  BY TypeStep, CarriesStep
<1>3. TypeOK /\ CarriesItsOwn /\ [Next]_vars =>
        [\A r \in Requests :
           pc[r] = "reporting" /\ carried[r] # "unknown"
             /\ pc'[r] \in {"again", "exhausted"}
           => toggle'.enabled # used[r]]_vars
  BY BlockLeaves
<1> QED
  BY <1>1, <1>2, <1>3, TypeInit, PTL DEF Spec, BlockedPathIsLeft
=============================================================================
