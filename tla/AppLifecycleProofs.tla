------------------------- MODULE AppLifecycleProofs -------------------------
(***************************************************************************)
(* For every number of upstreams, of configuration files and of writes to  *)
(* them: the types, and with them where a watchdog and a refresh's flag    *)
(* can be; and the published models follow the inventory however refreshes *)
(* overlap, fail and are cancelled.                                        *)
(***************************************************************************)
EXTENDS AppLifecycle, TLAPS

-----------------------------------------------------------------------------
(* The watcher's part *)

LEMMA AtStart ==
  /\ 1 \in 1..(FileCount + 1) /\ Nothing \in [Files -> Stamps]
  BY WatchAssumption DEF Nothing, Files, Stamps

LEMMA WatchStepTypes ==
  ASSUME WatchTypeOK, WatchStep PROVE WatchTypeOK'
<1> USE AtStart DEF WatchTypeOK, fileVars
<1>1. CASE StartWatcher
  BY <1>1 DEF StartWatcher
<1>2. CASE Poll
  BY <1>2 DEF Poll
<1>3. CASE Debounced
  BY <1>3 DEF Debounced
<1>4. CASE ReadFile
  <2>1. at \in Files /\ at + 1 \in 1..(FileCount + 1)
    BY <1>4, WatchAssumption DEF ReadFile, Files
  <2>2. mtime[at] \in Stamps
    BY <2>1
  <2>3. got' \in [Files -> Stamps]
    BY <1>4, <2>1, <2>2 DEF ReadFile
  <2> QED
    BY <1>4, <2>1, <2>3 DEF ReadFile
<1>5. CASE ReloadFails
  BY <1>5 DEF ReloadFails, BackToPoll
<1>6. CASE Reload
  BY <1>6 DEF Reload, BackToPoll
<1>7. CASE WatcherLeaves
  BY <1>7 DEF WatcherLeaves, WatcherGone
<1> QED
  BY <1>1, <1>2, <1>3, <1>4, <1>5, <1>6, <1>7 DEF WatchStep

LEMMA WriteTypes ==
  ASSUME WatchTypeOK, NEW f \in Files, WriteFile(f) PROVE WatchTypeOK'
<1>1. writes' \in Stamps
  BY WatchAssumption DEF WriteFile, WatchTypeOK, Stamps
<1>2. mtime' \in [Files -> Stamps]
  BY <1>1 DEF WriteFile, WatchTypeOK
<1>3. half' \subseteq Files /\ seen' \in BOOLEAN
  BY DEF WriteFile, WatchTypeOK
<1> QED
  BY <1>1, <1>2, <1>3 DEF WriteFile, WatchTypeOK, watchVars

LEMMA GoneTypes ==
  ASSUME WatchTypeOK, WatcherGone, UNCHANGED <<stopping, fileVars, conf>>
  PROVE  WatchTypeOK'
  BY AtStart DEF WatchTypeOK, WatcherGone, fileVars

-----------------------------------------------------------------------------
(* TypeOK is inductive; its other part speaks of the tasks, the refreshes  *)
(* and the shutdown.                                                       *)
ModelTypes ==
  /\ unlisted \subseteq Upstreams
  /\ asks \in [Refreshers -> 0..UpstreamCount]
  /\ updated \in [Refreshers -> BOOLEAN] /\ partial \in BOOLEAN
  /\ \A r \in Refreshers : asks[r] = 0 => ~updated[r]

EndTypes ==
  /\ phase \in Phases /\ turn \in Upstreams /\ saved \subseteq Upstreams
  /\ cut \in BOOLEAN /\ watchdog \in BOOLEAN
  /\ watchdog = (phase \notin {"up"} \cup Ended)

LEMMA TypeParts ==
  /\ TypeOK <=> (WatchTypeOK /\ loops \subseteq Loops /\ ModelTypes /\ EndTypes)
  /\ TypeOK' <=> (WatchTypeOK /\ loops \subseteq Loops /\ ModelTypes /\ EndTypes)'
  BY DEF TypeOK, ModelTypes, EndTypes

LEMMA AbandonTypes ==
  ASSUME ModelTypes, NEW rs \in SUBSET Refreshers, Abandon(rs) PROVE ModelTypes'
<1>1. asks' \in [Refreshers -> 0..UpstreamCount]
  BY LifecycleAssumption DEF ModelTypes, Abandon
<1>2. updated' \in [Refreshers -> BOOLEAN]
  BY DEF ModelTypes, Abandon
<1>3. partial' \in BOOLEAN
  BY DEF ModelTypes, Abandon
<1>4. \A r \in Refreshers : asks'[r] = 0 => ~updated'[r]
  BY DEF ModelTypes, Abandon
<1> QED
  BY <1>1, <1>2, <1>3, <1>4 DEF ModelTypes, Abandon

LEMMA ModelStepTypes ==
  ASSUME ModelTypes, ModelStep PROVE ModelTypes'
<1> USE LifecycleAssumption DEF ModelTypes, Upstreams
<1>1. ASSUME NEW r \in Refreshers, BeginRefresh(r) PROVE ModelTypes'
  BY <1>1 DEF BeginRefresh, GoTo
<1>2. ASSUME NEW r \in Refreshers, FetchFails(r) PROVE ModelTypes'
  BY <1>2, AbandonTypes DEF FetchFails
<1>3. ASSUME NEW r \in Refreshers, NEW a \in Answers, Fetched(r, a) PROVE ModelTypes'
  <2> DEFINE u == asks[r]
             fresh == unlisted \cup (IF a = "new" THEN {u} ELSE {})
             new == updated[r] \/ a # "none"
  <2>1. u \in Upstreams
    BY <1>3 DEF Fetched
  <2>2. asks' = [asks EXCEPT ![r] = IF u + 1 > UpstreamCount THEN 0 ELSE u + 1]
    BY <1>3 DEF Fetched, GoTo
  <2>3. updated' = [updated EXCEPT ![r] = u < UpstreamCount /\ new]
    BY <1>3 DEF Fetched
  <2>4. unlisted' \subseteq Upstreams /\ partial' \in BOOLEAN
    BY <1>3, <2>1 DEF Fetched, RebuildIf
  <2>5. asks' \in [Refreshers -> 0..UpstreamCount]
    BY <2>1, <2>2
  <2>6. updated' \in [Refreshers -> BOOLEAN]
    BY <2>3
  <2>7. ASSUME NEW q \in Refreshers, asks'[q] = 0 PROVE ~updated'[q]
    <3>1. CASE q = r
      <4>1. ~(u < UpstreamCount)
        BY <2>1, <2>2, <2>7, <3>1
      <4> QED
        BY <2>3, <3>1, <4>1
    <3>2. CASE q # r
      BY <2>2, <2>3, <2>7, <3>2
    <3> QED
      BY <3>1, <3>2
  <2> QED
    BY <2>4, <2>5, <2>6, <2>7
<1>4. ASSUME Started PROVE ModelTypes'
  <2> DEFINE u == asks["startup"]
  <2>1. u \in Upstreams /\ "startup" \in Refreshers
    BY <1>4 DEF Started, Refreshers
  <2>2. asks' = [asks EXCEPT !["startup"] = IF u + 1 > UpstreamCount THEN 0 ELSE u + 1]
    BY <1>4 DEF Started, GoTo
  <2>3. PICK written \in BOOLEAN, fresh \in SUBSET {u} :
          /\ updated' = [updated EXCEPT !["startup"] =
                           u < UpstreamCount /\ (@ \/ written)]
          /\ RebuildIf(u = UpstreamCount, unlisted \cup fresh)
    BY <1>4 DEF Started
  <2>4. unlisted' \subseteq Upstreams /\ partial' \in BOOLEAN
    <3>1. unlisted \cup fresh \subseteq Upstreams
      BY <2>1
    <3>2. CASE u = UpstreamCount
      BY <2>3, <3>2 DEF RebuildIf
    <3>3. CASE u # UpstreamCount
      <4>1. unlisted' = unlisted \cup fresh /\ partial' = partial
        BY <2>3, <3>3 DEF RebuildIf
      <4> QED
        BY <3>1, <4>1
    <3> QED
      BY <3>2, <3>3
  <2>5. asks' \in [Refreshers -> 0..UpstreamCount]
    BY <2>1, <2>2
  <2>6. updated' \in [Refreshers -> BOOLEAN]
    BY <2>1, <2>3
  <2>7. ASSUME NEW q \in Refreshers, asks'[q] = 0 PROVE ~updated'[q]
    <3>1. CASE q = "startup"
      <4>1. ~(u < UpstreamCount)
        BY <2>1, <2>2, <2>7, <3>1
      <4> QED
        BY <2>1, <2>3, <3>1, <4>1
    <3>2. CASE q # "startup"
      BY <2>2, <2>3, <2>7, <3>2
    <3> QED
      BY <3>1, <3>2
  <2> QED
    BY <2>4, <2>5, <2>6, <2>7
<1> QED
  BY <1>1, <1>2, <1>3, <1>4 DEF ModelStep

LEMMA TypeInit == Init => TypeOK
<1> SUFFICES ASSUME Init PROVE TypeOK
  OBVIOUS
<1>1. WatchTypeOK
  <2>1. 0 \in Stamps
    BY WatchAssumption DEF Stamps
  <2> QED
    BY <2>1, AtStart DEF Init, WatchInit, WatchTypeOK
<1>2. ModelTypes
  <2>1. 0 \in 0..UpstreamCount /\ 1 \in 0..UpstreamCount
    BY LifecycleAssumption
  <2>2. updated \in [Refreshers -> BOOLEAN] /\ \A r \in Refreshers : ~updated[r]
    BY DEF Init
  <2>3. asks \in [Refreshers -> 0..UpstreamCount]
    BY <2>1 DEF Init
  <2> QED
    BY <2>2, <2>3 DEF Init, ModelTypes
<1>3. EndTypes
  <2>1. 1 \in Upstreams
    BY LifecycleAssumption DEF Upstreams
  <2> QED
    BY <2>1 DEF Init, EndTypes, Phases, Ended
<1> QED
  BY <1>1, <1>2, <1>3, TypeParts DEF Init

LEMMA ShutdownTypes ==
  ASSUME TypeOK, ShutdownStep PROVE TypeOK'
<1> USE LifecycleAssumption, TypeParts DEF EndTypes, Phases, Ended, Upstreams, Advance
<1>1. CASE BeginShutdown
  BY <1>1 DEF BeginShutdown, WatchTypeOK, ModelTypes, modelVars, fileVars, watchVars
<1>2. CASE BackgroundStopped
  <2>1. EndTypes'
    BY <1>2 DEF BackgroundStopped
  <2>2. CASE loops' = {} /\ Abandon(Grouped) /\ WatcherGone /\ UNCHANGED <<conf, cut>>
    <3>1. ModelTypes'
      BY <2>2, AbandonTypes DEF Grouped, Refreshers
    <3>2. WatchTypeOK'
      BY <1>2, <2>2, GoneTypes DEF BackgroundStopped
    <3> QED
      BY <2>1, <2>2, <3>1, <3>2
  <2>3. CASE cut' = TRUE /\ UNCHANGED <<loops, modelVars, watchVars>>
    <3>1. WatchTypeOK' /\ ModelTypes'
      BY <1>2, <2>3
      DEF BackgroundStopped, WatchTypeOK, ModelTypes, modelVars, fileVars, watchVars
    <3> QED
      BY <2>1, <2>3, <3>1
  <2> QED
    BY <1>2, <2>2, <2>3 DEF BackgroundStopped
<1>3. CASE Drained \/ UpstreamClosed \/ ShutdownCut \/ SiteStopped
  <2>1. UNCHANGED <<stopping, fileVars, watchVars, loops, modelVars>>
    BY <1>3 DEF Drained, UpstreamClosed, ShutdownCut, SiteStopped
  <2>2. WatchTypeOK' /\ ModelTypes' /\ loops' \subseteq Loops
    BY <2>1 DEF WatchTypeOK, ModelTypes, modelVars, fileVars, watchVars
  <2>3. EndTypes'
    <3>1. CASE Drained
      BY <3>1 DEF Drained
    <3>2. CASE UpstreamClosed
      <4>1. Closed(turn) \subseteq Upstreams
        BY DEF Closed
      <4>2. turn < UpstreamCount => turn + 1 \in Upstreams
        OBVIOUS
      <4> QED
        BY <3>2, <4>1, <4>2 DEF UpstreamClosed
    <3>3. CASE ShutdownCut \/ SiteStopped
      BY <3>3 DEF ShutdownCut, SiteStopped
    <3> QED
      BY <1>3, <3>1, <3>2, <3>3
  <2> QED
    BY <2>2, <2>3
<1>4. CASE CancelLeftover \/ HardExit
  <2>1. /\ loops' = {} /\ WatcherGone /\ UNCHANGED <<stopping, fileVars, conf>>
        /\ \E rs \in SUBSET Refreshers : Abandon(rs)
    BY <1>4 DEF CancelLeftover, HardExit
  <2>2. EndTypes'
    BY <1>4 DEF CancelLeftover, HardExit
  <2> QED
    BY <2>1, <2>2, AbandonTypes, GoneTypes
<1> QED
  BY <1>1, <1>2, <1>3, <1>4 DEF ShutdownStep

LEMMA TypeStep == TypeOK /\ [Next]_vars => TypeOK'
<1> SUFFICES ASSUME TypeOK, [Next]_vars PROVE TypeOK'
  OBVIOUS
<1> USE LifecycleAssumption, TypeParts
<1>1. ASSUME UNCHANGED <<loops, modelVars, endVars>>
      PROVE  loops' \subseteq Loops /\ ModelTypes' /\ EndTypes'
  BY <1>1 DEF ModelTypes, EndTypes, modelVars, endVars
<1>2. ASSUME UNCHANGED <<stopping, fileVars, watchVars, endVars>>
      PROVE  WatchTypeOK' /\ EndTypes'
  BY <1>2 DEF WatchTypeOK, EndTypes, fileVars, watchVars, endVars
<1>3. CASE (WatchStep \/ \E f \in Files : WriteFile(f))
             /\ UNCHANGED <<loops, modelVars, endVars>>
  BY <1>1, <1>3, WatchStepTypes, WriteTypes
<1>4. CASE ModelStep
  <2>1. UNCHANGED <<stopping, fileVars, watchVars, endVars, loops>>
    BY <1>4 DEF ModelStep, BeginRefresh, FetchFails, Fetched, Started
  <2> QED
    BY <1>2, <1>4, <2>1, ModelStepTypes
<1>5. ASSUME NEW l \in Loops, LoopEnds(l) PROVE TypeOK'
  BY <1>2, <1>5 DEF LoopEnds, ModelTypes, modelVars
<1>6. CASE GroupFails
  BY <1>2, <1>6, AbandonTypes DEF GroupFails, Grouped, Refreshers
<1>7. CASE Signal
  BY <1>1, <1>7 DEF Signal, WatchTypeOK, fileVars, watchVars
<1>8. CASE UNCHANGED vars
  BY <1>1, <1>2, <1>8 DEF vars
<1> QED
  BY <1>3, <1>4, <1>5, <1>6, <1>7, <1>8, ShutdownTypes DEF Next

(* The types of the whole, and with them: a watchdog lives exactly as long *)
(* as the shutdown does, and no flag of a refresh outlives it.             *)
THEOREM TypeCorrect == Spec => []TypeOK
  BY TypeInit, TypeStep, PTL DEF Spec

-----------------------------------------------------------------------------
(* ModelsTrackInventory is inductive given the types: a refresh drops its  *)
(* flag only with a rebuild, with nothing to publish, or as partial.       *)
LEMMA AbandonTracks ==
  ASSUME TypeOK, ModelsTrackInventory, NEW rs \in SUBSET Refreshers, Abandon(rs)
  PROVE  ModelsTrackInventory'
  BY DEF TypeOK, ModelsTrackInventory, Abandon

LEMMA ModelStepTracks ==
  ASSUME TypeOK, ModelsTrackInventory, ModelStep PROVE ModelsTrackInventory'
<1> USE DEF ModelsTrackInventory
<1>1. ASSUME NEW r \in Refreshers, BeginRefresh(r) PROVE ModelsTrackInventory'
  BY <1>1 DEF BeginRefresh, TypeOK
<1>2. ASSUME NEW r \in Refreshers, FetchFails(r) PROVE ModelsTrackInventory'
  BY <1>2, AbandonTracks DEF FetchFails
<1>3. ASSUME NEW r \in Refreshers, NEW a \in Answers, Fetched(r, a)
      PROVE  ModelsTrackInventory'
  <2> DEFINE u == asks[r]
             fresh == unlisted \cup (IF a = "new" THEN {u} ELSE {})
             new == updated[r] \/ a # "none"
  <2>1. u \in 1..UpstreamCount /\ UpstreamCount \in Nat
    BY <1>3, LifecycleAssumption DEF Fetched, TypeOK
  <2>2. updated' = [updated EXCEPT ![r] = u < UpstreamCount /\ new]
    BY <1>3 DEF Fetched
  <2>3. CASE u = UpstreamCount /\ new
    BY <1>3, <2>3 DEF Fetched, RebuildIf
  <2>4. CASE u < UpstreamCount /\ new
    <3>1. updated'[r]
      BY <2>2, <2>4 DEF TypeOK
    <3> QED
      BY <3>1
  <2>5. CASE ~new
    <3>1. unlisted' = unlisted /\ partial' = partial
      BY <1>3, <2>5 DEF Fetched, RebuildIf
    <3>2. ASSUME NEW q \in Refreshers, updated[q] PROVE updated'[q]
      BY <2>2, <2>5, <3>2 DEF TypeOK
    <3> QED
      BY <3>1, <3>2
  <2> QED
    BY <2>1, <2>3, <2>4, <2>5
<1>4. ASSUME Started PROVE ModelsTrackInventory'
  <2> DEFINE u == asks["startup"]
  <2>1. u \in 1..UpstreamCount /\ UpstreamCount \in Nat
    BY <1>4, LifecycleAssumption DEF Started, TypeOK, Refreshers
  <2>2. PICK written \in BOOLEAN, fresh \in SUBSET {u} :
          /\ ~written => fresh = {}
          /\ updated' = [updated EXCEPT !["startup"] =
                           u < UpstreamCount /\ (@ \/ written)]
          /\ RebuildIf(u = UpstreamCount, unlisted \cup fresh)
    BY <1>4 DEF Started
  <2>3. CASE u = UpstreamCount
    <3>1. unlisted' = {}
      BY <2>2, <2>3 DEF RebuildIf
    <3> QED
      BY <3>1
  <2>4. CASE u < UpstreamCount /\ written
    <3>1. updated'["startup"]
      BY <2>2, <2>4 DEF TypeOK, Refreshers
    <3> QED
      BY <3>1 DEF Refreshers
  <2>5. CASE u < UpstreamCount /\ ~written
    <3>1. unlisted' = unlisted /\ partial' = partial
      <4>1. ~(u = UpstreamCount) /\ unlisted \cup fresh = unlisted
        BY <2>1, <2>2, <2>5
      <4> QED
        BY <2>2, <4>1 DEF RebuildIf
    <3>2. ASSUME NEW q \in Refreshers, updated[q] PROVE updated'[q]
      BY <2>2, <2>5, <3>2 DEF TypeOK
    <3> QED
      BY <3>1, <3>2
  <2> QED
    BY <2>1, <2>3, <2>4, <2>5
<1> QED
  BY <1>1, <1>2, <1>3, <1>4 DEF ModelStep

LEMMA TracksStep == TypeOK /\ ModelsTrackInventory /\ [Next]_vars => ModelsTrackInventory'
<1> SUFFICES ASSUME TypeOK, ModelsTrackInventory, [Next]_vars PROVE ModelsTrackInventory'
  OBVIOUS
<1>1. ASSUME UNCHANGED modelVars PROVE ModelsTrackInventory'
  BY <1>1 DEF ModelsTrackInventory, modelVars
<1>2. ASSUME NEW rs \in SUBSET Refreshers, Abandon(rs) PROVE ModelsTrackInventory'
  BY <1>2, AbandonTracks
<1>3. CASE GroupFails \/ CancelLeftover \/ HardExit
  BY <1>2, <1>3 DEF GroupFails, CancelLeftover, HardExit, Grouped, Refreshers
<1>4. CASE BackgroundStopped
  BY <1>1, <1>2, <1>4 DEF BackgroundStopped, Grouped, Refreshers
<1>5. CASE BeginShutdown \/ Drained \/ UpstreamClosed \/ ShutdownCut \/ SiteStopped
  BY <1>1, <1>5 DEF BeginShutdown, Drained, UpstreamClosed, ShutdownCut, SiteStopped
<1>6. CASE Signal \/ \E l \in Loops : LoopEnds(l)
  BY <1>1, <1>6 DEF Signal, LoopEnds
<1>7. CASE UNCHANGED vars
  BY <1>1, <1>7 DEF vars
<1> QED
  BY <1>1, <1>3, <1>4, <1>5, <1>6, <1>7, ModelStepTracks DEF Next, ShutdownStep

(* What the server publishes as its models is what it dispatches by, but   *)
(* for a refresh on its way or one that ended early.                       *)
THEOREM ModelsCorrect == Spec => []ModelsTrackInventory
<1>1. Init => ModelsTrackInventory
  BY DEF Init, ModelsTrackInventory
<1>2. TypeOK /\ ModelsTrackInventory /\ [Next]_vars => (TypeOK /\ ModelsTrackInventory)'
  BY TypeStep, TracksStep
<1> QED
  BY <1>1, <1>2, TypeInit, PTL DEF Spec
=============================================================================
