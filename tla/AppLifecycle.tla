---------------------------- MODULE AppLifecycle ----------------------------
(***************************************************************************)
(* The life of the server process beside its requests: the task group of   *)
(* the background loops (state_sched.py), the refresh of the models        *)
(* (AppState.refresh_models), the watcher of the configuration             *)
(* (ConfigWatch), and the graceful shutdown with its timeouts and its      *)
(* watchdog (main.py, AppState.shutdown, server/config/shutdown.py).       *)
(*                                                                         *)
(* Data.  Of the models only the upstreams whose new list is not yet in    *)
(* the published one are kept.  Clock time is left out: a timeout may      *)
(* strike whenever the code that it guards is suspended.                   *)
(* RequestScheduler models the drain of the requests, one step here.       *)
(***************************************************************************)
EXTENDS ConfigWatch

CONSTANTS
  UpstreamCount,    \* upstreams, in the order of _clients (alphabetical)
  Qwen              \* the place of qwen in that order

ASSUME LifecycleAssumption ==
  UpstreamCount \in Nat \ {0} /\ Qwen \in 1..UpstreamCount

Upstreams == 1..UpstreamCount

(* Who writes the inventory: startup_upstreams in a task of the group,     *)
(* and refresh_models of models_refresh_loop and of the admin handler.     *)
Refreshers == {"startup", "loop", "handler"}
Grouped == {"startup", "loop"}
Loops == {"maintenance", "refresh"}

VARIABLES
  loops,      \* the loops of the group that run
  unlisted,   \* upstreams with new models in _models_inventory, not in _models
  asks,       \* per refresh: the upstream it waits for; 0: none runs
  updated,    \* per refresh: it has written the inventory
  partial,    \* history: a refresh ended early, and no rebuild came since
  phase,      \* of the shutdown
  turn,       \* the upstream _shutdown_upstreams is at
  saved,      \* upstreams whose sessions were persisted in the shutdown
  cut,        \* history: a step of the shutdown timed out or failed
  watchdog    \* _hard_exit_watchdog is there

modelVars == <<unlisted, asks, updated, partial>>
endVars == <<phase, turn, saved, cut, watchdog>>
vars == <<stopping, fileVars, watchVars, loops, modelVars, endVars>>

Ended == {"stopped", "cancelled", "killed"}
Phases == {"up", "background", "requests", "upstreams", "site",
           "leftover"} \cup Ended

Init ==
  /\ WatchInit /\ stopping = FALSE
  /\ loops = Loops
  /\ unlisted = {}
  /\ asks = [r \in Refreshers |-> IF r = "startup" THEN 1 ELSE 0]
  /\ updated = [r \in Refreshers |-> FALSE] /\ partial = FALSE
  /\ phase = "up" /\ turn = 1 /\ saved = {} /\ cut = FALSE
  /\ watchdog = FALSE

-----------------------------------------------------------------------------
(* Models *)

(* refresh_models goes to upstream u, or ends. *)
GoTo(r, u) == asks' = [asks EXCEPT ![r] = IF u > UpstreamCount THEN 0 ELSE u]

(* Its end: _rebuild_unified_models, if something was updated. *)
RebuildIf(new, fresh) ==
  IF new THEN unlisted' = {} /\ partial' = FALSE
         ELSE unlisted' = fresh /\ UNCHANGED partial

BeginRefresh(r) ==
  /\ r # "startup" /\ asks[r] = 0 /\ ~stopping
  /\ r = "loop" => "refresh" \in loops
  /\ GoTo(r, 1)
  /\ updated' = [updated EXCEPT ![r] = FALSE]
  /\ UNCHANGED <<stopping, fileVars, watchVars, loops, unlisted, partial, endVars>>

Answers == {"none", "same", "new"}

(* Fault: the flag says only whether the last upstream was updated. *)
FetchedForgetful(r, answer) ==
  LET u == asks[r]
      fresh == unlisted \cup (IF answer = "new" THEN {u} ELSE {})
  IN /\ r # "startup" /\ u # 0 /\ GoTo(r, u + 1)
     /\ updated' = [updated EXCEPT ![r] = u < UpstreamCount /\ answer # "none"]
     /\ RebuildIf(u = UpstreamCount /\ answer # "none", fresh)
     /\ UNCHANGED <<stopping, fileVars, watchVars, loops, endVars>>

(* fetch_models gives a list that goes into the inventory, or none; an     *)
(* upstream that is skipped counts as one that gives none.                 *)
Fetched(r, answer) ==
  LET u == asks[r]
      fresh == unlisted \cup (IF answer = "new" THEN {u} ELSE {})
      new == updated[r] \/ answer # "none"
  IN /\ r # "startup" /\ u # 0 /\ GoTo(r, u + 1)
     /\ updated' = [updated EXCEPT ![r] = u < UpstreamCount /\ new]
     /\ RebuildIf(u = UpstreamCount /\ new, fresh)
     /\ UNCHANGED <<stopping, fileVars, watchVars, loops, endVars>>

(* Fault: the flag outlives the refresh. *)
AbandonKeepsFlag(rs) ==
  /\ asks' = [r \in Refreshers |-> IF r \in rs THEN 0 ELSE asks[r]]
  /\ partial' = (partial \/ \E r \in rs : updated[r])
  /\ UNCHANGED <<unlisted, updated>>

(* A refresh that is abandoned, by an error or a cancellation. *)
Abandon(rs) ==
  /\ asks' = [r \in Refreshers |-> IF r \in rs THEN 0 ELSE asks[r]]
  /\ updated' = [r \in Refreshers |-> r \notin rs /\ updated[r]]
  /\ partial' = (partial \/ \E r \in rs : updated[r])
  /\ UNCHANGED unlisted

(* startup_upstreams: the client of one upstream has started, and the      *)
(* inventory takes the list of its cache, which may be another; a client   *)
(* without startup leaves it.  The list is rebuilt at the end in any case. *)
Started ==
  LET u == asks["startup"]
  IN /\ u # 0 /\ GoTo("startup", u + 1)
     /\ \E written \in BOOLEAN : \E fresh \in SUBSET {u} :
          /\ ~written => fresh = {}
          /\ updated' = [updated EXCEPT !["startup"] =
                           u < UpstreamCount /\ (@ \/ written)]
          /\ RebuildIf(u = UpstreamCount, unlisted \cup fresh)
     /\ UNCHANGED <<stopping, fileVars, watchVars, loops, endVars>>

(* fetch_models or startup raises: it is over for all upstreams. *)
FetchFails(r) ==
  /\ asks[r] # 0 /\ Abandon({r})
  /\ UNCHANGED <<stopping, fileVars, watchVars, loops, endVars>>

ModelStep ==
  \/ \E r \in Refreshers :
       BeginRefresh(r) \/ FetchFails(r) \/ \E a \in Answers : Fetched(r, a)
  \/ Started

-----------------------------------------------------------------------------
(* The task group *)

(* A loop sees the shutdown, or the refresh is switched off. *)
LoopEnds(l) ==
  /\ l \in loops /\ loops' = loops \ {l}
  /\ stopping \/ l = "refresh"
  /\ l = "refresh" => asks["loop"] = 0
  /\ UNCHANGED <<stopping, fileVars, watchVars, modelVars, endVars>>

(* An exception leaves session_maintenance_loop: the group cancels the     *)
(* other tasks with it.                                                    *)
GroupFails ==
  /\ "maintenance" \in loops /\ loops' = {}
  /\ Abandon(Grouped)
  /\ UNCHANGED <<stopping, fileVars, watchVars, endVars>>

-----------------------------------------------------------------------------
(* Shutdown *)

(* A signal sets shutdown_event. *)
Signal ==
  /\ ~stopping /\ stopping' = TRUE
  /\ UNCHANGED <<fileVars, watchVars, loops, modelVars, endVars>>

Advance(from, to) == phase = from /\ phase' = to

(* _run_server leaves its wait; a watchdog is set up, and AppState.shutdown *)
(* cancels the background tasks.                                           *)
BeginShutdown ==
  /\ stopping /\ watch # "boot" /\ Advance("up", "background")
  /\ watchdog' = TRUE
  /\ UNCHANGED <<stopping, fileVars, watchVars, loops, modelVars, turn, saved, cut>>

(* They end, or outlast the two seconds they are given. *)
BackgroundStopped ==
  /\ Advance("background", "requests")
  /\ \/ /\ loops' = {} /\ Abandon(Grouped) /\ WatcherGone
        /\ UNCHANGED <<conf, cut>>
     \/ cut' = TRUE /\ UNCHANGED <<loops, modelVars, watchVars>>
  /\ UNCHANGED <<stopping, fileVars, turn, saved, watchdog>>

(* _drain_active_requests; _shutdown_upstreams begins with the sessions of *)
(* qwen and goes on with those of the first upstream.                      *)
Drained ==
  /\ Advance("requests", "upstreams")
  /\ saved' = {1, Qwen}
  /\ UNCHANGED <<stopping, fileVars, watchVars, loops, modelVars, turn, cut, watchdog>>

(* What is persisted once upstream u is closed: the sessions of the next. *)
Closed(u) == saved \cup ({u + 1} \cap Upstreams)

(* client.shutdown of one upstream ends, well or badly. *)
UpstreamClosed ==
  /\ phase = "upstreams"
  /\ saved' = Closed(turn)
  /\ IF turn < UpstreamCount THEN turn' = turn + 1 /\ UNCHANGED phase
                             ELSE phase' = "site" /\ UNCHANGED turn
  /\ UNCHANGED <<stopping, fileVars, watchVars, loops, modelVars, cut, watchdog>>

(* Fault: nothing bounds the drain of the requests.                        *)
ShutdownCutLate ==
  /\ phase \in {"background", "upstreams"}
  /\ phase' = "site" /\ cut' = TRUE
  /\ UNCHANGED <<stopping, fileVars, watchVars, loops, modelVars, turn, saved, watchdog>>

(* The step that runs AppState.shutdown times out, or a _persist_sessions  *)
(* raises: what is left of it is left out.                                 *)
ShutdownCut ==
  /\ phase \in {"background", "requests", "upstreams"}
  /\ phase' = "site" /\ cut' = TRUE
  /\ UNCHANGED <<stopping, fileVars, watchVars, loops, modelVars, turn, saved, watchdog>>

(* site.stop and runner.cleanup end, or are given up. *)
SiteStopped ==
  /\ Advance("site", "leftover")
  /\ UNCHANGED <<stopping, fileVars, watchVars, loops, modelVars, turn, saved,
                 cut, watchdog>>

(* cancel_leftover_tasks: everything else goes, the watchdog too.  The     *)
(* step awaits it through wait_for.  Before Python 3.12 that runs it in a  *)
(* task of its own, and the task that runs the shutdown is itself left     *)
(* over: its cancellation passes the `except Exception' of the step, and   *)
(* "Server stopped" and notify_shutdown_complete are left out.  Once the   *)
(* deadline has passed the step is skipped, and asyncio.run cancels.       *)
CancelLeftover ==
  /\ phase = "leftover" /\ phase' \in {"cancelled", "stopped"}
  /\ loops' = {} /\ WatcherGone /\ watchdog' = FALSE
  /\ Abandon(Refreshers)
  /\ UNCHANGED <<stopping, fileVars, conf, turn, saved, cut>>

(* _hard_exit_watchdog: os._exit *)
HardExit ==
  /\ watchdog /\ phase \notin Ended /\ phase' = "killed"
  /\ loops' = {} /\ WatcherGone /\ watchdog' = FALSE
  /\ Abandon(Refreshers)
  /\ UNCHANGED <<stopping, fileVars, conf, turn, saved, cut>>

ShutdownStep ==
  \/ BeginShutdown \/ BackgroundStopped \/ Drained \/ UpstreamClosed
  \/ ShutdownCut \/ SiteStopped \/ CancelLeftover \/ HardExit

-----------------------------------------------------------------------------
Next ==
  \/ \E f \in Files : WriteFile(f) /\ UNCHANGED <<loops, modelVars, endVars>>
  \/ (WatchStep /\ UNCHANGED <<loops, modelVars, endVars>>)
  \/ ModelStep \/ (\E l \in Loops : LoopEnds(l)) \/ GroupFails
  \/ Signal \/ ShutdownStep

(* Timers fire and threads end, so the watcher and the shutdown go on: a   *)
(* step of the latter by its own timeout if not otherwise.  The watchdog   *)
(* is not counted on, nor are writes, answers of upstreams and signals.    *)
Fairness ==
  /\ WF_vars(WatchStep /\ UNCHANGED <<loops, modelVars, endVars>>)
  /\ WF_vars(BeginShutdown) /\ WF_vars(ShutdownCut) /\ WF_vars(SiteStopped)
  /\ WF_vars(CancelLeftover)

Spec == Init /\ [][Next]_vars /\ Fairness

-----------------------------------------------------------------------------
(* Types; the flag of a refresh is down when no refresh runs, the watchdog *)
(* lives as long as the shutdown does, to its last step at most, and only  *)
(* a shutdown persists sessions here.                                      *)
TypeOK ==
  /\ WatchTypeOK
  /\ loops \subseteq Loops
  /\ unlisted \subseteq Upstreams
  /\ asks \in [Refreshers -> 0..UpstreamCount]
  /\ updated \in [Refreshers -> BOOLEAN] /\ partial \in BOOLEAN
  /\ \A r \in Refreshers : asks[r] = 0 => ~updated[r]
  /\ phase \in Phases /\ turn \in Upstreams /\ saved \subseteq Upstreams
  /\ cut \in BOOLEAN /\ watchdog \in BOOLEAN
  /\ watchdog = (phase \notin {"up"} \cup Ended)

(* The published list of models is that of the inventory by which requests *)
(* are dispatched, except while a refresh that has updated the inventory   *)
(* is still on its way, or after one ended early, by an error of a later   *)
(* upstream or a cancellation, until the next rebuild.                     *)
ModelsTrackInventory ==
  unlisted # {} => partial \/ \E r \in Refreshers : updated[r]

(* A shutdown comes to its end by its own timeouts, without the watchdog;  *)
(* unless a step was cut short, the sessions of every upstream are on disk *)
(* then.                                                                   *)
ShutdownEnds ==
  stopping ~> \/ phase = "killed"
              \/ /\ phase \in {"stopped", "cancelled"}
                 /\ saved = Upstreams \/ cut
=============================================================================
