------------------------------ MODULE ZenClient ------------------------------
(***************************************************************************)
(* The client of the zen upstream (upstream/zen/client.py) with its pool   *)
(* of proxy nodes (upstream/zen/proxy.py, proxy_state.py) and the HTTP     *)
(* session that its requests share (core/transport/http.py).               *)
(*                                                                         *)
(* Requests are coroutines of one event loop; a step is what runs between  *)
(* two suspensions.  The two asyncio locks are never held over one (a      *)
(* session that does not own its connector closes without waiting), so     *)
(* they do not show here.  The state file is written by threads of the     *)
(* executor, which read the manager's fields when they run.                *)
(*                                                                         *)
(* Data.  A session is a number; a mute is a node in a set, and its expiry *)
(* takes the node out of memory and of every copy at once.  Indexes count  *)
(* from 1.  What a response holds is left out.                             *)
(***************************************************************************)
EXTENDS Integers, Sequences, FiniteSets, FiniteSetsExt

CONSTANTS Requests,     \* calls of stream_chat
          Nodes,        \* proxies, the direct connection included
          Pools,        \* what merge_proxy_pools may give
          RetryCount,   \* RETRY_COUNT
          MaxChanges    \* bound: refreshes of the pool, restarts, mutes that end

ASSUME ZenAssumption ==
  /\ Pools \subseteq Seq(Nodes) \ {<<>>} /\ Pools # {}
  /\ RetryCount \in Nat /\ MaxChanges \in Nat
  /\ IsFiniteSet(Requests)
  /\ "refresh" \notin Requests

VARIABLES
  pool, current, muted,   \* NodeManager: _pool, _current_index, _muted
  disk,                   \* the state file
  save,                   \* per writer: its run of _save_sync
  http, open,             \* _http, 0: None; sessions that are not closed
  pc, attempt, fallback,  \* per request: where it is, attempt, _fallback_applied
  sess,                   \* per request: the session it waits with, 0: none
  changes,   \* refreshes, restarts and mutes that ended, so far
  astray,    \* history: the index was put down without a look at the mutes
  behind     \* history: a save failed, or two overlapped

nodeVars == <<pool, current, muted, astray>>
saveVars == <<disk, save, behind>>
httpVars == <<http, open>>
requestVars == <<pc, attempt, fallback, sess>>
vars == <<nodeVars, saveVars, httpVars, requestVars, changes>>

Writers == Requests \cup {"refresh"}
NoSave == [at |-> "none", current |-> 1, muted |-> {}]
Sessions == 1..(Cardinality(Requests) + 2)
Active(r) == pc[r] \notin {"new", "ended"}

Init ==
  /\ pool \in Pools /\ current = 1 /\ muted = {}
  /\ disk = [current |-> 1, muted |-> {}]
  /\ save = [w \in Writers |-> NoSave]
  /\ http = 0 /\ open = {}
  /\ pc = [r \in Requests |-> "new"]
  /\ attempt = [r \in Requests |-> 0]
  /\ fallback = [r \in Requests |-> FALSE]
  /\ sess = [r \in Requests |-> 0]
  /\ changes = 0
  /\ astray = FALSE /\ behind = FALSE

-----------------------------------------------------------------------------
(* HttpTransportMixin *)

Fresh == Min(Sessions \ (open \cup {sess[r] : r \in Requests}))

(* Fault: the session that is there is not looked at. *)
EnsureAnew(r, h, o) ==
  /\ http' = Fresh
  /\ open' = o \cup {http'}
  /\ sess' = [sess EXCEPT ![r] = http']

(* _ensure_http_session, from the session h and the open ones o *)
Ensure(r, h, o) ==
  /\ http' = IF h = 0 THEN Fresh ELSE h
  /\ open' = o \cup {http'}
  /\ sess' = [sess EXCEPT ![r] = http']

(* reset_http_transport: what is open after it, within the cooldown of an  *)
(* earlier reset as well.  This client does not create a session again     *)
(* here, which is all that the cooldown would make different.              *)
AfterReset == open \ {http}

-----------------------------------------------------------------------------
(* NodeManager *)

StartSave(w) == save' = [save EXCEPT ![w] = [NoSave EXCEPT !.at = "queued"]]

AllMuted == {pool[i] : i \in DOMAIN pool} \subseteq muted

After(k) == ((current + k - 1) % Len(pool)) + 1

(* Fault: the next node is taken as it comes. *)
NextNodeAsItComes == After(1)

(* switch_next: the first node after the current one that is not muted. *)
NextNode ==
  LET steps == {k \in 1..Len(pool) : pool[After(k)] \notin muted}
  IN IF steps = {} THEN current ELSE After(Min(steps))

(* mute_current mutes whichever node is the current one by now. *)
WithCurrent == muted \cup {pool[current]}

(* Fault: the index of the old pool is kept. *)
ReloadKeepsIndex ==
  /\ changes < MaxChanges /\ save["refresh"] = NoSave
  /\ pool' \in Pools
  /\ muted' = muted \cap {pool'[i] : i \in DOMAIN pool'}
  /\ astray' = TRUE
  /\ changes' = changes + 1
  /\ StartSave("refresh")
  /\ UNCHANGED <<current, disk, behind, httpVars, requestVars>>

(* _proxy_refresh_loop with reload_pool. *)
Reload ==
  /\ changes < MaxChanges /\ save["refresh"] = NoSave
  /\ pool' \in Pools
  /\ current' = 1
  /\ muted' = muted \cap {pool'[i] : i \in DOMAIN pool'}
  /\ astray' = TRUE
  /\ changes' = changes + 1
  /\ StartSave("refresh")
  /\ UNCHANGED <<disk, behind, httpVars, requestVars>>

(* The time of a mute is over. *)
Expire(n) ==
  /\ changes < MaxChanges
  /\ changes' = changes + 1
  /\ n \in muted \cup disk.muted
  /\ muted' = muted \ {n}
  /\ disk' = [disk EXCEPT !.muted = @ \ {n}]
  /\ save' = [w \in Writers |-> [save[w] EXCEPT !.muted = @ \ {n}]]
  /\ UNCHANGED <<pool, current, astray, behind, httpVars, requestVars>>

-----------------------------------------------------------------------------
(* _save_sync in a thread of the executor *)

SaveReads(w) ==
  /\ save[w].at = "queued"
  /\ save' = [save EXCEPT ![w] = [at |-> "read", current |-> current, muted |-> muted]]
  /\ UNCHANGED <<nodeVars, disk, behind, httpVars, requestVars, changes>>

Read(w) == [current |-> save[w].current, muted |-> save[w].muted]

SaveWrites(w) ==
  /\ save[w].at = "read"
  /\ disk' = Read(w)
  /\ save' = [save EXCEPT ![w] = NoSave]
  /\ behind' = \/ \E v \in Writers \ {w} : save[v].at = "read"
               \/ behind /\ disk' # [current |-> current, muted |-> muted]
  /\ UNCHANGED <<nodeVars, httpVars, requestVars, changes>>

(* The file cannot be written, or the mutes changed while they were read. *)
SaveFails(w) ==
  /\ save[w] # NoSave
  /\ save' = [save EXCEPT ![w] = NoSave]
  /\ behind' = TRUE
  /\ UNCHANGED <<nodeVars, disk, httpVars, requestVars, changes>>

-----------------------------------------------------------------------------
(* Requests *)

(* The request is over: what it held is let go. *)
End(r) ==
  /\ pc' = [pc EXCEPT ![r] = "ended"]
  /\ attempt' = [attempt EXCEPT ![r] = 0]
  /\ fallback' = [fallback EXCEPT ![r] = FALSE]
  /\ sess' = [sess EXCEPT ![r] = 0]

(* An attempt of _stream_with_retries, via the node that is current. *)
Attempt(r, h, o, f, n) ==
  /\ pc' = [pc EXCEPT ![r] = "connecting"]
  /\ attempt' = [attempt EXCEPT ![r] = n]
  /\ fallback' = [fallback EXCEPT ![r] = f]
  /\ Ensure(r, h, o)

(* stream_chat: _maybe_fallback_model may ask for the models first. *)
Begin(r) ==
  /\ pc[r] = "new"
  /\ \/ Attempt(r, http, open, FALSE, 0)
     \/ /\ pc' = [pc EXCEPT ![r] = "fetch"]
        /\ Ensure(r, http, open)
        /\ UNCHANGED <<attempt, fallback>>
  /\ UNCHANGED <<nodeVars, saveVars, changes>>

(* fetch_models: run_with_connection_retry resets the transport and tries  *)
(* a second time, after a pause that is shorter than the cooldown.         *)
FetchFails(r) ==
  /\ pc[r] = "fetch"
  /\ http' = 0 /\ open' = AfterReset
  /\ pc' = [pc EXCEPT ![r] = "pause"]
  /\ sess' = [sess EXCEPT ![r] = 0]
  /\ UNCHANGED <<nodeVars, saveVars, attempt, fallback, changes>>

FetchAgain(r) ==
  /\ pc[r] = "pause"
  /\ pc' = [pc EXCEPT ![r] = "fetchAgain"]
  /\ Ensure(r, http, open)
  /\ UNCHANGED <<nodeVars, saveVars, attempt, fallback, changes>>

(* With the models or the default ones, the model may be replaced. *)
Fetched(r) ==
  /\ pc[r] \in {"fetch", "fetchAgain"}
  /\ \E f \in BOOLEAN : Attempt(r, http, open, f, 0)
  /\ UNCHANGED <<nodeVars, saveVars, changes>>

(* A session that was closed while a request waits for its connection      *)
(* fails that request.                                                     *)
Connect(r) ==
  /\ pc[r] = "connecting" /\ sess[r] \in open
  /\ pc' = [pc EXCEPT ![r] = "streaming"]
  /\ sess' = [sess EXCEPT ![r] = 0]
  /\ UNCHANGED <<nodeVars, saveVars, httpVars, attempt, fallback, changes>>

(* All was answered, or ZenValidationError. *)
Answered(r) ==
  /\ pc[r] = "streaming"
  /\ End(r)
  /\ UNCHANGED <<nodeVars, saveVars, httpVars, changes>>

(* Fault: _fallback_applied is not looked at. *)
UnsupportedAlways(r) ==
  /\ pc[r] = "streaming"
  /\ Attempt(r, http, open, TRUE, 0)
  /\ UNCHANGED <<nodeVars, saveVars, changes>>

(* _on_model_unsupported *)
Unsupported(r) ==
  /\ pc[r] = "streaming"
  /\ IF fallback[r] THEN End(r) /\ UNCHANGED httpVars
                    ELSE Attempt(r, http, open, TRUE, 0)
  /\ UNCHANGED <<nodeVars, saveVars, changes>>

(* reset_http_transport; then the next attempt, or the end *)
ResetAndRetry(r, refused) ==
  IF refused \/ attempt[r] = RetryCount
    THEN End(r) /\ http' = 0 /\ open' = AfterReset
    ELSE Attempt(r, 0, AfterReset, fallback[r], attempt[r] + 1)

(* Any other error only resets the transport. *)
PlainError(r) ==
  /\ pc[r] \in {"connecting", "streaming"}
  /\ ResetAndRetry(r, FALSE)
  /\ UNCHANGED <<nodeVars, saveVars, changes>>

(* Fault: a mute is not written. *)
BlameUnsaved(r) ==
  /\ pc[r] \in {"connecting", "streaming"}
  /\ muted' = WithCurrent
  /\ pc' = [pc EXCEPT ![r] = "muted"]
  /\ sess' = [sess EXCEPT ![r] = 0]
  /\ UNCHANGED <<pool, current, astray, saveVars, httpVars, attempt, fallback, changes>>

(* UpstreamUnavailableError or is_proxy_error: mute_current.  An error of  *)
(* a closed session may be taken for one of the proxy.                     *)
Blame(r) ==
  /\ pc[r] \in {"connecting", "streaming"}
  /\ muted' = WithCurrent
  /\ StartSave(r)
  /\ pc' = [pc EXCEPT ![r] = "muted"]
  /\ sess' = [sess EXCEPT ![r] = 0]
  /\ UNCHANGED <<pool, current, astray, disk, behind, httpVars, attempt, fallback, changes>>

(* The save has ended: switch_next, which writes nothing when every node   *)
(* is muted.                                                               *)
Switch(r) ==
  /\ pc[r] = "muted" /\ save[r] = NoSave
  /\ current' = NextNode
  /\ astray' = AllMuted
  /\ IF AllMuted THEN UNCHANGED save ELSE StartSave(r)
  /\ pc' = [pc EXCEPT ![r] = "switched"]
  /\ UNCHANGED <<pool, muted, disk, behind, httpVars, attempt, fallback, sess, changes>>

(* The rest of _mute_and_switch; with every node muted the request is      *)
(* refused.                                                                *)
Switched(r) ==
  /\ pc[r] = "switched" /\ save[r] = NoSave
  /\ ResetAndRetry(r, AllMuted)
  /\ UNCHANGED <<nodeVars, saveVars, changes>>

(* The client goes away.  A save that no thread has begun is dropped; one  *)
(* that a thread has begun goes on, though it may have read nothing yet.   *)
Cancel(r) ==
  /\ Active(r)
  /\ End(r)
  /\ astray' = (astray \/ pc[r] = "muted")
  /\ \/ save[r].at = "queued" /\ save' = [save EXCEPT ![r] = NoSave] /\ behind' = TRUE
     \/ UNCHANGED <<save, behind>>
  /\ UNCHANGED <<pool, current, muted, disk, httpVars, changes>>

(* The process ends and starts again: _load. *)
Restart ==
  /\ changes < MaxChanges
  /\ changes' = changes + 1
  /\ pool' \in Pools
  /\ current' = IF disk.current <= Len(pool') THEN disk.current ELSE 1
  /\ muted' = disk.muted
  /\ astray' = TRUE
  /\ behind' = (current' # disk.current)
  /\ save' = [w \in Writers |-> NoSave]
  /\ http' = 0 /\ open' = {}
  /\ pc' = [r \in Requests |-> IF Active(r) THEN "ended" ELSE pc[r]]
  /\ attempt' = [r \in Requests |-> 0]
  /\ fallback' = [r \in Requests |-> FALSE]
  /\ sess' = [r \in Requests |-> 0]
  /\ UNCHANGED disk

Progress(r) ==
  \/ FetchFails(r) \/ FetchAgain(r) \/ Fetched(r)
  \/ Connect(r) \/ Answered(r) \/ Unsupported(r)
  \/ PlainError(r) \/ Blame(r) \/ Switch(r) \/ Switched(r)

SaveStep(w) == SaveReads(w) \/ SaveWrites(w) \/ SaveFails(w)

Next ==
  \/ \E r \in Requests : Begin(r) \/ Progress(r) \/ Cancel(r)
  \/ \E w \in Writers : SaveStep(w)
  \/ \E n \in Nodes : Expire(n)
  \/ Reload
  \/ Restart

(* Connections and reads have timeouts, and the executor runs its queue. *)
Fairness ==
  /\ \A r \in Requests : WF_vars(Progress(r))
  /\ \A w \in Writers : WF_vars(SaveStep(w))

Spec == Init /\ [][Next]_vars /\ Fairness

-----------------------------------------------------------------------------
TypeOK ==
  /\ pool \in Pools /\ current \in 1..Len(pool) /\ muted \subseteq Nodes
  /\ disk \in [current : Nat \ {0}, muted : SUBSET Nodes]
  /\ save \in [Writers -> [at : {"none", "queued", "read"},
                           current : Nat \ {0}, muted : SUBSET Nodes]]
  /\ http \in {0} \cup Sessions /\ open \subseteq Sessions
  /\ pc \in [Requests -> {"new", "fetch", "pause", "fetchAgain", "connecting",
                          "streaming", "muted", "switched", "ended"}]
  /\ attempt \in [Requests -> 0..RetryCount]
  /\ fallback \in [Requests -> BOOLEAN]
  /\ sess \in [Requests -> {0} \cup Sessions]
  /\ changes \in 0..MaxChanges
  /\ astray \in BOOLEAN /\ behind \in BOOLEAN

(* "The old session is always closed, so that none leaks"                  *)
(* (reset_http_transport, in its body): the only session that is open is   *)
(* the one the client holds, whichever requests make and reset sessions in *)
(* the midst of the others.                                                *)
NoSessionLeaks == open = {http} \ {0}

(* "A repeated reset within the cooldown only drops the reference and does *)
(* not close the session" (reset_http_transport, its docstring).  The      *)
(* cooldown is two seconds; a request in the pause before its second fetch *)
(* reset the transport 0.6 seconds ago at most.                            *)
CooldownSparesSession ==
  [][(\E r \in Requests : pc[r] = "pause" /\ pc'[r] = "pause")
       => open \subseteq open']_vars

(* A new attempt does not go to a muted node, unless a request has muted   *)
(* it and is about to switch, or the index was put down without a look at  *)
(* the mutes since the last switch: a refresh and a restart do that, a     *)
(* switch that found every node muted, and a client that left between the  *)
(* mute and the switch.                                                    *)
CurrentIsUsable ==
  \/ astray \/ pool[current] \notin muted
  \/ \E r \in Requests : pc[r] = "muted"

(* "Written at once after a mute, else it is lost with the process"        *)
(* (mute_current): when no save is under way the file holds the index and  *)
(* the mutes, unless a save failed or was dropped, or two overlapped and   *)
(* the older one came last.                                                *)
StateReachesDisk ==
  (\A w \in Writers : save[w] = NoSave) /\ ~behind =>
    disk = [current |-> current, muted |-> muted]

(* Requests that were begun end: again and again there is none under way,  *)
(* for retries, fallbacks and resets by others do not go round forever.    *)
RequestsEnd == []<>(\A r \in Requests : ~Active(r))
=============================================================================
