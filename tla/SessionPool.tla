---------------------------- MODULE SessionPool ----------------------------
(***************************************************************************)
(* The per-upstream pool of logged-in accounts: core/session/pool.py and   *)
(* core/session/pool_switch.py.  A task leases the session with the fewest *)
(* requests in flight; when there is none it switches: it logs accounts in *)
(* one after the other until one succeeds.                                 *)
(*                                                                         *)
(* Data.  A session is named by its account.  `bad' holds the accounts     *)
(* whose session in the list has expired or was marked invalid: the code   *)
(* treats both alike.  `stale' holds the tasks whose session object is not *)
(* the one in the list any more, because it was dropped or replaced.       *)
(* Indices count from 1.  Times are not kept: whether a cleanup is due,    *)
(* a session expires or a login succeeds is a nondeterministic choice.     *)
(*                                                                         *)
(* The save that cleans the list in a worker thread is one step here, at   *)
(* its end; SessionStore takes it apart.                                   *)
(***************************************************************************)
EXTENDS Integers, FiniteSets, Sequences

CONSTANTS Accounts,       \* the login pool
          Requests,       \* tasks that lease sessions
          Keepers,        \* tasks that run session_maintenance_loop
          NoOne,          \* None, in place of an account or of a lock owner
          MaxInflight,    \* MAX_INFLIGHT_PER_ACCOUNT
          InitialLists    \* lists that load_upstream_sessions may restore

ASSUME PoolAssumption ==
  /\ IsFiniteSet(Accounts) /\ IsFiniteSet(Requests)
  /\ Keepers \cap Requests = {}
  /\ NoOne \notin Accounts \cup Requests \cup Keepers
  /\ MaxInflight \in Nat
  /\ \A s \in InitialLists :
       s \in Seq(Accounts) /\ \A i, j \in 1..Len(s) : s[i] = s[j] => i = j

Tasks == Requests \cup Keepers

VARIABLES
  sessions,     \* usernames of _sessions, in order
  bad,          \* those whose session is expired or invalid
  index,        \* _current_index
  blocked,      \* keys of _blocked_accounts whose block lasts
  muted,        \* keys of _muted_accounts
  inflight,     \* _inflight, zero where the code has no key
  lock,         \* owner of _lock across a suspension
  pc,           \* where each task is suspended
  then,         \* where it goes on after _ensure_cleanup
  who,          \* account it is logging in, was handed, or leases
  avoid,        \* exclude_username
  skip,         \* accounts its switch has tried
  before,       \* username at _current_index when its cleanup began
  goal,         \* what it wants a session for
  stale         \* tasks holding a session object that left the list

pool == <<sessions, bad, index, blocked, muted>>
task == <<then, avoid, skip, before, goal>>
poolVars == <<pool, task, inflight, lock, pc, who, stale>>

(***************************************************************************)
(* idle      no request, or the keeper sleeping                            *)
(* ask       get_valid_session is called                                   *)
(* saving    _ensure_cleanup saves       select  about to select under _lock *)
(* switch    switch_to_next is called    reselect  its selection           *)
(* commit    _commit_session saves, _lock held                             *)
(* login     _perform_login runs         append  logged in, needs _lock    *)
(* adopt     the session is in the list, needs _lock again                 *)
(* next      pick the next account       fallback  _fallback_valid_session *)
(* streaming leases a session                                              *)
(* returned  the caller has its result: None when who is NoOne             *)
(***************************************************************************)
PoolPCs == {"idle", "ask", "saving", "select", "switch", "reselect", "commit",
            "login", "append", "adopt", "next", "fallback", "streaming", "returned"}

Goals == {"lease", "retry", "replenish"}

Members(s) == {s[i] : i \in 1..Len(s)}
(* List s without the accounts in `out'; the order stays. *)
Without(s, out) ==
  LET kept   == {i \in 1..Len(s) : s[i] \notin out}
      nth(k) == CHOOSE i \in kept : Cardinality({j \in kept : j <= i}) = k
  IN [k \in 1..Cardinality(kept) |-> s[nth(k)]]

AtIndex(s, i) == IF i \in 1..Len(s) THEN s[i] ELSE NoOne
CurrentName == AtIndex(sessions, index)

(* Tasks that hold a session object. *)
Holding == {t \in Tasks : pc[t] \in {"commit", "adopt", "streaming"}}

Active == Members(sessions) \ bad
(* Accounts that _is_account_blocked or _is_account_muted keeps away. *)
Barred == blocked \cup muted

(* Fault: the selection ignores exclude_username. *)
SelectableUnfiltered(t) == Active \ Barred

(* _valid_sessions *)
Selectable(t) == Active \ (Barred \cup {avoid[t]})

(* The candidates _select_valid_session draws from: the cap is soft. *)
LeastBusy(t) ==
  LET free == {u \in Selectable(t) : inflight[u] < MaxInflight}
      from == IF free = {} THEN Selectable(t) ELSE free
  IN {u \in from : \A v \in from : inflight[u] <= inflight[v]}

(* _pick_account_for_login; the login history only ranks the candidates. *)
Eligible(s) == Accounts \ (s \cup Active \cup Barred)

PoolInit ==
  /\ sessions \in InitialLists
  /\ bad = {} /\ blocked = {} /\ muted = {} /\ stale = {}
  /\ index \in 1..2
  /\ inflight = [u \in Accounts |-> 0]
  /\ lock = NoOne
  /\ pc = [t \in Tasks |-> "idle"]
  /\ then = [t \in Tasks |-> "select"]
  /\ who = [t \in Tasks |-> NoOne]
  /\ avoid = [t \in Tasks |-> NoOne]
  /\ skip = [t \in Tasks |-> {}]
  /\ before = [t \in Tasks |-> NoOne]
  /\ goal = [t \in Tasks |-> "lease"]

-----------------------------------------------------------------------------
(* The indices _fix_current_index may choose for list s without bad        *)
(* sessions, when name was current before.                                 *)
FixedIndex(s, i, name) ==
  LET known == IF name = NoOne THEN AtIndex(s, i) ELSE name
  IN IF known # NoOne /\ known \notin Members(s)
       THEN IF s = <<>> THEN {1} ELSE 1..Len(s)
       ELSE IF i > Len(s) THEN {1} ELSE {i}

(* clean_expired after the sessions of `marked' became invalid; the index  *)
(* is repaired relative to `name', always or only if something went.  The  *)
(* tasks `leaving' have given up their session objects.                    *)
DropBad(marked, name, always, leaving) ==
  LET gone == bad \cup marked
      kept == Without(sessions, gone)
  IN /\ sessions' = kept
     /\ bad' = {}
     /\ index' \in IF always \/ kept # sessions
                     THEN FixedIndex(kept, index, name) ELSE {index}
     /\ stale' = (stale \cup {t \in Holding : who[t] \in gone}) \ leaving

(* A save alone: clean_expired in place, the index is not repaired. *)
SaveMeta ==
  /\ sessions' = Without(sessions, bad)
  /\ bad' = {}
  /\ stale' = stale \cup {t \in Holding : who[t] \in bad}

(* prune_expired_sessions, cleanup_expired_sessions *)
Prune == DropBad({}, CurrentName, FALSE, {})

(* _persist_sessions *)
Persist(marked, leaving) == DropBad(marked, CurrentName, TRUE, leaving)

(* Fault: the new session is appended although the account has one. *)
AppendSession(s, u) == Append(s, u)

(* replace_or_append *)
WithSession(s, u) == IF u \in Members(s) THEN s ELSE Append(s, u)

(* The task returns from switch_to_next or ends: its locals are gone. *)
Forget(t) ==
  /\ then' = [then EXCEPT ![t] = "select"]
  /\ avoid' = [avoid EXCEPT ![t] = NoOne]
  /\ skip' = [skip EXCEPT ![t] = {}]
  /\ before' = [before EXCEPT ![t] = NoOne]
  /\ goal' = [goal EXCEPT ![t] = "lease"]

Goto(t, label) == pc' = [pc EXCEPT ![t] = label]
LockFree == lock = NoOne

(* lease_valid_session: from the selection to the count there is no await. *)
LeaseStep(t, u) ==
  /\ Goto(t, "streaming")
  /\ who' = [who EXCEPT ![t] = u]
  /\ inflight' = [inflight EXCEPT ![u] = @ + 1]
  /\ stale' = stale \ {t}

(* A session is handed to whoever called switch_to_next. *)
HandOver(t, u) ==
  IF goal[t] = "lease"
    THEN /\ Goto(t, "streaming")
         /\ inflight' = [inflight EXCEPT ![u] = @ + 1]
    ELSE Goto(t, "returned") /\ UNCHANGED inflight

(* _ensure_cleanup on the way to label: if CLEANUP_INTERVAL has passed, a  *)
(* save is started in a worker thread.                                     *)
Tidy(t, label) ==
  \/ Goto(t, label) /\ UNCHANGED <<then, before>>
  \/ /\ Goto(t, "saving")
     /\ then' = [then EXCEPT ![t] = label]
     /\ before' = [before EXCEPT ![t] = AtIndex(sessions', index')]

(* Fault: a session is given back as soon as it was chosen, and the count  *)
(* may fall below zero.                                                    *)
EndLeaseUnchecked(t) ==
  inflight' = IF who[t] # NoOne THEN [inflight EXCEPT ![who[t]] = @ - 1] ELSE inflight

EndLease(t) ==
  inflight' = IF pc[t] = "streaming"
                THEN [inflight EXCEPT ![who[t]] = IF @ > 0 THEN @ - 1 ELSE 0]
                ELSE inflight

-----------------------------------------------------------------------------
(* get_valid_session prunes first. *)
Ask(t) ==
  /\ pc[t] = "ask"
  /\ Prune
  /\ Tidy(t, "select")
  /\ UNCHANGED <<blocked, muted, avoid, skip, goal, inflight, lock, who>>

(* The worker has cleaned the list it was given.  That list is no longer   *)
(* _sessions when a prune rebound it meanwhile: then nothing happens here. *)
EndSave(t) ==
  /\ pc[t] = "saving"
  /\ Goto(t, then[t])
  /\ then' = [then EXCEPT ![t] = "select"]
  /\ \/ DropBad({}, before[t], FALSE, {})
     \/ UNCHANGED <<sessions, bad, index, stale>>
  /\ before' = [before EXCEPT ![t] = NoOne]
  /\ UNCHANGED <<blocked, muted, avoid, skip, goal, inflight, lock, who>>

(* Selection under _lock; the lease begins at once. *)
Select(t) ==
  /\ pc[t] = "select" /\ LockFree
  /\ \E u \in LeastBusy(t) :
       /\ LeaseStep(t, u)
       /\ index' \in {i \in 1..Len(sessions) : sessions[i] = u}
  /\ UNCHANGED <<sessions, bad, blocked, muted, task, lock>>

SelectNone(t) ==
  /\ pc[t] = "select" /\ LockFree
  /\ Selectable(t) = {}
  /\ Goto(t, "switch")
  /\ UNCHANGED <<pool, task, inflight, lock, who, stale>>

(* switch_to_next: prune under _lock, then _ensure_cleanup. *)
Switch(t) ==
  /\ pc[t] = "switch" /\ LockFree
  /\ Prune
  /\ Tidy(t, "reselect")
  /\ skip' = [skip EXCEPT ![t] = {avoid[t]} \ {NoOne}]
  /\ UNCHANGED <<blocked, muted, avoid, goal, inflight, lock, who>>

(* A valid session is committed: _lock stays held while it is saved. *)
SelectAndCommit(t) ==
  /\ pc[t] \in {"reselect", "fallback"} /\ LockFree
  /\ \E u \in LeastBusy(t) :
       /\ who' = [who EXCEPT ![t] = u]
       /\ index' \in {i \in 1..Len(sessions) : sessions[i] = u}
  /\ lock' = t
  /\ stale' = stale \ {t}
  /\ Goto(t, "commit")
  /\ UNCHANGED <<sessions, bad, blocked, muted, task, inflight>>

(* The save ended; its cleaning does not repair the index. *)
Commit(t) ==
  /\ pc[t] = "commit"
  /\ SaveMeta \/ UNCHANGED <<sessions, bad, stale>>
  /\ HandOver(t, who[t])
  /\ lock' = NoOne
  /\ skip' = [skip EXCEPT ![t] = {}]
  /\ UNCHANGED <<index, blocked, muted, then, avoid, before, goal, who>>

(* No valid session: an account is picked for login, login_account begins  *)
(* with _ensure_cleanup.                                                   *)
PickLogin(t) ==
  /\ LockFree
  /\ \/ pc[t] = "reselect" /\ Selectable(t) = {}
     \/ pc[t] = "next"
  /\ \E u \in Eligible(skip[t]) :
       /\ who' = [who EXCEPT ![t] = u]
       /\ skip' = [skip EXCEPT ![t] = @ \cup {u}]
  /\ UNCHANGED <<pool, avoid, goal, inflight, lock, stale>>
  /\ Tidy(t, "login")

(* Nobody is left to log in. *)
PickNobody(t) ==
  /\ LockFree
  /\ \/ pc[t] = "reselect" /\ Selectable(t) = {}
     \/ pc[t] = "next"
  /\ Eligible(skip[t]) = {}
  /\ who' = [who EXCEPT ![t] = NoOne]
  /\ Goto(t, "fallback")
  /\ UNCHANGED <<pool, task, inflight, lock, stale>>

(* _fallback_valid_session finds nothing either: None is returned.         *)
GiveUp(t) ==
  /\ pc[t] = "fallback" /\ LockFree
  /\ Selectable(t) = {}
  /\ who' = [who EXCEPT ![t] = NoOne]
  /\ Goto(t, "returned")
  /\ UNCHANGED <<pool, task, inflight, lock, stale>>

(* The new session replaces the account's old one or is appended, the      *)
(* history is recorded, and the pool persisted.                            *)
AddSession(t) ==
  LET list == WithSession(sessions, who[t])
      gone == bad \ {who[t]}
  IN /\ sessions' = Without(list, gone)
     /\ bad' = {}
     /\ stale' = (stale \cup {r \in Holding : who[r] \in gone \cup {who[t]}}) \ {t}

FixIndexAfterAdd(t) ==
  index' \in FixedIndex(sessions', index, AtIndex(WithSession(sessions, who[t]), index))

(* replenish_sessions is done with one account. *)
EndReplenish(k) ==
  /\ Goto(k, "idle")
  /\ who' = [who EXCEPT ![k] = NoOne]
  /\ Forget(k)

(* _perform_login succeeds while _lock is free.  No suspension follows:    *)
(* _login_until_valid makes the new session current and returns it.        *)
LoginOk(t) ==
  /\ pc[t] = "login" /\ goal[t] # "replenish" /\ LockFree
  /\ AddSession(t)
  /\ index' \in {i \in 1..Len(sessions') : sessions'[i] = who[t]}
  /\ HandOver(t, who[t])
  /\ skip' = [skip EXCEPT ![t] = {}]
  /\ UNCHANGED <<blocked, muted, then, avoid, before, goal, lock, who>>

ReplenishOk(k) ==
  /\ pc[k] \in {"login", "append"} /\ goal[k] = "replenish" /\ LockFree
  /\ AddSession(k)
  /\ FixIndexAfterAdd(k)
  /\ EndReplenish(k)
  /\ UNCHANGED <<blocked, muted, inflight, lock>>

(* _perform_login succeeds while _lock is held: the task queues for it,    *)
(* and others may be queued behind when it gets hold of it.                *)
LoginWaits(t) ==
  /\ pc[t] = "login" /\ ~LockFree
  /\ Goto(t, "append")
  /\ UNCHANGED <<pool, task, inflight, lock, who, stale>>

LoginAppend(t) ==
  /\ pc[t] = "append" /\ goal[t] # "replenish" /\ LockFree
  /\ AddSession(t)
  /\ FixIndexAfterAdd(t)
  /\ Goto(t, "adopt")
  /\ UNCHANGED <<blocked, muted, task, inflight, lock, who>>

Adopt(t) ==
  /\ pc[t] = "adopt" /\ LockFree
  /\ LET at == {i \in 1..Len(sessions) : sessions[i] = who[t]}
     IN index' \in IF at = {} THEN {1} ELSE at
  /\ HandOver(t, who[t])
  /\ skip' = [skip EXCEPT ![t] = {}]
  /\ UNCHANGED <<sessions, bad, blocked, muted, then, avoid, before, goal, lock, who, stale>>

(* login_account returns None; the switch goes on to the next account. *)
EndFailedLogin(t) ==
  IF goal[t] = "replenish" THEN EndReplenish(t)
                           ELSE Goto(t, "next") /\ UNCHANGED <<task, who>>

LoginFailed(t) ==
  /\ pc[t] = "login"
  /\ EndFailedLogin(t)
  /\ UNCHANGED <<pool, inflight, lock, stale>>

(* Fault: the lease is not given back on cancellation. *)
CancelKeepsLease(t) ==
  /\ pc[t] # "idle"
  /\ Goto(t, "idle")
  /\ lock' = IF lock = t THEN NoOne ELSE lock
  /\ who' = [who EXCEPT ![t] = NoOne]
  /\ stale' = stale \ {t}
  /\ Forget(t)
  /\ UNCHANGED <<pool, inflight>>

(* Fault: the lock is not released when the save under it is cancelled. *)
CancelKeepsLock(t) ==
  /\ pc[t] # "idle"
  /\ Goto(t, "idle")
  /\ EndLease(t)
  /\ who' = [who EXCEPT ![t] = NoOne]
  /\ stale' = stale \ {t}
  /\ Forget(t)
  /\ UNCHANGED <<pool, lock>>

(* Any request task may be cancelled wherever it is suspended. *)
CancelRequest(t) ==
  /\ pc[t] # "idle"
  /\ Goto(t, "idle")
  /\ EndLease(t)
  /\ lock' = IF lock = t THEN NoOne ELSE lock
  /\ who' = [who EXCEPT ![t] = NoOne]
  /\ stale' = stale \ {t}
  /\ Forget(t)
  /\ UNCHANGED pool

-----------------------------------------------------------------------------
(* session_maintenance_loop: a cleanup, then replenish_sessions.  Whether  *)
(* more sessions are wanted depends on load and settings: any number is.   *)
KeeperCleanup(k) ==
  /\ pc[k] = "idle"
  /\ Prune
  /\ UNCHANGED <<blocked, muted, task, inflight, lock, pc, who>>

KeeperLogin(k) ==
  /\ pc[k] = "idle"
  /\ \E u \in Eligible({}) : who' = [who EXCEPT ![k] = u]
  /\ goal' = [goal EXCEPT ![k] = "replenish"]
  /\ UNCHANGED <<pool, avoid, skip, inflight, lock, stale>>
  /\ Tidy(k, "login")

(* A token reaches its expiry time. *)
Expire(u) ==
  /\ u \in Active
  /\ bad' = bad \cup {u}
  /\ UNCHANGED <<sessions, index, blocked, muted, task, inflight, lock, pc, who, stale>>

(* The block, or the mute, of an account has run out. *)
Forgive(u) ==
  /\ u \in Barred
  /\ blocked' = blocked \ {u}
  /\ muted' = muted \ {u}
  /\ UNCHANGED <<sessions, bad, index, task, inflight, lock, pc, who, stale>>

PoolStep(t) ==
  \/ Ask(t) \/ EndSave(t) \/ Select(t) \/ SelectNone(t) \/ Switch(t)
  \/ SelectAndCommit(t) \/ Commit(t) \/ PickLogin(t) \/ PickNobody(t)
  \/ GiveUp(t) \/ LoginOk(t) \/ ReplenishOk(t) \/ LoginWaits(t)
  \/ LoginAppend(t) \/ Adopt(t) \/ LoginFailed(t)

-----------------------------------------------------------------------------
(* Types, but for pc, which the modules that use the pool extend. *)
PoolTypeOK ==
  /\ sessions \in Seq(Accounts)
  /\ bad \subseteq Members(sessions)
  /\ index \in Nat \ {0}
  /\ blocked \subseteq Accounts /\ muted \subseteq Accounts
  /\ inflight \in [Accounts -> Nat]
  /\ lock \in Requests \cup {NoOne}
  /\ then \in [Tasks -> {"select", "reselect", "login"}]
  /\ who \in [Tasks -> Accounts \cup {NoOne}]
  /\ avoid \in [Tasks -> Accounts \cup {NoOne}]
  /\ before \in [Tasks -> Accounts \cup {NoOne}]
  /\ skip \in [Tasks -> SUBSET Accounts]
  /\ goal \in [Tasks -> Goals]
  /\ stale \subseteq Tasks

(* The in-flight count of an account, which steers the selection, is the   *)
(* number of requests that lease its session at the moment, whatever was   *)
(* cancelled, replaced or invalidated meanwhile.                           *)
LeaseAccounting ==
  \A u \in Accounts :
    inflight[u] = Cardinality({r \in Requests : pc[r] = "streaming" /\ who[r] = u})

(* Two tasks may log the same account in at the same time, because nothing *)
(* reserves it between _pick_account_for_login and the login; the list     *)
(* still never holds two sessions of one account.                          *)
OneSessionPerAccount ==
  Len(sessions) = Cardinality(Members(sessions))

(* A switch that excludes an account never comes back with that account,   *)
(* not even by logging it in again.                                        *)
SwitchAvoidsExcluded ==
  \A r \in Requests :
    (pc[r] = "returned" /\ goal[r] = "retry" /\ avoid[r] # NoOne) => who[r] # avoid[r]
=============================================================================
