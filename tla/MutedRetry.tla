----------------------------- MODULE MutedRetry -----------------------------
(***************************************************************************)
(* A DeepSeek request on top of the session pool: when the upstream says   *)
(* that the account is muted, the account is taken out of the pool for a   *)
(* day and the request goes on with another one                            *)
(* (upstream/deepseek/openai_chat.py, client.py).                          *)
(***************************************************************************)
EXTENDS SessionPool

CONSTANT MaxMuteSwitch    \* _MAX_MUTE_SWITCH

ASSUME MuteSwitchAssumption == MaxMuteSwitch \in Nat \ {0}

VARIABLE attempt          \* attempt each request is in, from 1; 0: none

mutedVars == <<poolVars, attempt>>

MutedInit == PoolInit /\ attempt = [r \in Requests |-> 0]

StartChat(r) ==
  /\ pc[r] = "idle"
  /\ Goto(r, "ask")
  /\ attempt' = [attempt EXCEPT ![r] = 1]
  /\ UNCHANGED <<pool, task, inflight, lock, who, stale>>

End(r) ==
  /\ Goto(r, "idle")
  /\ who' = [who EXCEPT ![r] = NoOne]
  /\ Forget(r)
  /\ stale' = stale \ {r}
  /\ attempt' = [attempt EXCEPT ![r] = 0]
  /\ UNCHANGED <<pool, lock>>

(* The stream ends, or fails with an error that is not retried here. *)
FinishChat(r) == pc[r] = "streaming" /\ EndLease(r) /\ End(r)

(* No session: DeepSeekAccountsExhaustedError. *)
Exhausted(r) ==
  /\ pc[r] = "returned" /\ goal[r] = "lease"
  /\ End(r) /\ UNCHANGED inflight

-----------------------------------------------------------------------------
(* handle_account_muted: the account leaves the list, the index is set to  *)
(* a valid session, and the save that follows cleans the list without      *)
(* looking at the index again.                                             *)
HandleAccountMuted(u) ==
  LET list  == Without(sessions, {u})
      valid == {i \in 1..Len(list) : list[i] \notin bad}
  IN /\ muted' = muted \cup {u}
     /\ index' \in IF valid = {} THEN {1} ELSE valid
     /\ sessions' = Without(list, bad)
     /\ bad' = {}
     /\ stale' = stale \cup {t \in Holding : who[t] \in bad \cup {u}}

(* Fault: the lease is given back a second time by the error handler. *)
MutedReleasesTwice(r) ==
  /\ pc[r] = "streaming"
  /\ HandleAccountMuted(who[r])
  /\ inflight' = [inflight EXCEPT ![who[r]] = @ - 2]
  /\ Goto(r, "switch")
  /\ who' = [who EXCEPT ![r] = NoOne]
  /\ avoid' = [avoid EXCEPT ![r] = who[r]]
  /\ goal' = [goal EXCEPT ![r] = "retry"]
  /\ UNCHANGED <<blocked, then, skip, before, lock, attempt>>

(* The stream ends with DeepSeekUserMutedError: the lease is given back,   *)
(* _on_user_muted takes the account out and switches.                      *)
Muted(r) ==
  /\ pc[r] = "streaming"
  /\ HandleAccountMuted(who[r])
  /\ EndLease(r)
  /\ Goto(r, "switch")
  /\ who' = [who EXCEPT ![r] = NoOne]
  /\ avoid' = [avoid EXCEPT ![r] = who[r]]
  /\ goal' = [goal EXCEPT ![r] = "retry"]
  /\ UNCHANGED <<blocked, then, skip, before, lock, attempt>>

(* Fault: an account that is not there any more does not end the request.  *)
NextAttemptWaits(r) ==
  /\ pc[r] = "returned" /\ goal[r] = "retry"
  /\ who[r] # NoOne
  /\ IF attempt[r] = MaxMuteSwitch
       THEN End(r)
       ELSE /\ Goto(r, "ask")
            /\ who' = [who EXCEPT ![r] = NoOne]
            /\ Forget(r)
            /\ stale' = stale \ {r}
            /\ attempt' = [attempt EXCEPT ![r] = @ + 1]
            /\ UNCHANGED <<pool, lock>>
  /\ UNCHANGED inflight

NextAttempt(r) ==
  /\ pc[r] = "returned" /\ goal[r] = "retry"
  /\ IF who[r] = NoOne \/ attempt[r] = MaxMuteSwitch
       THEN End(r)
       ELSE /\ Goto(r, "ask")
            /\ who' = [who EXCEPT ![r] = NoOne]
            /\ Forget(r)
            /\ stale' = stale \ {r}
            /\ attempt' = [attempt EXCEPT ![r] = @ + 1]
            /\ UNCHANGED <<pool, lock>>
  /\ UNCHANGED inflight

(* _login_once is told that the account is muted. *)
LoginMuted(t) ==
  /\ pc[t] = "login"
  /\ HandleAccountMuted(who[t])
  /\ EndFailedLogin(t)
  /\ UNCHANGED <<blocked, inflight, lock, attempt>>

Cancel(r) == CancelRequest(r) /\ attempt' = [attempt EXCEPT ![r] = 0]

-----------------------------------------------------------------------------
ChatStep(r) ==
  \/ StartChat(r) \/ FinishChat(r) \/ Exhausted(r) \/ Muted(r)
  \/ NextAttempt(r) \/ Cancel(r)

MutedNext ==
  \/ \E t \in Tasks : PoolStep(t) /\ UNCHANGED attempt
  \/ \E t \in Tasks : LoginMuted(t)
  \/ \E r \in Requests : ChatStep(r)
  \/ \E k \in Keepers : (KeeperCleanup(k) \/ KeeperLogin(k)) /\ UNCHANGED attempt
  \/ \E u \in Accounts : (Expire(u) \/ Forgive(u)) /\ UNCHANGED attempt

(* As in SessionRetry: streams and logins end, _lock is granted in order.  *)
MutedFairness ==
  \A r \in Requests :
    /\ SF_mutedVars(PoolStep(r) /\ UNCHANGED attempt)
    /\ WF_mutedVars(Exhausted(r) \/ NextAttempt(r) \/ FinishChat(r))

MutedSpec == MutedInit /\ [][MutedNext]_mutedVars /\ MutedFairness

-----------------------------------------------------------------------------
MutedTypeOK ==
  /\ PoolTypeOK
  /\ pc \in [Tasks -> PoolPCs]
  /\ attempt \in [Requests -> 0..MaxMuteSwitch]

(* A request that keeps meeting muted accounts gives up in the end. *)
EveryChatEnds ==
  \A r \in Requests : pc[r] = "ask" ~> pc[r] = "idle"
=============================================================================
