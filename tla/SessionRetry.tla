---------------------------- MODULE SessionRetry ----------------------------
(***************************************************************************)
(* A Qwen request on top of the session pool: it leases a session, streams, *)
(* and after a recoverable error changes account and starts over           *)
(* (server/retry/session_retry.py, stream_retry.py, upstream/qwen).        *)
(*                                                                         *)
(* Errors.  rate: a rate-limit answer; token: an authorisation failure;    *)
(* waf: a Baxia SM or WAF block; chat: CHAT_NOT_FOUND; net: a timeout or a *)
(* connection error; large: the payload is too large.  The sites that      *)
(* raise rate and token invalidate the session they used.                  *)
(***************************************************************************)
EXTENDS SessionPool

CONSTANT RetryLimit       \* max_retry_on_error

ASSUME RetryAssumption == RetryLimit \in Nat

VARIABLES retries,        \* retries of each request
          error           \* the error it handles

own == <<retries, error>>
vars == <<poolVars, own>>

Errors == {"rate", "token", "waf", "chat", "net", "large"}
RetryPCs == PoolPCs \cup {"caught", "toggling"}

Init == /\ PoolInit
        /\ retries = [r \in Requests |-> 0]
        /\ error = [r \in Requests |-> "none"]

Start(r) ==
  /\ pc[r] = "idle"
  /\ Goto(r, "ask")
  /\ UNCHANGED <<pool, task, inflight, lock, who, stale, own>>

ForgetRetries(r) ==
  /\ retries' = [retries EXCEPT ![r] = 0]
  /\ error' = [error EXCEPT ![r] = "none"]

-----------------------------------------------------------------------------
(* The stream of r ends with error k; the lease is given back on the way   *)
(* out and _dispatch_session_retry counts the retry.                       *)
Fail(r, k) ==
  /\ pc[r] = "streaming"
  /\ IF k \in {"rate", "token"}
       THEN Persist(IF r \in stale THEN {} ELSE {who[r]}, {r})
       ELSE stale' = stale \ {r} /\ UNCHANGED <<sessions, bad, index>>
  /\ EndLease(r)
  /\ Goto(r, "caught")
  /\ retries' = [retries EXCEPT ![r] = @ + 1]
  /\ error' = [error EXCEPT ![r] = k]
  /\ UNCHANGED <<blocked, muted, task, lock, who>>

(* lease_valid_session yielded None: "No valid session available". *)
NoSession(r) ==
  /\ pc[r] = "returned" /\ goal[r] = "lease"
  /\ Goto(r, "caught")
  /\ retries' = [retries EXCEPT ![r] = @ + 1]
  /\ error' = [error EXCEPT ![r] = "token"]
  /\ UNCHANGED <<pool, task, inflight, lock, who, stale>>

(* switch_to_next(exclude_username = name) is called. *)
CallSwitch(r, name) ==
  /\ Goto(r, "switch")
  /\ who' = [who EXCEPT ![r] = NoOne]
  /\ avoid' = [avoid EXCEPT ![r] = name]
  /\ goal' = [goal EXCEPT ![r] = "retry"]
  /\ UNCHANGED <<then, skip, before>>

(* block_account, whose save cleans the list. *)
BlockCurrent == blocked' = blocked \cup {CurrentName} /\ SaveMeta

(* _switch_session_after_account_error, which for waf comes after the      *)
(* await of the proxy toggle: the account in use is read from the pool's   *)
(* current index, and blocked if the error was a rate limit.  Which of the *)
(* three errors it was makes no difference from here on.                   *)
AccountError(r) ==
  /\ pc[r] = "caught" /\ error[r] \in {"rate", "token", "waf"}
  /\ IF error[r] = "rate" /\ CurrentName # NoOne
       THEN BlockCurrent
       ELSE UNCHANGED <<sessions, bad, blocked, stale>>
  /\ CallSwitch(r, CurrentName)
  /\ error' = [error EXCEPT ![r] = "token"]
  /\ UNCHANGED <<index, muted, inflight, lock, retries>>

(* _handle_chat_not_found_retry reads the current account, then awaits the *)
(* proxy toggle.                                                           *)
ChatNotFound(r) ==
  /\ pc[r] = "caught" /\ error[r] = "chat"
  /\ Goto(r, "toggling")
  /\ avoid' = [avoid EXCEPT ![r] = CurrentName]
  /\ UNCHANGED <<pool, then, skip, before, goal, inflight, lock, who, stale,
                 own>>

(* mark_invalid_current: whatever is current now loses its session. *)
InvalidateCurrent(r) ==
  /\ pc[r] = "toggling"
  /\ IF CurrentName \in Active
       THEN Persist({CurrentName}, {})
       ELSE UNCHANGED <<sessions, bad, index, stale>>
  /\ CallSwitch(r, avoid[r])
  /\ UNCHANGED <<blocked, muted, inflight, lock, own>>

(* The request starts over, or the error is raised to the handler. *)
Again(r) ==
  /\ Goto(r, "ask")
  /\ who' = [who EXCEPT ![r] = NoOne]
  /\ Forget(r)
  /\ stale' = stale \ {r}
  /\ error' = [error EXCEPT ![r] = "none"]
  /\ UNCHANGED <<pool, inflight, lock, retries>>

Raise(r) ==
  /\ Goto(r, "idle")
  /\ who' = [who EXCEPT ![r] = NoOne]
  /\ Forget(r)
  /\ stale' = stale \ {r}
  /\ ForgetRetries(r)
  /\ UNCHANGED <<pool, inflight, lock>>

(* Fault: the limit is compared before the failed attempt is counted. *)
AfterSwitchOneMore(r) ==
  /\ pc[r] = "returned" /\ goal[r] = "retry"
  /\ IF retries[r] > RetryLimit + 1 \/ (error[r] # "chat" /\ who[r] = NoOne)
       THEN Raise(r) ELSE Again(r)

(* switch_to_next has returned.  CHAT_NOT_FOUND goes on without a session. *)
AfterSwitch(r) ==
  /\ pc[r] = "returned" /\ goal[r] = "retry"
  /\ IF retries[r] > RetryLimit \/ (error[r] # "chat" /\ who[r] = NoOne)
       THEN Raise(r) ELSE Again(r)

(* The transport is reset; or the send limit is halved, once, unless it is *)
(* at its floor already or the full prompt must be sent.                   *)
OtherError(r) ==
  /\ pc[r] = "caught"
  /\ \/ error[r] = "net" /\ retries[r] > RetryLimit /\ Raise(r)
     \/ error[r] = "net" /\ retries[r] <= RetryLimit /\ Again(r)
     \/ error[r] = "large" /\ retries[r] <= 1 /\ Again(r)
     \/ error[r] = "large" /\ Raise(r)

Finish(r) ==
  /\ pc[r] = "streaming"
  /\ EndLease(r)
  /\ Goto(r, "idle")
  /\ who' = [who EXCEPT ![r] = NoOne]
  /\ Forget(r)
  /\ stale' = stale \ {r}
  /\ ForgetRetries(r)
  /\ UNCHANGED <<pool, lock>>

-----------------------------------------------------------------------------
RetryStep(r) ==
  \/ Start(r) \/ NoSession(r) \/ AccountError(r) \/ ChatNotFound(r)
  \/ InvalidateCurrent(r) \/ AfterSwitch(r) \/ OtherError(r) \/ Finish(r)
  \/ \E k \in Errors : Fail(r, k)

Next ==
  \/ \E t \in Tasks : PoolStep(t) /\ UNCHANGED own
  \/ \E r \in Requests : RetryStep(r)
  \/ \E r \in Requests : CancelRequest(r) /\ ForgetRetries(r)
  \/ \E k \in Keepers : (KeeperCleanup(k) \/ KeeperLogin(k)) /\ UNCHANGED own
  \/ \E u \in Accounts : (Expire(u) \/ Forgive(u)) /\ UNCHANGED own

(* Tasks that can run do run; saves and logins end, by timeouts at worst.  *)
(* asyncio.Lock is first come, first served, hence strong fairness for the *)
(* steps that need it.  Streams end: they are bounded by timeouts too.     *)
Fairness ==
  \A r \in Requests :
    /\ SF_vars(PoolStep(r) /\ UNCHANGED own)
    /\ WF_vars(NoSession(r) \/ AccountError(r) \/ ChatNotFound(r)
               \/ InvalidateCurrent(r) \/ AfterSwitch(r) \/ OtherError(r) \/ Finish(r))

Spec == Init /\ [][Next]_vars /\ Fairness

-----------------------------------------------------------------------------
TypeOK ==
  /\ PoolTypeOK
  /\ pc \in [Tasks -> RetryPCs]
  /\ retries \in [Requests -> 0..(RetryLimit + 2)]
  /\ error \in [Requests -> Errors \cup {"none"}]

(* A request calls its upstream at most max_retry_on_error times more than *)
(* once; the second try of a payload that was too large is granted even    *)
(* when the limit is zero.                                                 *)
AttemptsBounded ==
  \A r \in Requests :
    pc[r] = "streaming" => retries[r] <= RetryLimit \/ retries[r] = 1

(* README, error handling: a recoverable error blocks the account that met *)
(* it.  When a rate limit is handled, no other account gets blocked.       *)
BlocksOwnAccount ==
  [][\A r \in Requests :
       (pc[r] = "caught" /\ pc'[r] = "switch") => blocked' \ blocked \subseteq {who[r]}]_vars

(* Every request ends: no order of lock waits, logins, failures and        *)
(* cancellations leaves it hanging, although another request may hold      *)
(* _lock across its save and be cancelled there, and logs the same account *)
(* in while the maintenance loop does so too.                              *)
EveryRequestEnds ==
  \A r \in Requests : pc[r] = "ask" ~> pc[r] = "idle"
=============================================================================
