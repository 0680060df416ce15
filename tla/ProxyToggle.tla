----------------------------- MODULE ProxyToggle -----------------------------
(***************************************************************************)
(* ProxyToggleManager (upstream/qwen/media/proxy_toggle.py): whether       *)
(* qwen's requests go through the proxy, turned over when the upstream     *)
(* blocks one of them and kept in a file, with the attempts that use it    *)
(* (upstream/qwen/completion_stream.py, client.py) and the retry that      *)
(* tells it of the block once more (server/retry/session_retry.py).        *)
(*                                                                         *)
(* The manager's lock is never contended after the start and no step       *)
(* between a block that reaches stream_openai_chat and the retry suspends, *)
(* so the handling of a block is one step.  A proxy is configured: without *)
(* one the toggle is off and stays so.  Requests are qwen's chats; logins  *)
(* and media calls only read the toggle (OtherTraffic).                    *)
(***************************************************************************)
EXTENDS Naturals, FiniteSets

CONSTANTS Requests,     \* request ids
          RetryLimit,   \* max_retry_on_error
          MaxCrashes    \* bound: restarts of the process

ASSUME ToggleAssumption == RetryLimit \in Nat /\ MaxCrashes \in Nat

Settings == {"off", "on"}
Not(v) == CHOOSE w \in Settings : w # v

VARIABLES
  toggle,    \* _enabled and _seen_tasks
  file,      \* proxy_toggle.json; "none": missing or unreadable
  lastUsed,  \* QwenClient._last_used_proxy_enabled
  pc,        \* per request: new, creating, posting, reporting, again, or ended
  used,      \* per request: the setting its attempt went out with
  carried,   \* per request: proxy_used_enabled of its error, or "unknown"
  retries,   \* per request: blocks and failures it was retried after
  crashes,   \* restarts so far
  saved      \* history: the last write of the file was not lost

vars == <<toggle, file, lastUsed, pc, used, carried, retries, crashes, saved>>

Ended == {"served", "exhausted", "cancelled"}

(* initialize: what the file says, off when it says nothing.  The probe    *)
(* changes no outcome.  _write_persist logs its errors.                    *)
Init ==
  /\ file \in Settings \cup {"none"}
  /\ toggle = [enabled |-> IF file = "on" THEN "on" ELSE "off", seen |-> {}]
  /\ lastUsed = "off"
  /\ pc = [r \in Requests |-> "new"]
  /\ used = [r \in Requests |-> "off"]
  /\ carried = [r \in Requests |-> "unknown"]
  /\ retries = [r \in Requests |-> 0]
  /\ crashes = 0
  /\ saved = (file # "none")

-----------------------------------------------------------------------------
(* The manager *)

(* Fault: the target is the opposite of the setting now, not of the one    *)
(* the request used.                                                       *)
SmBlockByNow(t, r, v) ==
  IF r \in t.seen THEN t
  ELSE [enabled |-> Not(t.enabled), seen |-> t.seen \cup {r}]

(* on_sm_block *)
SmBlock(t, r, v) ==
  IF r \in t.seen THEN t ELSE [enabled |-> Not(v), seen |-> t.seen \cup {r}]

(* Fault: release_task forgets only what it is told to forget first.       *)
KeepTask(t, r) == t

(* release_task *)
ReleaseTask(t, r) == [t EXCEPT !.seen = @ \ {r}]

(* Fault: only the memory is changed.                                      *)
WritePersistNever(v) == UNCHANGED <<file, saved>>

(* _write_persist, when on_sm_block changed the setting: the write may     *)
(* fail, or stop half way.                                                 *)
WritePersist(v) ==
  IF v = toggle.enabled THEN UNCHANGED <<file, saved>>
  ELSE \/ file' = v /\ saved' = TRUE
       \/ file' \in {file, "none"} /\ saved' = FALSE

(* read_proxy_used_enabled *)
ReadUsed(r) == IF carried[r] = "unknown" THEN lastUsed ELSE carried[r]

-----------------------------------------------------------------------------
(* An attempt of a request *)

(* _get_proxy_kwarg *)
GetProxy(r) ==
  /\ lastUsed' = toggle.enabled
  /\ used' = [used EXCEPT ![r] = toggle.enabled]

OtherTraffic ==
  /\ lastUsed' = toggle.enabled
  /\ UNCHANGED <<toggle, file, pc, used, carried, retries, crashes, saved>>

Step(r, from, to) == pc[r] \in from /\ pc' = [pc EXCEPT ![r] = to]

(* The attempt asks for a chat, and with the chat for its answer.          *)
CreateChat(r) ==
  /\ Step(r, {"new", "again"}, "creating") /\ GetProxy(r)
  /\ carried' = [carried EXCEPT ![r] = "unknown"]
  /\ UNCHANGED <<toggle, file, retries, crashes, saved>>

PostChat(r) ==
  /\ Step(r, {"creating"}, "posting") /\ GetProxy(r)
  /\ UNCHANGED <<toggle, file, carried, retries, crashes, saved>>

(* A block of the post by its status carries the setting, one in the       *)
(* stream does not; either way the statistics are sent before the error    *)
(* goes up.                                                                *)
PostBlocked(r) ==
  /\ Step(r, {"posting"}, "reporting")
  /\ \E v \in {used[r], "unknown"} : carried' = [carried EXCEPT ![r] = v]
  /\ UNCHANGED <<toggle, file, lastUsed, used, retries, crashes, saved>>

(* chat_completion_stream and stream_openai_chat tell the manager, which   *)
(* looks at the first only; the task is released, and the retry tells the  *)
(* manager a last time.                                                    *)
Told(r) ==
  LET v == ReadUsed(r)
  IN SmBlock(ReleaseTask(SmBlock(SmBlock(toggle, r, v), r, v), r), r, v)

(* _dispatch_session_retry's count *)
Retry(r, from) ==
  IF retries[r] < RetryLimit
    THEN /\ Step(r, from, "again")
         /\ retries' = [retries EXCEPT ![r] = @ + 1]
    ELSE Step(r, from, "exhausted") /\ UNCHANGED retries

(* The block of a post, or of the chat's creation, which carries nothing.  *)
Blocked(r) ==
  /\ Retry(r, {"creating", "reporting"})
  /\ toggle' = Told(r) /\ WritePersist(toggle'.enabled)
  /\ UNCHANGED <<lastUsed, used, carried, crashes>>

(* A lost connection or an unknown chat: only the retry tells the manager. *)
Lost(r) ==
  /\ Retry(r, {"creating", "posting"})
  /\ toggle' = SmBlock(ReleaseTask(toggle, r), r, ReadUsed(r))
  /\ WritePersist(toggle'.enabled)
  /\ UNCHANGED <<lastUsed, used, carried, crashes>>

(* A dead token, a timeout: a retry without a word to the manager.         *)
Failed(r) ==
  /\ Retry(r, {"creating", "posting"})
  /\ toggle' = ReleaseTask(toggle, r)
  /\ UNCHANGED <<file, lastUsed, used, carried, crashes, saved>>

(* The answer was sent; or the client left, or the server stops.           *)
Leave(r) ==
  /\ \/ Step(r, {"posting"}, "served")
     \/ Step(r, {"creating", "posting", "reporting"}, "cancelled")
  /\ toggle' = ReleaseTask(toggle, r)
  /\ UNCHANGED <<file, lastUsed, used, carried, retries, crashes, saved>>

(* It leaves while the retry switches accounts, when nothing releases it.  *)
LeaveBetween(r) ==
  /\ Step(r, {"again"}, "cancelled")
  /\ UNCHANGED <<toggle, file, lastUsed, used, carried, retries, crashes, saved>>

-----------------------------------------------------------------------------
(* The process is started again.  With nothing readable in the file the    *)
(* default is written to it, if it can be.                                 *)
Restart ==
  /\ crashes < MaxCrashes /\ crashes' = crashes + 1
  /\ toggle' = [enabled |-> IF file = "on" THEN "on" ELSE "off", seen |-> {}]
  /\ \/ file # "none" /\ UNCHANGED <<file, saved>>
     \/ file = "none" /\ file' \in {"off", "none"} /\ saved' = (file' = "off")
  /\ lastUsed' = "off"
  /\ pc' = [r \in Requests |-> IF pc[r] = "new" THEN "new" ELSE "cancelled"]
  /\ used' = [r \in Requests |-> "off"]
  /\ carried' = [r \in Requests |-> "unknown"]
  /\ UNCHANGED retries

Next ==
  \/ OtherTraffic
  \/ \E r \in Requests :
       CreateChat(r) \/ PostChat(r) \/ PostBlocked(r) \/ Blocked(r)
         \/ Lost(r) \/ Failed(r) \/ Leave(r) \/ LeaveBetween(r)
  \/ Restart

Spec == Init /\ [][Next]_vars

-----------------------------------------------------------------------------
(* The types of the variables, with what they say together: the file that  *)
(* was written last holds the setting, so that a restart keeps it          *)
(* (_write_persist, initialize), and a retry is never counted past the     *)
(* limit.                                                                  *)
TypeOK ==
  /\ toggle \in [enabled : Settings, seen : SUBSET Requests]
  /\ file \in Settings \cup {"none"} /\ lastUsed \in Settings
  /\ pc \in [Requests -> {"new", "creating", "posting", "reporting", "again"}
                           \cup Ended]
  /\ used \in [Requests -> Settings]
  /\ carried \in [Requests -> Settings \cup {"unknown"}]
  /\ retries \in [Requests -> 0..RetryLimit]
  /\ crashes \in 0..MaxCrashes /\ saved \in BOOLEAN
  /\ saved => file = toggle.enabled

(* A block that carries the setting of its attempt never leaves the toggle *)
(* at that setting, whatever other requests did to it since and however    *)
(* often the manager heard of the request before (on_sm_block: "computed   *)
(* from the state at the time of the request").                            *)
BlockedPathIsLeft ==
  [][\A r \in Requests :
       pc[r] = "reporting" /\ carried[r] # "unknown"
         /\ pc'[r] \in {"again", "exhausted"}
       => toggle'.enabled # used[r]]_vars

(* The memory of requests the manager has heard of holds only those that   *)
(* are in an attempt, wait for one, or ran out of retries: a request that  *)
(* was served or cancelled in an attempt is released (release_task in the  *)
(* finally of stream_openai_chat).  One that is cancelled between two      *)
(* attempts, or runs out, stays in it for the life of the process.         *)
ServedIsForgotten ==
  \A r \in Requests : pc[r] \in {"new", "served"} => r \notin toggle.seen
=============================================================================
