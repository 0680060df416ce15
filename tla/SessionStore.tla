---------------------------- MODULE SessionStore ----------------------------
(***************************************************************************)
(* Persistence of one upstream's session pool (core/session/store.py and   *)
(* the savers of core/session/pool.py): synchronous saves on the event     *)
(* loop beside saves that a worker thread performs while the loop goes on. *)
(*                                                                         *)
(* A worker is given the list object and the dictionaries themselves.  It  *)
(* cleans the list, assigns the result back into it, builds the document,  *)
(* and writes it under _save_lock; between these steps the loop may run.   *)
(* prune_expired_sessions rebinds _sessions: a worker then goes on with a  *)
(* list that nobody else sees.                                             *)
(***************************************************************************)
EXTENDS Integers, FiniteSets

CONSTANTS Accounts,
          Savers,         \* coroutines that call save_upstream_sessions_async
          NoSaver         \* nobody holds the asyncio lock

ASSUME StoreAssumption ==
  IsFiniteSet(Accounts) /\ IsFiniteSet(Savers) /\ NoSaver \notin Savers

VARIABLES
  up,           \* the process runs
  live,         \* accounts with a session in _sessions
  bad,          \* those whose session is expired or invalid
  blocked,      \* _blocked_accounts
  disk,         \* sessions.json
  step,         \* what the worker of each saver does next
  shared,       \* savers whose list still is _sessions
  list,         \* the list of a saver that is not in shared
  kept,         \* clean_expired's result in each worker
  rot,          \* sessions in list or kept that turned bad since
  doc,          \* the document each worker is about to write
  lock,         \* holder of get_async_lock()
  late,         \* history: workers whose document is older than a save of the loop
  lag           \* history: the last write failed, or a late worker made it

history == <<late, lag>>
vars == <<up, live, bad, blocked, disk, step, shared, list, kept, rot, doc, lock,
          history>>
worker == <<step, shared, list, kept, rot, doc, lock>>

Document == [sessions : SUBSET Accounts, blocked : SUBSET Accounts]
Empty == [sessions |-> {}, blocked |-> {}]
Steps == {"none", "clean", "assign", "build", "write"}

(* Types; a bad session is a session of the pool, and whoever holds the    *)
(* asyncio lock has a worker that is not done yet.                         *)
TypeOK ==
  /\ up \in BOOLEAN
  /\ live \subseteq Accounts /\ bad \subseteq live /\ blocked \subseteq Accounts
  /\ disk \in Document
  /\ step \in [Savers -> Steps] /\ shared \subseteq Savers
  /\ list \in [Savers -> SUBSET Accounts] /\ kept \in [Savers -> SUBSET Accounts]
  /\ rot \in [Savers -> SUBSET Accounts]
  /\ doc \in [Savers -> Document]
  /\ lock \in Savers \cup {NoSaver}
  /\ lock # NoSaver => step[lock] # "none"
  /\ late \subseteq {s \in Savers : step[s] = "write"} /\ lag \in BOOLEAN

NoWorkers ==
  /\ step = [s \in Savers |-> "none"] /\ shared = {}
  /\ list = [s \in Savers |-> {}] /\ kept = [s \in Savers |-> {}]
  /\ rot = [s \in Savers |-> {}]
  /\ doc = [s \in Savers |-> Empty]
  /\ lock = NoSaver

Init ==
  /\ up = TRUE /\ live = {} /\ bad = {} /\ blocked = {} /\ disk = Empty
  /\ NoWorkers
  /\ late = {} /\ lag = FALSE

-----------------------------------------------------------------------------
(* atomic_write_text; that the file cannot be written is only logged. *)
WriteFile(d, overtaken) ==
  \/ disk' = d /\ lag' = overtaken
  \/ UNCHANGED disk /\ lag' = TRUE

(* _save_upstream_sessions_impl on the loop: the list is cleaned in place. *)
SaveNow(sessions, invalid, blocks) ==
  /\ live' = sessions \ invalid
  /\ bad' = {}
  /\ blocked' = blocks
  /\ WriteFile([sessions |-> sessions \ invalid, blocked |-> blocks], FALSE)
  /\ late' = {s \in Savers : step[s] = "write"}

(* A session object turns bad in the hands of the workers as well. *)
Spoil(u) ==
  rot' = [s \in Savers |-> IF u \in list[s] \cup kept[s] THEN rot[s] \cup {u} ELSE rot[s]]

(* login_account: replace_or_append, then _persist_sessions. *)
Login(u) ==
  /\ up /\ u \notin (live \ bad) \cup blocked
  /\ SaveNow(live \cup {u}, bad \ {u}, blocked)
  /\ UNCHANGED <<up, worker>>

(* block_account *)
Block(u) ==
  /\ up /\ u \notin blocked
  /\ SaveNow(live, bad, blocked \cup {u})
  /\ UNCHANGED <<up, worker>>

(* _invalidate_session, then _persist_sessions *)
Invalidate(u) ==
  /\ up /\ u \in live \ bad
  /\ SaveNow(live, bad \cup {u}, blocked)
  /\ Spoil(u)
  /\ UNCHANGED <<up, step, shared, list, kept, doc, lock>>

(* cleanup_expired_sessions, called by session_maintenance_loop. *)
Maintain ==
  /\ up
  /\ SaveNow(live, bad, blocked)
  /\ UNCHANGED <<up, worker>>

(* prune_expired_sessions binds _sessions to a new list. *)
Prune ==
  /\ up
  /\ live' = live \ bad /\ bad' = {}
  /\ list' = [s \in Savers |-> IF s \in shared THEN live \ bad ELSE list[s]]
  /\ shared' = {}
  /\ UNCHANGED <<up, blocked, disk, step, kept, rot, doc, lock, history>>

Expire(u) ==
  /\ up /\ u \in live \ bad
  /\ bad' = bad \cup {u}
  /\ Spoil(u)
  /\ UNCHANGED <<up, live, blocked, disk, step, shared, list, kept, doc, lock, history>>

-----------------------------------------------------------------------------
(* _ensure_cleanup or _commit_session: save_upstream_sessions_async takes  *)
(* the asyncio lock and hands the work to a thread.                        *)
BeginSave(s) ==
  /\ up /\ lock = NoSaver /\ step[s] = "none"
  /\ lock' = s
  /\ step' = [step EXCEPT ![s] = "clean"]
  /\ shared' = shared \cup {s}
  /\ UNCHANGED <<up, live, bad, blocked, disk, list, kept, rot, doc, history>>

(* The saving coroutine is cancelled; its thread runs on without the lock. *)
Abandon(s) ==
  /\ up /\ lock = s
  /\ lock' = NoSaver
  /\ UNCHANGED <<up, live, bad, blocked, disk, step, shared, list, kept, rot, doc,
                 history>>

(* The thread is done; its coroutine, if it is still there, releases the   *)
(* asyncio lock.                                                           *)
EndWorker(s) ==
  /\ step' = [step EXCEPT ![s] = "none"]
  /\ lock' = IF lock = s THEN NoSaver ELSE lock

LetListGo(s) ==
  /\ shared' = shared \ {s}
  /\ list' = [list EXCEPT ![s] = {}]
  /\ rot' = [rot EXCEPT ![s] = {}]

CleanExpired(s) ==
  /\ step[s] = "clean"
  /\ kept' = [kept EXCEPT ![s] = IF s \in shared THEN live \ bad ELSE list[s] \ rot[s]]
  /\ rot' = [rot EXCEPT ![s] = {}]
  /\ step' = [step EXCEPT ![s] = "assign"]
  /\ UNCHANGED <<up, live, bad, blocked, disk, shared, list, doc, lock, history>>

(* sessions[:] = cleaned *)
Assign(s) ==
  /\ step[s] = "assign"
  /\ IF s \in shared
       THEN live' = kept[s] /\ bad' = rot[s] \cap kept[s] /\ UNCHANGED list
       ELSE list' = [list EXCEPT ![s] = kept[s]] /\ UNCHANGED <<live, bad>>
  /\ step' = [step EXCEPT ![s] = "build"]
  /\ kept' = [kept EXCEPT ![s] = {}]
  /\ UNCHANGED <<up, blocked, disk, shared, rot, doc, lock, history>>

(* Fault: the blocks are not passed on, and default to none. *)
BuildDocumentBare(s) ==
  /\ step[s] = "build"
  /\ doc' = [doc EXCEPT ![s] =
              [sessions |-> IF s \in shared THEN live \ bad ELSE list[s] \ rot[s],
               blocked  |-> {}]]
  /\ step' = [step EXCEPT ![s] = "write"]
  /\ LetListGo(s)
  /\ UNCHANGED <<up, live, bad, blocked, disk, kept, lock, history>>

(* The table of blocks is read first, the list right after it.             *)
BuildDocument(s) ==
  /\ step[s] = "build"
  /\ doc' = [doc EXCEPT ![s] =
              [sessions |-> IF s \in shared THEN live \ bad ELSE list[s] \ rot[s],
               blocked  |-> blocked]]
  /\ step' = [step EXCEPT ![s] = "write"]
  /\ LetListGo(s)
  /\ UNCHANGED <<up, live, bad, blocked, disk, kept, lock, history>>

(* The loop adds a block while the worker goes through the table: a        *)
(* RuntimeError ends the save.                                             *)
BuildFails(s) ==
  /\ step[s] = "build" /\ blocked # {}
  /\ EndWorker(s)
  /\ LetListGo(s)
  /\ UNCHANGED <<up, live, bad, blocked, disk, kept, doc, history>>

(* Fault: a save that ends does not give the asyncio lock back. *)
WriteKeepsLock(s) ==
  /\ step[s] = "write"
  /\ WriteFile(doc[s], s \in late)
  /\ late' = late \ {s}
  /\ step' = [step EXCEPT ![s] = "none"]
  /\ doc' = [doc EXCEPT ![s] = Empty]
  /\ UNCHANGED <<up, live, bad, blocked, shared, list, kept, rot, lock>>

(* The document is written under _save_lock. *)
Write(s) ==
  /\ step[s] = "write"
  /\ WriteFile(doc[s], s \in late)
  /\ late' = late \ {s}
  /\ doc' = [doc EXCEPT ![s] = Empty]
  /\ EndWorker(s)
  /\ UNCHANGED <<up, live, bad, blocked, shared, list, kept, rot>>

WorkerStep(s) ==
  CleanExpired(s) \/ Assign(s) \/ BuildDocument(s) \/ BuildFails(s) \/ Write(s)

-----------------------------------------------------------------------------
(* The process stops at any point, and its threads with it. *)
Crash ==
  /\ up /\ up' = FALSE
  /\ live' = {} /\ bad' = {} /\ blocked' = {}
  /\ step' = [s \in Savers |-> "none"] /\ shared' = {}
  /\ list' = [s \in Savers |-> {}] /\ kept' = [s \in Savers |-> {}]
  /\ rot' = [s \in Savers |-> {}]
  /\ doc' = [s \in Savers |-> Empty]
  /\ lock' = NoSaver
  /\ late' = {}
  /\ UNCHANGED <<disk, lag>>

(* Fault: the blocks are not read back. *)
RestartForgetsBlocks ==
  /\ ~up /\ up' = TRUE
  /\ live' = disk.sessions /\ blocked' = {}
  /\ lag' = FALSE
  /\ UNCHANGED <<bad, disk, worker, late>>

(* _init_session_pool: load_upstream_sessions. *)
Restart ==
  /\ ~up /\ up' = TRUE
  /\ live' = disk.sessions /\ blocked' = disk.blocked
  /\ lag' = FALSE
  /\ UNCHANGED <<bad, disk, worker, late>>

Next ==
  \/ \E u \in Accounts : Login(u) \/ Block(u) \/ Invalidate(u) \/ Expire(u)
  \/ Maintain \/ Prune \/ Crash \/ Restart
  \/ \E s \in Savers : BeginSave(s) \/ Abandon(s) \/ WorkerStep(s)

Spec == Init /\ [][Next]_vars

-----------------------------------------------------------------------------
(* A block is written to the file as soon as it is made.  A worker that    *)
(* was overtaken by a save of the loop may put an older document there     *)
(* later, and a write may fail unnoticed; whichever save comes next, of    *)
(* either kind, brings every block back that memory has.  Workers that     *)
(* overtake each other lose none.                                          *)
BlocksOnFile == up /\ ~lag => blocked \subseteq disk.blocked

(* Whatever order the saves of both kinds and the restarts come in, the    *)
(* running process respects every block that its file records.             *)
MemoryKnowsDisk == up => disk.blocked \subseteq blocked
=============================================================================
