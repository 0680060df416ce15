----------------------------- MODULE ConfigWatch -----------------------------
(***************************************************************************)
(* The hot reload of the configuration (server/config/reload.py): a task   *)
(* polls the modification times of the files, waits a moment, and has a    *)
(* worker thread read them again and swap the snapshot in CONFIG.          *)
(*                                                                         *)
(* Data.  The content of a file is the number of the write that made it,   *)
(* which is its modification time as well.  The files are read one after   *)
(* the other while others may write them.  A file that an editor has       *)
(* written half may be refused, or be read as it is.                       *)
(* The files are those of the user that are both merged and watched; what  *)
(* load_config merges and nobody watches, template/ and the presets of     *)
(* configs/, is taken not to be written while the server runs.             *)
(***************************************************************************)
EXTENDS Naturals

CONSTANTS FileCount,    \* the user's files of config/, in reading order
          MaxWrites     \* bound: writes to the files

ASSUME WatchAssumption == FileCount \in Nat \ {0} /\ MaxWrites \in Nat

Files == 1..FileCount
Stamps == 0..MaxWrites

VARIABLES
  stopping,   \* shutdown_event
  mtime,      \* content of each file, and its modification time
  half,       \* files that are written half
  writes,     \* writes so far
  conf,       \* what the snapshot in CONFIG was made from
  watch,      \* the watcher: boot, poll, debounce, read, or done
  mtimes,     \* mtimes of config_watch_loop
  current,    \* current of config_watch_loop
  got,        \* what the thread has read
  at,         \* the file it reads next
  seen        \* history: the last write came after the watcher began

fileVars == <<mtime, half, writes, seen>>
watchVars == <<conf, watch, mtimes, current, got, at>>

Nothing == [f \in Files |-> 0]

(* main_async has loaded the files; the watcher is not there yet. *)
WatchInit ==
  /\ mtime = Nothing /\ half = {} /\ writes = 0 /\ seen = FALSE
  /\ conf = Nothing /\ watch = "boot" /\ mtimes = Nothing
  /\ current = Nothing /\ got = Nothing /\ at = 1

(* Somebody writes a file, half or to its end; what is written during the  *)
(* shutdown is of no interest.                                             *)
WriteFile(f) ==
  /\ ~stopping /\ writes < MaxWrites /\ writes' = writes + 1
  /\ mtime' = [mtime EXCEPT ![f] = writes']
  /\ half' \in {half \cup {f}, half \ {f}}
  /\ seen' = (watch # "boot")
  /\ UNCHANGED <<stopping, watchVars>>

(* start_config_watcher: the times are collected when the task first runs. *)
StartWatcher ==
  /\ watch = "boot" /\ watch' = "poll"
  /\ mtimes' = mtime
  /\ UNCHANGED <<stopping, fileVars, conf, current, got, at>>

Poll ==
  /\ watch = "poll" /\ ~stopping
  /\ mtime # mtimes
  /\ watch' = "debounce"
  /\ UNCHANGED <<stopping, fileVars, conf, mtimes, current, got, at>>

(* The times are collected once more, then the thread begins. *)
Debounced ==
  /\ watch = "debounce" /\ ~stopping
  /\ watch' = "read" /\ at' = 1
  /\ current' = mtime
  /\ UNCHANGED <<stopping, fileVars, conf, mtimes, got>>

ReadFile ==
  /\ watch = "read" /\ at <= FileCount
  /\ got' = [got EXCEPT ![at] = mtime[at]]
  /\ at' = at + 1
  /\ UNCHANGED <<stopping, fileVars, conf, watch, mtimes, current>>

(* Fault: the times that are remembered are those after the reading. *)
BackToPollLate ==
  watch' = "poll" /\ mtimes' = mtime /\ current' = Nothing /\ got' = Nothing /\ at' = 1

(* The loop goes on from the times collected before the reading. *)
BackToPoll ==
  watch' = "poll" /\ mtimes' = current /\ current' = Nothing /\ got' = Nothing /\ at' = 1

(* reload_config keeps the old snapshot when a file cannot be read. *)
ReloadFails ==
  /\ watch = "read" /\ at \in half
  /\ BackToPoll
  /\ UNCHANGED <<stopping, fileVars, conf>>

(* CONFIG.swap and apply_runtime_config *)
Reload ==
  /\ watch = "read" /\ at > FileCount
  /\ conf' = got
  /\ BackToPoll
  /\ UNCHANGED <<stopping, fileVars>>

(* The locals of the watcher go with it. *)
WatcherGone ==
  /\ watch' = "done" /\ mtimes' = Nothing /\ current' = Nothing
  /\ got' = Nothing /\ at' = 1

(* Both waits of the loop end when the shutdown begins. *)
WatcherLeaves ==
  /\ watch \in {"poll", "debounce"} /\ stopping
  /\ WatcherGone
  /\ UNCHANGED <<stopping, fileVars, conf>>

WatchStep ==
  \/ StartWatcher \/ Poll \/ Debounced \/ ReadFile \/ ReloadFails \/ Reload
  \/ WatcherLeaves

WatchTypeOK ==
  /\ stopping \in BOOLEAN /\ seen \in BOOLEAN /\ half \subseteq Files
  /\ writes \in Stamps
  /\ mtime \in [Files -> Stamps] /\ conf \in [Files -> Stamps]
  /\ mtimes \in [Files -> Stamps] /\ current \in [Files -> Stamps]
  /\ got \in [Files -> Stamps]
  /\ watch \in {"boot", "poll", "debounce", "read", "done"}
  /\ at \in 1..(FileCount + 1)

(* Once nobody writes any more and no file is left half, the running       *)
(* configuration comes to be that of the files, however the writes fell    *)
(* between the polls and the readings.  A last write between the start's   *)
(* own load and the first collection of the watcher is the exception: it   *)
(* waits for the next one.  Two writes to one file are taken to have two   *)
(* modification times.                                                     *)
ConfigCatchesUp ==
  <>[](seen /\ half = {} /\ ~stopping) => <>[](conf = mtime)
=============================================================================
