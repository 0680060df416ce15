------------------------- MODULE SessionStoreProofs -------------------------
(***************************************************************************)
(* For every set of accounts and of savers: whoever holds the asyncio lock *)
(* has a worker that is not done, and the running process respects every   *)
(* block its file records, however the saves of the event loop, those of   *)
(* overlapping workers, crashes and restarts are interleaved.              *)
(***************************************************************************)
EXTENDS SessionStore, TLAPS

-----------------------------------------------------------------------------
(* TypeOK is inductive once it is known that a process which is down has   *)
(* no worker and nothing in memory: otherwise a restart could leave a bad  *)
(* session that is not in the pool.  What the code has and what the        *)
(* history adds are typed one after the other.                             *)
CodeTypes ==
  /\ up \in BOOLEAN
  /\ live \subseteq Accounts /\ bad \subseteq live /\ blocked \subseteq Accounts
  /\ disk \in Document
  /\ step \in [Savers -> Steps] /\ shared \subseteq Savers
  /\ list \in [Savers -> SUBSET Accounts] /\ kept \in [Savers -> SUBSET Accounts]
  /\ rot \in [Savers -> SUBSET Accounts]
  /\ doc \in [Savers -> Document]
  /\ lock \in Savers \cup {NoSaver}
  /\ lock # NoSaver => step[lock] # "none"

HistoryTypes ==
  late \subseteq {s \in Savers : step[s] = "write"} /\ lag \in BOOLEAN

TypeInv ==
  /\ CodeTypes
  /\ ~up => bad = {} /\ blocked = {} /\ \A s \in Savers : step[s] = "none"

LEMMA TypeParts == TypeOK <=> CodeTypes /\ HistoryTypes
  BY DEF TypeOK, CodeTypes, HistoryTypes

LEMMA TypeInit == Init => TypeInv /\ HistoryTypes
<1> SUFFICES ASSUME Init PROVE TypeInv /\ HistoryTypes
  OBVIOUS
<1>1. TypeInv
  BY StoreAssumption DEF Init, NoWorkers, TypeInv, CodeTypes, Document, Empty, Steps
<1>2. HistoryTypes
  BY DEF Init, HistoryTypes
<1> QED
  BY <1>1, <1>2

(* A write leaves a document in the file. *)
LEMMA FileTyped ==
  ASSUME CodeTypes, NEW d \in Document, NEW o, WriteFile(d, o)
  PROVE  disk' \in Document
  BY DEF WriteFile, CodeTypes

LEMMA SaveTyped ==
  ASSUME CodeTypes, NEW sessions \in SUBSET Accounts, NEW invalid,
         NEW blocks \in SUBSET Accounts, SaveNow(sessions, invalid, blocks)
  PROVE  /\ disk' \in Document /\ blocked' = blocks /\ bad' = {}
         /\ live' \subseteq Accounts
<1>1. [sessions |-> sessions \ invalid, blocked |-> blocks] \in Document
  BY DEF Document
<1> QED
  BY <1>1, FileTyped DEF SaveNow

LEMMA TypeStep == TypeInv /\ [Next]_vars => TypeInv'
<1> SUFFICES ASSUME TypeInv, [Next]_vars PROVE TypeInv'
  OBVIOUS
<1>0. CodeTypes
  BY DEF TypeInv
<1>1. ASSUME NEW u \in Accounts, Login(u) PROVE TypeInv'
  <2>1. SaveNow(live \cup {u}, bad \ {u}, blocked) /\ up /\ UNCHANGED <<up, worker>>
    BY <1>1 DEF Login
  <2>2. /\ disk' \in Document /\ blocked' = blocked /\ bad' = {}
        /\ live' \subseteq Accounts
    BY <1>0, <2>1, SaveTyped DEF CodeTypes
  <2> QED
    BY <1>0, <2>1, <2>2 DEF TypeInv, CodeTypes, worker
<1>2. ASSUME NEW u \in Accounts, Block(u) PROVE TypeInv'
  <2>1. SaveNow(live, bad, blocked \cup {u}) /\ up /\ UNCHANGED <<up, worker>>
    BY <1>2 DEF Block
  <2>2. /\ disk' \in Document /\ blocked' \subseteq Accounts /\ bad' = {}
        /\ live' \subseteq Accounts
    <3>1. blocked \cup {u} \in SUBSET Accounts /\ live \in SUBSET Accounts
      BY <1>0 DEF CodeTypes
    <3> QED
      BY <1>0, <2>1, <3>1, SaveTyped
  <2> QED
    BY <1>0, <2>1, <2>2 DEF TypeInv, CodeTypes, worker
<1>3. ASSUME NEW u \in Accounts, Invalidate(u) PROVE TypeInv'
  <2>1. /\ SaveNow(live, bad \cup {u}, blocked) /\ up
        /\ UNCHANGED <<up, step, shared, list, kept, doc, lock>>
    BY <1>3 DEF Invalidate
  <2>2. /\ disk' \in Document /\ blocked' = blocked /\ bad' = {}
        /\ live' \subseteq Accounts
    BY <1>0, <2>1, SaveTyped DEF CodeTypes
  <2>3. rot' \in [Savers -> SUBSET Accounts]
    BY <1>0, <1>3 DEF Invalidate, Spoil, CodeTypes
  <2> QED
    BY <1>0, <2>1, <2>2, <2>3 DEF TypeInv, CodeTypes
<1>4. ASSUME NEW u \in Accounts, Expire(u) PROVE TypeInv'
  BY <1>0, <1>4 DEF Expire, Spoil, TypeInv, CodeTypes
<1>5. CASE Maintain
  <2>1. SaveNow(live, bad, blocked) /\ up /\ UNCHANGED <<up, worker>>
    BY <1>5 DEF Maintain
  <2>2. /\ disk' \in Document /\ blocked' = blocked /\ bad' = {}
        /\ live' \subseteq Accounts
    BY <1>0, <2>1, SaveTyped DEF CodeTypes
  <2> QED
    BY <1>0, <2>1, <2>2 DEF TypeInv, CodeTypes, worker
<1>6. CASE Prune
  BY <1>0, <1>6 DEF Prune, TypeInv, CodeTypes
<1>7. CASE Crash
  BY <1>0, <1>7, StoreAssumption DEF Crash, TypeInv, CodeTypes, Steps, Document, Empty
<1>8. CASE Restart
  BY <1>0, <1>8 DEF Restart, worker, TypeInv, CodeTypes, Document
<1>9. ASSUME NEW s \in Savers, BeginSave(s) PROVE TypeInv'
  BY <1>0, <1>9 DEF BeginSave, TypeInv, CodeTypes, Steps
<1>10. ASSUME NEW s \in Savers, Abandon(s) PROVE TypeInv'
  BY <1>0, <1>10 DEF Abandon, TypeInv, CodeTypes
<1>11. ASSUME NEW s \in Savers, WorkerStep(s) PROVE TypeInv'
  <2> USE <1>0, StoreAssumption DEF TypeInv, CodeTypes, Steps
  <2>1. CASE CleanExpired(s)
    BY <2>1 DEF CleanExpired
  <2>2. CASE Assign(s)
    BY <2>2 DEF Assign
  <2>3. CASE BuildDocument(s)
    BY <2>3 DEF BuildDocument, LetListGo, Document
  <2>4. CASE Write(s)
    <3>1. disk' \in Document
      BY <2>4, FileTyped DEF Write
    <3>2. doc' \in [Savers -> Document]
      BY <2>4 DEF Write, Document, Empty
    <3> QED
      BY <2>4, <3>1, <3>2 DEF Write, EndWorker
  <2>5. CASE BuildFails(s)
    BY <2>5 DEF BuildFails, EndWorker, LetListGo
  <2> QED
    BY <1>11, <2>1, <2>2, <2>3, <2>4, <2>5 DEF WorkerStep
<1>12. CASE UNCHANGED vars
  BY <1>0, <1>12 DEF vars, TypeInv, CodeTypes
<1> QED
  BY <1>1, <1>2, <1>3, <1>4, <1>5, <1>6, <1>7, <1>8, <1>9, <1>10, <1>11, <1>12
  DEF Next

(* The history: only a worker that has its document can be late. *)
LEMMA LagTyped ==
  ASSUME lag \in BOOLEAN, NEW d, NEW o \in BOOLEAN, WriteFile(d, o)
  PROVE  lag' \in BOOLEAN
  BY DEF WriteFile

LEMMA HistoryStep == TypeInv /\ HistoryTypes /\ [Next]_vars => HistoryTypes'
<1> SUFFICES ASSUME CodeTypes, HistoryTypes, [Next]_vars PROVE HistoryTypes'
  BY DEF TypeInv
<1>1. ASSUME NEW u \in Accounts, Login(u) \/ Block(u) \/ Invalidate(u) PROVE HistoryTypes'
  <2>1. \E d : WriteFile(d, FALSE)
    BY <1>1 DEF Login, Block, Invalidate, SaveNow
  <2>2. late' = {s \in Savers : step[s] = "write"} /\ step' = step
    BY <1>1 DEF Login, Block, Invalidate, SaveNow, worker
  <2> QED
    BY <2>1, <2>2, LagTyped DEF HistoryTypes
<1>2. CASE Maintain
  <2>1. \E d : WriteFile(d, FALSE)
    BY <1>2 DEF Maintain, SaveNow
  <2>2. late' = {s \in Savers : step[s] = "write"} /\ step' = step
    BY <1>2 DEF Maintain, SaveNow, worker
  <2> QED
    BY <2>1, <2>2, LagTyped DEF HistoryTypes
<1>3. CASE Crash \/ Restart
  BY <1>3 DEF Crash, Restart, HistoryTypes, worker
<1>4. ASSUME NEW s \in Savers, Write(s) PROVE HistoryTypes'
  <2>1. lag' = (s \in late) \/ lag' = TRUE
    BY <1>4 DEF Write, WriteFile
  <2>2. lag' \in BOOLEAN
    <3>1. CASE s \in late
      BY <2>1, <3>1, Zenon
    <3>2. CASE s \notin late
      <4>1. (s \in late) = FALSE
        BY <3>2
      <4> QED
        BY <2>1, <4>1, Zenon
    <3> QED
      BY <3>1, <3>2
  <2>3. late' = late \ {s} /\ step' = [step EXCEPT ![s] = "none"]
    BY <1>4 DEF Write, EndWorker
  <2> QED
    BY <2>2, <2>3 DEF HistoryTypes, CodeTypes
<1>5. ASSUME NEW s \in Savers,
             \/ BeginSave(s) \/ Abandon(s) \/ CleanExpired(s) \/ Assign(s)
             \/ BuildDocument(s) \/ BuildFails(s)
      PROVE  HistoryTypes'
  <2>1. \/ step[s] # "write" /\ \E label : step' = [step EXCEPT ![s] = label]
        \/ step' = step
    BY <1>5 DEF BeginSave, Abandon, CleanExpired, Assign, BuildDocument, BuildFails, EndWorker
  <2>2. late' = late /\ lag' = lag
    BY <1>5 DEF BeginSave, Abandon, CleanExpired, Assign, BuildDocument, BuildFails, history
  <2> QED
    BY <2>1, <2>2 DEF HistoryTypes, CodeTypes
<1>6. CASE Prune \/ UNCHANGED vars \/ (\E u \in Accounts : Expire(u))
  BY <1>6 DEF Prune, Expire, vars, history, HistoryTypes
<1> QED
  BY <1>1, <1>2, <1>3, <1>4, <1>5, <1>6 DEF Next, WorkerStep

(* The types of the store, and with them: a saver that holds the asyncio   *)
(* lock has a worker that is still at work.                                *)
THEOREM TypeCorrect == Spec => []TypeOK
<1>1. TypeInv /\ HistoryTypes => TypeOK
  BY TypeParts DEF TypeInv
<1>2. Init => TypeInv /\ HistoryTypes
  BY TypeInit
<1>3. TypeInv /\ HistoryTypes /\ [Next]_vars => (TypeInv /\ HistoryTypes)'
  BY TypeStep, HistoryStep
<1> QED
  BY <1>1, <1>2, <1>3, PTL DEF Spec

-----------------------------------------------------------------------------
(***************************************************************************)
(* The inductive invariant behind MemoryKnowsDisk.  A late write puts an   *)
(* old document into the file; it does no harm to memory because blocks    *)
(* are only added while the process runs, so that every document a worker  *)
(* still holds records no more than memory does.                           *)
(***************************************************************************)
KnowsInv ==
  /\ MemoryKnowsDisk
  /\ \A s \in Savers : doc[s].blocked \subseteq blocked

LEMMA KnowsInit == Init => KnowsInv
  BY DEF Init, NoWorkers, KnowsInv, MemoryKnowsDisk, Empty

LEMMA KnowsStep == TypeInv /\ KnowsInv /\ [Next]_vars => KnowsInv'
<1> SUFFICES ASSUME CodeTypes, TypeInv, KnowsInv, [Next]_vars PROVE KnowsInv'
  BY DEF TypeInv
<1> USE DEF KnowsInv, MemoryKnowsDisk
<1>1. ASSUME NEW u \in Accounts, Login(u) \/ Block(u) \/ Invalidate(u) PROVE KnowsInv'
  BY <1>1 DEF Login, Block, Invalidate, SaveNow, WriteFile, worker
<1>2. ASSUME NEW u \in Accounts, Expire(u) PROVE KnowsInv'
  BY <1>2 DEF Expire
<1>3. CASE Maintain
  BY <1>3 DEF Maintain, SaveNow, WriteFile, worker
<1>4. CASE Prune
  BY <1>4 DEF Prune
<1>5. CASE Crash
  BY <1>5 DEF Crash, Empty
<1>6. CASE Restart
  BY <1>6 DEF Restart, worker, TypeInv
<1>7. ASSUME NEW s \in Savers,
             \/ BeginSave(s) \/ Abandon(s) \/ CleanExpired(s) \/ Assign(s)
             \/ BuildFails(s)
      PROVE  KnowsInv'
  BY <1>7 DEF BeginSave, Abandon, CleanExpired, Assign, BuildFails
<1>8. ASSUME NEW s \in Savers, BuildDocument(s) PROVE KnowsInv'
  BY <1>8 DEF BuildDocument, CodeTypes
<1>9. ASSUME NEW s \in Savers, Write(s) PROVE KnowsInv'
  <2>1. disk' = doc[s] \/ disk' = disk
    BY <1>9 DEF Write, WriteFile
  <2>2. /\ step[s] = "write" /\ blocked' = blocked /\ up' = up
        /\ doc' = [doc EXCEPT ![s] = Empty]
    BY <1>9 DEF Write
  <2> QED
    BY <2>1, <2>2 DEF CodeTypes, Empty
<1>10. CASE UNCHANGED vars
  BY <1>10 DEF vars
<1> QED
  BY <1>1, <1>2, <1>3, <1>4, <1>5, <1>6, <1>7, <1>8, <1>9, <1>10
  DEF Next, WorkerStep

(* A running process respects every block that its file records, even when *)
(* the file was written by a worker that had been overtaken.               *)
THEOREM MemoryCorrect == Spec => []MemoryKnowsDisk
<1>1. TypeInv /\ KnowsInv /\ [Next]_vars => (TypeInv /\ KnowsInv)'
  BY TypeStep, KnowsStep
<1>2. Init => TypeInv /\ KnowsInv
  BY TypeInit, KnowsInit
<1>3. KnowsInv => MemoryKnowsDisk
  BY DEF KnowsInv
<1> QED
  BY <1>1, <1>2, <1>3, PTL DEF Spec

-----------------------------------------------------------------------------
(***************************************************************************)
(* The inductive invariant behind BlocksOnFile: a worker that has its      *)
(* document and is not late has every block in it, since a new block comes *)
(* with a save of the loop, which makes that worker late.                  *)
(***************************************************************************)
FileInv ==
  /\ BlocksOnFile
  /\ \A s \in Savers :
       step[s] = "write" /\ s \notin late => blocked \subseteq doc[s].blocked

LEMMA FileInit == Init => FileInv
  BY DEF Init, NoWorkers, FileInv, BlocksOnFile

(* A save of the loop puts every block into the file, or is seen to fail;  *)
(* the documents that were there are late.                                 *)
LEMMA SaveOnFile ==
  ASSUME NEW sessions, NEW invalid, NEW blocks, SaveNow(sessions, invalid, blocks),
         step' = step
  PROVE  FileInv'
<1>1. ~lag' => disk'.blocked = blocked'
  BY DEF SaveNow, WriteFile
<1>2. \A s \in Savers : step'[s] = "write" => s \in late'
  BY DEF SaveNow
<1> QED
  BY <1>1, <1>2 DEF FileInv, BlocksOnFile

LEMMA FileStep == TypeInv /\ HistoryTypes /\ FileInv /\ [Next]_vars => FileInv'
<1> SUFFICES ASSUME CodeTypes, TypeInv, FileInv, [Next]_vars PROVE FileInv'
  BY DEF TypeInv
<1>1. ASSUME NEW u \in Accounts, Login(u) \/ Block(u) \/ Invalidate(u) PROVE FileInv'
  BY <1>1, SaveOnFile DEF Login, Block, Invalidate, worker
<1>2. CASE Maintain
  BY <1>2, SaveOnFile DEF Maintain, worker
<1>3. CASE Prune \/ UNCHANGED vars \/ (\E u \in Accounts : Expire(u))
  BY <1>3 DEF Prune, Expire, vars, history, FileInv, BlocksOnFile
<1>4. CASE Crash
  BY <1>4 DEF Crash, FileInv, BlocksOnFile
<1>5. CASE Restart
  BY <1>5 DEF Restart, TypeInv, worker, FileInv, BlocksOnFile
<1>6. ASSUME NEW s \in Savers,
             \/ BeginSave(s) \/ Abandon(s) \/ CleanExpired(s) \/ Assign(s)
             \/ BuildFails(s)
      PROVE  FileInv'
  <2>1. \A w \in Savers : step'[w] = "write" => step[w] = "write"
    BY <1>6 DEF BeginSave, Abandon, CleanExpired, Assign, BuildFails, EndWorker, CodeTypes
  <2>2. UNCHANGED <<up, blocked, disk, doc, history>>
    BY <1>6 DEF BeginSave, Abandon, CleanExpired, Assign, BuildFails
  <2> QED
    BY <2>1, <2>2 DEF FileInv, BlocksOnFile, history
<1>7. ASSUME NEW s \in Savers, BuildDocument(s) PROVE FileInv'
  <2>1. doc'[s].blocked = blocked
    BY <1>7 DEF BuildDocument, CodeTypes
  <2>2. \A w \in Savers \ {s} : doc'[w] = doc[w] /\ step'[w] = step[w]
    BY <1>7 DEF BuildDocument, CodeTypes
  <2>3. UNCHANGED <<up, blocked, disk, history>>
    BY <1>7 DEF BuildDocument
  <2> QED
    BY <2>1, <2>2, <2>3 DEF FileInv, BlocksOnFile, history
<1>8. ASSUME NEW s \in Savers, Write(s) PROVE FileInv'
  <2>1. /\ step[s] = "write" /\ step'[s] = "none" /\ late' = late \ {s}
        /\ UNCHANGED <<up, blocked>>
    BY <1>8 DEF Write, EndWorker, CodeTypes
  <2>2. \A w \in Savers \ {s} : doc'[w] = doc[w] /\ step'[w] = step[w]
    BY <1>8 DEF Write, EndWorker, CodeTypes
  <2>3. ~lag' => disk' = doc[s] /\ s \notin late
    BY <1>8 DEF Write, WriteFile
  <2> QED
    BY <2>1, <2>2, <2>3 DEF FileInv, BlocksOnFile
<1> QED
  BY <1>1, <1>2, <1>3, <1>4, <1>5, <1>6, <1>7, <1>8 DEF Next, WorkerStep

(* After a write that did not fail, and was not made by a worker that a    *)
(* save of the loop had overtaken, the file has every block.               *)
THEOREM FileCorrect == Spec => []BlocksOnFile
<1> DEFINE Inv == TypeInv /\ HistoryTypes /\ FileInv
<1>1. Init => Inv
  BY TypeInit, FileInit
<1>2. Inv /\ [Next]_vars => Inv'
  BY TypeStep, HistoryStep, FileStep
<1>3. Inv => BlocksOnFile
  BY DEF FileInv
<1> QED
  BY <1>1, <1>2, <1>3, PTL DEF Spec
=============================================================================
