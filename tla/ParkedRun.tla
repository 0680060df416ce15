------------------------------ MODULE ParkedRun ------------------------------
(***************************************************************************)
(* Cursor agent runs that wait for tool results (upstream/cursor/chat/     *)
(* agent_session.py, resume.py, openai.py; upstream/cursor/stream/loop.py, *)
(* worker.py, agent.py).                                                   *)
(*                                                                         *)
(* The loop of a run is a thread.  When the upstream has called tools of   *)
(* the client, the loop announces them in its event queue, registers a     *)
(* ParkedRun and waits.  The client answers with a new request, which      *)
(* looks the run up, sends the results on the run's own connection, wakes  *)
(* the loop and reads on from the same queue.  Requests take turns on the  *)
(* event loop; only the threads run beside them.                           *)
(*                                                                         *)
(* Data.  All runs belong to one workspace.  The n-th ParkedRun object of  *)
(* a run is its number n.  `indexed' stands for _by_tool and the table of  *)
(* pending tools together.  Of the events in a queue only those are kept   *)
(* that call a tool or end a reader.  Times are not kept: that an age or a *)
(* timeout has passed is a nondeterministic choice.  Reuse of a completed  *)
(* session's id by a later run is left out.                                *)
(***************************************************************************)
EXTENDS Integers, Sequences, FiniteSets, Functions

CONSTANTS Runs, Tools, Requests, NoRun,
          MaxParks        \* bound: how often runs may park altogether

ASSUME ParkAssumption ==
  /\ NoRun \notin Runs /\ IsFiniteSet(Tools)
  /\ Tools \cap {"awaiting", "error", "done", "end"} = {}
  /\ MaxParks \in Nat \ {0}

VARIABLES
  loop,       \* where the thread of each run is
  parks,      \* number of its latest ParkedRun
  calls,      \* ctx.pending_mcp
  pending,    \* pending of each of its ParkedRuns
  woken,      \* resume_event of its latest ParkedRun
  usable,     \* can its connection be sent on?
  queue,      \* its event queue
  reg,        \* number of the ParkedRun that _parked holds, 0: none
  indexed,    \* tools found by id
  owner,      \* run that called the tool
  req,        \* what each request does
  at,         \* run a request resumes or reads
  obj,        \* number of the ParkedRun it found
  todo,       \* its tool results that are not yet dealt with, in order
  heard,      \* tool calls it has read but not yet passed on
  seen,       \* tool calls the client knows
  delivered,  \* how often a result was sent to the run that called the tool
  early,      \* calls answered through an older ParkedRun than the latest
  astray,     \* calls whose result went to another run
  shared      \* runs whose queue had two readers at once

runVars == <<loop, parks, calls, pending, woken, usable, queue>>
registry == <<reg, indexed>>
reqVars == <<req, at, obj, todo, heard, seen>>
history == <<delivered, early, astray, shared>>
vars == <<runVars, registry, owner, reqVars, history>>

(* off        not started          running   _poll_agent_stream              *)
(* announced  awaiting_tools is out, park_run is not yet called              *)
(* parked     _wait_while_parked   leaving   before the finally clause       *)
(* ended      the thread is over       crashed   it ended in the wait        *)
LoopStates == {"off", "running", "announced", "parked", "leaving", "ended",
               "crashed"}

CalledBy(s) == {t \in Tools : owner[t] = s}

Init ==
  /\ loop = [s \in Runs |-> "off"]
  /\ parks = [s \in Runs |-> 0]
  /\ calls = [s \in Runs |-> {}]
  /\ pending = [s \in Runs |-> [n \in 1..MaxParks |-> {}]]
  /\ woken = [s \in Runs |-> FALSE]
  /\ usable = [s \in Runs |-> TRUE]
  /\ queue = [s \in Runs |-> <<>>]
  /\ reg = [s \in Runs |-> 0]
  /\ indexed = {} /\ seen = {} /\ early = {} /\ astray = {} /\ shared = {}
  /\ owner = [t \in Tools |-> NoRun]
  /\ req = [r \in Requests |-> "idle"]
  /\ at = [r \in Requests |-> NoRun]
  /\ obj = [r \in Requests |-> 0]
  /\ todo = [r \in Requests |-> <<>>]
  /\ heard = [r \in Requests |-> {}]
  /\ delivered = [t \in Tools |-> 0]

Put(s, events) == queue' = [queue EXCEPT ![s] = @ \o events]
Move(s, state) == loop' = [loop EXCEPT ![s] = state]

-----------------------------------------------------------------------------
(* The thread of a run.                                                    *)

(* An execServerMessage with mcpArgs: the call is emitted and noted; data  *)
(* is handled in the same way while the loop is parked.  Ids are fresh:    *)
(* any tool not yet called will do.                                        *)
CallTool(s) ==
  /\ loop[s] \in {"running", "parked"} /\ usable[s]
  /\ CalledBy(NoRun) # {}
  /\ LET t == CHOOSE u \in CalledBy(NoRun) : TRUE
     IN /\ owner' = [owner EXCEPT ![t] = s]
        /\ calls' = [calls EXCEPT ![s] = @ \cup {t}]
        /\ indexed' = indexed \cup {t}
        /\ Put(s, <<t>>)
  /\ UNCHANGED <<loop, parks, pending, woken, usable, reg, reqVars, history>>

(* Bound: MaxParks, for one run and for all together. *)
MayPark(s) == parks[s] < MaxParks
AllParks == FoldFunction(+, 0, parks)

(* _enter_park up to its q.put: the new ParkedRun copies what is pending.  *)
Announce(s) ==
  /\ loop[s] = "running" /\ calls[s] # {}
  /\ MayPark(s) /\ AllParks < MaxParks
  /\ Move(s, "announced")
  /\ parks' = [parks EXCEPT ![s] = @ + 1]
  /\ pending' = [pending EXCEPT ![s][parks[s] + 1] = calls[s]]
  /\ woken' = [woken EXCEPT ![s] = FALSE]
  /\ Put(s, <<"awaiting">>)
  /\ UNCHANGED <<calls, usable, registry, owner, reqVars, history>>

(* Fault: an entry that is there already is kept. *)
RegisterOnce(s) ==
  /\ loop[s] = "announced"
  /\ Move(s, "parked")
  /\ reg' = [reg EXCEPT ![s] = IF @ = 0 THEN parks[s] ELSE @]
  /\ pending' = [pending EXCEPT ![s][parks[s]] = @ \cup calls[s]]
  /\ indexed' = indexed \cup pending'[s][parks[s]]
  /\ UNCHANGED <<parks, calls, woken, usable, queue, owner, reqVars, history>>

(* park_run *)
Register(s) ==
  /\ loop[s] = "announced"
  /\ Move(s, "parked")
  /\ reg' = [reg EXCEPT ![s] = parks[s]]
  /\ pending' = [pending EXCEPT ![s][parks[s]] = @ \cup calls[s]]
  /\ indexed' = indexed \cup pending'[s][parks[s]]
  /\ UNCHANGED <<parks, calls, woken, usable, queue, owner, reqVars, history>>

(* The resume event ends the wait.  The registry keeps the entry. *)
Unpark(s) ==
  /\ loop[s] = "parked" /\ woken[s]
  /\ woken' = [woken EXCEPT ![s] = FALSE]
  /\ Move(s, "running")
  /\ UNCHANGED <<parks, calls, pending, usable, queue, registry, owner, reqVars, history>>

(* _drop_locked, for the runs in S. *)
Drop(S) ==
  /\ reg' = [s \in Runs |-> IF s \in S THEN 0 ELSE reg[s]]
  /\ indexed' = indexed \ UNION {CalledBy(s) : s \in S}
  /\ usable' = [s \in Runs |-> usable[s] /\ s \notin S]
  /\ woken' = [s \in Runs |-> woken[s] \/ (s \in S /\ reg[s] = parks[s])]

(* The age limit or the request's timeout ends the wait. *)
Expire(s) ==
  /\ loop[s] = "parked"
  /\ Put(s, <<"error">>)
  /\ IF reg[s] # 0 THEN Drop({s}) ELSE UNCHANGED <<registry, usable, woken>>
  /\ Move(s, "leaving")
  /\ UNCHANGED <<parks, calls, pending, owner, reqVars, history>>

(* The upstream closes the connection or the stream while the loop is      *)
(* parked, or the tick finds the stop event set.                           *)
ClosedWhileParked(s) ==
  /\ loop[s] = "parked"
  /\ \/ usable[s] /\ Put(s, <<"error">>)
     \/ ~usable[s] /\ UNCHANGED queue
  /\ Move(s, "leaving")
  /\ UNCHANGED <<parks, calls, pending, woken, usable, registry, owner, reqVars, history>>

(* The read raises.  In the wait, `parked' is still set and the finally    *)
(* clause closes nothing; the connection may be unusable all the same.     *)
Crash(s) ==
  /\ \/ /\ loop[s] = "running"
        /\ Put(s, <<"error">>)
        /\ Move(s, "leaving")
        /\ UNCHANGED usable
     \/ /\ loop[s] = "parked"
        /\ Put(s, <<"error", "end">>)
        /\ Move(s, "crashed")
        /\ \E left \in BOOLEAN : usable' = [usable EXCEPT ![s] = @ /\ left]
  /\ UNCHANGED <<parks, calls, pending, woken, registry, owner, reqVars, history>>

(* The turn ends, the upstream reports an error or closes, or the run's    *)
(* timeout passes: complete_run takes the run out of the registry.         *)
EndTurn(s) ==
  /\ loop[s] = "running"
  /\ \/ Put(s, <<"error">>)
     \/ usable[s] /\ \E e \in {<<"done">>, <<>>} : Put(s, e)
  /\ reg' = [reg EXCEPT ![s] = 0]
  /\ indexed' = indexed \ CalledBy(s)
  /\ Move(s, "leaving")
  /\ UNCHANGED <<parks, calls, pending, woken, usable, owner, reqVars, history>>

(* Fault: the connection is not closed. *)
LeaveKeepsConnection(s) ==
  /\ loop[s] = "leaving"
  /\ Put(s, <<"end">>)
  /\ Move(s, "ended")
  /\ UNCHANGED <<parks, calls, pending, woken, usable, registry, owner, reqVars, history>>

(* The finally clause, and stream_worker's last put. *)
Leave(s) ==
  /\ loop[s] = "leaving"
  /\ usable' = [usable EXCEPT ![s] = FALSE]
  /\ Put(s, <<"end">>)
  /\ Move(s, "ended")
  /\ UNCHANGED <<parks, calls, pending, woken, registry, owner, reqVars, history>>

-----------------------------------------------------------------------------
(* Requests.  idle: none; inject: it sends its results; sent: one is sent, *)
(* not yet cleared; reading: _drain_queue.                                 *)
ReqStates == {"idle", "inject", "sent", "reading"}

Readers(s) == {r \in Requests : req[r] = "reading" /\ at[r] = s}

(* resume_with_tool_results and what leads to it does not suspend. *)
EventLoopFree == \A r \in Requests : req[r] \notin {"inject", "sent"}

Become(r, state, s) ==
  /\ req' = [req EXCEPT ![r] = state]
  /\ at' = [at EXCEPT ![r] = s]

(* _stream_fresh_agent: a new run.  Bound: once all Runs are used up the   *)
(* request ends here.                                                      *)
StartRun(r) ==
  LET unused == {s \in Runs : loop[s] = "off"}
      s == CHOOSE u \in unused : TRUE
  IN \/ unused # {} /\ Move(s, "running") /\ Become(r, "reading", s)
     \/ unused = {} /\ Become(r, "idle", NoRun) /\ UNCHANGED loop

(* A request without tool results. *)
Ask(r) ==
  /\ req[r] = "idle" /\ EventLoopFree
  /\ StartRun(r)
  /\ UNCHANGED <<parks, calls, pending, woken, usable, queue, registry, owner,
                 obj, todo, heard, seen, history>>

(* Orders in which the results of a set of tools may stand. *)
Orders(T) ==
  {o \in [1..Cardinality(T) -> T] : \A i, j \in DOMAIN o : o[i] = o[j] => i = j}

(* The lookup of _resume_or_none.  The trailing tool messages answer calls *)
(* of one run.  find_parked_by_tool_ids drops the run if it is too old;    *)
(* when it finds none, any run of the workspace that waits and is not too  *)
(* old is taken.                                                           *)
PostResults(r) ==
  /\ req[r] = "idle" /\ EventLoopFree
  /\ \E s \in Runs :
     \E T \in (SUBSET (seen \cap CalledBy(s))) \ {{}} :
     \E gone \in SUBSET {s} :
       LET byId     == reg[s] # 0 /\ T \cap indexed # {}
           fallback == {u \in Runs \ gone : reg[u] # 0 /\ pending[u][reg[u]] # {}}
           found    == IF byId /\ gone = {} THEN {s} ELSE fallback
       IN /\ gone # {} => byId
          /\ Drop(gone)
          /\ \/ \E u \in found :
                  /\ Become(r, "inject", u) /\ UNCHANGED loop
                  /\ obj' = [obj EXCEPT ![r] = reg[u]]
                  /\ \E o \in Orders(T) : todo' = [todo EXCEPT ![r] = o]
             \/ /\ ~byId \/ gone # {}
                /\ StartRun(r)
                /\ UNCHANGED <<obj, todo>>
  /\ UNCHANGED <<parks, calls, pending, queue, owner, heard, seen, history>>

(* inject_one_mcp up to its send_frame.  A result that is not pending in   *)
(* the run goes out with id 0 and answers nothing.                         *)
Send(r) ==
  LET s == at[r]
      t == Head(todo[r])
  IN /\ req[r] = "inject" /\ todo[r] # <<>>
     /\ usable[s]
     /\ delivered' = IF t \in pending[s][obj[r]] \cup calls[s]
                       THEN [delivered EXCEPT ![t] = @ + 1] ELSE delivered
     /\ req' = [req EXCEPT ![r] = "sent"]
     /\ UNCHANGED <<runVars, registry, owner, at, obj, todo, heard, seen, early, astray, shared>>

(* Fault: the request reads on although its results were not sent. *)
SendFailsUnnoticed(r) ==
  /\ req[r] = "inject" /\ todo[r] # <<>>
  /\ ~usable[at[r]]
  /\ Become(r, "reading", at[r])
  /\ todo' = [todo EXCEPT ![r] = <<>>]
  /\ UNCHANGED <<runVars, registry, owner, obj, heard, seen, history>>

(* The send fails: the request goes on with a new run. *)
SendFails(r) ==
  /\ req[r] = "inject" /\ todo[r] # <<>>
  /\ ~usable[at[r]]
  /\ StartRun(r)
  /\ obj' = [obj EXCEPT ![r] = 0]
  /\ todo' = [todo EXCEPT ![r] = <<>>]
  /\ UNCHANGED <<parks, calls, pending, woken, usable, queue, registry, owner, heard, seen, history>>

(* Fault: only the ParkedRun is told that the call is answered. *)
ClearObjectOnly(r) ==
  LET s == at[r]
      t == Head(todo[r])
  IN /\ req[r] = "sent"
     /\ pending' = [pending EXCEPT ![s][obj[r]] = @ \ {t}]
     /\ indexed' = indexed
     /\ early' = IF obj[r] # parks[s] THEN early \cup {t} ELSE early
     /\ astray' = IF owner[t] # s THEN astray \cup {t} ELSE astray
     /\ todo' = [todo EXCEPT ![r] = Tail(@)]
     /\ req' = [req EXCEPT ![r] = "inject"]
     /\ UNCHANGED <<loop, parks, calls, woken, usable, queue, reg, owner, at, obj,
                    heard, seen, delivered, shared>>

(* clear_pending_aliases *)
Clear(r) ==
  LET s == at[r]
      t == Head(todo[r])
  IN /\ req[r] = "sent"
     /\ pending' = [pending EXCEPT ![s][obj[r]] = @ \ {t}]
     /\ calls' = [calls EXCEPT ![s] = @ \ {t}]
     /\ indexed' = indexed \ {t}
     /\ early' = IF obj[r] # parks[s] THEN early \cup {t} ELSE early
     /\ astray' = IF owner[t] # s THEN astray \cup {t} ELSE astray
     /\ todo' = [todo EXCEPT ![r] = Tail(@)]
     /\ req' = [req EXCEPT ![r] = "inject"]
     /\ UNCHANGED <<loop, parks, woken, usable, queue, reg, owner, at, obj,
                    heard, seen, delivered, shared>>

(* Fault: the loop is woken only while calls are left open. *)
WakeIfOpen(r) ==
  /\ req[r] = "inject" /\ todo[r] = <<>>
  /\ woken' = [woken EXCEPT ![at[r]] = @ \/ pending[at[r]][obj[r]] # {}]
  /\ req' = [req EXCEPT ![r] = "reading"]
  /\ obj' = [obj EXCEPT ![r] = 0]
  /\ shared' = IF Readers(at[r]) # {} THEN shared \cup {at[r]} ELSE shared
  /\ UNCHANGED <<loop, parks, calls, pending, usable, queue, registry, owner,
                 at, todo, heard, seen, delivered, early, astray>>

(* The resume event of the ParkedRun that was found is set: the loop sees  *)
(* it if that is its latest one.                                           *)
Wake(r) ==
  /\ req[r] = "inject" /\ todo[r] = <<>>
  /\ woken' = [woken EXCEPT ![at[r]] = @ \/ obj[r] = parks[at[r]]]
  /\ req' = [req EXCEPT ![r] = "reading"]
  /\ obj' = [obj EXCEPT ![r] = 0]
  /\ shared' = IF Readers(at[r]) # {} THEN shared \cup {at[r]} ELSE shared
  /\ UNCHANGED <<loop, parks, calls, pending, usable, queue, registry, owner,
                 at, todo, heard, seen, delivered, early, astray>>

(* _drain_queue and _iter_openai_cursor_events take one event.  Tool calls *)
(* are held back until the turn ends or the run parks; an error is raised. *)
Read(r) ==
  LET s == at[r]
      e == Head(queue[s])
  IN /\ req[r] = "reading" /\ EventLoopFree
     /\ queue[s] # <<>>
     /\ queue' = [queue EXCEPT ![s] = Tail(@)]
     /\ IF e \in {"awaiting", "error", "end"}
          THEN Become(r, "idle", NoRun) ELSE UNCHANGED <<req, at>>
     /\ heard' = [heard EXCEPT ![r] = IF e \in Tools THEN @ \cup {e} ELSE {}]
     /\ seen' = IF e \in {"awaiting", "done", "end"} THEN seen \cup heard[r] ELSE seen
     /\ UNCHANGED <<loop, parks, calls, pending, woken, usable, registry, owner,
                    obj, todo, history>>

(* Text that follows held back calls ends the turn of the reader, not that *)
(* of the run.                                                             *)
TextEndsTurn(r) ==
  /\ req[r] = "reading" /\ EventLoopFree
  /\ heard[r] # {}
  /\ Become(r, "idle", NoRun)
  /\ heard' = [heard EXCEPT ![r] = {}]
  /\ seen' = seen \cup heard[r]
  /\ UNCHANGED <<runVars, registry, owner, obj, todo, history>>

(* The client goes away. *)
Disconnect(r) ==
  /\ req[r] = "reading" /\ EventLoopFree
  /\ Become(r, "idle", NoRun)
  /\ heard' = [heard EXCEPT ![r] = {}]
  /\ UNCHANGED <<runVars, registry, owner, obj, todo, seen, history>>

-----------------------------------------------------------------------------
RunStep(s) ==
  \/ Announce(s) \/ Register(s) \/ Unpark(s) \/ Expire(s)
  \/ ClosedWhileParked(s) \/ Crash(s) \/ EndTurn(s) \/ Leave(s)

ResumeStep(r) == Send(r) \/ SendFails(r) \/ Clear(r) \/ Wake(r)

Next ==
  \/ \E s \in Runs : CallTool(s) \/ RunStep(s)
  \/ \E r \in Requests :
       \/ Ask(r) \/ PostResults(r) \/ ResumeStep(r)
       \/ Read(r) \/ TextEndsTurn(r) \/ Disconnect(r)

Spec == Init /\ [][Next]_vars

-----------------------------------------------------------------------------
TypeOK ==
  /\ loop \in [Runs -> LoopStates]
  /\ parks \in [Runs -> 0..MaxParks]
  /\ calls \in [Runs -> SUBSET Tools]
  /\ pending \in [Runs -> [1..MaxParks -> SUBSET Tools]]
  /\ woken \in [Runs -> BOOLEAN]
  /\ usable \in [Runs -> BOOLEAN]
  /\ queue \in [Runs -> Seq(Tools \cup {"awaiting", "error", "done", "end"})]
  /\ reg \in [Runs -> 0..MaxParks]
  /\ \A s \in Runs : reg[s] <= parks[s]
  /\ \A s \in Runs : loop[s] \in {"announced", "parked"} => parks[s] # 0
  /\ indexed \subseteq Tools /\ seen \subseteq Tools
  /\ early \subseteq Tools /\ astray \subseteq Tools /\ shared \subseteq Runs
  /\ owner \in [Tools -> Runs \cup {NoRun}]
  /\ \A s \in Runs : calls[s] \subseteq CalledBy(s)
  /\ req \in [Requests -> ReqStates]
  /\ at \in [Requests -> Runs \cup {NoRun}]
  /\ \A r \in Requests : at[r] = NoRun <=> req[r] = "idle"
  /\ obj \in [Requests -> 0..MaxParks]
  /\ \A r \in Requests : obj[r] # 0 <=> req[r] \in {"inject", "sent"}
  /\ todo \in [Requests -> Seq(Tools)]
  /\ \A r \in Requests : req[r] = "sent" => todo[r] # <<>>
  /\ heard \in [Requests -> SUBSET Tools]
  /\ delivered \in [Tools -> Nat]

(* A tool result reaches the run that waits for it at most once, whatever  *)
(* is sent twice, late or in parts: lookup_pending and                     *)
(* clear_pending_aliases see to it.  The exception is a result that comes  *)
(* in while the loop is between announcing the next pause and registering  *)
(* it: the new ParkedRun has a copy of the call.                           *)
DeliveredOnce == \A t \in Tools : delivered[t] <= 1 \/ t \in early

(* A run that waits with its connection up can be found by each call that  *)
(* is still open, although the registry may hold an older ParkedRun of it, *)
(* its turn may have been resumed in part and other runs come and go.  The *)
(* exception is a call whose result went to another run of the workspace,  *)
(* because it came in before its own run was registered: its id is gone.   *)
ParkedIsFindable ==
  \A s \in Runs :
    loop[s] = "parked" /\ usable[s] =>
      /\ reg[s] = parks[s]
      /\ calls[s] \subseteq indexed \cup astray

(* No run sleeps on with every call answered: its resume event is set, or  *)
(* the request that answers is about to set it.  Again a result that came  *)
(* before the newest ParkedRun was registered is the exception: it wakes   *)
(* the older one, which nobody waits on (resume.py, resume_event.set).     *)
AnsweredRunWakes ==
  \A s \in Runs :
    loop[s] = "parked" /\ usable[s] /\ calls[s] = {} =>
      \/ woken[s]
      \/ \E r \in Requests : req[r] \in {"inject", "sent"} /\ at[r] = s
      \/ CalledBy(s) \cap early # {}

(* _drain_queue relies on the final None of the thread, of which there is  *)
(* one.  A reader is left before an empty queue that nobody fills any more *)
(* only where two requests came to read it together, or where the run      *)
(* crashed in its wait: then it stays registered and its connection may    *)
(* still take results.                                                     *)
NoReaderInVain ==
  \A r \in Requests :
    req[r] = "reading" /\ loop[at[r]] = "ended" /\ queue[at[r]] = <<>> =>
      at[r] \in shared
=============================================================================
