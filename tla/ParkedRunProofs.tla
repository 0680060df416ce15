--------------------------- MODULE ParkedRunProofs ---------------------------
(***************************************************************************)
(* For any runs, any finite set of tools, any requests and any number of   *)
(* pauses: a result reaches its run once, a run that waits can be found    *)
(* and is woken, and no reader waits in vain.                              *)
(*                                                                         *)
(* A step is a tool call, a step of a run's thread or a step of a request. *)
(* LoopSteps and RequestSteps say once what the steps of the two kinds do  *)
(* to the registry and to the resumes; the invariants lean on that and     *)
(* open only the actions that matter to them.                              *)
(***************************************************************************)
EXTENDS ParkedRun, SequenceTheorems, FiniteSetTheorems, TLAPS

RequestStep(r) ==
  Ask(r) \/ PostResults(r) \/ ResumeStep(r) \/ Read(r) \/ TextEndsTurn(r) \/ Disconnect(r)

-----------------------------------------------------------------------------
(* The type invariant in three parts: what belongs to the runs, to the     *)
(* calls, and to the requests.                                             *)
Events == Tools \cup {"awaiting", "error", "done", "end"}

RunTypes ==
  /\ loop \in [Runs -> LoopStates]
  /\ parks \in [Runs -> 0..MaxParks]
  /\ pending \in [Runs -> [1..MaxParks -> SUBSET Tools]]
  /\ woken \in [Runs -> BOOLEAN]
  /\ usable \in [Runs -> BOOLEAN]
  /\ queue \in [Runs -> Seq(Events)]
  /\ reg \in [Runs -> 0..MaxParks]
  /\ \A s \in Runs : reg[s] <= parks[s]
  /\ \A s \in Runs : loop[s] \in {"announced", "parked"} => parks[s] # 0

CallTypes ==
  /\ calls \in [Runs -> SUBSET Tools]
  /\ owner \in [Tools -> Runs \cup {NoRun}]
  /\ \A s \in Runs : calls[s] \subseteq CalledBy(s)
  /\ indexed \subseteq Tools /\ seen \subseteq Tools
  /\ early \subseteq Tools /\ astray \subseteq Tools /\ shared \subseteq Runs
  /\ delivered \in [Tools -> Nat]

RequestTypes ==
  /\ req \in [Requests -> ReqStates]
  /\ at \in [Requests -> Runs \cup {NoRun}]
  /\ \A r \in Requests : at[r] = NoRun <=> req[r] = "idle"
  /\ obj \in [Requests -> 0..MaxParks]
  /\ \A r \in Requests : obj[r] # 0 <=> req[r] \in {"inject", "sent"}
  /\ todo \in [Requests -> Seq(Tools)]
  /\ \A r \in Requests : req[r] = "sent" => todo[r] # <<>>
  /\ heard \in [Requests -> SUBSET Tools]

(* Primed and unprimed, the type invariant is its three parts. *)
LEMMA TypeParts ==
  /\ TypeOK <=> RunTypes /\ CallTypes /\ RequestTypes
  /\ TypeOK' <=> RunTypes' /\ CallTypes' /\ RequestTypes'
  BY DEF TypeOK, RunTypes, CallTypes, RequestTypes, Events, CalledBy

LEMMA Bounds == MaxParks \in Nat /\ 0 \in 0..MaxParks
  BY ParkAssumption

LEMMA PendingTypes ==
  ASSUME pending \in [Runs -> [1..MaxParks -> SUBSET Tools]],
         NEW s \in Runs, NEW n, NEW T \in SUBSET Tools
  PROVE  /\ [pending EXCEPT ![s][n] = T] \in [Runs -> [1..MaxParks -> SUBSET Tools]]
         /\ [pending EXCEPT ![s][n] = @ \cup T] \in [Runs -> [1..MaxParks -> SUBSET Tools]]
<1>1. \A U \in SUBSET Tools : [pending[s] EXCEPT ![n] = U] \in [1..MaxParks -> SUBSET Tools]
  OBVIOUS
<1>2. CASE n \in 1..MaxParks
  <2>1. pending[s][n] \cup T \in SUBSET Tools
    BY <1>2
  <2> QED
    BY <1>1, <2>1
<1>3. CASE n \notin 1..MaxParks
  <2>1. \A U : [pending[s] EXCEPT ![n] = U] = pending[s]
    BY <1>3
  <2> QED
    BY <2>1
<1> QED
  BY <1>2, <1>3

(* What is put in a queue at its end *)
LEMMA PutTypes ==
  ASSUME queue \in [Runs -> Seq(Events)], NEW s \in Runs, NEW es \in Seq(Events), Put(s, es)
  PROVE  queue' \in [Runs -> Seq(Events)]
<1>1. queue[s] \o es \in Seq(Events)
  BY ConcatProperties
<1> QED
  BY <1>1 DEF Put

(* A request that starts a run, or ends. *)
LEMMA StartTypes ==
  ASSUME TypeOK, NEW r \in Requests, StartRun(r)
  PROVE  /\ loop' \in [Runs -> LoopStates]
         /\ \A u \in Runs : loop'[u] = loop[u] \/ (loop[u] = "off" /\ loop'[u] = "running")
         /\ req' \in [Requests -> ReqStates]
         /\ at' \in [Requests -> Runs \cup {NoRun}]
         /\ \/ req'[r] = "idle" /\ at'[r] = NoRun
            \/ /\ req'[r] = "reading" /\ at'[r] \in Runs /\ at'[r] # NoRun
               /\ loop[at'[r]] = "off" /\ loop'[at'[r]] = "running"
         /\ \A q \in Requests \ {r} : req'[q] = req[q] /\ at'[q] = at[q]
<1> DEFINE unused == {u \in Runs : loop[u] = "off"}
           s == CHOOSE u \in unused : TRUE
<1>1. RunTypes /\ RequestTypes
  BY TypeParts
<1>2. CASE unused # {} /\ Move(s, "running") /\ Become(r, "reading", s)
  <2>1. s \in unused
    BY <1>2
  <2>2. s \in Runs /\ s # NoRun /\ loop[s] = "off"
    BY <2>1, ParkAssumption
  <2> HIDE DEF s
  <2> QED
    BY <1>1, <1>2, <2>2 DEF RunTypes, RequestTypes, Become, Move, ReqStates, LoopStates
<1>3. CASE Become(r, "idle", NoRun) /\ UNCHANGED loop
  BY <1>1, <1>3 DEF RunTypes, RequestTypes, Become, ReqStates
<1> QED
  BY <1>2, <1>3 DEF StartRun

LEMMA StartedRequest ==
  ASSUME TypeOK, NEW r \in Requests, StartRun(r),
         obj' \in [Requests -> 0..MaxParks], obj'[r] = 0,
         todo' \in [Requests -> Seq(Tools)],
         \A q \in Requests \ {r} : obj'[q] = obj[q] /\ todo'[q] = todo[q],
         UNCHANGED heard
  PROVE  RequestTypes'
<1>1. RequestTypes
  BY TypeParts
<1>2. /\ req' \in [Requests -> ReqStates]
      /\ at' \in [Requests -> Runs \cup {NoRun}]
      /\ at'[r] = NoRun <=> req'[r] = "idle"
      /\ req'[r] \in {"idle", "reading"}
      /\ \A q \in Requests \ {r} : req'[q] = req[q] /\ at'[q] = at[q]
  BY StartTypes
<1>3. \A q \in Requests :
        /\ at'[q] = NoRun <=> req'[q] = "idle"
        /\ obj'[q] # 0 <=> req'[q] \in {"inject", "sent"}
        /\ req'[q] = "sent" => todo'[q] # <<>>
  <2> SUFFICES ASSUME NEW q \in Requests
               PROVE  /\ at'[q] = NoRun <=> req'[q] = "idle"
                      /\ obj'[q] # 0 <=> req'[q] \in {"inject", "sent"}
                      /\ req'[q] = "sent" => todo'[q] # <<>>
    OBVIOUS
  <2>1. CASE q = r
    BY <1>2, <2>1
  <2>2. CASE q # r
    BY <1>1, <1>2, <2>2 DEF RequestTypes
  <2> QED
    BY <2>1, <2>2
<1> QED
  BY <1>1, <1>2, <1>3 DEF RequestTypes

(* The results of a set of calls stand in some order, and there is one. *)
LEMMA OrdersAre ==
  ASSUME NEW T \in SUBSET Tools, NEW o \in Orders(T)
  PROVE  o \in Seq(Tools) /\ (T # {} => o # <<>>)
<1>1. IsFiniteSet(T)
  BY ParkAssumption, FS_Subset
<1>2. Cardinality(T) \in Nat /\ (T # {} => Cardinality(T) # 0)
  BY <1>1, FS_CardinalityType, FS_EmptySet
<1> QED
  BY <1>2 DEF Orders

LEMMA CallToolTypes ==
  ASSUME TypeOK, NEW s \in Runs, CallTool(s)
  PROVE  TypeOK'
<1> DEFINE t == CHOOSE u \in CalledBy(NoRun) : TRUE
<1>1. t \in Tools /\ owner[t] = NoRun
  <2>1. CalledBy(NoRun) # {}
    BY DEF CallTool
  <2>2. t \in CalledBy(NoRun)
    BY <2>1
  <2> QED
    BY <2>2 DEF CalledBy
<1>2. /\ owner' = [owner EXCEPT ![t] = s]
      /\ calls' = [calls EXCEPT ![s] = @ \cup {t}]
      /\ indexed' = indexed \cup {t}
      /\ Put(s, <<t>>)
  BY DEF CallTool
<1> HIDE DEF t
<1>3. queue' \in [Runs -> Seq(Events)]
  <2>1. <<t>> \in Seq(Events) /\ RunTypes
    BY <1>1, TypeParts DEF Events
  <2> QED
    BY <1>2, <2>1, PutTypes DEF RunTypes
<1>4. RunTypes'
  BY <1>3, TypeParts DEF CallTool, RunTypes
<1>5. CallTypes'
  <2>1. UNCHANGED <<seen, early, astray, shared, delivered>>
    BY DEF CallTool, history, reqVars
  <2>2. CallTypes /\ \A u \in Runs : u # NoRun
    BY TypeParts, ParkAssumption
  <2>3. /\ calls' \in [Runs -> SUBSET Tools]
        /\ owner' \in [Tools -> Runs \cup {NoRun}]
        /\ indexed' \subseteq Tools
    BY <1>1, <1>2, <2>2 DEF CallTypes
  <2>4. \A u \in Runs : calls'[u] \subseteq CalledBy(u)'
    <3>1. \A u \in Runs : CalledBy(u) \subseteq CalledBy(u)'
      BY <1>1, <1>2, <2>2 DEF CallTypes, CalledBy
    <3>2. t \in CalledBy(s)'
      BY <1>1, <1>2, <2>2 DEF CallTypes, CalledBy
    <3>3. calls'[s] \subseteq CalledBy(s)'
      BY <1>2, <2>2, <3>1, <3>2 DEF CallTypes
    <3>4. \A u \in Runs \ {s} : calls'[u] = calls[u]
      BY <1>2, <2>2 DEF CallTypes
    <3> QED
      BY <2>2, <3>1, <3>3, <3>4 DEF CallTypes
  <2> QED
    BY <2>1, <2>2, <2>3, <2>4 DEF CallTypes
<1>6. RequestTypes'
  BY TypeParts DEF CallTool, RequestTypes, reqVars
<1> QED
  BY <1>4, <1>5, <1>6, TypeParts

LEMMA DropTypes ==
  ASSUME RunTypes, NEW S \in SUBSET Runs, Drop(S)
  PROVE  /\ reg' \in [Runs -> 0..MaxParks] /\ \A u \in Runs : reg'[u] <= parks[u]
         /\ indexed' \subseteq indexed
         /\ usable' \in [Runs -> BOOLEAN] /\ woken' \in [Runs -> BOOLEAN]
<1>1. woken' \in [Runs -> BOOLEAN]
  BY Zenon DEF Drop
<1>2. usable' \in [Runs -> BOOLEAN]
  BY Zenon DEF Drop
<1>3. /\ reg' \in [Runs -> 0..MaxParks]
      /\ \A u \in Runs : reg'[u] \in {0, reg[u]}
      /\ indexed' \subseteq indexed
  BY Bounds DEF Drop, RunTypes
<1>4. \A u \in Runs : 0 <= parks[u]
  BY Bounds DEF RunTypes
<1> QED
  BY <1>1, <1>2, <1>3, <1>4 DEF RunTypes

LEMMA RunStepTypes ==
  ASSUME TypeOK, NEW s \in Runs, RunStep(s)
  PROVE  TypeOK'
<1>1. UNCHANGED <<calls, owner, reqVars, history>> /\ indexed' \subseteq Tools
  <2>1. indexed \subseteq Tools /\ RunTypes
    BY TypeParts DEF CallTypes
  <2>2. CASE Register(s)
    <3>1. pending' \in [Runs -> [1..MaxParks -> SUBSET Tools]]
      BY <2>1, <2>2, PendingTypes, TypeParts DEF Register, RunTypes, CallTypes
    <3>2. PICK n : indexed' = indexed \cup pending'[s][n] /\ n = parks[s]
      BY <2>2 DEF Register
    <3>3. n \in 1..MaxParks
      BY <2>1, <2>2, <3>2, Bounds DEF Register, RunTypes
    <3> QED
      BY <2>1, <2>2, <3>1, <3>2, <3>3 DEF Register
  <2>3. CASE ~Register(s)
    BY <2>1, <2>3 DEF RunStep, Announce, Unpark, Expire, ClosedWhileParked, Crash,
         EndTurn, Leave, Drop, registry
  <2> QED
    BY <2>2, <2>3
<1>2. CallTypes'
  BY <1>1, TypeParts DEF CallTypes, CalledBy, history, reqVars
<1>3. RequestTypes'
  BY <1>1, TypeParts DEF RequestTypes, reqVars
<1>4. queue' \in [Runs -> Seq(Events)]
  <2>1. {<<"awaiting">>, <<"error">>, <<"error", "end">>, <<"done">>, <<"end">>, <<>>}
          \subseteq Seq(Events)
    BY DEF Events
  <2>2. queue' = queue \/ \E es \in Seq(Events) : Put(s, es)
    BY <2>1 DEF RunStep, Announce, Register, Unpark, Expire, ClosedWhileParked, Crash,
         EndTurn, Leave
  <2> QED
    BY <2>2, PutTypes, TypeParts DEF RunTypes
<1>5. RunTypes
  BY TypeParts
<1> USE <1>4, <1>5 DEF Move, LoopStates
<1>6. CASE Announce(s)
  <2>1. loop' \in [Runs -> LoopStates] /\ woken' \in [Runs -> BOOLEAN]
    BY <1>6 DEF Announce, RunTypes
  <2>2. /\ parks[s] + 1 \in 1..MaxParks
        /\ parks' = [parks EXCEPT ![s] = parks[s] + 1]
        /\ parks' \in [Runs -> 0..MaxParks]
    BY <1>6, Bounds DEF Announce, MayPark, RunTypes
  <2>3. pending' \in [Runs -> [1..MaxParks -> SUBSET Tools]]
    <3>1. calls[s] \in SUBSET Tools
      BY TypeParts DEF CallTypes
    <3> QED
      BY <1>6, <3>1, PendingTypes DEF Announce, RunTypes
  <2>4. \A u \in Runs : reg'[u] <= parks'[u]
    <3>1. reg' = reg /\ \A u \in Runs : parks[u] \in Nat /\ reg[u] \in Nat
      BY <1>6, Bounds DEF Announce, RunTypes, registry
    <3> QED
      BY <2>2, <3>1 DEF RunTypes
  <2>5. \A u \in Runs : parks[u] # 0 => parks'[u] # 0
    BY <2>2, Bounds DEF RunTypes
  <2>6. RunTypes'
    BY <1>6, <2>1, <2>2, <2>3, <2>4, <2>5, Bounds DEF Announce, RunTypes, registry
  <2> QED
    BY <1>2, <1>3, <2>6, TypeParts
<1>7. CASE Register(s)
  <2>1. calls[s] \in SUBSET Tools
    BY TypeParts DEF CallTypes
  <2>2. pending' \in [Runs -> [1..MaxParks -> SUBSET Tools]]
    BY <1>7, <2>1, PendingTypes DEF Register, RunTypes
  <2>3. /\ reg' \in [Runs -> 0..MaxParks]
        /\ \A u \in Runs : reg'[u] <= parks[u]
    <3>1. /\ parks[s] \in 0..MaxParks /\ parks[s] <= parks[s]
          /\ reg' = [reg EXCEPT ![s] = parks[s]]
      BY <1>7, Bounds DEF Register, RunTypes
    <3> QED
      BY <3>1 DEF RunTypes
  <2>4. RunTypes'
    BY <1>7, <2>2, <2>3 DEF Register, RunTypes
  <2> QED
    BY <1>2, <1>3, <2>4, TypeParts
<1>8. CASE Unpark(s) \/ ClosedWhileParked(s) \/ Crash(s) \/ Leave(s)
  <2>1. RunTypes'
    BY <1>8 DEF Unpark, ClosedWhileParked, Crash, Leave, registry, RunTypes
  <2> QED
    BY <1>2, <1>3, <2>1, TypeParts
<1>9. CASE Expire(s)
  <2>1. /\ reg' \in [Runs -> 0..MaxParks] /\ \A u \in Runs : reg'[u] <= parks[u]
        /\ usable' \in [Runs -> BOOLEAN] /\ woken' \in [Runs -> BOOLEAN]
    BY <1>9, DropTypes DEF Expire, RunTypes, registry
  <2>2. RunTypes'
    BY <1>9, <2>1 DEF Expire, RunTypes
  <2> QED
    BY <1>2, <1>3, <2>2, TypeParts
<1>10. CASE EndTurn(s)
  <2>1. RunTypes'
    BY <1>10, ParkAssumption DEF EndTurn, RunTypes
  <2> QED
    BY <1>2, <1>3, <2>1, TypeParts
<1> QED
  BY <1>6, <1>7, <1>8, <1>9, <1>10 DEF RunStep

(* What PostResults comes to, for the results of the calls T and the runs  *)
(* that it drops: a run is found, or a new one is started.                 *)
FindsRun(r, T, u) ==
  /\ reg[u] # 0
  /\ Become(r, "inject", u) /\ UNCHANGED loop
  /\ obj' = [obj EXCEPT ![r] = reg[u]]
  /\ \E o \in Orders(T) : todo' = [todo EXCEPT ![r] = o]

Finds(r, T, gone) ==
  /\ T # {} /\ Drop(gone)
  /\ \/ \E u \in Runs \ gone : FindsRun(r, T, u)
     \/ StartRun(r) /\ UNCHANGED <<obj, todo>>

LEMMA PostResultsFinds ==
  ASSUME TypeOK, NEW r \in Requests, PostResults(r)
  PROVE  \E T \in SUBSET Tools : \E gone \in SUBSET Runs : Finds(r, T, gone)
<1> DEFINE ById(s, T) == reg[s] # 0 /\ T \cap indexed # {}
           Fallback(gone) == {u \in Runs \ gone : reg[u] # 0 /\ pending[u][reg[u]] # {}}
           Found(s, T, gone) == IF ById(s, T) /\ gone = {} THEN {s} ELSE Fallback(gone)
<1>1. PICK s \in Runs :
        \E T \in (SUBSET (seen \cap CalledBy(s))) \ {{}} : \E gone \in SUBSET {s} :
          /\ Drop(gone)
          /\ \/ \E u \in Found(s, T, gone) :
                  /\ Become(r, "inject", u) /\ UNCHANGED loop
                  /\ obj' = [obj EXCEPT ![r] = reg[u]]
                  /\ \E o \in Orders(T) : todo' = [todo EXCEPT ![r] = o]
             \/ StartRun(r) /\ UNCHANGED <<obj, todo>>
  BY DEF PostResults
<1>2. \A T, gone : \A u \in Found(s, T, gone) : u \in Runs \ gone /\ reg[u] # 0
  OBVIOUS
<1> HIDE DEF Found
<1>3. PICK T \in (SUBSET (seen \cap CalledBy(s))) \ {{}}, gone \in SUBSET {s} :
          /\ Drop(gone)
          /\ \/ \E u \in Found(s, T, gone) :
                  /\ Become(r, "inject", u) /\ UNCHANGED loop
                  /\ obj' = [obj EXCEPT ![r] = reg[u]]
                  /\ \E o \in Orders(T) : todo' = [todo EXCEPT ![r] = o]
             \/ StartRun(r) /\ UNCHANGED <<obj, todo>>
  BY <1>1
<1>4. T \in SUBSET Tools /\ T # {} /\ gone \in SUBSET Runs
  <2>1. seen \subseteq Tools
    BY TypeParts DEF CallTypes
  <2>2. T \in SUBSET (seen \cap CalledBy(s)) /\ T \notin {{}}
    OBVIOUS
  <2>3. gone \in SUBSET Runs
    OBVIOUS
  <2> QED
    BY <2>1, <2>2, <2>3
<1>5. ASSUME NEW u \in Found(s, T, gone),
             /\ Become(r, "inject", u) /\ UNCHANGED loop
             /\ obj' = [obj EXCEPT ![r] = reg[u]]
             /\ \E o \in Orders(T) : todo' = [todo EXCEPT ![r] = o]
      PROVE  FindsRun(r, T, u) /\ u \in Runs \ gone
  BY <1>2, <1>5 DEF FindsRun
<1>6. (\E u \in Runs \ gone : FindsRun(r, T, u)) \/ (StartRun(r) /\ UNCHANGED <<obj, todo>>)
  BY <1>3, <1>5
<1>7. Finds(r, T, gone)
  BY <1>3, <1>4, <1>6 DEF Finds
<1> QED
  BY <1>4, <1>7

LEMMA RequestStepTypes ==
  ASSUME TypeOK, NEW r \in Requests, RequestStep(r)
  PROVE  TypeOK'
<1>1. RunTypes /\ CallTypes /\ RequestTypes
  BY TypeParts
<1>2. CASE Ask(r)
  <2>1. RunTypes'
    BY <1>1, <1>2, StartTypes DEF Ask, RunTypes, registry
  <2>2. CallTypes'
    BY <1>1, <1>2 DEF Ask, CallTypes, CalledBy, registry, history
  <2>3. obj[r] = 0 /\ UNCHANGED <<obj, todo, heard>> /\ StartRun(r)
    BY <1>1, <1>2 DEF Ask, RequestTypes
  <2>4. RequestTypes'
    BY <1>1, <2>3, StartedRequest DEF RequestTypes
  <2> QED
    BY <2>1, <2>2, <2>4, TypeParts
<1>3. CASE PostResults(r)
  <2>1. PICK T \in SUBSET Tools, gone \in SUBSET Runs : Finds(r, T, gone)
    BY <1>3, PostResultsFinds
  <2>2. /\ reg' \in [Runs -> 0..MaxParks] /\ \A u \in Runs : reg'[u] <= parks[u]
        /\ indexed' \subseteq indexed
        /\ usable' \in [Runs -> BOOLEAN] /\ woken' \in [Runs -> BOOLEAN]
    BY <1>1, <2>1, DropTypes DEF Finds
  <2>3. UNCHANGED <<parks, calls, pending, queue, owner, heard, seen, history>>
    BY <1>3 DEF PostResults
  <2>4. CallTypes'
    BY <1>1, <2>2, <2>3 DEF CallTypes, CalledBy, history
  <2>5. CASE StartRun(r) /\ UNCHANGED <<obj, todo>>
    <3>1. RunTypes'
      BY <1>1, <2>2, <2>3, <2>5, StartTypes DEF RunTypes
    <3>2. req[r] = "idle"
      BY <1>3 DEF PostResults
    <3>3. obj[r] = 0 /\ UNCHANGED <<obj, todo, heard>>
      BY <1>1, <2>3, <2>5, <3>2 DEF RequestTypes
    <3>4. RequestTypes'
      BY <1>1, <2>5, <3>3, StartedRequest DEF RequestTypes
    <3> QED
      BY <2>4, <3>1, <3>4, TypeParts
  <2>6. ASSUME NEW u \in Runs, NEW o \in Orders(T),
               reg[u] # 0, Become(r, "inject", u), UNCHANGED loop,
               obj' = [obj EXCEPT ![r] = reg[u]], todo' = [todo EXCEPT ![r] = o]
        PROVE  TypeOK'
    <3>1. RunTypes'
      BY <1>1, <2>2, <2>3, <2>6 DEF RunTypes
    <3>2. o \in Seq(Tools)
      BY <1>1, OrdersAre DEF CallTypes
    <3>3. reg[u] \in 0..MaxParks /\ u # NoRun
      BY <1>1, ParkAssumption DEF RunTypes
    <3>4. RequestTypes'
      BY <1>1, <2>3, <2>6, <3>2, <3>3 DEF RequestTypes, Become, ReqStates
    <3> QED
      BY <2>4, <3>1, <3>4, TypeParts
  <2> QED
    BY <2>1, <2>5, <2>6 DEF Finds, FindsRun
<1>4. CASE Send(r)
  <2>1. RunTypes'
    BY <1>1, <1>4 DEF Send, RunTypes, runVars, registry
  <2>2. Head(todo[r]) \in Tools
    BY <1>1, <1>4, HeadTailProperties DEF Send, RequestTypes
  <2>3. delivered' \in [Tools -> Nat]
    BY <1>1, <1>4, <2>2 DEF Send, CallTypes
  <2>4. CallTypes'
    BY <1>1, <1>4, <2>3 DEF Send, CallTypes, CalledBy, runVars, registry
  <2>5. RequestTypes'
    BY <1>1, <1>4 DEF Send, RequestTypes, ReqStates
  <2> QED
    BY <2>1, <2>4, <2>5, TypeParts
<1>5. CASE SendFails(r)
  <2>1. RunTypes'
    BY <1>1, <1>5, StartTypes DEF SendFails, RunTypes, registry
  <2>2. CallTypes'
    BY <1>1, <1>5 DEF SendFails, CallTypes, CalledBy, registry, history
  <2>3. RequestTypes'
    <3>1. /\ obj' = [obj EXCEPT ![r] = 0] /\ todo' = [todo EXCEPT ![r] = <<>>]
          /\ UNCHANGED heard /\ StartRun(r)
      BY <1>5 DEF SendFails
    <3>2. <<>> \in Seq(Tools)
      BY EmptySeq
    <3> QED
      BY <1>1, <3>1, <3>2, StartedRequest, Bounds DEF RequestTypes
  <2> QED
    BY <2>1, <2>2, <2>3, TypeParts
<1>6. CASE Clear(r)
  <2> DEFINE s == at[r]
             t == Head(todo[r])
  <2>1. s \in Runs /\ t \in Tools /\ Tail(todo[r]) \in Seq(Tools)
    BY <1>1, <1>6, HeadTailProperties DEF Clear, RequestTypes
  <2>2. /\ pending' = [pending EXCEPT ![s][obj[r]] = @ \ {t}]
        /\ calls' = [calls EXCEPT ![s] = @ \ {t}]
        /\ indexed' = indexed \ {t}
        /\ early' \in {early, early \cup {t}}
        /\ astray' \in {astray, astray \cup {t}}
        /\ todo' = [todo EXCEPT ![r] = Tail(todo[r])]
        /\ req[r] = "sent" /\ req' = [req EXCEPT ![r] = "inject"]
    BY <1>6 DEF Clear
  <2>3. UNCHANGED <<loop, parks, woken, usable, queue, reg, owner, at, obj,
                    heard, seen, delivered, shared>>
    BY <1>6 DEF Clear
  <2>4. obj[r] \in 1..MaxParks
    BY <1>1, <1>6, Bounds DEF Clear, RequestTypes
  <2> HIDE DEF s, t
  <2>5. RunTypes'
    <3>1. pending' \in [Runs -> [1..MaxParks -> SUBSET Tools]]
      BY <1>1, <2>1, <2>2, <2>4 DEF RunTypes
    <3> QED
      BY <1>1, <2>3, <3>1 DEF RunTypes
  <2>6. CallTypes'
    <3>1. \A u \in Runs : calls'[u] \subseteq calls[u] /\ CalledBy(u)' = CalledBy(u)
      BY <1>1, <2>2, <2>3 DEF CallTypes, CalledBy
    <3>2. calls' \in [Runs -> SUBSET Tools]
      BY <1>1, <2>2 DEF CallTypes
    <3> QED
      BY <1>1, <2>1, <2>2, <2>3, <3>1, <3>2 DEF CallTypes
  <2>7. RequestTypes'
    BY <1>1, <2>1, <2>2, <2>3 DEF RequestTypes, ReqStates
  <2> QED
    BY <2>5, <2>6, <2>7, TypeParts
<1>7. CASE Wake(r)
  <2>1. RunTypes'
    BY <1>1, <1>7 DEF Wake, RunTypes, registry
  <2>2. CallTypes'
    BY <1>1, <1>7 DEF Wake, CallTypes, CalledBy, RequestTypes, registry
  <2>3. RequestTypes'
    BY <1>1, <1>7, Bounds DEF Wake, RequestTypes, ReqStates
  <2> QED
    BY <2>1, <2>2, <2>3, TypeParts
<1>8. CASE Read(r)
  <2> DEFINE s == at[r]
             e == Head(queue[s])
  <2>1. s \in Runs
    BY <1>1, <1>8 DEF Read, RequestTypes
  <2>2. queue[s] \in Seq(Events) /\ queue[s] # <<>>
    BY <1>1, <1>8, <2>1 DEF Read, RunTypes
  <2>3. e \in Events /\ Tail(queue[s]) \in Seq(Events)
    BY <2>2, HeadTailProperties
  <2>4. /\ queue' = [queue EXCEPT ![s] = Tail(queue[s])]
        /\ Become(r, "idle", NoRun) \/ UNCHANGED <<req, at>>
        /\ heard' = [heard EXCEPT ![r] = IF e \in Tools THEN heard[r] \cup {e} ELSE {}]
        /\ seen' \in {seen, seen \cup heard[r]}
        /\ req[r] = "reading"
    BY <1>8 DEF Read
  <2>5. UNCHANGED <<loop, parks, calls, pending, woken, usable, registry, owner,
                    obj, todo, history>>
    BY <1>8 DEF Read
  <2> HIDE DEF s, e
  <2>6. RunTypes'
    BY <1>1, <2>1, <2>3, <2>4, <2>5 DEF RunTypes, registry
  <2>7. CallTypes'
    BY <1>1, <2>4, <2>5 DEF CallTypes, CalledBy, RequestTypes, registry, history
  <2>8. RequestTypes'
    <3>1. heard' \in [Requests -> SUBSET Tools]
      BY <1>1, <2>4 DEF RequestTypes
    <3>2. CASE Become(r, "idle", NoRun)
      BY <1>1, <2>4, <2>5, <3>1, <3>2 DEF RequestTypes, Become, ReqStates
    <3>3. CASE UNCHANGED <<req, at>>
      BY <1>1, <2>5, <3>1, <3>3 DEF RequestTypes
    <3> QED
      BY <2>4, <3>2, <3>3
  <2> QED
    BY <2>6, <2>7, <2>8, TypeParts
<1>9. CASE TextEndsTurn(r) \/ Disconnect(r)
  <2>1. RunTypes'
    BY <1>1, <1>9 DEF TextEndsTurn, Disconnect, RunTypes, runVars, registry
  <2>2. CallTypes'
    BY <1>1, <1>9 DEF TextEndsTurn, Disconnect, CallTypes, CalledBy, RequestTypes,
                      runVars, registry, history
  <2>3. RequestTypes'
    BY <1>1, <1>9 DEF TextEndsTurn, Disconnect, RequestTypes, Become, ReqStates
  <2> QED
    BY <2>1, <2>2, <2>3, TypeParts
<1> QED
  BY <1>2, <1>3, <1>4, <1>5, <1>6, <1>7, <1>8, <1>9 DEF RequestStep, ResumeStep

LEMMA TypeInit == Init => TypeOK
  BY ParkAssumption, EmptySeq DEF Init, TypeOK, LoopStates, ReqStates, CalledBy

LEMMA TypeStep == TypeOK /\ [Next]_vars => TypeOK'
<1> SUFFICES ASSUME TypeOK, [Next]_vars PROVE TypeOK'
  OBVIOUS
<1>1. CASE UNCHANGED vars
  BY <1>1 DEF TypeOK, CalledBy, vars, runVars, registry, reqVars, history
<1> QED
  BY <1>1, CallToolTypes, RunStepTypes, RequestStepTypes DEF Next, RequestStep

(* The types, with a loop that pauses having a ParkedRun, and a request    *)
(* that holds a ParkedRun exactly as long as it resumes it.                *)
THEOREM TypeCorrect == Spec => []TypeOK
  BY TypeInit, TypeStep, PTL DEF Spec

-----------------------------------------------------------------------------
(* Resumes *)

(* The request holds a ParkedRun and sends its results. *)
Resuming(r) == req[r] \in {"inject", "sent"}

(* Resumes come one at a time, and the ParkedRun that one holds is not     *)
(* newer than the one registered; while the loop announces, it is older.   *)
TurnInv ==
  /\ \A q, r \in Requests : Resuming(q) /\ Resuming(r) => q = r
  /\ \A r \in Requests : Resuming(r) =>
       /\ obj[r] <= parks[at[r]]
       /\ reg[at[r]] = 0 \/ obj[r] <= reg[at[r]]
  /\ \A s \in Runs : loop[s] = "announced" =>
       /\ reg[s] < parks[s]
       /\ \A r \in Requests : Resuming(r) /\ at[r] = s => obj[r] < parks[s]

LEMMA AtARun ==
  ASSUME RequestTypes, NEW r \in Requests, req[r] # "idle"
  PROVE  at[r] \in Runs
  BY DEF RequestTypes

(* Drop takes runs out of the registry and changes nothing else there. *)
LEMMA DropKeeps ==
  ASSUME RunTypes, NEW S \in SUBSET Runs, Drop(S)
  PROVE  \A u \in Runs : reg'[u] = IF u \in S THEN 0 ELSE reg[u]
  BY DEF Drop

(* What the loop of run s does that matters to the resumes. *)
LEMMA LoopSteps ==
  ASSUME TypeOK, NEW s \in Runs, RunStep(s)
  PROVE  /\ UNCHANGED <<reqVars, calls, owner, history>>
         /\ \A u \in Runs \ {s} : /\ loop'[u] = loop[u] /\ parks'[u] = parks[u]
                                  /\ reg'[u] = reg[u] /\ pending'[u] = pending[u]
                                  /\ queue'[u] = queue[u] /\ woken'[u] = woken[u]
                                  /\ usable'[u] = usable[u]
         /\ \/ Announce(s) \/ Register(s)
            \/ /\ loop'[s] \notin {"off", "announced", "parked"}
               /\ parks'[s] = parks[s] /\ pending'[s] = pending[s]
               /\ reg'[s] \in {0, reg[s]}
<1>1. RunTypes
  BY TypeParts
<1>2. UNCHANGED <<reqVars, calls, owner, history>>
  BY DEF RunStep, Announce, Register, Unpark, Expire, ClosedWhileParked, Crash,
         EndTurn, Leave
<1>3. CASE Announce(s)
  BY <1>1, <1>2, <1>3 DEF Announce, Put, Move, registry, RunTypes
<1>4. CASE Register(s)
  BY <1>1, <1>2, <1>4 DEF Register, Move, RunTypes
<1>5. CASE Unpark(s) \/ ClosedWhileParked(s) \/ Crash(s) \/ EndTurn(s) \/ Leave(s)
  BY <1>1, <1>2, <1>5 DEF Unpark, ClosedWhileParked, Crash, EndTurn, Leave, Put, Move,
                          registry, RunTypes
<1>6. CASE Expire(s)
  <2>1. CASE reg[s] # 0
    BY <1>1, <1>2, <1>6, <2>1 DEF Expire, Drop, Put, Move, RunTypes
  <2>2. CASE reg[s] = 0
    BY <1>1, <1>2, <1>6, <2>2 DEF Expire, Put, Move, registry, RunTypes
  <2> QED
    BY <2>1, <2>2
<1> QED
  BY <1>3, <1>4, <1>5, <1>6 DEF RunStep

LEMMA TurnInit == Init => TurnInv
  BY DEF Init, TurnInv, Resuming

(* A request finds a run: it holds the ParkedRun that is registered.       *)
Takes(r) ==
  /\ EventLoopFree
  /\ req'[r] = "inject" /\ at'[r] \in Runs /\ todo'[r] # <<>>
  /\ reg[at'[r]] # 0 /\ reg'[at'[r]] = reg[at'[r]]
  /\ obj'[r] = reg[at'[r]]

(* A request is still busy with the results, at the same ParkedRun. *)
GoesOn(r) ==
  /\ Resuming(r) /\ req'[r] \in {"inject", "sent"}
  /\ at'[r] = at[r] /\ obj'[r] = obj[r]

(* What a request does that matters to the resumes. *)
LEMMA RequestSteps ==
  ASSUME TypeOK, NEW r \in Requests, RequestStep(r)
  PROVE  /\ UNCHANGED <<parks, owner>>
         /\ \A u \in Runs : reg'[u] \in {0, reg[u]}
         /\ \A u \in Runs : loop'[u] = loop[u] \/ (loop[u] = "off" /\ loop'[u] = "running")
         /\ \A q \in Requests \ {r} : /\ req'[q] = req[q] /\ at'[q] = at[q]
                                      /\ obj'[q] = obj[q] /\ todo'[q] = todo[q]
         /\ req'[r] \in {"idle", "reading"} \/ GoesOn(r) \/ Takes(r)
<1>1. RunTypes /\ RequestTypes
  BY TypeParts
<1>2. CASE Ask(r)
  BY <1>1, <1>2, StartTypes DEF Ask, registry
<1>3. CASE PostResults(r)
  <2>1. UNCHANGED <<parks, owner>> /\ EventLoopFree
    BY <1>3 DEF PostResults
  <2>2. PICK T \in SUBSET Tools, gone \in SUBSET Runs : Finds(r, T, gone)
    BY <1>3, PostResultsFinds
  <2>3. \A u \in Runs : reg'[u] = IF u \in gone THEN 0 ELSE reg[u]
    BY <1>1, <2>2, DropKeeps DEF Finds
  <2>4. CASE StartRun(r) /\ UNCHANGED <<obj, todo>>
    BY <2>1, <2>3, <2>4, StartTypes
  <2>5. ASSUME NEW u \in Runs \ gone, FindsRun(r, T, u)
        PROVE  /\ Takes(r) /\ UNCHANGED loop
               /\ \A q \in Requests \ {r} : /\ req'[q] = req[q] /\ at'[q] = at[q]
                                            /\ obj'[q] = obj[q] /\ todo'[q] = todo[q]
    <3>1. PICK o \in Orders(T) : todo' = [todo EXCEPT ![r] = o]
      BY <2>5 DEF FindsRun
    <3>2. o # <<>>
      BY <2>2, OrdersAre DEF Finds
    <3>3. /\ reg[u] # 0 /\ UNCHANGED loop
          /\ req' = [req EXCEPT ![r] = "inject"]
          /\ at' = [at EXCEPT ![r] = u]
          /\ obj' = [obj EXCEPT ![r] = reg[u]]
      BY <2>5 DEF FindsRun, Become
    <3> QED
      BY <1>1, <2>1, <2>3, <3>1, <3>2, <3>3 DEF RequestTypes, Takes
  <2> QED
    BY <2>1, <2>2, <2>3, <2>4, <2>5 DEF Finds
<1>4. CASE Send(r) \/ Clear(r) \/ Wake(r)
  BY <1>1, <1>4 DEF Send, Clear, Wake, RequestTypes, GoesOn, Resuming, runVars, registry
<1>5. CASE SendFails(r)
  BY <1>1, <1>5, StartTypes DEF SendFails, RequestTypes, registry
<1>6. CASE Read(r) \/ TextEndsTurn(r) \/ Disconnect(r)
  BY <1>1, <1>6 DEF Read, TextEndsTurn, Disconnect, Become, RequestTypes, runVars, registry
<1> QED
  BY <1>2, <1>3, <1>4, <1>5, <1>6 DEF RequestStep, ResumeStep

LEMMA TurnStep == TypeOK /\ TurnInv /\ [Next]_vars => TurnInv'
<1> SUFFICES ASSUME TypeOK, TurnInv, [Next]_vars PROVE TurnInv'
  OBVIOUS
<1>1. RunTypes /\ RequestTypes /\ MaxParks \in Nat
  BY TypeParts, Bounds
<1>2. \A u \in Runs : parks[u] \in Nat /\ reg[u] \in Nat /\ reg[u] <= parks[u]
  BY <1>1 DEF RunTypes
<1>3. \A q \in Requests : Resuming(q) => at[q] \in Runs /\ obj[q] \in Nat
  BY <1>1, AtARun DEF RequestTypes, Resuming
<1>4. ASSUME NEW s \in Runs, CallTool(s) PROVE TurnInv'
  BY <1>4 DEF CallTool, TurnInv, Resuming, reqVars
<1>5. ASSUME NEW s \in Runs, Announce(s) PROVE TurnInv'
  <2>1. UNCHANGED <<reg, req, at, obj>>
    BY <1>5 DEF Announce, registry, reqVars
  <2>2. /\ parks' = [parks EXCEPT ![s] = parks[s] + 1]
        /\ loop' = [loop EXCEPT ![s] = "announced"]
    BY <1>5 DEF Announce, Move
  <2>3. \A u \in Runs : /\ parks'[u] = IF u = s THEN parks[u] + 1 ELSE parks[u]
                        /\ loop'[u] = IF u = s THEN "announced" ELSE loop[u]
    BY <1>1, <2>2 DEF RunTypes
  <2> QED
    BY <1>2, <1>3, <2>1, <2>3 DEF TurnInv, Resuming
<1>6. ASSUME NEW s \in Runs, Register(s) PROVE TurnInv'
  <2>1. UNCHANGED <<parks, req, at, obj>>
    BY <1>6 DEF Register, reqVars
  <2>2. /\ \A u \in Runs : reg'[u] = IF u = s THEN parks[u] ELSE reg[u]
        /\ \A u \in Runs : loop'[u] = IF u = s THEN "parked" ELSE loop[u]
    BY <1>1, <1>6 DEF Register, Move, RunTypes
  <2> QED
    BY <1>2, <1>3, <2>1, <2>2 DEF TurnInv, Resuming
<1>7. ASSUME NEW s \in Runs, RunStep(s), ~Announce(s), ~Register(s) PROVE TurnInv'
  <2>1. UNCHANGED <<req, at, obj>>
    BY <1>7, LoopSteps DEF reqVars
  <2>2. \A u \in Runs : /\ parks'[u] = parks[u] /\ reg'[u] \in {0, reg[u]}
                        /\ loop'[u] = "announced" => loop[u] = "announced"
    BY <1>7, LoopSteps
  <2> QED
    BY <1>2, <1>3, <2>1, <2>2 DEF TurnInv, Resuming
<1>8. ASSUME NEW r \in Requests, RequestStep(r) PROVE TurnInv'
  <2>1. /\ \A u \in Runs : /\ parks'[u] = parks[u] /\ reg'[u] \in {0, reg[u]}
                           /\ loop'[u] = "announced" => loop[u] = "announced"
        /\ \A q \in Requests \ {r} : req'[q] = req[q] /\ at'[q] = at[q] /\ obj'[q] = obj[q]
        /\ req'[r] \in {"idle", "reading"} \/ GoesOn(r) \/ Takes(r)
    BY <1>8, RequestSteps
  <2>2. CASE req'[r] \in {"idle", "reading"}
    BY <1>2, <1>3, <2>1, <2>2 DEF TurnInv, Resuming
  <2>3. CASE GoesOn(r)
    BY <1>2, <1>3, <2>1, <2>3 DEF TurnInv, Resuming, GoesOn
  <2>4. CASE Takes(r)
    BY <1>2, <1>3, <2>1, <2>4 DEF TurnInv, Resuming, Takes, EventLoopFree
  <2> QED
    BY <2>1, <2>2, <2>3, <2>4
<1>9. CASE UNCHANGED vars
  BY <1>9 DEF TurnInv, Resuming, vars, runVars, registry, reqVars
<1> QED
  BY <1>4, <1>5, <1>6, <1>7, <1>8, <1>9 DEF Next, RequestStep

-----------------------------------------------------------------------------

(* Finding a run *)

(* A call is open at most at the run that made it. *)
LEMMA CallsApart ==
  ASSUME CallTypes, NEW u \in Runs, NEW v \in Runs, u # v
  PROVE  calls[u] \cap CalledBy(v) = {}
  BY DEF CallTypes, CalledBy

LEMMA FindableStep == TypeOK /\ ParkedIsFindable /\ [Next]_vars => ParkedIsFindable'
<1> SUFFICES ASSUME TypeOK, ParkedIsFindable, [Next]_vars, NEW u \in Runs,
                    loop'[u] = "parked", usable'[u]
             PROVE  reg'[u] = parks'[u] /\ calls'[u] \subseteq indexed' \cup astray'
  BY DEF ParkedIsFindable
<1>1. RunTypes /\ CallTypes /\ RequestTypes
  BY TypeParts
<1>2. loop[u] = "parked" /\ usable[u] =>
        reg[u] = parks[u] /\ calls[u] \subseteq indexed \cup astray
  BY DEF ParkedIsFindable
<1>3. ASSUME NEW s \in Runs, CallTool(s)
      PROVE  reg'[u] = parks'[u] /\ calls'[u] \subseteq indexed' \cup astray'
  <2>1. UNCHANGED <<loop, usable, reg, parks, astray>>
    BY <1>3 DEF CallTool, history
  <2>2. PICK t : calls' = [calls EXCEPT ![s] = @ \cup {t}] /\ indexed' = indexed \cup {t}
    BY <1>3 DEF CallTool
  <2> QED
    BY <1>1, <1>2, <2>1, <2>2 DEF CallTypes
<1>4. ASSUME NEW s \in Runs, RunStep(s)
      PROVE  reg'[u] = parks'[u] /\ calls'[u] \subseteq indexed' \cup astray'
  <2>1. UNCHANGED <<calls, astray>>
    BY <1>4, LoopSteps DEF history
  <2>2. CASE Register(s) /\ u = s
    <3>1. parks[s] \in 1..MaxParks
      BY <1>1, <2>2, Bounds DEF RunTypes, Register
    <3>2. /\ pending' = [pending EXCEPT ![s][parks[s]] = @ \cup calls[s]]
          /\ indexed' = indexed \cup pending'[s][parks[s]]
          /\ reg' = [reg EXCEPT ![s] = parks[s]] /\ parks' = parks
      BY <2>2 DEF Register
    <3>3. pending'[s][parks[s]] = pending[s][parks[s]] \cup calls[s]
      BY <1>1, <3>1, <3>2 DEF RunTypes
    <3> QED
      BY <1>1, <2>1, <2>2, <3>2, <3>3 DEF RunTypes
  <2>3. CASE u = s /\ ~Register(s)
    <3>1. ~Announce(s)
      BY <1>1, <2>3 DEF Announce, Move, RunTypes
    <3> QED
      BY <1>4, <2>3, <3>1, LoopSteps
  <2>4. CASE u # s
    <3>1. /\ loop'[u] = loop[u] /\ parks'[u] = parks[u] /\ reg'[u] = reg[u]
          /\ usable'[u] = usable[u]
      BY <1>4, <2>4, LoopSteps
    <3>2. indexed \ CalledBy(s) \subseteq indexed'
      BY <1>4 DEF RunStep, Announce, Register, Unpark, Expire, ClosedWhileParked, Crash,
                  EndTurn, Leave, Drop, registry
    <3> QED
      BY <1>1, <1>2, <2>1, <2>4, <3>1, <3>2, CallsApart
  <2> QED
    BY <2>2, <2>3, <2>4
<1>5. ASSUME NEW r \in Requests, RequestStep(r)
      PROVE  reg'[u] = parks'[u] /\ calls'[u] \subseteq indexed' \cup astray'
  <2>1. loop[u] = "parked" /\ parks' = parks
    BY <1>5, RequestSteps
  <2>2. CASE PostResults(r)
    <3>1. PICK gone \in SUBSET Runs : Drop(gone)
      BY <2>2, PostResultsFinds DEF Finds
    <3>2. UNCHANGED <<calls, astray>>
      BY <2>2 DEF PostResults, history
    <3>3. u \notin gone /\ usable[u] /\ reg'[u] = reg[u]
      BY <3>1 DEF Drop
    <3>4. calls[u] \subseteq indexed \cup astray
      BY <1>2, <2>1, <3>3
    <3>5. \A v \in gone : calls[u] \cap CalledBy(v) = {}
      BY <1>1, <3>3, CallsApart
    <3>6. indexed' = indexed \ UNION {CalledBy(v) : v \in gone}
      BY <3>1 DEF Drop
    <3> QED
      BY <1>2, <2>1, <3>2, <3>3, <3>4, <3>5, <3>6
  <2>3. CASE Clear(r)
    <3> DEFINE s == at[r]
               t == Head(todo[r])
    <3>1. /\ calls' = [calls EXCEPT ![s] = @ \ {t}] /\ indexed' = indexed \ {t}
          /\ astray' = IF owner[t] # s THEN astray \cup {t} ELSE astray
          /\ UNCHANGED <<usable, reg>> /\ req[r] = "sent"
      BY <2>3 DEF Clear
    <3>2. s \in Runs
      BY <1>1, <3>1, AtARun
    <3> HIDE DEF s, t
    <3>3. reg[u] = parks[u] /\ calls[u] \subseteq indexed \cup astray
      BY <1>2, <2>1, <3>1
    <3>4. CASE u = s
      BY <1>1, <2>1, <3>1, <3>2, <3>3, <3>4 DEF CallTypes
    <3>5. CASE u # s
      <4>1. calls'[u] = calls[u]
        BY <1>1, <3>1, <3>2, <3>5 DEF CallTypes
      <4>2. t \in calls[u] => t \in astray'
        BY <1>1, <3>1, <3>5 DEF CallTypes, CalledBy
      <4> QED
        BY <2>1, <3>1, <3>3, <4>1, <4>2
    <3> QED
      BY <3>4, <3>5
  <2>4. CASE ~PostResults(r) /\ ~Clear(r)
    <3>1. UNCHANGED <<calls, indexed, astray, usable, reg>>
      BY <1>5, <2>4 DEF RequestStep, ResumeStep, Ask, Send, SendFails, Wake, Read,
                        TextEndsTurn, Disconnect, runVars, registry, history
    <3> QED
      BY <1>2, <2>1, <3>1
  <2> QED
    BY <2>2, <2>3, <2>4
<1>6. CASE UNCHANGED vars
  BY <1>2, <1>6 DEF vars, runVars, registry, history
<1> QED
  BY <1>3, <1>4, <1>5, <1>6 DEF Next, RequestStep

(* A run that waits can be found by each call that is open: dropping a run *)
(* closes it, and a call leaves the index only answered, with its run, or  *)
(* astray.                                                                 *)
THEOREM FindableCorrect == Spec => []ParkedIsFindable
<1>1. Init => ParkedIsFindable
  BY DEF Init, ParkedIsFindable
<1> QED
  BY <1>1, TypeCorrect, FindableStep, PTL DEF Spec

-----------------------------------------------------------------------------

(* Delivery *)

(* The ParkedRun objects of a run that somebody can still reach: the       *)
(* registry, a request that resumes it, or the loop that is about to       *)
(* register it.                                                            *)
InUse(s, n) ==
  \/ n = reg[s]
  \/ \E r \in Requests : Resuming(r) /\ at[r] = s /\ obj[r] = n
  \/ loop[s] = "announced" /\ n = parks[s]

(* Would a result for t still be taken as the answer to a call? *)
Open(t) ==
  \E s \in Runs : /\ owner[t] = s
                  /\ \/ t \in calls[s]
                     \/ \E n \in 1..MaxParks : InUse(s, n) /\ t \in pending[s][n]

(* A result for t is out, and its request has yet to clear the call. *)
BeingSent(t) ==
  \E r \in Requests : req[r] = "sent" /\ at[r] = owner[t] /\ Head(todo[r]) = t

(* A call that was answered is not open any more, unless it was answered   *)
(* early or its request has yet to clear it.                               *)
DeliverInv ==
  /\ \A s \in Runs, n \in 1..MaxParks : pending[s][n] \subseteq CalledBy(s)
  /\ \A t \in Tools : delivered[t] > 0 => owner[t] # NoRun
  /\ \A t \in Tools : delivered[t] > 0 /\ t \notin early => BeingSent(t) \/ ~Open(t)
  /\ DeliveredOnce

LEMMA DeliverInit == Init => DeliverInv
<1> SUFFICES ASSUME Init PROVE DeliverInv
  OBVIOUS
<1>1. \A s \in Runs, n \in 1..MaxParks : pending[s][n] = {}
  BY DEF Init
<1>2. \A t \in Tools : delivered[t] = 0
  BY DEF Init
<1> QED
  BY <1>1, <1>2 DEF DeliverInv, DeliveredOnce

(* A step that sends no result and takes no call away. *)
LEMMA DeliverKept ==
  ASSUME DeliverInv, UNCHANGED <<owner, delivered, early>>,
         \A s \in Runs, n \in 1..MaxParks : pending'[s][n] \subseteq CalledBy(s),
         \A t \in Tools : BeingSent(t) => BeingSent(t)',
         \A t \in Tools : Open(t)' => Open(t)
  PROVE  DeliverInv'
  BY DEF DeliverInv, DeliveredOnce, CalledBy

LEMMA DeliverRunStep ==
  ASSUME TypeOK, DeliverInv, NEW s \in Runs, RunStep(s)
  PROVE  DeliverInv'
<1>1. RunTypes /\ CallTypes /\ MaxParks \in Nat
  BY TypeParts, Bounds
<1>2. UNCHANGED <<req, at, obj, todo, calls, owner, delivered, early>>
  BY LoopSteps DEF reqVars, history
<1>3. \A t \in Tools : BeingSent(t) => BeingSent(t)'
  BY <1>2 DEF BeingSent
<1>4. \A u \in Runs \ {s} : /\ pending'[u] = pending[u]
                            /\ \A n : InUse(u, n)' => InUse(u, n)
  <2> SUFFICES ASSUME NEW u \in Runs \ {s}, NEW n
               PROVE  pending'[u] = pending[u] /\ (InUse(u, n)' => InUse(u, n))
    OBVIOUS
  <2>1. /\ loop'[u] = loop[u] /\ parks'[u] = parks[u] /\ reg'[u] = reg[u]
        /\ pending'[u] = pending[u]
    BY LoopSteps
  <2> QED
    BY <1>2, <2>1 DEF InUse, Resuming
<1>5. \A n \in 1..MaxParks : /\ pending'[s][n] \subseteq pending[s][n] \cup calls[s]
                             /\ InUse(s, n)' => InUse(s, n) \/ pending'[s][n] = calls[s]
  <2> SUFFICES ASSUME NEW n \in 1..MaxParks
               PROVE  /\ pending'[s][n] \subseteq pending[s][n] \cup calls[s]
                      /\ InUse(s, n)' => InUse(s, n) \/ pending'[s][n] = calls[s]
    OBVIOUS
  <2>1. CASE Announce(s)
    <3>1. /\ loop' = [loop EXCEPT ![s] = "announced"] /\ reg' = reg
          /\ parks' = [parks EXCEPT ![s] = @ + 1]
          /\ pending' = [pending EXCEPT ![s][parks[s] + 1] = calls[s]]
      BY <2>1 DEF Announce, Move, registry
    <3>2. parks'[s] = parks[s] + 1 /\ loop'[s] = "announced"
      BY <1>1, <3>1 DEF RunTypes
    <3>3. pending'[s][n] = IF n = parks[s] + 1 THEN calls[s] ELSE pending[s][n]
      BY <1>1, <3>1 DEF RunTypes
    <3> QED
      BY <1>2, <3>1, <3>2, <3>3 DEF InUse, Resuming
  <2>2. CASE Register(s)
    <3>1. /\ loop[s] = "announced" /\ loop' = [loop EXCEPT ![s] = "parked"]
          /\ parks' = parks /\ reg' = [reg EXCEPT ![s] = parks[s]]
          /\ pending' = [pending EXCEPT ![s][parks[s]] = @ \cup calls[s]]
      BY <2>2 DEF Register, Move
    <3>2. loop'[s] = "parked" /\ reg'[s] = parks[s]
      BY <1>1, <3>1 DEF RunTypes
    <3>3. pending'[s][n] = IF n = parks[s] THEN pending[s][n] \cup calls[s]
                                           ELSE pending[s][n]
      BY <1>1, <3>1 DEF RunTypes
    <3> QED
      BY <1>2, <3>1, <3>2, <3>3 DEF InUse, Resuming
  <2>3. CASE ~Announce(s) /\ ~Register(s)
    <3>1. /\ loop'[s] # "announced" /\ parks'[s] = parks[s]
          /\ pending'[s] = pending[s] /\ reg'[s] \in {0, reg[s]}
      BY <2>3, LoopSteps
    <3> QED
      BY <1>1, <1>2, <3>1 DEF InUse, Resuming
  <2> QED
    BY <2>1, <2>2, <2>3
<1>6. \A u \in Runs, n \in 1..MaxParks : pending'[u][n] \subseteq CalledBy(u)
  BY <1>1, <1>4, <1>5 DEF DeliverInv, CallTypes
<1>7. ASSUME NEW t \in Tools, Open(t)' PROVE Open(t)
  <2>1. PICK u \in Runs : /\ owner[t] = u
                          /\ \/ t \in calls[u]
                             \/ \E n \in 1..MaxParks : InUse(u, n)' /\ t \in pending'[u][n]
    BY <1>2, <1>7 DEF Open
  <2>2. CASE t \in calls[u]
    BY <2>1, <2>2 DEF Open
  <2>3. CASE t \notin calls[u]
    <3>1. PICK n \in 1..MaxParks : InUse(u, n)' /\ t \in pending'[u][n]
      BY <2>1, <2>3
    <3>2. InUse(u, n) /\ t \in pending[u][n]
      BY <1>4, <1>5, <2>3, <3>1
    <3> QED
      BY <2>1, <3>1, <3>2 DEF Open
  <2> QED
    BY <2>2, <2>3
<1> QED
  BY <1>2, <1>3, <1>6, <1>7, DeliverKept

LEMMA DeliverCallTool ==
  ASSUME TypeOK, DeliverInv, NEW s \in Runs, CallTool(s)
  PROVE  DeliverInv'
<1> DEFINE t == CHOOSE u \in CalledBy(NoRun) : TRUE
<1>1. RunTypes /\ CallTypes
  BY TypeParts
<1>2. t \in Tools /\ owner[t] = NoRun
  <2>1. CalledBy(NoRun) # {}
    BY DEF CallTool
  <2>2. t \in CalledBy(NoRun)
    BY <2>1
  <2> QED
    BY <2>2 DEF CalledBy
<1>3. /\ owner' = [owner EXCEPT ![t] = s]
      /\ calls' = [calls EXCEPT ![s] = @ \cup {t}]
      /\ UNCHANGED <<loop, parks, pending, reg, req, at, obj, todo, delivered, early>>
  BY DEF CallTool, reqVars, history
<1> HIDE DEF t
<1>4. delivered[t] = 0
  BY <1>1, <1>2 DEF DeliverInv, CallTypes
<1>5. \A u \in Runs : CalledBy(u) \subseteq CalledBy(u)'
  BY <1>1, <1>2, <1>3, ParkAssumption DEF CalledBy, CallTypes
<1>6. ASSUME NEW v \in Tools, delivered[v] > 0, v \notin early
      PROVE  owner'[v] # NoRun /\ (BeingSent(v)' \/ ~Open(v)')
  <2>1. v # t
    BY <1>4, <1>6
  <2>2. owner'[v] = owner[v] /\ owner[v] # NoRun
    BY <1>1, <1>3, <1>6, <2>1 DEF CallTypes, DeliverInv
  <2>3. BeingSent(v) => BeingSent(v)'
    BY <1>3, <2>2 DEF BeingSent
  <2>4. \A u \in Runs : v \in calls'[u] => v \in calls[u]
    BY <1>1, <1>3, <2>1 DEF CallTypes
  <2>5. \A u, n : InUse(u, n)' => InUse(u, n)
    BY <1>3 DEF InUse, Resuming
  <2>6. Open(v)' => Open(v)
    BY <1>3, <2>2, <2>4, <2>5 DEF Open
  <2> QED
    BY <1>6, <2>2, <2>3, <2>6 DEF DeliverInv
<1>7. \A v \in Tools : delivered[v] > 0 => owner'[v] # NoRun
  BY <1>1, <1>3, <1>4, ParkAssumption DEF CallTypes, DeliverInv
<1> QED
  BY <1>3, <1>5, <1>6, <1>7 DEF DeliverInv, DeliveredOnce

LEMMA DeliverSend ==
  ASSUME TypeOK, TurnInv, DeliverInv, NEW r \in Requests, Send(r)
  PROVE  DeliverInv'
<1>1. RunTypes /\ CallTypes /\ RequestTypes /\ MaxParks \in Nat
  BY TypeParts, Bounds
<1>0. PICK s \in Runs, t \in Tools : s = at[r] /\ t = Head(todo[r])
  <2>1. at[r] \in Runs
    BY <1>1, AtARun DEF Send
  <2>2. Head(todo[r]) \in Tools
    BY <1>1, HeadTailProperties DEF Send, RequestTypes
  <2> QED
    BY <2>1, <2>2
<1>2. /\ req[r] = "inject" /\ req' = [req EXCEPT ![r] = "sent"]
      /\ delivered' = IF t \in pending[s][obj[r]] \cup calls[s]
                        THEN [delivered EXCEPT ![t] = @ + 1] ELSE delivered
      /\ UNCHANGED <<loop, parks, calls, pending, reg, owner, at, obj, todo, early>>
  BY <1>0 DEF Send, runVars, registry
<1>3. obj[r] \in 1..MaxParks
  BY <1>1, <1>2 DEF RequestTypes
<1>4. Resuming(r) /\ \A q \in Requests \ {r} : ~Resuming(q)
  BY <1>2 DEF TurnInv, Resuming
<1>5. \A v \in Tools : ~BeingSent(v)
  BY <1>2, <1>4 DEF BeingSent, Resuming
<1>6. \A u, n : InUse(u, n)' <=> InUse(u, n)
  <2>1. \A q \in Requests : Resuming(q)' <=> Resuming(q)
    BY <1>1, <1>2 DEF Resuming, RequestTypes
  <2> QED
    BY <1>2, <2>1 DEF InUse
<1>7. \A v \in Tools : Open(v)' <=> Open(v)
  BY <1>2, <1>6 DEF Open
<1>8. t \in pending[s][obj[r]] \cup calls[s] => Open(t) /\ owner[t] = s
  <2>1. InUse(s, obj[r])
    BY <1>0, <1>4 DEF InUse
  <2>2. t \in pending[s][obj[r]] \cup calls[s] => owner[t] = s
    BY <1>1, <1>3 DEF DeliverInv, CallTypes, CalledBy
  <2> QED
    BY <1>3, <2>1, <2>2 DEF Open
<1>9. req'[r] = "sent"
  BY <1>1, <1>2 DEF RequestTypes
<1>10. BeingSent(t)' \/ owner[t] # s
  BY <1>0, <1>2, <1>9 DEF BeingSent
<1>11. \A v \in Tools : delivered[v] \in Nat
  BY <1>1 DEF CallTypes
<1>12. CASE t \in pending[s][obj[r]] \cup calls[s]
  <2>1. \A v \in Tools : delivered'[v] = IF v = t THEN delivered[v] + 1 ELSE delivered[v]
    BY <1>1, <1>2, <1>12 DEF CallTypes
  <2>2. delivered[t] = 0 \/ t \in early
    BY <1>3, <1>5, <1>8, <1>11, <1>12 DEF DeliverInv
  <2>3. owner[t] # NoRun
    BY <1>3, <1>8, <1>12, ParkAssumption
  <2>4. \A v \in Tools : delivered'[v] > 0 => owner'[v] # NoRun
    BY <1>2, <2>1, <2>3 DEF DeliverInv
  <2>5. \A v \in Tools : delivered'[v] > 0 /\ v \notin early' => BeingSent(v)' \/ ~Open(v)'
    BY <1>2, <1>5, <1>7, <1>8, <1>10, <1>12, <2>1 DEF DeliverInv
  <2>6. DeliveredOnce'
    BY <1>2, <1>11, <2>1, <2>2 DEF DeliverInv, DeliveredOnce
  <2> QED
    BY <1>2, <2>4, <2>5, <2>6 DEF DeliverInv, CalledBy
<1>13. CASE t \notin pending[s][obj[r]] \cup calls[s]
  <2>1. UNCHANGED <<delivered, owner, early, pending>>
    BY <1>2, <1>13
  <2> QED
    BY <1>5, <1>7, <2>1, DeliverKept DEF DeliverInv
<1> QED
  BY <1>12, <1>13

LEMMA DeliverClear ==
  ASSUME TypeOK, TurnInv, DeliverInv, NEW r \in Requests, Clear(r)
  PROVE  DeliverInv'
<1>1. RunTypes /\ CallTypes /\ RequestTypes /\ MaxParks \in Nat
  BY TypeParts, Bounds
<1>0. PICK s \in Runs, t \in Tools : s = at[r] /\ t = Head(todo[r])
  <2>1. at[r] \in Runs
    BY <1>1, AtARun DEF Clear
  <2>2. Head(todo[r]) \in Tools
    BY <1>1, HeadTailProperties DEF Clear, RequestTypes
  <2> QED
    BY <2>1, <2>2
<1>2. /\ req[r] = "sent" /\ req' = [req EXCEPT ![r] = "inject"]
      /\ pending' = [pending EXCEPT ![s][obj[r]] = @ \ {t}]
      /\ calls' = [calls EXCEPT ![s] = @ \ {t}]
      /\ early' = IF obj[r] # parks[s] THEN early \cup {t} ELSE early
      /\ UNCHANGED <<loop, parks, reg, owner, at, obj, delivered>>
  BY <1>0 DEF Clear
<1>3. obj[r] \in 1..MaxParks
  BY <1>1, <1>2 DEF RequestTypes
<1>4. Resuming(r) /\ \A q \in Requests \ {r} : ~Resuming(q)
  BY <1>2 DEF TurnInv, Resuming
<1>5. \A v \in Tools : BeingSent(v) => v = t /\ owner[v] = s
  BY <1>0, <1>4 DEF BeingSent, Resuming
<1>6. \A u, n : InUse(u, n)' <=> InUse(u, n)
  <2>1. \A q \in Requests : Resuming(q)' <=> Resuming(q)
    BY <1>1, <1>2 DEF Resuming, RequestTypes
  <2> QED
    BY <1>2, <2>1 DEF InUse
<1>7. /\ \A u \in Runs : calls'[u] = IF u = s THEN calls[u] \ {t} ELSE calls[u]
      /\ \A u \in Runs, n \in 1..MaxParks :
           pending'[u][n] = IF u = s /\ n = obj[r] THEN pending[u][n] \ {t} ELSE pending[u][n]
  BY <1>1, <1>2 DEF RunTypes, CallTypes
<1>8. \A u \in Runs, n \in 1..MaxParks : pending'[u][n] \subseteq CalledBy(u)'
  BY <1>2, <1>7 DEF DeliverInv, CalledBy
<1>9. \A v \in Tools : Open(v)' => Open(v)
  BY <1>2, <1>6, <1>7 DEF Open
<1>10. ASSUME BeingSent(t), t \notin early' PROVE ~Open(t)'
  <2>1. obj[r] = parks[s]
    BY <1>2, <1>10
  <2>2. loop[s] # "announced" /\ reg[s] \in {0, obj[r]}
    <3>1. reg[s] \in Nat /\ obj[r] \in Nat /\ reg[s] <= parks[s]
      BY <1>1, <1>3 DEF RunTypes
    <3> QED
      BY <1>0, <1>3, <1>4, <2>1, <3>1 DEF TurnInv
  <2>3. \A n \in 1..MaxParks : InUse(s, n) => n = obj[r]
    BY <1>0, <1>1, <1>4, <2>2 DEF InUse
  <2> QED
    BY <1>2, <1>3, <1>5, <1>6, <1>7, <2>3, <1>10 DEF Open
<1>11. early \subseteq early'
  BY <1>2
<1>12. \A v \in Tools : delivered'[v] > 0 /\ v \notin early' => ~Open(v)'
  BY <1>2, <1>5, <1>9, <1>10, <1>11 DEF DeliverInv
<1> QED
  BY <1>2, <1>8, <1>11, <1>12 DEF DeliverInv, DeliveredOnce

LEMMA DeliverRequest ==
  ASSUME TypeOK, TurnInv, DeliverInv, NEW r \in Requests, RequestStep(r)
  PROVE  DeliverInv'
<1>1. RunTypes /\ RequestTypes
  BY TypeParts
<1>2. CASE Send(r)
  BY <1>2, DeliverSend
<1>3. CASE Clear(r)
  BY <1>3, DeliverClear
<1>4. CASE ~Send(r) /\ ~Clear(r)
  <2>1. UNCHANGED <<owner, delivered, early, pending, calls, parks>> /\ req[r] # "sent"
    BY <1>4 DEF RequestStep, ResumeStep, Ask, PostResults, SendFails, Wake, Read,
                TextEndsTurn, Disconnect, runVars, registry, history
  <2>2. /\ \A u \in Runs : reg'[u] \in {0, reg[u]}
        /\ \A u \in Runs : loop'[u] = "announced" => loop[u] = "announced"
        /\ \A q \in Requests \ {r} : /\ req'[q] = req[q] /\ at'[q] = at[q]
                                     /\ obj'[q] = obj[q] /\ todo'[q] = todo[q]
        /\ req'[r] \in {"idle", "reading"} \/ GoesOn(r) \/ Takes(r)
    BY RequestSteps
  <2>3. \A t \in Tools : BeingSent(t) => BeingSent(t)'
    BY <2>1, <2>2 DEF BeingSent
  <2>4. \A u \in Runs, n \in 1..MaxParks : InUse(u, n)' => InUse(u, n)
    <3> SUFFICES ASSUME NEW u \in Runs, NEW n \in 1..MaxParks, InUse(u, n)'
                 PROVE  InUse(u, n)
      OBVIOUS
    <3>1. CASE n = reg'[u] \/ (loop'[u] = "announced" /\ n = parks'[u])
      BY <2>1, <2>2, <3>1, Bounds DEF InUse
    <3>2. CASE \E q \in Requests : Resuming(q)' /\ at'[q] = u /\ obj'[q] = n
      <4>1. PICK q \in Requests : Resuming(q)' /\ at'[q] = u /\ obj'[q] = n
        BY <3>2
      <4>2. CASE q # r
        BY <2>2, <4>1, <4>2 DEF InUse, Resuming
      <4>3. CASE q = r /\ GoesOn(r)
        BY <4>1, <4>3 DEF InUse, Resuming, GoesOn
      <4>4. CASE q = r /\ Takes(r)
        BY <4>1, <4>4 DEF InUse, Takes
      <4> QED
        BY <2>2, <4>1, <4>2, <4>3, <4>4 DEF Resuming
    <3> QED
      BY <3>1, <3>2 DEF InUse
  <2>5. \A t \in Tools : Open(t)' => Open(t)
    BY <2>1, <2>4 DEF Open
  <2> QED
    BY <2>1, <2>3, <2>5, DeliverKept DEF DeliverInv
<1> QED
  BY <1>2, <1>3, <1>4

LEMMA DeliverStep == TypeOK /\ TurnInv /\ DeliverInv /\ [Next]_vars => DeliverInv'
<1> SUFFICES ASSUME TypeOK, TurnInv, DeliverInv, [Next]_vars PROVE DeliverInv'
  OBVIOUS
<1>1. CASE UNCHANGED vars
  BY <1>1 DEF DeliverInv, DeliveredOnce, CalledBy, BeingSent, Open, InUse, Resuming,
              vars, runVars, registry, reqVars, history
<1> QED
  BY <1>1, DeliverCallTool, DeliverRunStep, DeliverRequest DEF Next, RequestStep

(* A tool result reaches its run once: once it is sent and cleared, no     *)
(* ParkedRun that anybody can reach lists the call, unless it was cleared  *)
(* in an older one.                                                        *)
THEOREM DeliverCorrect == Spec => []DeliveredOnce
<1>1. DeliverInv => DeliveredOnce
  BY DEF DeliverInv
<1> QED
  BY <1>1, TypeCorrect, TurnInit, TurnStep, DeliverInit, DeliverStep, PTL DEF Spec

-----------------------------------------------------------------------------

(* Waking *)

(* The event of the newest ParkedRun is set, or a request that holds that  *)
(* object will set it.                                                     *)
WokenSoon(s) ==
  \/ woken[s]
  \/ \E r \in Requests : Resuming(r) /\ at[r] = s /\ obj[r] = parks[s]

AnsweredEarly(s) == CalledBy(s) \cap early # {}

(* AnsweredRunWakes, with the pause that is being entered: it has a call   *)
(* to wait for unless one was answered early.                              *)
WakeInv ==
  \A s \in Runs : calls[s] = {} =>
    /\ loop[s] = "announced" => AnsweredEarly(s)
    /\ loop[s] = "parked" /\ usable[s] => WokenSoon(s) \/ AnsweredEarly(s)

LEMMA WakeRunStep ==
  ASSUME TypeOK, WakeInv, NEW s \in Runs, RunStep(s)
  PROVE  WakeInv'
<1>1. RunTypes
  BY TypeParts
<1>2. UNCHANGED <<req, at, obj, calls, owner, early>>
  BY LoopSteps DEF reqVars, history
<1>3. \A u \in Runs : AnsweredEarly(u)' <=> AnsweredEarly(u)
  BY <1>2 DEF AnsweredEarly, CalledBy
<1> SUFFICES ASSUME NEW u \in Runs, calls'[u] = {}
             PROVE  /\ loop'[u] = "announced" => AnsweredEarly(u)'
                    /\ loop'[u] = "parked" /\ usable'[u] => WokenSoon(u)' \/ AnsweredEarly(u)'
  BY DEF WakeInv
<1>4. CASE u # s
  <2>1. /\ loop'[u] = loop[u] /\ parks'[u] = parks[u] /\ woken'[u] = woken[u]
        /\ usable'[u] = usable[u]
    BY <1>4, LoopSteps
  <2>2. WokenSoon(u)' <=> WokenSoon(u)
    BY <1>2, <2>1 DEF WokenSoon, Resuming
  <2> QED
    BY <1>2, <1>3, <2>1, <2>2 DEF WakeInv
<1>5. CASE u = s /\ Announce(s)
  BY <1>2, <1>5 DEF Announce
<1>6. CASE u = s /\ Register(s)
  <2>1. loop[s] = "announced" /\ loop'[s] = "parked"
    BY <1>1, <1>6 DEF Register, Move, RunTypes
  <2> QED
    BY <1>2, <1>3, <1>6, <2>1 DEF WakeInv
<1>7. CASE u = s /\ ~Announce(s) /\ ~Register(s)
  BY <1>7, LoopSteps
<1> QED
  BY <1>4, <1>5, <1>6, <1>7

LEMMA WakeRequest ==
  ASSUME TypeOK, TurnInv, WakeInv, NEW r \in Requests, RequestStep(r)
  PROVE  WakeInv'
<1>1. RunTypes /\ CallTypes /\ RequestTypes
  BY TypeParts
<1>2. /\ UNCHANGED <<parks, owner>>
      /\ \A u \in Runs : loop'[u] \in {"announced", "parked"} => loop'[u] = loop[u]
      /\ \A q \in Requests \ {r} : req'[q] = req[q] /\ at'[q] = at[q] /\ obj'[q] = obj[q]
      /\ req'[r] \in {"idle", "reading"} \/ GoesOn(r) \/ Takes(r)
  BY RequestSteps
<1>3. early \subseteq early'
  BY DEF RequestStep, ResumeStep, Ask, PostResults, Send, SendFails, Clear, Wake, Read,
         TextEndsTurn, Disconnect, history
<1>4. \A u \in Runs : AnsweredEarly(u) => AnsweredEarly(u)'
  BY <1>2, <1>3 DEF AnsweredEarly, CalledBy
<1> SUFFICES ASSUME NEW u \in Runs, calls'[u] = {}, loop'[u] \in {"announced", "parked"},
                    loop'[u] = "parked" => usable'[u], ~AnsweredEarly(u)'
             PROVE  loop'[u] = "parked" /\ WokenSoon(u)'
  BY DEF WakeInv
<1>5. loop'[u] = loop[u] /\ ~AnsweredEarly(u)
  BY <1>2, <1>4
<1>6. \A q \in Requests : Resuming(q) => q = r \/ (Resuming(q)' /\ at'[q] = at[q] /\ obj'[q] = obj[q])
  BY <1>2 DEF Resuming
<1>7. CASE Clear(r) /\ calls[u] # {}
  <2>1. PICK s \in Runs, t \in Tools : s = at[r] /\ t = Head(todo[r])
    <3>1. at[r] \in Runs
      BY <1>1, <1>7, AtARun DEF Clear
    <3>2. Head(todo[r]) \in Tools
      BY <1>1, <1>7, HeadTailProperties DEF Clear, RequestTypes
    <3> QED
      BY <3>1, <3>2
  <2>2. /\ calls' = [calls EXCEPT ![s] = @ \ {t}]
        /\ early' = IF obj[r] # parks[s] THEN early \cup {t} ELSE early
        /\ req[r] = "sent" /\ req' = [req EXCEPT ![r] = "inject"]
        /\ UNCHANGED <<loop, parks, at, obj, owner>>
    BY <1>7, <2>1 DEF Clear
  <2>3. u = s /\ t \in calls[u]
    BY <1>1, <1>7, <2>1, <2>2 DEF CallTypes
  <2>4. t \in CalledBy(s)'
    BY <1>1, <2>1, <2>2, <2>3 DEF CallTypes, CalledBy
  <2>5. obj[r] = parks[s]
    BY <2>2, <2>3, <2>4 DEF AnsweredEarly
  <2>6. Resuming(r) /\ Resuming(r)'
    BY <1>1, <2>2 DEF Resuming, RequestTypes
  <2>7. WokenSoon(u)'
    BY <2>1, <2>2, <2>3, <2>5, <2>6 DEF WokenSoon
  <2>8. loop[s] # "announced"
    <3>1. parks[s] \in Nat
      BY <1>1, <2>1, Bounds DEF RunTypes
    <3> QED
      BY <2>1, <2>5, <2>6, <3>1 DEF TurnInv
  <2> QED
    BY <1>5, <2>3, <2>7, <2>8
<1>8. CASE ~Clear(r) \/ calls[u] = {}
  <2>1. calls[u] = {}
    BY <1>8 DEF RequestStep, ResumeStep, Ask, PostResults, Send, SendFails, Wake, Read,
                TextEndsTurn, Disconnect, runVars
  <2>2. usable'[u] => usable[u]
    <3>1. CASE PostResults(r)
      <4>1. PICK gone \in SUBSET Runs : Drop(gone)
        BY <3>1, PostResultsFinds DEF Finds
      <4> QED
        BY <4>1 DEF Drop
    <3>2. CASE ~PostResults(r)
      BY <3>2 DEF RequestStep, ResumeStep, Ask, Send, SendFails, Clear, Wake, Read,
                  TextEndsTurn, Disconnect, runVars
    <3> QED
      BY <3>1, <3>2
  <2>3. loop[u] = "parked" /\ usable[u] /\ WokenSoon(u)
    BY <1>5, <2>1, <2>2 DEF WakeInv
  <2>4. woken[u] => woken'[u]
    <3>1. CASE PostResults(r)
      <4>1. PICK gone \in SUBSET Runs : Drop(gone)
        BY <3>1, PostResultsFinds DEF Finds
      <4> QED
        BY <4>1 DEF Drop
    <3>2. CASE Wake(r)
      <4>1. woken' = [woken EXCEPT ![at[r]] = @ \/ obj[r] = parks[at[r]]]
        BY <3>2 DEF Wake
      <4> QED
        BY <1>1, <4>1, Zenon DEF RunTypes
    <3>3. CASE ~PostResults(r) /\ ~Wake(r)
      BY <3>3 DEF RequestStep, ResumeStep, Ask, Send, SendFails, Clear, Read,
                  TextEndsTurn, Disconnect, runVars
    <3> QED
      BY <3>1, <3>2, <3>3
  <2>5. CASE woken[u]
    BY <1>5, <2>3, <2>4, <2>5 DEF WokenSoon
  <2>6. ASSUME NEW q \in Requests, Resuming(q), at[q] = u, obj[q] = parks[u]
        PROVE  WokenSoon(u)'
    <3>1. CASE q # r \/ GoesOn(r)
      BY <1>2, <1>6, <2>6, <3>1 DEF WokenSoon, GoesOn, Resuming
    <3>2. CASE q = r /\ SendFails(r)
      BY <2>3, <2>6, <3>2 DEF SendFails
    <3>3. CASE q = r /\ Wake(r)
      <4>1. woken' = [woken EXCEPT ![u] = @ \/ obj[r] = parks[u]]
        BY <2>6, <3>3 DEF Wake
      <4>2. woken'[u]
        BY <1>1, <2>6, <3>3, <4>1, Zenon DEF RunTypes
      <4> QED
        BY <4>2 DEF WokenSoon
    <3>4. CASE q = r /\ (Send(r) \/ Clear(r))
      <4>1. req'[r] \in {"inject", "sent"} /\ UNCHANGED <<at, obj, parks>>
        BY <1>1, <3>4 DEF Send, Clear, RequestTypes, runVars
      <4> QED
        BY <2>6, <3>4, <4>1 DEF WokenSoon, Resuming
    <3> QED
      BY <2>6, <3>1, <3>2, <3>3, <3>4 DEF RequestStep, ResumeStep, Ask, PostResults, Read,
         TextEndsTurn, Disconnect, Resuming
  <2> QED
    BY <1>5, <2>3, <2>5, <2>6 DEF WokenSoon
<1> QED
  BY <1>7, <1>8

LEMMA WakeStep == TypeOK /\ TurnInv /\ WakeInv /\ [Next]_vars => WakeInv'
<1> SUFFICES ASSUME TypeOK, TurnInv, WakeInv, [Next]_vars PROVE WakeInv'
  OBVIOUS
<1>1. ASSUME NEW s \in Runs, CallTool(s) PROVE WakeInv'
  <2>1. PICK t \in CalledBy(NoRun) : /\ owner' = [owner EXCEPT ![t] = s]
                                     /\ calls' = [calls EXCEPT ![s] = @ \cup {t}]
    BY <1>1 DEF CallTool
  <2>2. UNCHANGED <<loop, parks, woken, usable, req, at, obj, early>>
    BY <1>1 DEF CallTool, reqVars, history
  <2>3. CallTypes
    BY TypeParts
  <2>4. \A u \in Runs : calls'[u] = {} => calls[u] = {}
    BY <2>1, <2>3 DEF CallTypes
  <2>5. \A u \in Runs : CalledBy(u) \subseteq CalledBy(u)'
    BY <2>1, <2>3, ParkAssumption DEF CallTypes, CalledBy
  <2>6. \A u \in Runs : (WokenSoon(u) => WokenSoon(u)') /\ (AnsweredEarly(u) => AnsweredEarly(u)')
    BY <2>2, <2>5 DEF WokenSoon, AnsweredEarly, Resuming
  <2> QED
    BY <2>2, <2>4, <2>6 DEF WakeInv
<1>2. CASE UNCHANGED vars
  BY <1>2 DEF WakeInv, WokenSoon, AnsweredEarly, CalledBy, Resuming, vars, runVars, reqVars,
              history
<1> QED
  BY <1>1, <1>2, WakeRunStep, WakeRequest DEF Next, RequestStep

(* No run sleeps on with every call answered: the request that answers the *)
(* last one holds the newest ParkedRun until it has set its event, unless  *)
(* a call was answered early.                                              *)
THEOREM WakeCorrect == Spec => []AnsweredRunWakes
<1>1. Init => WakeInv
  BY DEF Init, WakeInv
<1>2. WakeInv => AnsweredRunWakes
  BY DEF WakeInv, WokenSoon, AnsweredEarly, Resuming, AnsweredRunWakes
<1> QED
  BY <1>1, <1>2, TypeCorrect, TurnInit, TurnStep, WakeStep, PTL DEF Spec

-----------------------------------------------------------------------------

(* Reading *)

(* A result of the request has gone out on the run's connection. *)
HasSent(r) == req[r] = "sent" \/ (req[r] = "inject" /\ todo[r] = <<>>)

(* Only runs that were started are registered, resumed or read. *)
StartedInv ==
  /\ \A s \in Runs : reg[s] # 0 => loop[s] # "off"
  /\ \A r \in Requests : req[r] # "idle" => loop[at[r]] # "off"

(* What a thread leaves behind when it is over *)
EndedInv ==
  \A s \in Runs : loop[s] = "ended" =>
    /\ ~usable[s]
    /\ queue[s] # <<>> => queue[s][Len(queue[s])] = "end"
    /\ \A r \in Requests : HasSent(r) /\ at[r] = s => queue[s] # <<>>

(* A run has one reader unless a resume joined another one. *)
OneReaderInv ==
  \A q, r \in Requests :
    req[q] = "reading" /\ req[r] = "reading" /\ at[q] = at[r] /\ at[r] \notin shared => q = r

ReadInv == StartedInv /\ EndedInv /\ OneReaderInv /\ NoReaderInVain

LEMMA LoopEnds ==
  ASSUME TypeOK, NEW s \in Runs, RunStep(s)
  PROVE  /\ loop[s] # "off" /\ loop'[s] # "off"
         /\ loop'[s] = "ended" => /\ ~usable'[s] /\ queue'[s] # <<>>
                                  /\ queue'[s][Len(queue'[s])] = "end"
<1>1. RunTypes
  BY TypeParts
<1>2. CASE Leave(s)
  <2>1. /\ loop[s] = "leaving" /\ loop' = [loop EXCEPT ![s] = "ended"]
        /\ usable' = [usable EXCEPT ![s] = FALSE]
        /\ queue' = [queue EXCEPT ![s] = @ \o <<"end">>]
    BY <1>2 DEF Leave, Put, Move
  <2>2. queue[s] \in Seq(Events) /\ "end" \in Events
    BY <1>1 DEF RunTypes, Events
  <2>3. /\ queue[s] \o <<"end">> # <<>>
        /\ (queue[s] \o <<"end">>)[Len(queue[s] \o <<"end">>)] = "end"
    BY <2>2
  <2> QED
    BY <1>1, <2>1, <2>3 DEF RunTypes
<1>3. CASE Announce(s) \/ Register(s) \/ Unpark(s) \/ ClosedWhileParked(s) \/ Crash(s) \/ EndTurn(s)
  BY <1>1, <1>3 DEF Announce, Register, Unpark, ClosedWhileParked, Crash, EndTurn, Move,
                    RunTypes
<1>4. CASE Expire(s)
  BY <1>1, <1>4 DEF Expire, Move, RunTypes
<1> QED
  BY <1>2, <1>3, <1>4 DEF RunStep

LEMMA ReadRunStep ==
  ASSUME TypeOK, ReadInv, NEW s \in Runs, RunStep(s)
  PROVE  ReadInv'
<1>1. UNCHANGED <<req, at, todo, shared>>
  BY LoopSteps DEF reqVars, history
<1>2. \A u \in Runs \ {s} : /\ loop'[u] = loop[u] /\ reg'[u] = reg[u]
                            /\ usable'[u] = usable[u] /\ queue'[u] = queue[u]
  BY LoopSteps
<1>3. /\ loop[s] # "off" /\ loop'[s] # "off"
      /\ loop'[s] = "ended" => /\ ~usable'[s] /\ queue'[s] # <<>>
                               /\ queue'[s][Len(queue'[s])] = "end"
  BY LoopEnds
<1>4. \A r \in Requests : req[r] # "idle" => at[r] \in Runs
  BY TypeParts, AtARun
<1>5. StartedInv'
  BY <1>1, <1>2, <1>3, <1>4 DEF ReadInv, StartedInv
<1>6. EndedInv'
  BY <1>1, <1>2, <1>3 DEF ReadInv, EndedInv, HasSent
<1>7. OneReaderInv'
  BY <1>1 DEF ReadInv, OneReaderInv
<1>8. NoReaderInVain'
  BY <1>1, <1>2, <1>3, <1>4 DEF ReadInv, NoReaderInVain
<1> QED
  BY <1>5, <1>6, <1>7, <1>8 DEF ReadInv

LEMMA ReadCallTool ==
  ASSUME TypeOK, ReadInv, NEW s \in Runs, CallTool(s)
  PROVE  ReadInv'
<1>1. RunTypes
  BY TypeParts
<1>2. PICK t : queue' = [queue EXCEPT ![s] = @ \o <<t>>]
  BY DEF CallTool, Put
<1>3. \A u \in Runs \ {s} : queue'[u] = queue[u]
  BY <1>1, <1>2 DEF RunTypes
<1>4. loop[s] # "ended" /\ UNCHANGED <<loop, usable, reg, req, at, todo, shared>>
  BY DEF CallTool, reqVars, history
<1>5. \A r \in Requests : req[r] # "idle" => at[r] \in Runs
  BY TypeParts, AtARun
<1>6. StartedInv' /\ OneReaderInv'
  BY <1>4 DEF ReadInv, StartedInv, OneReaderInv
<1>7. EndedInv'
  BY <1>3, <1>4 DEF ReadInv, EndedInv, HasSent
<1>8. NoReaderInVain'
  BY <1>3, <1>4, <1>5 DEF ReadInv, NoReaderInVain
<1> QED
  BY <1>6, <1>7, <1>8 DEF ReadInv

(* A request that starts a run, ends, or finds one; the other requests and *)
(* the queues are left alone.                                              *)
LEMMA ReadKept ==
  ASSUME TypeOK, ReadInv, NEW r \in Requests, UNCHANGED <<queue, shared>>,
         \A u \in Runs : reg'[u] \in {0, reg[u]} /\ (usable'[u] => usable[u]),
         \A u \in Runs : loop'[u] = loop[u] \/ (loop[u] = "off" /\ loop'[u] = "running"),
         \A q \in Requests \ {r} : req'[q] = req[q] /\ at'[q] = at[q] /\ todo'[q] = todo[q],
         \/ req'[r] = "idle"
         \/ req'[r] = "reading" /\ at'[r] \in Runs /\ loop[at'[r]] = "off"
                                /\ loop'[at'[r]] = "running"
         \/ Takes(r)
  PROVE  ReadInv'
<1>1. \A q \in Requests : req[q] # "idle" => at[q] \in Runs
  BY TypeParts, AtARun
<1>2. StartedInv'
  <2>1. \A u \in Runs : loop[u] # "off" => loop'[u] # "off"
    OBVIOUS
  <2>2. \A u \in Runs : reg'[u] # 0 => loop'[u] # "off"
    BY <2>1 DEF ReadInv, StartedInv
  <2>3. \A q \in Requests \ {r} : req'[q] # "idle" => loop'[at'[q]] # "off"
    BY <1>1, <2>1 DEF ReadInv, StartedInv
  <2>4. req'[r] # "idle" => loop'[at'[r]] # "off"
    BY <2>1 DEF ReadInv, StartedInv, Takes
  <2> QED
    BY <2>2, <2>3, <2>4 DEF StartedInv
<1>3. EndedInv'
  <2>1. \A q \in Requests : HasSent(q)' => HasSent(q) /\ at'[q] = at[q]
    BY DEF HasSent, Takes
  <2>2. \A u \in Runs : loop'[u] = "ended" => loop[u] = "ended"
    OBVIOUS
  <2> QED
    BY <2>1, <2>2 DEF ReadInv, EndedInv
<1>4. OneReaderInv'
  <2>1. \A q \in Requests : req[q] = "reading" => loop[at[q]] # "off"
    BY DEF ReadInv, StartedInv
  <2> QED
    BY <2>1 DEF ReadInv, OneReaderInv, Takes
<1>5. NoReaderInVain'
  BY <1>1 DEF ReadInv, NoReaderInVain, Takes
<1> QED
  BY <1>2, <1>3, <1>4, <1>5 DEF ReadInv

LEMMA ReadSendClear ==
  ASSUME TypeOK, ReadInv, NEW r \in Requests, Send(r) \/ Clear(r)
  PROVE  ReadInv'
<1>1. RequestTypes
  BY TypeParts
<1>2. /\ UNCHANGED <<loop, usable, queue, reg, at, shared>>
      /\ req[r] \in {"inject", "sent"} /\ req'[r] \in {"inject", "sent"}
      /\ \A q \in Requests \ {r} : req'[q] = req[q] /\ todo'[q] = todo[q]
  BY <1>1 DEF Send, Clear, RequestTypes, runVars, registry
<1>3. StartedInv' /\ OneReaderInv'
  BY <1>2 DEF ReadInv, StartedInv, OneReaderInv
<1>4. NoReaderInVain'
  BY <1>2 DEF ReadInv, NoReaderInVain
<1>5. \A q \in Requests : HasSent(q)' => HasSent(q) \/ (q = r /\ usable[at[r]])
  BY <1>2 DEF HasSent, Send, Clear
<1>6. EndedInv'
  BY <1>2, <1>5 DEF ReadInv, EndedInv
<1> QED
  BY <1>3, <1>4, <1>6 DEF ReadInv

LEMMA ReadWake ==
  ASSUME TypeOK, ReadInv, NEW r \in Requests, Wake(r)
  PROVE  ReadInv'
<1>1. RequestTypes
  BY TypeParts
<1>2. /\ UNCHANGED <<loop, usable, queue, reg, at, todo>>
      /\ HasSent(r) /\ req'[r] = "reading" /\ at[r] \in Runs
      /\ shared' = IF Readers(at[r]) # {} THEN shared \cup {at[r]} ELSE shared
      /\ \A q \in Requests \ {r} : req'[q] = req[q]
  BY <1>1 DEF Wake, RequestTypes, HasSent, registry
<1>3. shared \subseteq shared'
  BY <1>2
<1>4. StartedInv'
  <2>1. req[r] # "idle"
    BY <1>2 DEF HasSent
  <2> QED
    BY <1>2, <2>1 DEF ReadInv, StartedInv
<1>5. EndedInv'
  <2>1. \A q \in Requests : HasSent(q)' => HasSent(q)
    BY <1>2 DEF HasSent
  <2> QED
    BY <1>2, <2>1 DEF ReadInv, EndedInv
<1>6. OneReaderInv'
  <2>1. \A q \in Requests \ {r} : req[q] = "reading" /\ at[q] = at[r] => at[r] \in shared'
    BY <1>2 DEF Readers
  <2> QED
    BY <1>2, <1>3, <2>1 DEF ReadInv, OneReaderInv
<1>7. NoReaderInVain'
  BY <1>2, <1>3 DEF ReadInv, NoReaderInVain, EndedInv
<1> QED
  BY <1>4, <1>5, <1>6, <1>7 DEF ReadInv

(* Taking the head of a sequence leaves its last element, if that is another. *)
LEMMA LastStays ==
  ASSUME NEW S, NEW q \in Seq(S), q # <<>>
  PROVE  /\ Tail(q) = <<>> => Head(q) = q[Len(q)]
         /\ Tail(q) # <<>> => Tail(q)[Len(Tail(q))] = q[Len(q)]
<1>1. Tail(q) \in Seq(S) /\ Len(Tail(q)) = Len(q) - 1 /\ Len(q) \in Nat
  BY HeadTailProperties, LenProperties
<1>2. \A i \in 1..Len(Tail(q)) : Tail(q)[i] = q[i + 1]
  BY HeadTailProperties
<1>3. Len(<<>>) = 0 /\ (Tail(q) # <<>> => Len(Tail(q)) \in Nat \ {0})
  BY <1>1, EmptySeq
<1>4. Head(q) = q[1]
  OBVIOUS
<1>5. ASSUME Tail(q) = <<>> PROVE Head(q) = q[Len(q)]
  <2>1. Len(q) - 1 = 0
    BY <1>1, <1>3, <1>5, Zenon
  <2>2. \A n \in Nat : n - 1 = 0 => n = 1
    OBVIOUS
  <2>3. Len(q) = 1
    BY <1>1, <2>1, <2>2, Zenon
  <2> QED
    BY <1>4, <2>3
<1>6. ASSUME Tail(q) # <<>> PROVE Tail(q)[Len(Tail(q))] = q[Len(q)]
  <2> DEFINE n == Len(Tail(q))
  <2>1. n \in 1..n /\ n + 1 = Len(q)
    BY <1>1, <1>3, <1>6
  <2>2. Tail(q)[n] = q[n + 1]
    BY <1>2, <2>1
  <2> QED
    BY <2>1, <2>2
<1> QED
  BY <1>5, <1>6

LEMMA ReadRead ==
  ASSUME TypeOK, ReadInv, NEW r \in Requests, Read(r)
  PROVE  ReadInv'
<1>1. RunTypes /\ RequestTypes
  BY TypeParts
<1>2. PICK s \in Runs : s = at[r]
  BY <1>1, AtARun DEF Read
<1>3. /\ queue[s] # <<>> /\ queue' = [queue EXCEPT ![s] = Tail(queue[s])]
      /\ IF Head(queue[s]) \in {"awaiting", "error", "end"}
           THEN Become(r, "idle", NoRun) ELSE UNCHANGED <<req, at>>
      /\ req[r] = "reading" /\ EventLoopFree
      /\ UNCHANGED <<loop, usable, reg, todo, shared>>
  BY <1>2 DEF Read, history, registry
<1>4. /\ \A q \in Requests \ {r} : req'[q] = req[q] /\ at'[q] = at[q]
      /\ req'[r] = "idle" \/ (req'[r] = "reading" /\ at'[r] = at[r])
      /\ Head(queue[s]) = "end" => req'[r] = "idle"
  BY <1>1, <1>3 DEF Become, RequestTypes
<1>5. \A u \in Runs : queue'[u] = IF u = s THEN Tail(queue[s]) ELSE queue[u]
  BY <1>1, <1>3 DEF RunTypes
<1>6. queue[s] \in Seq(Events)
  BY <1>1 DEF RunTypes
<1>7. /\ Tail(queue[s]) = <<>> => Head(queue[s]) = queue[s][Len(queue[s])]
      /\ Tail(queue[s]) # <<>> => Tail(queue[s])[Len(Tail(queue[s]))] = queue[s][Len(queue[s])]
  BY <1>3, <1>6, LastStays
<1>8. StartedInv'
  BY <1>3, <1>4 DEF ReadInv, StartedInv
<1>9. EndedInv'
  <2>1. \A q \in Requests : ~HasSent(q)'
    BY <1>3, <1>4 DEF HasSent, EventLoopFree
  <2> QED
    BY <1>3, <1>5, <1>7, <2>1 DEF ReadInv, EndedInv
<1>10. OneReaderInv'
  BY <1>3, <1>4 DEF ReadInv, OneReaderInv
<1>11. NoReaderInVain'
  <2> SUFFICES ASSUME NEW q \in Requests, req'[q] = "reading", loop'[at'[q]] = "ended",
                      queue'[at'[q]] = <<>>
               PROVE  at'[q] \in shared
    BY <1>3 DEF NoReaderInVain
  <2>1. req[q] = "reading" /\ at'[q] = at[q] /\ loop[at[q]] = "ended" /\ at[q] \in Runs
    BY <1>1, <1>3, <1>4, AtARun
  <2>2. CASE at[q] # s
    BY <1>5, <2>1, <2>2 DEF ReadInv, NoReaderInVain
  <2>3. CASE at[q] = s
    <3>1. Tail(queue[s]) = <<>>
      BY <1>5, <2>1, <2>3
    <3>2. Head(queue[s]) = "end"
      BY <1>3, <1>7, <2>1, <2>3, <3>1 DEF ReadInv, EndedInv
    <3>3. q # r
      BY <1>4, <3>2
    <3> QED
      BY <1>2, <1>3, <2>1, <2>3, <3>3 DEF ReadInv, OneReaderInv
  <2> QED
    BY <2>2, <2>3
<1> QED
  BY <1>8, <1>9, <1>10, <1>11 DEF ReadInv

LEMMA ReadRequest ==
  ASSUME TypeOK, ReadInv, NEW r \in Requests, RequestStep(r)
  PROVE  ReadInv'
<1>1. RequestTypes
  BY TypeParts
<1>2. CASE Send(r) \/ Clear(r)
  BY <1>2, ReadSendClear
<1>3. CASE Wake(r)
  BY <1>3, ReadWake
<1>4. CASE Read(r)
  BY <1>4, ReadRead
<1>5. CASE Ask(r) \/ PostResults(r) \/ SendFails(r) \/ TextEndsTurn(r) \/ Disconnect(r)
  <2>1. UNCHANGED <<queue, shared>>
    BY <1>5 DEF Ask, PostResults, SendFails, TextEndsTurn, Disconnect, runVars, history
  <2>2. /\ \A u \in Runs : reg'[u] \in {0, reg[u]}
        /\ \A u \in Runs : loop'[u] = loop[u] \/ (loop[u] = "off" /\ loop'[u] = "running")
        /\ \A q \in Requests \ {r} : req'[q] = req[q] /\ at'[q] = at[q] /\ todo'[q] = todo[q]
    BY RequestSteps
  <2>3. \A u \in Runs : usable'[u] => usable[u]
    <3>1. CASE PostResults(r)
      <4>1. PICK gone \in SUBSET Runs : Drop(gone)
        BY <3>1, PostResultsFinds DEF Finds
      <4> QED
        BY <4>1 DEF Drop
    <3>2. CASE ~PostResults(r)
      BY <1>5, <3>2 DEF Ask, SendFails, TextEndsTurn, Disconnect, runVars
    <3> QED
      BY <3>1, <3>2
  <2>4. CASE StartRun(r)
    BY <2>1, <2>2, <2>3, <2>4, StartTypes, ReadKept
  <2>5. CASE ~StartRun(r)
    <3>1. CASE TextEndsTurn(r) \/ Disconnect(r)
      <4>1. req'[r] = "idle"
        BY <1>1, <3>1 DEF TextEndsTurn, Disconnect, Become, RequestTypes
      <4> QED
        BY <2>1, <2>2, <2>3, <4>1, ReadKept
    <3>2. CASE PostResults(r)
      <4>1. \E u \in Runs : req' = [req EXCEPT ![r] = "inject"]
        BY <2>5, <3>2, PostResultsFinds DEF Finds, FindsRun, Become
      <4>2. req'[r] = "inject" /\ req[r] = "idle"
        BY <1>1, <3>2, <4>1 DEF PostResults, RequestTypes
      <4>3. Takes(r)
        BY <4>2, RequestSteps DEF GoesOn, Resuming
      <4> QED
        BY <2>1, <2>2, <2>3, <4>3, ReadKept
    <3> QED
      BY <1>5, <2>5, <3>1, <3>2 DEF Ask, SendFails
  <2> QED
    BY <2>4, <2>5
<1> QED
  BY <1>2, <1>3, <1>4, <1>5 DEF RequestStep, ResumeStep

LEMMA ReadStep == TypeOK /\ ReadInv /\ [Next]_vars => ReadInv'
<1> SUFFICES ASSUME TypeOK, ReadInv, [Next]_vars PROVE ReadInv'
  OBVIOUS
<1>1. CASE UNCHANGED vars
  BY <1>1 DEF ReadInv, StartedInv, EndedInv, OneReaderInv, HasSent, NoReaderInVain,
              vars, runVars, registry, reqVars, history
<1> QED
  BY <1>1, ReadCallTool, ReadRunStep, ReadRequest DEF Next, RequestStep

(* No reader waits in vain: what is left in the queue of a thread that is  *)
(* over ends with its None, results are not sent to such a run unless its  *)
(* None is still there, and only readers that share a queue can take it    *)
(* from each other.                                                        *)
THEOREM ReaderCorrect == Spec => []NoReaderInVain
<1>1. Init => ReadInv
  BY DEF Init, ReadInv, StartedInv, EndedInv, OneReaderInv, HasSent, NoReaderInVain
<1>2. ReadInv => NoReaderInVain
  BY DEF ReadInv
<1> QED
  BY <1>1, <1>2, TypeCorrect, ReadStep, PTL DEF Spec

=============================================================================
