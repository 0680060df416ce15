------------------------ MODULE AnthropicStreamProofs ------------------------
(***************************************************************************)
(* Proofs about the content blocks of a streamed answer.  Three invariants *)
(* build on each other: the types (TypeInv), the order of the blocks       *)
(* (OrderInv) and what the two counters say of the calls in them (CallInv).*)
(* The operators of the model are pure functions of the stream state, so   *)
(* that each has a lemma on what it keeps; a step composes those lemmas in *)
(* the order in which the code calls the functions.                        *)
(***************************************************************************)
EXTENDS AnthropicStream, FiniteSetTheorems, TLAPS

(* The blocks as the client may see them: at most the last is open, and it *)
(* is exactly when the state says that there is a current one; a tool's    *)
(* block, when there is one, is that current block.                        *)
Orderly(s) ==
  /\ s.tool # 0 <=> s.type = "tool_use"
  /\ s.tool # 0 => s.tool = Len(s.blocks)
  /\ s.type # "none" => Len(s.blocks) > 0
  /\ \A i \in 1..Len(s.blocks) :
       s.blocks[i].stops = IF i = Len(s.blocks) /\ s.type # "none" THEN 0 ELSE 1

(* Unless a native call met text or a parsed call, the blocks are in       *)
(* order; once the message has ended every one of them is stopped.         *)
OrderInv ==
  ~mixed => IF phase = "done" THEN \A i \in 1..Len(st.blocks) : st.blocks[i].stops = 1
                              ELSE Orderly(st)

(* No block of the message is a native call's.                             *)
NoNative(s) == \A i \in 1..Len(s.blocks) : s.blocks[i].kind # "native_tool"

(* Exactly one block carries arguments of call c.                          *)
Once(s, c) == \E i \in 1..Len(s.blocks) :
                /\ c \in s.blocks[i].calls
                /\ \A j \in 1..Len(s.blocks) : c \in s.blocks[j].calls => j = i

(* No block carries arguments of call c.                                   *)
Never(s, c) == \A i \in 1..Len(s.blocks) : c \notin s.blocks[i].calls

(* What the two counters say of the blocks, when n calls were begun and m  *)
(* are complete and nothing came amid a call: the complete ones were sent  *)
(* once each and pending counts them; the call that is not complete yet is *)
(* the one in the open tool block, or has sent nothing;                    *)
(* stream_tool_blocks_sent counts no call that was not sent.               *)
Counted(s, n, m) ==
  /\ s.pending = m
  /\ s.sent <= IF s.tool # 0 THEN m + 1 ELSE m
  /\ \A c \in 1..m : Once(s, c)
  /\ s.tool # 0 => /\ n = m + 1
                   /\ n \in s.blocks[s.tool].calls
                   /\ s.toolName = s.name[n]
                   /\ Once(s, n)
  /\ s.tool = 0 => \A c \in (m + 1)..n : Never(s, c)

(* In a message without native calls the counters agree with the blocks as *)
(* long as each call came alone, and in the end each call is in one block. *)
CallInv ==
  NoNative(st) =>
    /\ ~mixed
    /\ st.type # "native_tool"
    /\ ~crowded =>
         IF phase = "done" THEN (dropped => st.sent = closed) => \A c \in 1..closed : Once(st, c)
                           ELSE Counted(st, opened, closed)

(* A stream state whose indices point at blocks.                           *)
Sound(s) ==
  /\ s \in Streams
  /\ s.tool <= Len(s.blocks)
  /\ s.type # "none" => Len(s.blocks) > 0

(* t is s after blocks were stopped or begun that carry no call.           *)
Same(s, t) ==
  /\ t.pending = s.pending /\ t.sent = s.sent
  /\ t.name = s.name /\ t.toolName = s.toolName
  /\ Len(s.blocks) <= Len(t.blocks)
  /\ \A i \in 1..Len(t.blocks) :
       IF i <= Len(s.blocks)
       THEN t.blocks[i].calls = s.blocks[i].calls /\ t.blocks[i].kind = s.blocks[i].kind
       ELSE t.blocks[i].calls = {} /\ t.blocks[i].kind # "native_tool"

(* The fields of a stream state and of its blocks have their types.        *)
LEMMA BlocksType ==
  ASSUME NEW s \in Streams
  PROVE  /\ s.blocks \in Seq(Blocks) /\ Len(s.blocks) \in Nat
         /\ s.tool \in Nat /\ s.pending \in Nat /\ s.sent \in Nat
         /\ s.toolName \in Names /\ s.name \in [Calls -> Names]
         /\ s.type \in Kinds \cup {"none"}
         /\ \A i \in 1..Len(s.blocks) : /\ s.blocks[i] \in Blocks
                                        /\ s.blocks[i].stops \in Nat
                                        /\ s.blocks[i].kind \in Kinds
                                        /\ s.blocks[i].calls \in SUBSET Calls
<1>1. /\ s.blocks \in Seq(Blocks)
      /\ s.tool \in Nat /\ s.pending \in Nat /\ s.sent \in Nat
      /\ s.toolName \in Names /\ s.name \in [Calls -> Names]
      /\ s.type \in Kinds \cup {"none"}
  BY DEF Streams
<1>2. Len(s.blocks) \in Nat /\ \A i \in 1..Len(s.blocks) : s.blocks[i] \in Blocks
  BY <1>1
<1>3. \A b \in Blocks : b.stops \in Nat /\ b.kind \in Kinds /\ b.calls \in SUBSET Calls
  BY DEF Blocks
<1> QED BY <1>1, <1>2, <1>3

(* _emit_block_stop: one block's count of stops goes up, nothing else      *)
(* changes.                                                                *)
LEMMA StopFacts ==
  ASSUME NEW s \in Streams, NEW i \in 1..Len(s.blocks)
  PROVE  /\ Stop(s, i) \in Streams
         /\ Stop(s, i).type = s.type /\ Stop(s, i).tool = s.tool
         /\ Stop(s, i).toolName = s.toolName /\ Stop(s, i).name = s.name
         /\ Stop(s, i).pending = s.pending /\ Stop(s, i).sent = s.sent
         /\ Len(Stop(s, i).blocks) = Len(s.blocks)
         /\ \A j \in 1..Len(s.blocks) :
              /\ Stop(s, i).blocks[j].kind = s.blocks[j].kind
              /\ Stop(s, i).blocks[j].calls = s.blocks[j].calls
              /\ Stop(s, i).blocks[j].stops
                   = IF j = i THEN s.blocks[j].stops + 1 ELSE s.blocks[j].stops
<1> DEFINE b == s.blocks
<1> DEFINE e == [b[i] EXCEPT !.stops = @ + 1]
<1> DEFINE d == [b EXCEPT ![i] = e]
<1>1. b \in Seq(Blocks) /\ Len(b) \in Nat /\ b[i] \in Blocks /\ i \in 1..Len(b)  BY BlocksType
<1>2. /\ e \in Blocks /\ e.kind = b[i].kind /\ e.calls = b[i].calls
      /\ e.stops = b[i].stops + 1
  <2>1. PICK x \in Blocks : x = b[i]  BY <1>1
  <2>2. e = [x EXCEPT !.stops = @ + 1]  BY <2>1
  <2> HIDE DEF b, e
  <2> QED BY <2>1, <2>2 DEF Blocks
<1>3. /\ d \in Seq(Blocks) /\ Len(d) = Len(b)
      /\ \A j \in 1..Len(b) : d[j] = IF j = i THEN e ELSE b[j]
  <2> HIDE DEF b, e
  <2> QED BY <1>1, <1>2
<1>4. Stop(s, i) = [s EXCEPT !.blocks = d]  BY DEF Stop
<1>5. [s EXCEPT !.blocks = d] \in Streams
  <2> HIDE DEF d
  <2> QED BY <1>3 DEF Streams
<1>6. /\ Stop(s, i).type = s.type /\ Stop(s, i).tool = s.tool
      /\ Stop(s, i).toolName = s.toolName /\ Stop(s, i).name = s.name
      /\ Stop(s, i).pending = s.pending /\ Stop(s, i).sent = s.sent
      /\ Stop(s, i).blocks = d
  <2> HIDE DEF d
  <2> QED BY <1>4 DEF Streams
<1> HIDE DEF b, d, e
<1> QED BY <1>2, <1>3, <1>4, <1>5, <1>6 DEF b

(* A content_block_start: a block is appended and is the current one.      *)
LEMMA StartFacts ==
  ASSUME NEW s \in Streams, NEW k \in Kinds, NEW cs \in SUBSET Calls
  PROVE  /\ Start(s, k, cs) \in Streams
         /\ Start(s, k, cs).type = k /\ Start(s, k, cs).tool = s.tool
         /\ Start(s, k, cs).toolName = s.toolName /\ Start(s, k, cs).name = s.name
         /\ Start(s, k, cs).pending = s.pending /\ Start(s, k, cs).sent = s.sent
         /\ Len(Start(s, k, cs).blocks) = Len(s.blocks) + 1
         /\ \A j \in 1..Len(s.blocks) : Start(s, k, cs).blocks[j] = s.blocks[j]
         /\ Start(s, k, cs).blocks[Len(s.blocks) + 1] = [kind |-> k, stops |-> 0, calls |-> cs]
<1> DEFINE e == [kind |-> k, stops |-> 0, calls |-> cs]
<1> DEFINE d == Append(s.blocks, e)
<1>1. s.blocks \in Seq(Blocks) /\ Len(s.blocks) \in Nat  BY BlocksType
<1>2. e \in Blocks  BY DEF Blocks
<1>3. /\ d \in Seq(Blocks) /\ Len(d) = Len(s.blocks) + 1
      /\ \A j \in 1..Len(s.blocks) : d[j] = s.blocks[j]
      /\ d[Len(s.blocks) + 1] = e
  <2> HIDE DEF e
  <2> QED BY <1>1, <1>2
<1>4. Start(s, k, cs) = [s EXCEPT !.type = k, !.blocks = d]  BY DEF Start
<1> HIDE DEF d
<1>5. [s EXCEPT !.type = k, !.blocks = d] \in Streams  BY <1>3 DEF Streams
<1>6. /\ Start(s, k, cs).type = k /\ Start(s, k, cs).tool = s.tool
      /\ Start(s, k, cs).toolName = s.toolName /\ Start(s, k, cs).name = s.name
      /\ Start(s, k, cs).pending = s.pending /\ Start(s, k, cs).sent = s.sent
      /\ Start(s, k, cs).blocks = d
  BY <1>4 DEF Streams
<1> QED BY <1>3, <1>4, <1>5, <1>6

(* _close_block stops the current block, if there is one.                  *)
LEMMA CloseFacts ==
  ASSUME NEW s, Sound(s)
  PROVE  /\ Sound(CloseCurrent(s)) /\ Same(s, CloseCurrent(s))
         /\ CloseCurrent(s).type = "none" /\ CloseCurrent(s).tool = s.tool
         /\ Len(CloseCurrent(s).blocks) = Len(s.blocks)
         /\ \A j \in 1..Len(s.blocks) :
              CloseCurrent(s).blocks[j].stops
                = IF j = Len(s.blocks) /\ s.type # "none" THEN s.blocks[j].stops + 1
                                                          ELSE s.blocks[j].stops
<1>1. s \in Streams /\ Len(s.blocks) \in Nat  BY BlocksType DEF Sound
<1>2. CASE s.type = "none"
  BY <1>1, <1>2 DEF CloseCurrent, Sound, Same
<1>3. CASE s.type # "none"
  <2> DEFINE a == Stop(s, Len(s.blocks))
  <2>1. Len(s.blocks) \in 1..Len(s.blocks)  BY <1>1, <1>3 DEF Sound
  <2>2. CloseCurrent(s) = [a EXCEPT !.type = "none"]  BY <1>3 DEF CloseCurrent
  <2>3. a \in Streams  BY <1>1, <2>1, StopFacts
  <2>4. /\ a.tool = s.tool /\ a.toolName = s.toolName /\ a.name = s.name
        /\ a.pending = s.pending /\ a.sent = s.sent /\ Len(a.blocks) = Len(s.blocks)
        /\ \A j \in 1..Len(s.blocks) :
             /\ a.blocks[j].kind = s.blocks[j].kind /\ a.blocks[j].calls = s.blocks[j].calls
             /\ a.blocks[j].stops = IF j = Len(s.blocks) THEN s.blocks[j].stops + 1
                                                         ELSE s.blocks[j].stops
    BY <1>1, <2>1, StopFacts
  <2> HIDE DEF a
  <2>5. [a EXCEPT !.type = "none"] \in Streams  BY <2>3 DEF Streams
  <2>6. /\ CloseCurrent(s).type = "none" /\ CloseCurrent(s).tool = a.tool
        /\ CloseCurrent(s).toolName = a.toolName /\ CloseCurrent(s).name = a.name
        /\ CloseCurrent(s).pending = a.pending /\ CloseCurrent(s).sent = a.sent
        /\ CloseCurrent(s).blocks = a.blocks
    BY <2>2, <2>3 DEF Streams
  <2>7. Same(s, CloseCurrent(s))  BY <1>1, <2>4, <2>6 DEF Same
  <2> QED BY <1>1, <1>3, <2>2, <2>4, <2>5, <2>6, <2>7 DEF Sound
<1> QED BY <1>2, <1>3

(* After _close_block all blocks of an orderly stream are stopped.         *)
LEMMA CloseOrderly ==
  ASSUME NEW s, Sound(s), Orderly(s)
  PROVE  /\ \A i \in 1..Len(s.blocks) : CloseCurrent(s).blocks[i].stops = 1
         /\ s.tool = 0 => Orderly(CloseCurrent(s))
<1>1. s \in Streams /\ Len(s.blocks) \in Nat  BY BlocksType DEF Sound
<1> QED BY <1>1, CloseFacts DEF Orderly

(* _flush_open_stream_tool, with the block type taken back: no tool is     *)
(* open and an orderly stream stays orderly.                               *)
LEMMA EndToolFacts ==
  ASSUME NEW s, Sound(s)
  PROVE  /\ Sound(EndTool(s)) /\ Same(s, EndTool(s)) /\ EndTool(s).tool = 0
         /\ EndTool(s).type = IF s.tool = 0 THEN s.type ELSE "none"
         /\ Orderly(s) => Orderly(EndTool(s))
         /\ Len(EndTool(s).blocks) = Len(s.blocks)
<1>1. s \in Streams /\ Len(s.blocks) \in Nat  BY BlocksType DEF Sound
<1>2. CASE s.tool = 0
  BY <1>1, <1>2 DEF EndTool, Sound, Same
<1>3. CASE s.tool # 0
  <2> DEFINE a == Stop(s, s.tool)
  <2>1. s.tool \in 1..Len(s.blocks)  BY <1>1, <1>3, BlocksType DEF Sound
  <2>2. EndTool(s) = [[a EXCEPT !.tool = 0] EXCEPT !.type = "none"]
    BY <1>3 DEF EndTool, FlushTool
  <2>3. a \in Streams  BY <1>1, <2>1, StopFacts
  <2>4. /\ a.toolName = s.toolName /\ a.name = s.name
        /\ a.pending = s.pending /\ a.sent = s.sent /\ Len(a.blocks) = Len(s.blocks)
        /\ \A j \in 1..Len(s.blocks) :
             /\ a.blocks[j].kind = s.blocks[j].kind /\ a.blocks[j].calls = s.blocks[j].calls
             /\ a.blocks[j].stops = IF j = s.tool THEN s.blocks[j].stops + 1
                                                  ELSE s.blocks[j].stops
    BY <1>1, <2>1, StopFacts
  <2> HIDE DEF a
  <2>5. [[a EXCEPT !.tool = 0] EXCEPT !.type = "none"] \in Streams  BY <2>3 DEF Streams
  <2>6. /\ EndTool(s).type = "none" /\ EndTool(s).tool = 0
        /\ EndTool(s).toolName = a.toolName /\ EndTool(s).name = a.name
        /\ EndTool(s).pending = a.pending /\ EndTool(s).sent = a.sent
        /\ EndTool(s).blocks = a.blocks
    BY <2>2, <2>3 DEF Streams
  <2>7. Same(s, EndTool(s))  BY <1>1, <2>4, <2>6 DEF Same
  <2>8. Sound(EndTool(s))  BY <1>1, <2>2, <2>4, <2>5, <2>6 DEF Sound
  <2>9. Orderly(s) => Orderly(EndTool(s))  BY <1>1, <1>3, <2>4, <2>6 DEF Orderly
  <2> QED BY <1>3, <2>4, <2>6, <2>7, <2>8, <2>9
<1> QED BY <1>2, <1>3

(* Same is transitive.                                                     *)
LEMMA SameTrans ==
  ASSUME NEW s, NEW t, NEW u, Sound(s), Sound(t), Sound(u), Same(s, t), Same(t, u)
  PROVE  Same(s, u)
<1>1. Len(s.blocks) \in Nat /\ Len(t.blocks) \in Nat /\ Len(u.blocks) \in Nat
  BY BlocksType DEF Sound
<1>2. /\ u.pending = s.pending /\ u.sent = s.sent /\ u.name = s.name
      /\ u.toolName = s.toolName /\ Len(s.blocks) <= Len(u.blocks)
  BY <1>1 DEF Same
<1>3. ASSUME NEW i \in 1..Len(u.blocks)
      PROVE  IF i <= Len(s.blocks)
             THEN u.blocks[i].calls = s.blocks[i].calls /\ u.blocks[i].kind = s.blocks[i].kind
             ELSE u.blocks[i].calls = {} /\ u.blocks[i].kind # "native_tool"
  <2>1. CASE i <= Len(t.blocks)
    <3>1. /\ i \in 1..Len(t.blocks)
          /\ u.blocks[i].calls = t.blocks[i].calls /\ u.blocks[i].kind = t.blocks[i].kind
      BY <1>1, <2>1 DEF Same
    <3> QED BY <3>1 DEF Same
  <2>2. CASE ~(i <= Len(t.blocks))
    <3>1. ~(i <= Len(s.blocks))  BY <1>1, <2>2 DEF Same
    <3> QED BY <2>2, <3>1 DEF Same
  <2> QED BY <2>1, <2>2
<1> QED BY <1>2, <1>3 DEF Same

(* A block without calls that begins after the last one was stopped.       *)
LEMMA StartSame ==
  ASSUME NEW s, Sound(s), NEW k \in Kinds, k # "native_tool"
  PROVE  /\ Sound(Start(s, k, {})) /\ Same(s, Start(s, k, {}))
         /\ Start(s, k, {}).type = k /\ Start(s, k, {}).tool = s.tool
         /\ s.type = "none" /\ k # "tool_use" /\ Orderly(s) => Orderly(Start(s, k, {}))
<1>1. s \in Streams /\ Len(s.blocks) \in Nat /\ s.tool \in Nat  BY BlocksType DEF Sound
<1>0. PICK none \in SUBSET Calls : none = {}  OBVIOUS
<1> DEFINE t == Start(s, k, none)
<1>2. /\ t \in Streams /\ t.type = k /\ t.tool = s.tool
      /\ t.toolName = s.toolName /\ t.name = s.name
      /\ t.pending = s.pending /\ t.sent = s.sent
      /\ Len(t.blocks) = Len(s.blocks) + 1
      /\ \A j \in 1..Len(s.blocks) : t.blocks[j] = s.blocks[j]
      /\ t.blocks[Len(s.blocks) + 1] = [kind |-> k, stops |-> 0, calls |-> none]
  BY <1>1, StartFacts
<1> HIDE DEF t
<1>3. Sound(t)  BY <1>1, <1>2 DEF Sound
<1>4. Same(s, t)  BY <1>0, <1>1, <1>2 DEF Same
<1>5. s.type = "none" /\ k # "tool_use" /\ Orderly(s) => Orderly(t)
  BY <1>1, <1>2 DEF Orderly, Kinds
<1> QED BY <1>0, <1>2, <1>3, <1>4, <1>5 DEF t

(* _send_thinking_delta ends an open tool block, touches no call, and      *)
(* keeps the order.                                                        *)
LEMMA ThinkingFacts ==
  ASSUME NEW s, Sound(s)
  PROVE  /\ Sound(Thinking(s)) /\ Same(s, Thinking(s))
         /\ Thinking(s).type = "thinking" /\ Thinking(s).tool = 0
         /\ Orderly(s) => Orderly(Thinking(s))
<1> DEFINE a == EndTool(s)
           b == CloseCurrent(a)
<1>1. Sound(a) /\ Same(s, a) /\ a.tool = 0 /\ (Orderly(s) => Orderly(a))
  BY EndToolFacts
<1>2. Thinking(s) = IF a.type = "thinking" THEN a ELSE Start(b, "thinking", {})
  BY DEF Thinking
<1> HIDE DEF a
<1>3. /\ Sound(b) /\ Same(a, b) /\ b.type = "none" /\ b.tool = 0
      /\ Orderly(s) => Orderly(b)
  BY <1>1, CloseFacts, CloseOrderly
<1> HIDE DEF b
<1> DEFINE t == Start(b, "thinking", {})
<1>4. /\ Sound(t) /\ Same(b, t) /\ (Orderly(s) => Orderly(t))
      /\ t.type = "thinking" /\ t.tool = 0
  BY <1>3, StartSame DEF Kinds
<1> HIDE DEF t
<1>5. Same(s, t)  BY <1>1, <1>3, <1>4, SameTrans
<1> QED BY <1>1, <1>2, <1>4, <1>5 DEF t

(* _emit_safe_text_delta likewise; the order only if the current block is  *)
(* not a native call's, which it does not close.                           *)
LEMMA TextFacts ==
  ASSUME NEW s, Sound(s)
  PROVE  /\ Sound(Text(s)) /\ Same(s, Text(s))
         /\ Text(s).type = "text" /\ Text(s).tool = 0
         /\ s.type # "native_tool" /\ Orderly(s) => Orderly(Text(s))
<1> DEFINE a == EndTool(s)
           b == IF a.type = "thinking" THEN CloseCurrent(a) ELSE a
<1>1. /\ Sound(a) /\ Same(s, a) /\ a.tool = 0 /\ (Orderly(s) => Orderly(a))
      /\ s.type # "native_tool" => a.type # "native_tool"
  BY EndToolFacts
<1>2. Text(s) = IF b.type = "text" THEN b ELSE Start(b, "text", {})
  BY DEF Text
<1> HIDE DEF a
<1>3. /\ Sound(b) /\ Same(s, b) /\ b.tool = 0 /\ (Orderly(s) => Orderly(b))
      /\ s.type # "native_tool" => b.type \notin {"native_tool", "thinking"}
  BY <1>1, CloseFacts, CloseOrderly, SameTrans
<1> HIDE DEF b
<1>4. s.type # "native_tool" /\ Orderly(s) /\ b.type # "text" => b.type = "none"
  BY <1>3, BlocksType DEF Orderly, Kinds, Sound
<1> DEFINE t == Start(b, "text", {})
<1>5. /\ Sound(t) /\ Same(b, t)
      /\ (s.type # "native_tool" /\ Orderly(s) /\ b.type # "text" => Orderly(t))
      /\ t.type = "text" /\ t.tool = 0
  BY <1>3, <1>4, StartSame DEF Kinds
<1> HIDE DEF t
<1>6. Same(s, t)  BY <1>3, <1>5, SameTrans
<1> QED BY <1>2, <1>3, <1>5, <1>6 DEF t

(* _flush_open_stream_tool stops the tool's block and leaves the block     *)
(* type.                                                                   *)
LEMMA FlushFacts ==
  ASSUME NEW s, Sound(s)
  PROVE  /\ FlushTool(s) \in Streams /\ FlushTool(s).tool = 0 /\ FlushTool(s).type = s.type
         /\ FlushTool(s).name = s.name /\ FlushTool(s).sent = s.sent
         /\ FlushTool(s).pending = s.pending
         /\ Len(FlushTool(s).blocks) = Len(s.blocks)
         /\ \A j \in 1..Len(s.blocks) :
              /\ FlushTool(s).blocks[j].kind = s.blocks[j].kind
              /\ FlushTool(s).blocks[j].calls = s.blocks[j].calls
              /\ FlushTool(s).blocks[j].stops
                   = IF j = s.tool THEN s.blocks[j].stops + 1 ELSE s.blocks[j].stops
<1>1. s \in Streams /\ Len(s.blocks) \in Nat /\ s.tool \in Nat  BY BlocksType DEF Sound
<1>2. CASE s.tool = 0
  BY <1>1, <1>2 DEF FlushTool
<1>3. CASE s.tool # 0
  <2> DEFINE a == Stop(s, s.tool)
  <2>1. s.tool \in 1..Len(s.blocks)  BY <1>1, <1>3 DEF Sound
  <2>2. FlushTool(s) = [a EXCEPT !.tool = 0]  BY <1>3 DEF FlushTool
  <2>3. /\ a \in Streams /\ a.type = s.type /\ a.name = s.name
        /\ a.pending = s.pending /\ a.sent = s.sent /\ Len(a.blocks) = Len(s.blocks)
        /\ \A j \in 1..Len(s.blocks) :
             /\ a.blocks[j].kind = s.blocks[j].kind /\ a.blocks[j].calls = s.blocks[j].calls
             /\ a.blocks[j].stops = IF j = s.tool THEN s.blocks[j].stops + 1
                                                  ELSE s.blocks[j].stops
    BY <1>1, <2>1, StopFacts
  <2> HIDE DEF a
  <2>4. /\ FlushTool(s) \in Streams /\ FlushTool(s).tool = 0 /\ FlushTool(s).type = a.type
        /\ FlushTool(s).name = a.name /\ FlushTool(s).sent = a.sent
        /\ FlushTool(s).pending = a.pending /\ FlushTool(s).blocks = a.blocks
    BY <2>2, <2>3 DEF Streams
  <2> QED BY <2>3, <2>4
<1> QED BY <1>2, <1>3

(* The block begun for a streamed call is the last one and the tool's.     *)
LEMMA BeginFacts ==
  ASSUME NEW s \in Streams, NEW c \in Calls
  PROVE  /\ BeginTool(s, c) \in Streams /\ BeginTool(s, c).type = "tool_use"
         /\ BeginTool(s, c).tool = Len(s.blocks) + 1
         /\ BeginTool(s, c).toolName = s.name[c] /\ BeginTool(s, c).name = s.name
         /\ BeginTool(s, c).pending = s.pending /\ BeginTool(s, c).sent = s.sent
         /\ Len(BeginTool(s, c).blocks) = Len(s.blocks) + 1
         /\ \A j \in 1..Len(s.blocks) : BeginTool(s, c).blocks[j] = s.blocks[j]
         /\ BeginTool(s, c).blocks[Len(s.blocks) + 1]
              = [kind |-> "tool_use", stops |-> 0, calls |-> {c}]
<1>0. PICK one \in SUBSET Calls, k \in Kinds : one = {c} /\ k = "tool_use"  BY DEF Kinds
<1> DEFINE t == Start(s, k, one)
<1>1. Len(s.blocks) \in Nat /\ s.name[c] \in Names  BY BlocksType
<1>3. /\ t \in Streams /\ t.type = k /\ t.name = s.name
      /\ t.pending = s.pending /\ t.sent = s.sent
      /\ Len(t.blocks) = Len(s.blocks) + 1
      /\ \A j \in 1..Len(s.blocks) : t.blocks[j] = s.blocks[j]
      /\ t.blocks[Len(s.blocks) + 1] = [kind |-> k, stops |-> 0, calls |-> one]
  BY StartFacts
<1>4. BeginTool(s, c) = [t EXCEPT !.tool = Len(s.blocks) + 1, !.toolName = s.name[c]]
  BY <1>0 DEF BeginTool
<1> HIDE DEF t
<1>6. BeginTool(s, c) \in Streams
  <2>1. PICK n \in Nat, x \in Names : n = Len(s.blocks) + 1 /\ x = s.name[c]  BY <1>1
  <2>2. [t EXCEPT !.tool = n, !.toolName = x] \in Streams  BY <1>3 DEF Streams
  <2> QED BY <1>4, <2>1, <2>2
<1>5. /\ BeginTool(s, c).type = t.type
      /\ BeginTool(s, c).tool = Len(s.blocks) + 1
      /\ BeginTool(s, c).toolName = s.name[c] /\ BeginTool(s, c).name = t.name
      /\ BeginTool(s, c).pending = t.pending /\ BeginTool(s, c).sent = t.sent
      /\ BeginTool(s, c).blocks = t.blocks
  BY <1>3, <1>4 DEF Streams
<1> QED BY <1>0, <1>3, <1>5, <1>6

(* A piece of the arguments of c goes to block i.                          *)
Carry(s, i, c) == [s EXCEPT !.blocks[i].calls = @ \cup {c}]

(* That piece changes the calls of that block and nothing else.            *)
LEMMA CarryFacts ==
  ASSUME NEW s \in Streams, NEW i \in 1..Len(s.blocks), NEW c \in Calls
  PROVE  /\ Carry(s, i, c) \in Streams
         /\ Carry(s, i, c).type = s.type /\ Carry(s, i, c).tool = s.tool
         /\ Carry(s, i, c).toolName = s.toolName /\ Carry(s, i, c).name = s.name
         /\ Carry(s, i, c).pending = s.pending /\ Carry(s, i, c).sent = s.sent
         /\ Len(Carry(s, i, c).blocks) = Len(s.blocks)
         /\ \A j \in 1..Len(s.blocks) :
              /\ Carry(s, i, c).blocks[j].kind = s.blocks[j].kind
              /\ Carry(s, i, c).blocks[j].stops = s.blocks[j].stops
              /\ Carry(s, i, c).blocks[j].calls
                   = IF j = i THEN s.blocks[j].calls \cup {c} ELSE s.blocks[j].calls
<1> DEFINE b == s.blocks
<1> DEFINE e == [b[i] EXCEPT !.calls = @ \cup {c}]
<1> DEFINE d == [b EXCEPT ![i] = e]
<1>1. b \in Seq(Blocks) /\ Len(b) \in Nat /\ b[i] \in Blocks /\ i \in 1..Len(b)
  BY BlocksType
<1>2. /\ e \in Blocks /\ e.kind = b[i].kind /\ e.stops = b[i].stops
      /\ e.calls = b[i].calls \cup {c}
  BY <1>1 DEF Blocks
<1>3. /\ d \in Seq(Blocks) /\ Len(d) = Len(b)
      /\ \A j \in 1..Len(b) : d[j] = IF j = i THEN e ELSE b[j]
  <2> HIDE DEF b, e
  <2> QED BY <1>1, <1>2
<1>4. Carry(s, i, c) = [s EXCEPT !.blocks = d]  BY DEF Carry
<1>5. [s EXCEPT !.blocks = d] \in Streams
  <2> HIDE DEF d
  <2> QED BY <1>3 DEF Streams
<1>6. /\ Carry(s, i, c).type = s.type /\ Carry(s, i, c).tool = s.tool
      /\ Carry(s, i, c).toolName = s.toolName /\ Carry(s, i, c).name = s.name
      /\ Carry(s, i, c).pending = s.pending /\ Carry(s, i, c).sent = s.sent
      /\ Carry(s, i, c).blocks = d
  <2> HIDE DEF d
  <2> QED BY <1>4 DEF Streams
<1> HIDE DEF b, d, e
<1> QED BY <1>2, <1>3, <1>4, <1>5, <1>6 DEF b

(* A further piece for a call that the block carries changes no block's    *)
(* calls.                                                                  *)
LEMMA CarryAgain ==
  ASSUME NEW s \in Streams, NEW i \in 1..Len(s.blocks), NEW c \in Calls,
         c \in s.blocks[i].calls
  PROVE  \A j \in 1..Len(s.blocks) : Carry(s, i, c).blocks[j].calls = s.blocks[j].calls
<1> DEFINE t == Carry(s, i, c)
<1>1. ASSUME NEW j \in 1..Len(s.blocks)
      PROVE  t.blocks[j].calls
               = IF j = i THEN s.blocks[j].calls \cup {c} ELSE s.blocks[j].calls
  BY CarryFacts, Zenon
<1> HIDE DEF t
<1>2. s.blocks[i].calls \cup {c} = s.blocks[i].calls  OBVIOUS
<1>3. \A j \in 1..Len(s.blocks) : t.blocks[j].calls = s.blocks[j].calls  BY <1>1, <1>2
<1> QED BY <1>3 DEF t

(* The blocks carry only calls up to the n-th.                             *)
Bounded(s, n) == \A i \in 1..Len(s.blocks) : s.blocks[i].calls \subseteq 1..n

(* t is s after pieces of arguments were applied to it.                    *)
Kept(s, t) ==
  /\ t.name = s.name /\ t.pending = s.pending /\ t.sent = s.sent
  /\ Len(s.blocks) <= Len(t.blocks)
  /\ NoNative(t) => NoNative(s)
  /\ NoNative(t) /\ s.type # "native_tool" => t.type # "native_tool"
  /\ Orderly(s) => Orderly(t)

(* What Same keeps of the calls that the blocks carry.                     *)
LEMMA SameKeeps ==
  ASSUME NEW s, NEW t, Sound(s), Sound(t), Same(s, t)
  PROVE  /\ NoNative(t) <=> NoNative(s)
         /\ \A n \in Nat : Bounded(s, n) => Bounded(t, n)
         /\ \A c \in Calls : (Once(s, c) => Once(t, c)) /\ (Never(s, c) => Never(t, c))
<1>1. Len(s.blocks) \in Nat /\ Len(t.blocks) \in Nat  BY BlocksType DEF Sound
<1>2. NoNative(t) <=> NoNative(s)
  <2>1. \A i \in 1..Len(t.blocks) : i \in 1..Len(s.blocks) \/ t.blocks[i].kind # "native_tool"
    BY <1>1 DEF Same
  <2>2. \A i \in 1..Len(s.blocks) : /\ i \in 1..Len(t.blocks)
                                    /\ t.blocks[i].kind = s.blocks[i].kind
    BY <1>1 DEF Same
  <2> QED BY <2>1, <2>2 DEF NoNative
<1>3. \A n \in Nat : Bounded(s, n) => Bounded(t, n)
  <2> SUFFICES ASSUME NEW n \in Nat, Bounded(s, n), NEW i \in 1..Len(t.blocks)
               PROVE  t.blocks[i].calls \subseteq 1..n
    BY DEF Bounded
  <2>1. CASE i <= Len(s.blocks)
    <3>1. t.blocks[i].calls = s.blocks[i].calls  BY <2>1 DEF Same
    <3>2. i \in 1..Len(s.blocks)  BY <1>1, <2>1
    <3> QED BY <3>1, <3>2 DEF Bounded
  <2>2. CASE ~(i <= Len(s.blocks))  BY <2>2 DEF Same
  <2> QED BY <2>1, <2>2
<1>4. ASSUME NEW c \in Calls  PROVE Once(s, c) => Once(t, c)
  <2> SUFFICES ASSUME Once(s, c)  PROVE Once(t, c)  OBVIOUS
  <2>1. PICK i \in 1..Len(s.blocks) :
          /\ c \in s.blocks[i].calls
          /\ \A j \in 1..Len(s.blocks) : c \in s.blocks[j].calls => j = i
    BY DEF Once
  <2>2. i \in 1..Len(t.blocks) /\ c \in t.blocks[i].calls  BY <1>1, <2>1 DEF Same
  <2>3. ASSUME NEW j \in 1..Len(t.blocks), c \in t.blocks[j].calls  PROVE j = i
    <3>1. j <= Len(s.blocks) /\ t.blocks[j].calls = s.blocks[j].calls
      BY <1>1, <2>3 DEF Same
    <3> QED BY <1>1, <2>1, <2>3, <3>1
  <2> QED BY <2>2, <2>3 DEF Once
<1>5. ASSUME NEW c \in Calls  PROVE Never(s, c) => Never(t, c)
  BY <1>1 DEF Same, Never
<1> QED BY <1>2, <1>3, <1>4, <1>5

(* A piece for the open block keeps the stream sound and orderly.          *)
LEMMA CarryKeeps ==
  ASSUME NEW s, Sound(s), NEW i \in 1..Len(s.blocks), NEW c \in Calls
  PROVE  /\ Sound(Carry(s, i, c)) /\ Kept(s, Carry(s, i, c))
         /\ \A n \in Nat : c <= n /\ Bounded(s, n) => Bounded(Carry(s, i, c), n)
<1> DEFINE t == Carry(s, i, c)
<1>1. s \in Streams /\ Len(s.blocks) \in Nat  BY BlocksType DEF Sound
<1>2. /\ t \in Streams /\ t.type = s.type /\ t.tool = s.tool /\ t.name = s.name
      /\ t.pending = s.pending /\ t.sent = s.sent /\ Len(t.blocks) = Len(s.blocks)
      /\ \A j \in 1..Len(s.blocks) :
           /\ t.blocks[j].kind = s.blocks[j].kind
           /\ t.blocks[j].stops = s.blocks[j].stops
           /\ t.blocks[j].calls
                = IF j = i THEN s.blocks[j].calls \cup {c} ELSE s.blocks[j].calls
  <2>1. /\ t \in Streams /\ t.type = s.type /\ t.tool = s.tool /\ t.name = s.name
        /\ t.pending = s.pending /\ t.sent = s.sent /\ Len(t.blocks) = Len(s.blocks)
    BY <1>1, CarryFacts
  <2>2. \A j \in 1..Len(s.blocks) :
          /\ t.blocks[j].kind = s.blocks[j].kind
          /\ t.blocks[j].stops = s.blocks[j].stops
          /\ t.blocks[j].calls
               = IF j = i THEN s.blocks[j].calls \cup {c} ELSE s.blocks[j].calls
    BY <1>1, CarryFacts
  <2> QED BY <2>1, <2>2
<1> HIDE DEF t
<1>3. Sound(t)  BY <1>1, <1>2 DEF Sound
<1>4. NoNative(t) => NoNative(s)  BY <1>1, <1>2 DEF NoNative
<1>5. Orderly(s) => Orderly(t)  BY <1>1, <1>2 DEF Orderly
<1>6. \A n \in Nat : c <= n /\ Bounded(s, n) => Bounded(t, n)
  <2> SUFFICES ASSUME NEW n \in Nat, c <= n, Bounded(s, n),
                      NEW j \in 1..Len(s.blocks), NEW x \in t.blocks[j].calls
               PROVE  x \in 1..n
    BY <1>2 DEF Bounded
  <2>1. c \in 1..n  BY DEF Calls
  <2> QED BY <1>2, <2>1 DEF Bounded
<1> QED BY <1>1, <1>2, <1>3, <1>4, <1>5, <1>6 DEF t, Kept

(* A new block for a call, after another tool's block was flushed, keeps   *)
(* the stream sound and orderly.                                           *)
LEMMA FlushBegin ==
  ASSUME NEW s, Sound(s), s.type \in {"none", "tool_use"}, NEW c \in Calls
  PROVE  LET t == BeginTool(FlushTool(s), c)
         IN /\ Sound(t) /\ Kept(s, t) /\ Len(t.blocks) = Len(s.blocks) + 1
            /\ t.tool = Len(t.blocks) /\ t.toolName = s.name[c] /\ t.type = "tool_use"
            /\ t.blocks[Len(t.blocks)].calls = {c}
            /\ \A j \in 1..Len(s.blocks) : t.blocks[j].calls = s.blocks[j].calls
            /\ \A n \in Nat : c <= n /\ Bounded(s, n) => Bounded(t, n)
<1> DEFINE a == FlushTool(s)
           t == BeginTool(a, c)
<1>1. s \in Streams /\ Len(s.blocks) \in Nat  BY BlocksType DEF Sound
<1>2. /\ a \in Streams /\ a.tool = 0 /\ a.type = s.type
      /\ a.name = s.name /\ a.sent = s.sent /\ a.pending = s.pending
      /\ Len(a.blocks) = Len(s.blocks)
      /\ \A j \in 1..Len(s.blocks) :
           /\ a.blocks[j].kind = s.blocks[j].kind
           /\ a.blocks[j].calls = s.blocks[j].calls
           /\ a.blocks[j].stops
                = IF j = s.tool THEN s.blocks[j].stops + 1 ELSE s.blocks[j].stops
  BY FlushFacts
<1> HIDE DEF a
<1>3. /\ t \in Streams /\ t.type = "tool_use" /\ t.tool = Len(a.blocks) + 1
      /\ t.toolName = a.name[c] /\ t.name = a.name
      /\ t.pending = a.pending /\ t.sent = a.sent
      /\ Len(t.blocks) = Len(a.blocks) + 1
      /\ \A j \in 1..Len(a.blocks) : t.blocks[j] = a.blocks[j]
      /\ t.blocks[Len(a.blocks) + 1] = [kind |-> "tool_use", stops |-> 0, calls |-> {c}]
  BY <1>2, BeginFacts
<1> HIDE DEF t
<1>4. Sound(t)  BY <1>1, <1>2, <1>3 DEF Sound
<1>5. /\ \A j \in 1..Len(s.blocks) :
           t.blocks[j].kind = s.blocks[j].kind /\ t.blocks[j].calls = s.blocks[j].calls
      /\ t.blocks[Len(t.blocks)].calls = {c} /\ Len(t.blocks) = Len(s.blocks) + 1
  BY <1>1, <1>2, <1>3
<1>6. NoNative(t) => NoNative(s)  BY <1>1, <1>5 DEF NoNative
<1>7. Orderly(s) => Orderly(t)
  <2> SUFFICES ASSUME Orderly(s)  PROVE Orderly(t)  OBVIOUS
  <2>1. \A j \in 1..Len(s.blocks) : a.blocks[j].stops = 1
    BY <1>1, <1>2 DEF Orderly
  <2>2. /\ Len(t.blocks) = Len(s.blocks) + 1 /\ t.tool = Len(t.blocks)
        /\ t.type = "tool_use" /\ t.blocks[Len(t.blocks)].stops = 0
    BY <1>1, <1>2, <1>3
  <2>3. \A j \in 1..Len(s.blocks) : t.blocks[j].stops = 1  BY <1>2, <1>3, <2>1
  <2>4. \A j \in 1..Len(t.blocks) : t.blocks[j].stops = IF j = Len(t.blocks) THEN 0 ELSE 1
    BY <1>1, <2>2, <2>3
  <2> QED BY <1>1, <2>2, <2>4 DEF Orderly
<1>8. \A n \in Nat : c <= n /\ Bounded(s, n) => Bounded(t, n)
  <2> SUFFICES ASSUME NEW n \in Nat, c <= n, Bounded(s, n),
                      NEW j \in 1..Len(t.blocks), NEW x \in t.blocks[j].calls
               PROVE  x \in 1..n
    BY DEF Bounded
  <2>1. c \in 1..n  BY DEF Calls
  <2>2. CASE j = Len(t.blocks)  BY <1>5, <2>1, <2>2
  <2>3. CASE j # Len(t.blocks)
    <3>1. j \in 1..Len(s.blocks)  BY <1>1, <1>5, <2>3
    <3> QED BY <1>5, <3>1 DEF Bounded
  <2> QED BY <2>2, <2>3
<1>9. t.tool = Len(t.blocks) /\ t.toolName = s.name[c] /\ t.type = "tool_use"
  BY <1>1, <1>2, <1>3
<1>10. Kept(s, t)  BY <1>1, <1>2, <1>3, <1>6, <1>7 DEF Kept
<1> QED BY <1>4, <1>5, <1>8, <1>9, <1>10 DEF t, a

(* Kept is transitive.                                                     *)
LEMMA KeptTrans ==
  ASSUME NEW s, NEW t, NEW u, Sound(s), Sound(t), Sound(u), Kept(s, t), Kept(t, u)
  PROVE  Kept(s, u)
<1>1. Len(s.blocks) \in Nat /\ Len(t.blocks) \in Nat /\ Len(u.blocks) \in Nat
  BY BlocksType DEF Sound
<1> QED BY <1>1 DEF Kept

(* A change of blocks that carry no call, and keeps the order, is one of   *)
(* Kept.                                                                   *)
LEMMA SameKept ==
  ASSUME NEW s, NEW t, Sound(s), Sound(t), Same(s, t), Orderly(s) => Orderly(t),
         t.type \in {s.type, "none"}
  PROVE  Kept(s, t)
BY SameKeeps DEF Kept, Same

(* The accumulator of _emit_streaming_tool_delta: a sound stream, and the  *)
(* block that the drained pieces go to, if there is one.                   *)
Taking(acc) ==
  /\ acc \in [s : Streams, into : Nat]
  /\ Sound(acc.s)
  /\ acc.into <= Len(acc.s.blocks)

(* _apply_streaming_tool_json_delta keeps the accumulator sound and the    *)
(* blocks in order, whichever of its three branches is taken.              *)
LEMMA DeltaFacts ==
  ASSUME NEW acc, Taking(acc), NEW c \in Calls
  PROVE  /\ Taking(ToolDelta(acc, c)) /\ Kept(acc.s, ToolDelta(acc, c).s)
         /\ \A n \in Nat : c <= n /\ Bounded(acc.s, n) => Bounded(ToolDelta(acc, c).s, n)
<1> DEFINE r == ToolDelta(acc, c)
           a == IF acc.s.type \in {"none", "tool_use"} THEN acc.s ELSE CloseCurrent(acc.s)
           other == a.tool # 0 /\ a.toolName # a.name[c]
<1>1. /\ acc.s \in Streams /\ Sound(acc.s) /\ acc.into \in Nat /\ Len(acc.s.blocks) \in Nat
      /\ acc.into <= Len(acc.s.blocks)
  BY BlocksType DEF Taking, Sound
<1>2. /\ Sound(a) /\ a.type \in {"none", "tool_use"} /\ Kept(acc.s, a)
      /\ \A n \in Nat : Bounded(acc.s, n) => Bounded(a, n)
  <2>1. CASE acc.s.type \in {"none", "tool_use"}
    BY <1>1, <2>1 DEF Kept
  <2>2. CASE acc.s.type \notin {"none", "tool_use"}
    <3>1. a = CloseCurrent(acc.s)  BY <2>2
    <3>2. Sound(a) /\ Same(acc.s, a) /\ a.type = "none"  BY <1>1, <3>1, CloseFacts
    <3>3. Orderly(acc.s) => Orderly(a)
      <4> SUFFICES ASSUME Orderly(acc.s)  PROVE Orderly(a)  OBVIOUS
      <4>1. acc.s.tool = 0  BY <2>2 DEF Orderly
      <4> QED BY <1>1, <3>1, <4>1, CloseOrderly
    <3> HIDE DEF a
    <3> QED BY <1>1, <3>2, <3>3, SameKept, SameKeeps
  <2> QED BY <2>1, <2>2
<1>3. a \in Streams /\ Len(a.blocks) \in Nat /\ a.tool \in Nat /\ a.tool <= Len(a.blocks)
  BY <1>2, BlocksType DEF Sound
<1>4. CASE acc.into # 0
  <2>1. acc.into \in 1..Len(acc.s.blocks)  BY <1>1, <1>4
  <2>2. r = [acc EXCEPT !.s = Carry(acc.s, acc.into, c)]
    BY <1>4 DEF ToolDelta, Carry
  <2> DEFINE t == Carry(acc.s, acc.into, c)
  <2>3. /\ Sound(t) /\ Kept(acc.s, t) /\ t \in Streams /\ Len(t.blocks) = Len(acc.s.blocks)
        /\ \A n \in Nat : c <= n /\ Bounded(acc.s, n) => Bounded(t, n)
    BY <1>1, <2>1, CarryKeeps, CarryFacts
  <2> HIDE DEF t
  <2>4. r = [acc EXCEPT !.s = t] BY <2>2 DEF t
  <2> HIDE DEF r
  <2>5. r.s = t /\ r.into = acc.into /\ r \in [s : Streams, into : Nat]
    BY <1>1, <2>3, <2>4 DEF Taking
  <2> QED BY <1>1, <2>3, <2>5 DEF Taking, r
<1>5. CASE acc.into = 0 /\ a.tool # 0 /\ ~other
  <2>1. a.tool \in 1..Len(a.blocks)  BY <1>3, <1>5
  <2>2. r = [acc EXCEPT !.s = Carry(a, a.tool, c)]
    BY <1>5 DEF ToolDelta, Carry
  <2> HIDE DEF a
  <2> DEFINE t == Carry(a, a.tool, c)
  <2>3. /\ Sound(t) /\ Kept(a, t) /\ t \in Streams
        /\ \A n \in Nat : c <= n /\ Bounded(a, n) => Bounded(t, n)
    BY <1>2, <1>3, <2>1, CarryKeeps, CarryFacts
  <2> HIDE DEF t
  <2>4. r = [acc EXCEPT !.s = t] BY <2>2 DEF t
  <2> HIDE DEF r
  <2>5. r.s = t /\ r.into = 0 /\ r \in [s : Streams, into : Nat]
    BY <1>1, <1>5, <2>3, <2>4 DEF Taking
  <2>6. Kept(acc.s, t)  BY <1>1, <1>2, <2>3, KeptTrans
  <2>7. Len(t.blocks) \in Nat  BY <2>3, BlocksType
  <2> QED BY <1>1, <1>2, <2>3, <2>5, <2>6, <2>7 DEF Taking, r
<1>6. CASE acc.into = 0 /\ (a.tool = 0 \/ other)
  <2> DEFINE t == BeginTool(FlushTool(a), c)
             i == IF other THEN a.tool ELSE 0
  <2>1. r = [s |-> t, into |-> i]
    BY <1>6 DEF ToolDelta
  <2>2. i \in Nat /\ i <= Len(a.blocks)  BY <1>3
  <2> HIDE DEF a, i
  <2>3. /\ Sound(t) /\ Kept(a, t) /\ Len(t.blocks) = Len(a.blocks) + 1
        /\ \A n \in Nat : c <= n /\ Bounded(a, n) => Bounded(t, n)
    BY <1>2, FlushBegin
  <2> HIDE DEF t
  <2> HIDE DEF r
  <2>4. r.s = t /\ r.into = i /\ r \in [s : Streams, into : Nat]
    BY <2>1, <2>2, <2>3 DEF Sound
  <2>5. Kept(acc.s, t)  BY <1>1, <1>2, <2>3, KeptTrans
  <2> QED BY <1>2, <1>3, <2>2, <2>3, <2>4, <2>5 DEF Taking, r
<1> QED BY <1>4, <1>5, <1>6, <1>1

(* So does _emit_streaming_tool_delta with all the pieces of an event.     *)
LEMMA ToolDeltasFacts ==
  ASSUME NEW s, Sound(s), NEW f \in Nat, NEW pieces \in SUBSET Calls
  PROVE  LET t == ToolDeltas(s, f, pieces)
         IN /\ Sound(t)
            /\ NoNative(t) => NoNative(s)
            /\ NoNative(t) /\ s.type # "native_tool" => t.type # "native_tool"
            /\ Orderly(s) => Orderly(t)
            /\ \A n \in Nat : (\A c \in pieces : c <= n) /\ Bounded(s, n) => Bounded(t, n)
<1> DEFINE zero == [s |-> s, into |-> 0]
           one == Piece(zero, f, pieces)
           two == Piece(one, f + 1, pieces)
           three == Piece(two, f + 2, pieces)
<1>1. s \in Streams /\ Len(s.blocks) \in Nat  BY BlocksType DEF Sound
<1>2. Taking(zero) /\ zero.s = s  BY <1>1 DEF Taking, Sound
<1> HIDE DEF zero
<1>3. ASSUME NEW acc, Taking(acc), NEW c
      PROVE  /\ Taking(Piece(acc, c, pieces)) /\ Kept(acc.s, Piece(acc, c, pieces).s)
             /\ \A n \in Nat : (\A d \in pieces : d <= n) /\ Bounded(acc.s, n)
                                  => Bounded(Piece(acc, c, pieces).s, n)
  <2>1. CASE c \in pieces  BY <1>3, <2>1, DeltaFacts DEF Piece
  <2>2. CASE c \notin pieces
    <3>1. Len(acc.s.blocks) \in Nat  BY <1>3, BlocksType DEF Taking, Sound
    <3> QED BY <1>3, <2>2, <3>1 DEF Piece, Kept
  <2> QED BY <2>1, <2>2
<1>4. /\ Taking(one) /\ Kept(s, one.s)
      /\ \A n \in Nat : (\A d \in pieces : d <= n) /\ Bounded(s, n) => Bounded(one.s, n)
  BY <1>2, <1>3
<1> HIDE DEF one
<1>5. /\ Taking(two) /\ Kept(one.s, two.s)
      /\ \A n \in Nat : (\A d \in pieces : d <= n) /\ Bounded(one.s, n) => Bounded(two.s, n)
  BY <1>3, <1>4
<1> HIDE DEF two
<1>6. /\ Taking(three) /\ Kept(two.s, three.s)
      /\ \A n \in Nat : (\A d \in pieces : d <= n) /\ Bounded(two.s, n) => Bounded(three.s, n)
  BY <1>3, <1>5
<1> HIDE DEF three
<1> DEFINE u == three.s
<1>7. Sound(one.s) /\ Sound(two.s) /\ Sound(u)  BY <1>4, <1>5, <1>6 DEF Taking
<1>8. Kept(s, u)
  <2>1. Kept(s, two.s)  BY <1>4, <1>5, <1>7, KeptTrans
  <2> QED BY <1>6, <1>7, <2>1, KeptTrans
<1>9. \A n \in Nat : (\A d \in pieces : d <= n) /\ Bounded(s, n) => Bounded(u, n)
  BY <1>4, <1>5, <1>6
<1> DEFINE t == ToolDeltas(s, f, pieces)
<1>10. t = [u EXCEPT !.sent = IF s.tool = 0 /\ u.tool # 0 THEN @ + 1 ELSE @]
  BY DEF ToolDeltas, three, two, one, zero
<1> HIDE DEF t, u
<1>11. /\ t \in Streams /\ t.type = u.type /\ t.tool = u.tool /\ t.blocks = u.blocks
  <2>1. PICK m \in Nat : m = IF s.tool = 0 /\ u.tool # 0 THEN u.sent + 1 ELSE u.sent
    BY <1>7, BlocksType DEF Sound
  <2>2. t = [u EXCEPT !.sent = m]  BY <1>10, <2>1
  <2> QED BY <1>7, <2>2 DEF Sound, Streams
<1> QED BY <1>7, <1>8, <1>9, <1>11 DEF t, Sound, Kept, NoNative, Orderly, Bounded

(* The calls from one number to another.                                   *)
LEMMA BetweenFacts ==
  ASSUME NEW n \in Nat, NEW m \in Nat, n <= m, m <= MaxCalls
  PROVE  /\ Between(n, m) \in Seq(Calls) /\ Len(Between(n, m)) = m - n
         /\ \A i \in 1..(m - n) : Between(n, m)[i] = n + i
<1>1. m - n \in Nat  OBVIOUS
<1>2. \A i \in 1..(m - n) : n + i \in Calls  BY StreamAssumption DEF Calls
<1>3. Between(n, m) \in Seq(Calls) /\ Len(Between(n, m)) = m - n
  BY <1>1, <1>2 DEF Between
<1> QED BY <1>3 DEF Between

(* _send_tool_use_blocks appends one stopped block for each call.          *)
LEMMA SendFacts ==
  ASSUME NEW s \in Streams, NEW cs \in Seq(Calls)
  PROVE  LET t == SendWhole(s, cs)
         IN /\ t \in Streams /\ t.type = s.type /\ t.tool = s.tool /\ t.sent = s.sent
            /\ t.toolName = s.toolName /\ t.name = s.name /\ t.pending = s.pending
            /\ Len(t.blocks) = Len(s.blocks) + Len(cs)
            /\ \A j \in 1..Len(s.blocks) : t.blocks[j] = s.blocks[j]
            /\ \A i \in 1..Len(cs) : t.blocks[Len(s.blocks) + i]
                 = [kind |-> "tool_use", stops |-> 1, calls |-> {cs[i]}]
<1> DEFINE whole == [i \in DOMAIN cs |-> [kind |-> "tool_use", stops |-> 1, calls |-> {cs[i]}]]
           d == s.blocks \o whole
           t == SendWhole(s, cs)
<1>1. s.blocks \in Seq(Blocks) /\ Len(s.blocks) \in Nat /\ Len(cs) \in Nat  BY BlocksType
<1>2. \A i \in 1..Len(cs) :
        [kind |-> "tool_use", stops |-> 1, calls |-> {cs[i]}] \in Blocks
  BY DEF Blocks, Kinds
<1>3. whole \in Seq(Blocks) /\ Len(whole) = Len(cs)
  BY <1>1, <1>2
<1>4. \A i \in 1..Len(cs) : whole[i] = [kind |-> "tool_use", stops |-> 1, calls |-> {cs[i]}]
  <2>1. DOMAIN cs = 1..Len(cs)  OBVIOUS
  <2> QED BY <2>1
<1>5. t = [s EXCEPT !.blocks = d]  BY DEF SendWhole
<1> HIDE DEF whole
<1>6. /\ d \in Seq(Blocks) /\ Len(d) = Len(s.blocks) + Len(cs)
      /\ \A j \in 1..Len(s.blocks) : d[j] = s.blocks[j]
      /\ \A i \in 1..Len(cs) : d[Len(s.blocks) + i] = whole[i]
  BY <1>1, <1>3
<1> HIDE DEF d, t
<1>7. /\ t \in Streams /\ t.type = s.type /\ t.tool = s.tool /\ t.sent = s.sent
      /\ t.toolName = s.toolName /\ t.name = s.name /\ t.pending = s.pending
      /\ t.blocks = d
  BY <1>5, <1>6 DEF Streams
<1> QED BY <1>4, <1>6, <1>7 DEF t

(* What _send_tool_use_blocks keeps.                                       *)
LEMMA SendKeeps ==
  ASSUME NEW s, Sound(s), NEW cs \in Seq(Calls)
  PROVE  LET t == SendWhole(s, cs)
         IN /\ Sound(t) /\ (NoNative(t) => NoNative(s))
            /\ s.type = "none" /\ Orderly(s) => Orderly(t)
            /\ (\A j \in 1..Len(s.blocks) : s.blocks[j].stops = 1)
                 => \A j \in 1..Len(t.blocks) : t.blocks[j].stops = 1
            /\ \A n \in Nat : (\A i \in 1..Len(cs) : cs[i] <= n) /\ Bounded(s, n)
                                => Bounded(t, n)
<1> DEFINE t == SendWhole(s, cs)
<1>1. s \in Streams /\ Len(s.blocks) \in Nat /\ Len(cs) \in Nat /\ s.tool \in Nat
  BY BlocksType DEF Sound
<1>2. /\ t \in Streams /\ t.type = s.type /\ t.tool = s.tool
      /\ Len(t.blocks) = Len(s.blocks) + Len(cs)
      /\ \A j \in 1..Len(s.blocks) : t.blocks[j] = s.blocks[j]
      /\ \A i \in 1..Len(cs) : t.blocks[Len(s.blocks) + i]
           = [kind |-> "tool_use", stops |-> 1, calls |-> {cs[i]}]
  BY <1>1, SendFacts
<1> HIDE DEF t
<1>3. Sound(t)  BY <1>1, <1>2 DEF Sound
<1>4. NoNative(t) => NoNative(s)  BY <1>1, <1>2 DEF NoNative
<1>5. ASSUME NEW j \in 1..Len(t.blocks), j > Len(s.blocks)
      PROVE  \E i \in 1..Len(cs) : t.blocks[j].stops = 1 /\ t.blocks[j].calls = {cs[i]}
  <2>1. PICK i \in 1..Len(cs) : j = Len(s.blocks) + i
    <3>1. j - Len(s.blocks) \in 1..Len(cs) /\ j = Len(s.blocks) + (j - Len(s.blocks))
      BY <1>1, <1>2, <1>5
    <3> QED BY <3>1
  <2>2. t.blocks[j] = [kind |-> "tool_use", stops |-> 1, calls |-> {cs[i]}]  BY <1>2, <2>1
  <2>3. t.blocks[j].stops = 1 /\ t.blocks[j].calls = {cs[i]}  BY <2>2
  <2> QED BY <2>3
<1>6. (\A j \in 1..Len(s.blocks) : s.blocks[j].stops = 1)
        => \A j \in 1..Len(t.blocks) : t.blocks[j].stops = 1
  <2> SUFFICES ASSUME \A j \in 1..Len(s.blocks) : s.blocks[j].stops = 1,
                      NEW j \in 1..Len(t.blocks)
               PROVE  t.blocks[j].stops = 1
    OBVIOUS
  <2>1. CASE j <= Len(s.blocks)  BY <1>1, <1>2, <2>1
  <2>2. CASE j > Len(s.blocks)  BY <1>5, <2>2
  <2> QED BY <1>1, <2>1, <2>2
<1>7. s.type = "none" /\ Orderly(s) => Orderly(t)
  BY <1>1, <1>2, <1>6 DEF Orderly
<1>8. \A n \in Nat : (\A i \in 1..Len(cs) : cs[i] <= n) /\ Bounded(s, n) => Bounded(t, n)
  <2> SUFFICES ASSUME NEW n \in Nat, \A i \in 1..Len(cs) : cs[i] <= n, Bounded(s, n),
                      NEW j \in 1..Len(t.blocks)
               PROVE  t.blocks[j].calls \subseteq 1..n
    BY DEF Bounded
  <2>1. CASE j <= Len(s.blocks)
    <3>1. j \in 1..Len(s.blocks)  BY <1>1, <2>1
    <3>2. t.blocks[j] = s.blocks[j]  BY <1>2, <3>1
    <3> QED BY <3>1, <3>2 DEF Bounded
  <2>2. CASE j > Len(s.blocks)
    <3>1. PICK i \in 1..Len(cs) : t.blocks[j].calls = {cs[i]}  BY <1>5, <2>2
    <3>2. cs[i] \in Calls /\ cs[i] <= n  OBVIOUS
    <3>3. cs[i] \in 1..n  BY <3>2 DEF Calls
    <3> QED BY <3>1, <3>3
  <2> QED BY <1>1, <2>1, <2>2
<1> QED BY <1>3, <1>4, <1>6, <1>7, <1>8 DEF t

(* pending_tc_count is a field of its own.                                 *)
LEMMA PendingFacts ==
  ASSUME NEW s, Sound(s), NEW n \in Nat
  PROVE  LET t == [s EXCEPT !.pending = n]
         IN /\ Sound(t) /\ t.type = s.type /\ t.tool = s.tool /\ t.blocks = s.blocks
            /\ t.sent = s.sent /\ t.name = s.name /\ t.toolName = s.toolName /\ t.pending = n
BY DEF Sound, Streams

(* _handle_ready_tool_calls_in_event keeps the stream sound and orderly.   *)
LEMMA ReadyFacts ==
  ASSUME NEW s, Sound(s), NEW cs \in Seq(Calls)
  PROVE  LET t == ReadyCalls(s, cs)
         IN /\ Sound(t) /\ (NoNative(t) => NoNative(s)) /\ (Orderly(s) => Orderly(t))
            /\ s.type # "native_tool" => t.type # "native_tool"
            /\ \A n \in Nat : (\A i \in 1..Len(cs) : cs[i] <= n) /\ Bounded(s, n)
                                => Bounded(t, n)
<1> DEFINE a == IF s.tool # 0 THEN EndTool(s) ELSE SendWhole(CloseCurrent(s), cs)
           t == ReadyCalls(s, cs)
<1>1. CASE cs = <<>>  BY <1>1 DEF ReadyCalls
<1>2. CASE cs # <<>>
  <2>1. t = [a EXCEPT !.pending = @ + Len(cs)]  BY <1>2 DEF ReadyCalls
  <2>2. /\ Sound(a) /\ (NoNative(a) => NoNative(s)) /\ (Orderly(s) => Orderly(a))
        /\ s.type # "native_tool" => a.type # "native_tool"
        /\ \A n \in Nat : (\A i \in 1..Len(cs) : cs[i] <= n) /\ Bounded(s, n)
                             => Bounded(a, n)
    <3>1. CASE s.tool # 0
      <4>1. a = EndTool(s)  BY <3>1
      <4> HIDE DEF a
      <4> QED BY <3>1, <4>1, EndToolFacts, SameKeeps
    <3>2. CASE s.tool = 0
      <4> DEFINE b == CloseCurrent(s)
      <4>1. a = SendWhole(b, cs)  BY <3>2
      <4>2. /\ Sound(b) /\ Same(s, b) /\ b.type = "none" /\ (Orderly(s) => Orderly(b))
        BY <3>2, CloseFacts, CloseOrderly
      <4> HIDE DEF a, b
      <4>3. a.type = b.type  BY <4>1, <4>2, SendFacts DEF Sound
      <4> QED BY <4>1, <4>2, <4>3, SendKeeps, SameKeeps
    <3> QED BY <3>1, <3>2
  <2> HIDE DEF a
  <2>3. PICK m \in Nat : m = a.pending + Len(cs)  BY <2>2, BlocksType DEF Sound
  <2>4. t = [a EXCEPT !.pending = m]  BY <2>1, <2>3
  <2> HIDE DEF t
  <2>5. Sound(t) /\ t.type = a.type /\ t.tool = a.tool /\ t.blocks = a.blocks
    BY <2>2, <2>4, PendingFacts
  <2> QED BY <2>2, <2>5 DEF t, NoNative, Orderly, Bounded
<1> QED BY <1>1, <1>2

(* _handle_open_stream_tool_at_end leaves no tool open and touches no      *)
(* call.                                                                   *)
LEMMA EndOpenFacts ==
  ASSUME NEW s, Sound(s), NEW p \in BOOLEAN
  PROVE  LET t == EndOpenTool(s, p)
         IN /\ Sound(t) /\ t.tool = 0 /\ t.sent = s.sent
            /\ t.type = IF s.tool = 0 THEN s.type ELSE "none"
            /\ t.pending = IF s.tool # 0 /\ p THEN s.pending + 1 ELSE s.pending
            /\ Orderly(s) => Orderly(t)
            /\ NoNative(t) <=> NoNative(s)
            /\ \A n \in Nat : Bounded(s, n) => Bounded(t, n)
            /\ \A c \in Calls : (Once(s, c) => Once(t, c)) /\ (Never(s, c) => Never(t, c))
<1> DEFINE t == EndOpenTool(s, p)
<1>1. CASE s.tool = 0
  BY <1>1 DEF EndOpenTool
<1>2. CASE s.tool # 0
  <2> DEFINE a == EndTool(s)
  <2>1. /\ Sound(a) /\ Same(s, a) /\ a.tool = 0 /\ a.type = "none"
        /\ Orderly(s) => Orderly(a)
    BY <1>2, EndToolFacts
  <2>2. t = [a EXCEPT !.pending = IF p THEN @ + 1 ELSE @]  BY <1>2 DEF EndOpenTool
  <2> HIDE DEF a, t
  <2>3. PICK m \in Nat : m = IF p THEN a.pending + 1 ELSE a.pending
    BY <2>1, BlocksType DEF Sound
  <2>4. t = [a EXCEPT !.pending = m]  BY <2>2, <2>3
  <2>5. /\ Sound(t) /\ t.type = a.type /\ t.tool = a.tool /\ t.blocks = a.blocks
        /\ t.sent = a.sent /\ t.pending = m
    BY <2>1, <2>4, PendingFacts
  <2>6. /\ NoNative(a) <=> NoNative(s)
        /\ \A n \in Nat : Bounded(s, n) => Bounded(a, n)
        /\ \A c \in Calls : (Once(s, c) => Once(a, c)) /\ (Never(s, c) => Never(a, c))
    BY <2>1, SameKeeps
  <2>7. /\ NoNative(t) <=> NoNative(s)
        /\ \A n \in Nat : Bounded(s, n) => Bounded(t, n)
        /\ \A c \in Calls : (Once(s, c) => Once(t, c)) /\ (Never(s, c) => Never(t, c))
    BY <2>5, <2>6 DEF NoNative, Bounded, Once, Never
  <2>8. Orderly(s) => Orderly(t)  BY <2>1, <2>5 DEF Orderly
  <2>9. t.sent = s.sent /\ t.pending = IF p THEN s.pending + 1 ELSE s.pending
    BY <2>1, <2>3, <2>5 DEF Same
  <2> QED BY <1>2, <2>1, <2>5, <2>7, <2>8, <2>9 DEF t
<1> QED BY <1>1, <1>2

(* The calls after the first p of a sequence.                              *)
LEMMA RestFacts ==
  ASSUME NEW cs \in Seq(Calls), NEW p \in Nat
  PROVE  LET r == SubSeq(cs, p + 1, Len(cs))
         IN /\ r \in Seq(Calls)
            /\ Len(r) = IF p < Len(cs) THEN Len(cs) - p ELSE 0
            /\ \A i \in 1..Len(r) : r[i] = cs[p + i] /\ p + i \in 1..Len(cs)
<1>1. Len(cs) \in Nat /\ \A i \in 1..Len(cs) : cs[i] \in Calls  OBVIOUS
<1>2. CASE p < Len(cs)  BY <1>1, <1>2
<1>3. CASE ~(p < Len(cs))  BY <1>1, <1>3
<1> QED BY <1>2, <1>3

(* _send_post_stream stops the last block; it sends nothing when all calls *)
(* count as sent, and the last call alone when only that one does not.     *)
LEMMA PostFacts ==
  ASSUME NEW s, Sound(s), NEW cs \in Seq(Calls)
  PROVE  LET t == PostStream(s, cs)
         IN /\ Sound(t) /\ (NoNative(t) => NoNative(s)) /\ t.type = "none" /\ t.sent = s.sent
            /\ Orderly(s) => \A j \in 1..Len(t.blocks) : t.blocks[j].stops = 1
            /\ \A n \in Nat : (\A i \in 1..Len(cs) : cs[i] <= n) /\ Bounded(s, n)
                                => Bounded(t, n)
            /\ s.pending >= Len(cs) => \A c \in Calls : Once(s, c) => Once(t, c)
            /\ s.pending + 1 = Len(cs)
                 => /\ Len(t.blocks) = Len(s.blocks) + 1
                    /\ t.blocks[Len(t.blocks)].calls = {cs[Len(cs)]}
                    /\ \A j \in 1..Len(s.blocks) : t.blocks[j].calls = s.blocks[j].calls
<1> DEFINE a == CloseCurrent(s)
           r == SubSeq(cs, s.pending + 1, Len(cs))
           t == PostStream(s, cs)
<1>0. /\ s \in Streams /\ Len(s.blocks) \in Nat /\ s.pending \in Nat /\ Len(cs) \in Nat
      /\ \A i \in 1..Len(cs) : cs[i] \in Calls
  BY BlocksType DEF Sound
<1>1. /\ Sound(a) /\ Same(s, a) /\ a.type = "none" /\ Len(a.blocks) = Len(s.blocks)
      /\ Orderly(s) => \A j \in 1..Len(s.blocks) : a.blocks[j].stops = 1
  BY CloseFacts, CloseOrderly
<1>2. /\ r \in Seq(Calls)
      /\ Len(r) = IF s.pending < Len(cs) THEN Len(cs) - s.pending ELSE 0
      /\ \A i \in 1..Len(r) : r[i] = cs[s.pending + i] /\ s.pending + i \in 1..Len(cs)
  BY <1>0, RestFacts
<1>3. t = SendWhole(a, r)  BY DEF PostStream
<1> HIDE DEF a, r, t
<1>4. /\ Sound(t) /\ (NoNative(t) => NoNative(a))
      /\ (\A j \in 1..Len(a.blocks) : a.blocks[j].stops = 1)
           => \A j \in 1..Len(t.blocks) : t.blocks[j].stops = 1
      /\ \A n \in Nat : (\A i \in 1..Len(r) : r[i] <= n) /\ Bounded(a, n) => Bounded(t, n)
  BY <1>1, <1>2, <1>3, SendKeeps
<1>5. /\ t.type = "none" /\ t.sent = s.sent
      /\ Len(t.blocks) = Len(a.blocks) + Len(r)
      /\ \A j \in 1..Len(a.blocks) : t.blocks[j] = a.blocks[j]
      /\ \A i \in 1..Len(r) : t.blocks[Len(a.blocks) + i]
           = [kind |-> "tool_use", stops |-> 1, calls |-> {r[i]}]
  <2>1. a \in Streams /\ a.sent = s.sent  BY <1>1 DEF Sound, Same
  <2> QED BY <1>1, <1>2, <1>3, <2>1, SendFacts
<1>6. /\ NoNative(a) <=> NoNative(s)
      /\ \A n \in Nat : Bounded(s, n) => Bounded(a, n)
      /\ \A c \in Calls : Once(s, c) => Once(a, c)
  BY <1>1, SameKeeps
<1>7. \A n \in Nat : (\A i \in 1..Len(cs) : cs[i] <= n) /\ Bounded(s, n) => Bounded(t, n)
  <2> SUFFICES ASSUME NEW n \in Nat, \A i \in 1..Len(cs) : cs[i] <= n, Bounded(s, n)
               PROVE  Bounded(t, n)
    OBVIOUS
  <2>1. \A i \in 1..Len(r) : r[i] <= n  BY <1>2
  <2> QED BY <1>4, <1>6, <2>1
<1>8. s.pending >= Len(cs) => \A c \in Calls : Once(s, c) => Once(t, c)
  <2> SUFFICES ASSUME s.pending >= Len(cs), NEW c \in Calls, Once(s, c)  PROVE Once(t, c)
    OBVIOUS
  <2>1. Once(a, c)  BY <1>6
  <2>2. Len(t.blocks) = Len(a.blocks)  BY <1>0, <1>1, <1>2, <1>5
  <2>3. \A j \in 1..Len(a.blocks) : t.blocks[j].calls = a.blocks[j].calls  BY <1>5
  <2> QED BY <2>1, <2>2, <2>3 DEF Once
<1>9. ASSUME s.pending + 1 = Len(cs)
      PROVE  /\ Len(t.blocks) = Len(s.blocks) + 1
             /\ t.blocks[Len(t.blocks)].calls = {cs[Len(cs)]}
             /\ \A j \in 1..Len(s.blocks) : t.blocks[j].calls = s.blocks[j].calls
  <2>0. Len(r) = 1 /\ 1 \in 1..Len(r)  BY <1>0, <1>2, <1>9
  <2>1. Len(r) = 1 /\ r[1] = cs[Len(cs)]  BY <1>0, <1>2, <1>9, <2>0
  <2>2. Len(t.blocks) = Len(s.blocks) + 1  BY <1>1, <1>5, <2>1
  <2>3. t.blocks[Len(t.blocks)] = [kind |-> "tool_use", stops |-> 1, calls |-> {r[1]}]
    <3>1. t.blocks[Len(a.blocks) + 1]
            = [kind |-> "tool_use", stops |-> 1, calls |-> {r[1]}]
      BY <1>5, <2>0
    <3>2. Len(t.blocks) = Len(a.blocks) + 1  BY <1>1, <2>2
    <3> QED BY <3>1, <3>2
  <2>4. t.blocks[Len(t.blocks)].calls = {cs[Len(cs)]}  BY <2>1, <2>3
  <2>5. \A j \in 1..Len(s.blocks) : t.blocks[j].calls = s.blocks[j].calls
    BY <1>0, <1>1, <1>5 DEF Same
  <2> QED BY <2>2, <2>4, <2>5
<1>10. Orderly(s) => \A j \in 1..Len(t.blocks) : t.blocks[j].stops = 1
  BY <1>1, <1>4
<1> QED BY <1>4, <1>5, <1>6, <1>7, <1>8, <1>9, <1>10 DEF t

(* The type invariant in the form that the proofs use: no set of Booleans, *)
(* and the blocks addressed by their numbers.                              *)
TypeInv ==
  /\ phase \in {"streaming", "done", "failed"}
  /\ Sound(st) /\ Bounded(st, opened)
  /\ opened \in 0..MaxCalls
  /\ closed \in {opened, opened - 1} \cap Nat
  /\ mixed \in BOOLEAN /\ dropped \in BOOLEAN /\ crowded \in BOOLEAN

(* It implies the type invariant of the module.                            *)
LEMMA TypeInvImplies == TypeInv => TypeOK
<1> SUFFICES ASSUME TypeInv  PROVE TypeOK  OBVIOUS
<1>1. st \in Streams /\ st.tool <= Len(st.blocks)  BY DEF TypeInv, Sound
<1>2. DOMAIN st.blocks = 1..Len(st.blocks)  BY <1>1, BlocksType
<1>3. \A i \in DOMAIN st.blocks : st.blocks[i].calls \subseteq 1..opened
  BY <1>2 DEF TypeInv, Bounded
<1>4. {mixed, dropped, crowded} \subseteq BOOLEAN  BY Zenon DEF TypeInv
<1> QED BY <1>1, <1>3, <1>4 DEF TypeInv, TypeOK

(* A new message is typed and has no block out of order.                   *)
LEMMA InitTypes == Init => TypeInv /\ OrderInv
<1> SUFFICES ASSUME Init  PROVE TypeInv /\ OrderInv  OBVIOUS
<1>1. PICK names \in [Calls -> Names] :
        st = [type |-> "none", tool |-> 0, toolName |-> "x", pending |-> 0,
              sent |-> 0, name |-> names, blocks |-> <<>>]
  BY DEF Init
<1>2. st \in Streams  BY <1>1 DEF Streams, Names
<1>3. Len(st.blocks) = 0 /\ st.tool = 0 /\ st.type = "none"  BY <1>1
<1>4. Sound(st) /\ Bounded(st, 0) /\ Orderly(st)  BY <1>2, <1>3 DEF Sound, Bounded, Orderly
<1>5. /\ phase = "streaming" /\ opened = 0 /\ closed = 0
      /\ mixed = FALSE /\ dropped = FALSE /\ crowded = FALSE
  BY DEF Init
<1>6. TypeInv
  <2>1. mixed \in BOOLEAN /\ dropped \in BOOLEAN /\ crowded \in BOOLEAN  BY <1>5
  <2>2. opened \in 0..MaxCalls /\ closed \in {opened, opened - 1} \cap Nat
    BY <1>5, StreamAssumption
  <2>3. phase \in {"streaming", "done", "failed"} /\ Bounded(st, opened)  BY <1>4, <1>5
  <2> QED BY <1>4, <2>1, <2>2, <2>3 DEF TypeInv
<1>7. OrderInv  BY <1>4, <1>5 DEF OrderInv
<1> QED BY <1>6, <1>7

(* The stream after a step is sound, its blocks carry calls up to the      *)
(* n-th, and it has a native block if it had one.                          *)
StepSound(n) ==
  /\ Sound(st') /\ Bounded(st', n)
  /\ NoNative(st') => NoNative(st)

(* A thinking event keeps soundness and order.                             *)
LEMMA StepThinking ==
  ASSUME TypeInv, ThinkingEvent
  PROVE  StepSound(opened) /\ (Orderly(st) => Orderly(st'))
         /\ (st.type # "native_tool" => st'.type # "native_tool")
<1>1. Sound(st) /\ Bounded(st, opened) /\ opened \in Nat  BY DEF TypeInv
<1>2. /\ Sound(st') /\ Same(st, st') /\ (Orderly(st) => Orderly(st')) /\ st'.type = "thinking"
  BY <1>1, ThinkingFacts DEF ThinkingEvent
<1> QED BY <1>1, <1>2, SameKeeps DEF StepSound

(* A native call's event does, unless a tool block was open.               *)
LEMMA StepNative ==
  ASSUME TypeInv, NativeCall
  PROVE  StepSound(opened) /\ (~mixed' /\ Orderly(st) => Orderly(st')) /\ ~NoNative(st')
<1> DEFINE a == CloseCurrent(st)
           b == Start(a, "native_tool", {})
<1>1. Sound(st) /\ Bounded(st, opened) /\ opened \in Nat /\ st.tool \in Nat
  BY BlocksType DEF TypeInv, Sound
<1>2. /\ Sound(a) /\ Same(st, a) /\ a.type = "none" /\ a.tool = st.tool
      /\ Orderly(st) /\ st.tool = 0 => Orderly(a)
  BY <1>1, CloseFacts, CloseOrderly
<1>3. a \in Streams /\ Len(a.blocks) \in Nat  BY <1>2, BlocksType DEF Sound
<1>4. st' = [b EXCEPT !.pending = @ + 1]  BY DEF NativeCall
<1> HIDE DEF a
<1>5. /\ b \in Streams /\ b.type = "native_tool" /\ b.tool = a.tool
      /\ Len(b.blocks) = Len(a.blocks) + 1
      /\ \A j \in 1..Len(a.blocks) : b.blocks[j] = a.blocks[j]
      /\ b.blocks[Len(a.blocks) + 1] = [kind |-> "native_tool", stops |-> 0, calls |-> {}]
  <2>1. PICK none \in SUBSET Calls, k \in Kinds : none = {} /\ k = "native_tool"
    BY DEF Kinds
  <2>2. b = Start(a, k, none)  BY <2>1
  <2> HIDE DEF b
  <2>3. /\ b \in Streams /\ b.type = k /\ b.tool = a.tool
        /\ Len(b.blocks) = Len(a.blocks) + 1
        /\ \A j \in 1..Len(a.blocks) : b.blocks[j] = a.blocks[j]
        /\ b.blocks[Len(a.blocks) + 1] = [kind |-> k, stops |-> 0, calls |-> none]
    BY <1>3, <2>2, StartFacts
  <2> QED BY <2>1, <2>3
<1> HIDE DEF b
<1>6. Sound(b)
  <2>1. a.tool \in Nat /\ a.tool <= Len(a.blocks)  BY <1>2, BlocksType DEF Sound
  <2>2. Len(b.blocks) > 0 /\ b.tool <= Len(b.blocks)  BY <1>3, <1>5, <2>1
  <2> QED BY <1>5, <2>2 DEF Sound
<1>7. PICK m \in Nat : m = b.pending + 1  BY <1>5, BlocksType
<1>8. st' = [b EXCEPT !.pending = m]  BY <1>4, <1>7
<1>9. Sound(st') /\ st'.type = b.type /\ st'.tool = b.tool /\ st'.blocks = b.blocks
  BY <1>6, <1>8, PendingFacts
<1>10. ~NoNative(st')
  <2>1. Len(st'.blocks) \in 1..Len(st'.blocks) /\ st'.blocks[Len(st'.blocks)].kind = "native_tool"
    BY <1>3, <1>5, <1>9
  <2> QED BY <2>1 DEF NoNative
<1>11. Bounded(st', opened)
  <2>1. Bounded(a, opened)  BY <1>1, <1>2, SameKeeps
  <2> SUFFICES ASSUME NEW j \in 1..Len(b.blocks)  PROVE b.blocks[j].calls \subseteq 1..opened
    BY <1>9 DEF Bounded
  <2>2. CASE j = Len(b.blocks)  BY <1>5, <2>2
  <2>3. CASE j # Len(b.blocks)
    <3>1. j \in 1..Len(a.blocks)  BY <1>3, <1>5, <2>3
    <3> QED BY <1>5, <2>1, <3>1 DEF Bounded
  <2> QED BY <2>2, <2>3
<1>12. ~mixed' /\ Orderly(st) => Orderly(st')
  <2> SUFFICES ASSUME ~mixed', Orderly(st)  PROVE Orderly(st')  OBVIOUS
  <2>1. st.tool = 0  BY DEF NativeCall
  <2>2. Orderly(a)  BY <1>2, <2>1
  <2>3. \A j \in 1..Len(a.blocks) : b.blocks[j].stops = 1  BY <1>2, <1>5, <2>2 DEF Orderly
  <2>4. /\ Len(b.blocks) > 0 /\ b.blocks[Len(b.blocks)].stops = 0
        /\ \A j \in 1..Len(b.blocks) : b.blocks[j].stops = IF j = Len(b.blocks) THEN 0 ELSE 1
    BY <1>3, <1>5, <2>3
  <2> QED BY <1>2, <1>5, <1>9, <2>1, <2>4 DEF Orderly
<1> QED BY <1>9, <1>10, <1>11, <1>12 DEF StepSound

(* An answer event does, unless its text met a native call's block.        *)
LEMMA StepFeed ==
  ASSUME TypeInv, Feed
  PROVE  /\ StepSound(opened') /\ opened' \in 0..MaxCalls
         /\ closed' \in {opened', opened' - 1} \cap Nat
         /\ ~mixed' /\ Orderly(st) => Orderly(st')
         /\ NoNative(st') /\ st.type # "native_tool" => st'.type # "native_tool"
<1>1. /\ Sound(st) /\ Bounded(st, opened) /\ opened \in Nat /\ closed \in Nat
      /\ opened <= MaxCalls /\ closed <= opened /\ MaxCalls \in Nat
  BY StreamAssumption DEF TypeInv
<1>2. PICK last \in opened..(IF opened + 2 < MaxCalls THEN opened + 2 ELSE MaxCalls) :
        \E ends, thinks, speaks \in BOOLEAN, pieces \in SUBSET ((closed + 1)..last) :
          FeedTo(last, ends, thinks, speaks, pieces)
  BY Zenon DEF Feed
<1>0. PICK ends \in BOOLEAN, thinks \in BOOLEAN, speaks \in BOOLEAN,
           pieces \in SUBSET ((closed + 1)..last) :
        FeedTo(last, ends, thinks, speaks, pieces)
  BY <1>2, Zenon
<1> DEFINE a == ToolDeltas(st, closed + 1, pieces)
           b == IF thinks THEN Thinking(a) ELSE a
           c == IF speaks THEN Text(b) ELSE b
<1>3. /\ closed' = IF ends \/ closed = last THEN last ELSE last - 1
      /\ st' = ReadyCalls(c, Between(closed, closed'))
      /\ opened' = last
      /\ mixed' = (mixed \/ (speaks /\ b.type = "native_tool"))
  BY <1>0, Zenon DEF FeedTo
<1>4. last \in Nat /\ opened <= last /\ last <= MaxCalls  BY <1>1
<1>5. /\ closed' \in Nat /\ closed <= closed' /\ closed' <= last
      /\ closed' \in {last, last - 1}
  BY <1>1, <1>3, <1>4
<1>6. pieces \in SUBSET Calls /\ (\A d \in pieces : d <= last)
  BY <1>1, <1>4 DEF Calls
<1>7. Bounded(st, last)
  <2>1. \A i \in 1..opened : i \in 1..last  BY <1>1, <1>4
  <2> QED BY <1>1, <2>1 DEF Bounded
<1>8. /\ Sound(a) /\ Bounded(a, last) /\ (NoNative(a) => NoNative(st))
      /\ Orderly(st) => Orderly(a)
      /\ NoNative(a) /\ st.type # "native_tool" => a.type # "native_tool"
  <2>1. closed + 1 \in Nat  BY <1>1
  <2> QED BY <1>1, <1>4, <1>6, <1>7, <2>1, ToolDeltasFacts
<1> HIDE DEF a
<1>9. /\ Sound(b) /\ Bounded(b, last) /\ (NoNative(b) => NoNative(st))
      /\ Orderly(st) => Orderly(b)
      /\ NoNative(b) /\ st.type # "native_tool" => b.type # "native_tool"
  BY <1>4, <1>8, ThinkingFacts, SameKeeps
<1> HIDE DEF b
<1>10. /\ Sound(c) /\ Bounded(c, last) /\ (NoNative(c) => NoNative(st))
       /\ ~mixed' /\ Orderly(st) => Orderly(c)
       /\ NoNative(c) /\ st.type # "native_tool" => c.type # "native_tool"
  BY <1>3, <1>4, <1>9, TextFacts, SameKeeps
<1> HIDE DEF c
<1> DEFINE cs == Between(closed, closed')
<1>11. cs \in Seq(Calls) /\ \A i \in 1..Len(cs) : cs[i] <= last
  <2>1. PICK n \in Nat, m \in Nat : n = closed /\ m = closed'  BY <1>1, <1>5
  <2>2. n <= m /\ m <= MaxCalls /\ m <= last  BY <1>1, <1>4, <1>5, <2>1
  <2>3. cs = Between(n, m)  BY <2>1
  <2> HIDE DEF cs
  <2>4. /\ cs \in Seq(Calls) /\ Len(cs) = m - n
        /\ \A i \in 1..(m - n) : cs[i] = n + i
    BY <2>2, <2>3, BetweenFacts
  <2> QED BY <1>4, <2>2, <2>4
<1>12. st' = ReadyCalls(c, cs)  BY <1>3
<1> HIDE DEF cs
<1>13. /\ Sound(st') /\ Bounded(st', last) /\ (NoNative(st') => NoNative(c))
       /\ Orderly(c) => Orderly(st')
       /\ c.type # "native_tool" => st'.type # "native_tool"
  BY <1>4, <1>10, <1>11, <1>12, ReadyFacts
<1>14. opened' \in 0..MaxCalls /\ closed' \in {opened', opened' - 1} \cap Nat
  BY <1>1, <1>3, <1>4, <1>5
<1> QED BY <1>3, <1>10, <1>13, <1>14 DEF StepSound

(* The end of the stream stops every block of an orderly one.              *)
LEMMA StepComplete ==
  ASSUME TypeInv, Complete
  PROVE  /\ StepSound(opened)
         /\ closed' \in {opened, opened - 1} \cap Nat /\ dropped' \in BOOLEAN
         /\ ~mixed' /\ Orderly(st) => \A j \in 1..Len(st'.blocks) : st'.blocks[j].stops = 1
         /\ st'.type = "none"
<1>1. /\ Sound(st) /\ Bounded(st, opened) /\ opened \in Nat /\ closed \in Nat
      /\ opened <= MaxCalls /\ closed <= opened /\ MaxCalls \in Nat
      /\ closed \in {opened, opened - 1}
  BY StreamAssumption DEF TypeInv
<1>2. PICK thinks \in BOOLEAN, speaks \in BOOLEAN, ends \in BOOLEAN,
           listed \in BOOLEAN, complete \in BOOLEAN :
         Finalize(thinks, speaks, ends, listed, complete)
  BY Zenon DEF Complete
<1> DEFINE late == ends /\ closed < opened
           m == IF late THEN opened ELSE closed
           all == Between(0, m)
           a == IF thinks THEN Thinking(st) ELSE st
           b == IF speaks \/ (a.type = "thinking" /\ opened = 0) THEN Text(a) ELSE a
           p == complete \/ all # <<>>
           c == IF late /\ listed THEN b ELSE EndOpenTool(b, p)
           d == IF c.type = "native_tool" THEN CloseCurrent(c) ELSE c
           e == [d EXCEPT !.pending = Reconciled(d, all)]
<1>3. /\ st' = PostStream(e, all) /\ closed' = Len(all)
      /\ mixed' = (mixed \/ (speaks /\ a.type = "native_tool"))
      /\ dropped' = (late /\ listed /\ b.tool # 0)
  BY <1>2, Zenon DEF Finalize
<1>4. m \in Nat /\ m <= opened /\ m \in {opened, opened - 1}  BY <1>1
<1>5. /\ all \in Seq(Calls) /\ Len(all) = m /\ \A i \in 1..Len(all) : all[i] <= opened
  <2> HIDE DEF m
  <2>1. PICK z \in Nat : z = 0  OBVIOUS
  <2>2. all = Between(z, m) /\ z <= m /\ m <= MaxCalls  BY <1>1, <1>4, <2>1
  <2> HIDE DEF all
  <2>3. all \in Seq(Calls) /\ Len(all) = m - z /\ \A i \in 1..(m - z) : all[i] = z + i
    BY <1>4, <2>2, BetweenFacts
  <2> QED BY <1>1, <1>4, <2>1, <2>3
<1>6. /\ Sound(a) /\ Bounded(a, opened) /\ (NoNative(a) => NoNative(st))
      /\ Orderly(st) => Orderly(a)
  BY <1>1, ThinkingFacts, SameKeeps
<1> HIDE DEF a
<1>7. /\ Sound(b) /\ Bounded(b, opened) /\ (NoNative(b) => NoNative(st))
      /\ ~mixed' /\ Orderly(st) => Orderly(b)
  BY <1>1, <1>3, <1>6, TextFacts, SameKeeps
<1> HIDE DEF b
<1>8. /\ Sound(c) /\ Bounded(c, opened) /\ (NoNative(c) => NoNative(st))
      /\ ~mixed' /\ Orderly(st) => Orderly(c)
  <2>1. PICK q \in BOOLEAN : q <=> p  BY Zenon
  <2>2. EndOpenTool(b, p) = EndOpenTool(b, q)  BY <2>1 DEF EndOpenTool
  <2> HIDE DEF p
  <2> QED BY <1>1, <1>7, <2>2, EndOpenFacts
<1> HIDE DEF c
<1>9. /\ Sound(d) /\ Bounded(d, opened) /\ (NoNative(d) => NoNative(st))
      /\ ~mixed' /\ Orderly(st) => Orderly(d)
  <2>1. CASE c.type = "native_tool"
    <3>1. Orderly(c) => c.tool = 0  BY <2>1 DEF Orderly
    <3>2. d = CloseCurrent(c)  BY <2>1
    <3> HIDE DEF d
    <3> QED BY <1>1, <1>8, <3>1, <3>2, CloseFacts, CloseOrderly, SameKeeps
  <2>2. CASE c.type # "native_tool"  BY <1>8, <2>2
  <2> QED BY <2>1, <2>2
<1> HIDE DEF d
<1>10. PICK n \in Nat : n = Reconciled(d, all)
  <2>1. d.sent \in Nat /\ d.pending \in Nat /\ Len(all) \in Nat
    BY <1>4, <1>5, <1>9, BlocksType DEF Sound
  <2> QED BY <2>1 DEF Reconciled
<1>11. e = [d EXCEPT !.pending = n]  BY <1>10
<1>12. Sound(e) /\ e.blocks = d.blocks /\ e.type = d.type /\ e.tool = d.tool
  <2> HIDE DEF e
  <2> QED BY <1>9, <1>11, PendingFacts
<1> HIDE DEF e, all, m
<1>13. /\ Bounded(e, opened) /\ (NoNative(e) => NoNative(st))
       /\ ~mixed' /\ Orderly(st) => Orderly(e)
  BY <1>9, <1>12 DEF Bounded, NoNative, Orderly
<1>14. /\ Sound(st') /\ Bounded(st', opened) /\ (NoNative(st') => NoNative(e))
       /\ st'.type = "none"
       /\ Orderly(e) => \A j \in 1..Len(st'.blocks) : st'.blocks[j].stops = 1
  BY <1>1, <1>3, <1>5, <1>12, <1>13, PostFacts
<1>15. dropped' \in BOOLEAN  BY <1>3, Zenon
<1>16. closed' \in {opened, opened - 1} \cap Nat  BY <1>3, <1>4, <1>5
<1> QED BY <1>13, <1>14, <1>15, <1>16 DEF StepSound

(* Types and order are inductive.                                          *)
LEMMA NextOrder ==
  TypeInv /\ OrderInv /\ [Next]_vars => TypeInv' /\ OrderInv'
<1> SUFFICES ASSUME TypeInv, OrderInv, [Next]_vars  PROVE TypeInv' /\ OrderInv'
  OBVIOUS
<1>0. /\ phase \in {"streaming", "done", "failed"} /\ opened \in 0..MaxCalls
      /\ closed \in {opened, opened - 1} \cap Nat
      /\ mixed \in BOOLEAN /\ dropped \in BOOLEAN /\ crowded \in BOOLEAN
  BY DEF TypeInv
<1>1. CASE ThinkingEvent
  <2>1. StepSound(opened) /\ (Orderly(st) => Orderly(st'))  BY <1>1, StepThinking
  <2>2. /\ phase = "streaming" /\ phase' = phase /\ opened' = opened /\ closed' = closed
        /\ mixed' = mixed /\ dropped' = dropped
    BY <1>1 DEF ThinkingEvent, CanGoOn
  <2>3. crowded' \in BOOLEAN  BY <1>1, Zenon DEF ThinkingEvent
  <2>4. TypeInv'  BY <1>0, <2>1, <2>2, <2>3 DEF TypeInv, StepSound
  <2>5. OrderInv'  BY <2>1, <2>2 DEF OrderInv
  <2> QED BY <2>4, <2>5
<1>2. CASE Feed
  <2>1. /\ StepSound(opened') /\ opened' \in 0..MaxCalls
        /\ closed' \in {opened', opened' - 1} \cap Nat
        /\ ~mixed' /\ Orderly(st) => Orderly(st')
    BY <1>2, StepFeed
  <2>2. phase = "streaming" /\ phase' = phase /\ dropped' = dropped
    BY <1>2 DEF Feed, CanGoOn
  <2>3. mixed' \in BOOLEAN /\ crowded' \in BOOLEAN /\ (~mixed' => ~mixed)
    <3>1. PICK last \in opened..(IF opened + 2 < MaxCalls THEN opened + 2 ELSE MaxCalls) :
            \E ends, thinks, speaks \in BOOLEAN, pieces \in SUBSET ((closed + 1)..last) :
              FeedTo(last, ends, thinks, speaks, pieces)
      BY <1>2, Zenon DEF Feed
    <3> QED BY <3>1, Zenon DEF FeedTo
  <2>4. TypeInv'  BY <1>0, <2>1, <2>2, <2>3 DEF TypeInv, StepSound
  <2>5. OrderInv'  BY <2>1, <2>2, <2>3 DEF OrderInv
  <2> QED BY <2>4, <2>5
<1>3. CASE NativeCall
  <2>1. StepSound(opened) /\ (~mixed' /\ Orderly(st) => Orderly(st'))
    BY <1>3, StepNative
  <2>2. /\ phase = "streaming" /\ phase' = phase /\ opened' = opened /\ closed' = closed
        /\ crowded' = crowded /\ dropped' = dropped
    BY <1>3 DEF NativeCall, CanGoOn
  <2>3. mixed' \in BOOLEAN /\ (~mixed' => ~mixed)  BY <1>3, Zenon DEF NativeCall
  <2>4. TypeInv'  BY <1>0, <2>1, <2>2, <2>3 DEF TypeInv, StepSound
  <2>5. OrderInv'  BY <2>1, <2>2, <2>3 DEF OrderInv
  <2> QED BY <2>4, <2>5
<1>4. CASE Fail
  <2>1. /\ phase = "streaming" /\ phase' = "failed" /\ st' = st /\ opened' = opened
        /\ closed' = closed /\ mixed' = mixed /\ crowded' = crowded /\ dropped' = dropped
    BY <1>4 DEF Fail
  <2>2. TypeInv'  BY <1>0, <2>1 DEF TypeInv
  <2>3. OrderInv'  BY <2>1 DEF OrderInv
  <2> QED BY <2>2, <2>3
<1>5. CASE Complete
  <2>1. /\ StepSound(opened)
        /\ closed' \in {opened, opened - 1} \cap Nat /\ dropped' \in BOOLEAN
        /\ ~mixed' /\ Orderly(st) => \A j \in 1..Len(st'.blocks) : st'.blocks[j].stops = 1
    BY <1>5, StepComplete
  <2>2. phase = "streaming" /\ phase' = "done" /\ opened' = opened
    BY <1>5 DEF Complete
  <2>3. mixed' \in BOOLEAN /\ crowded' \in BOOLEAN /\ (~mixed' => ~mixed)
    <3>1. PICK thinks \in BOOLEAN, speaks \in BOOLEAN, ends \in BOOLEAN,
               listed \in BOOLEAN, complete \in BOOLEAN :
            Finalize(thinks, speaks, ends, listed, complete)
      BY <1>5, Zenon DEF Complete
    <3> QED BY <3>1, Zenon DEF Finalize
  <2>4. TypeInv'  BY <1>0, <2>1, <2>2, <2>3 DEF TypeInv, StepSound
  <2>5. OrderInv'  BY <2>1, <2>2, <2>3 DEF OrderInv
  <2> QED BY <2>4, <2>5
<1>6. CASE UNCHANGED vars
  <2>1. /\ phase' = phase /\ st' = st /\ opened' = opened
        /\ closed' = closed /\ mixed' = mixed /\ crowded' = crowded /\ dropped' = dropped
    BY <1>6 DEF vars
  <2>2. TypeInv'  BY <1>0, <2>1 DEF TypeInv
  <2>3. OrderInv'  BY <2>1 DEF OrderInv
  <2> QED BY <2>2, <2>3
<1> QED BY <1>1, <1>2, <1>3, <1>4, <1>5, <1>6 DEF Next

(* Types and order hold in every reachable state.                          *)
LEMMA Invariants == Spec => [](TypeInv /\ OrderInv)
BY InitTypes, NextOrder, PTL DEF Spec

(* The type invariant holds for every number of calls and blocks: among    *)
(* others no index of the stream state points past the blocks that were    *)
(* begun (AnthropicStreamState, block_idx and stream_tool).                *)
THEOREM TypesCorrect == Spec => []TypeOK
BY Invariants, TypeInvImplies, PTL

(* The client never has two blocks open and none is stopped twice,         *)
(* whatever the order of thinking, text and tool events, unless a native   *)
(* call meets text or a parsed call (_flush_open_stream_tool,              *)
(* _close_block).                                                          *)
THEOREM BlocksFollowEachOther == Spec => []BlocksDoNotOverlap
<1>1. TypeInv /\ OrderInv => BlocksDoNotOverlap
  <2> SUFFICES ASSUME TypeInv, OrderInv, ~mixed,
                      NEW i \in DOMAIN st.blocks
               PROVE  /\ st.blocks[i].stops <= 1
                      /\ st.blocks[i].stops = 0 => i = Len(st.blocks)
    BY Zenon DEF BlocksDoNotOverlap
  <2>1. i \in 1..Len(st.blocks)  BY BlocksType DEF TypeInv, Sound
  <2>2. st.blocks[i].stops = 1 \/ (st.blocks[i].stops = 0 /\ i = Len(st.blocks))
    BY <2>1 DEF OrderInv, Orderly
  <2> QED BY <2>2
<1> QED BY <1>1, Invariants, PTL

(* A message that ends regularly has every block stopped                   *)
(* (_complete_anthropic_stream, _send_post_stream).                        *)
THEOREM EndStopsAll == Spec => []AllStoppedAtEnd
<1>1. TypeInv /\ OrderInv => AllStoppedAtEnd
  <2> SUFFICES ASSUME TypeInv, OrderInv, ~mixed, phase = "done", NEW i \in Open
               PROVE  FALSE
    BY DEF AllStoppedAtEnd
  <2>1. i \in 1..Len(st.blocks)  BY BlocksType DEF TypeInv, Sound, Open
  <2>2. st.blocks[i].stops = 1  BY <2>1 DEF OrderInv
  <2> QED BY <2>2 DEF Open
<1> QED BY <1>1, Invariants, PTL

(* A new block that carries one call alone.                                *)
LEMMA AppendOnce ==
  ASSUME NEW s, NEW t, Sound(s), Sound(t), NEW e, Len(t.blocks) = Len(s.blocks) + 1,
         t.blocks[Len(t.blocks)].calls = {e},
         \A j \in 1..Len(s.blocks) : t.blocks[j].calls = s.blocks[j].calls
  PROVE  /\ Never(s, e) => Once(t, e)
         /\ \A c : c # e /\ Once(s, c) => Once(t, c)
<1>1. Len(s.blocks) \in Nat /\ Len(t.blocks) \in Nat  BY BlocksType DEF Sound
<1>2. \A j \in 1..Len(t.blocks) : j \in 1..Len(s.blocks) \/ j = Len(t.blocks)
  BY <1>1
<1>3. ASSUME Never(s, e)  PROVE Once(t, e)
  <2>1. Len(t.blocks) \in 1..Len(t.blocks) /\ e \in t.blocks[Len(t.blocks)].calls
    BY <1>1
  <2>2. ASSUME NEW j \in 1..Len(t.blocks), e \in t.blocks[j].calls
        PROVE  j = Len(t.blocks)
    BY <1>2, <1>3, <2>2 DEF Never
  <2> QED BY <2>1, <2>2 DEF Once
<1>4. ASSUME NEW c, c # e, Once(s, c)  PROVE Once(t, c)
  <2>1. PICK i \in 1..Len(s.blocks) :
          /\ c \in s.blocks[i].calls
          /\ \A j \in 1..Len(s.blocks) : c \in s.blocks[j].calls => j = i
    BY <1>4 DEF Once
  <2>2. i \in 1..Len(t.blocks) /\ c \in t.blocks[i].calls  BY <1>1, <2>1
  <2>3. ASSUME NEW j \in 1..Len(t.blocks), c \in t.blocks[j].calls  PROVE j = i
    <3>1. j # Len(t.blocks)  BY <1>4, <2>3
    <3>2. j \in 1..Len(s.blocks)  BY <1>2, <3>1
    <3> QED BY <2>1, <2>3, <3>2
  <2> QED BY <2>2, <2>3 DEF Once
<1> QED BY <1>3, <1>4

(* The counters stay right when blocks without calls are begun or stopped. *)
LEMMA SameCounted ==
  ASSUME NEW s, NEW t, Sound(s), Sound(t), Same(s, t), s.tool = 0, t.tool = 0,
         NEW n \in Calls \cup {0}, NEW m \in Nat, m <= n, Counted(s, n, m)
  PROVE  Counted(t, n, m)
<1>1. \A c \in 1..n : c \in Calls  BY StreamAssumption DEF Calls
<1>2. n \in Nat  BY StreamAssumption DEF Calls
<1>3. \A c \in 1..m : Once(t, c)  BY <1>1, <1>2, SameKeeps DEF Counted
<1>4. \A c \in (m + 1)..n : Never(t, c)  BY <1>1, <1>2, SameKeeps DEF Counted
<1> QED BY <1>3, <1>4 DEF Counted, Same

(* They do when the one call that is not complete gets a piece of its      *)
(* arguments, its first or a later one: it is then in the open tool block. *)
LEMMA OnePiece ==
  ASSUME NEW s, Sound(s), Orderly(s), s.type # "native_tool",
         NEW n \in Nat, NEW m \in Nat, m + 1 \in Calls, n \in {m, m + 1},
         Bounded(s, n), Counted(s, n, m), NEW pieces \in SUBSET {m + 1}
  PROVE  LET t == ToolDeltas(s, m + 1, pieces)
         IN Sound(t) /\ Counted(t, m + 1, m)
<1> DEFINE e == m + 1
           zero == [s |-> s, into |-> 0]
           r == ToolDelta(zero, e)
           t == ToolDeltas(s, e, pieces)
<1>1. /\ s \in Streams /\ Len(s.blocks) \in Nat /\ s.sent \in Nat /\ s.tool \in Nat
      /\ e \in Nat /\ e \in Calls /\ e # e + 1 /\ e # e + 2
      /\ s.tool # 0 => s.tool \in 1..Len(s.blocks)
  BY BlocksType DEF Sound
<1>2. n = m => s.tool = 0 /\ Never(s, e)
  <2> SUFFICES ASSUME n = m  PROVE s.tool = 0 /\ Never(s, e)  OBVIOUS
  <2>1. s.tool = 0  BY DEF Counted
  <2>2. e \notin 1..n  OBVIOUS
  <2> QED BY <2>1, <2>2 DEF Bounded, Never
<1>3. Counted(s, e, m)
  <2>1. CASE n = e  BY <2>1
  <2>2. CASE n = m
    <3>1. \A c \in (m + 1)..e : c = e  OBVIOUS
    <3> QED BY <1>2, <2>2, <3>1 DEF Counted
  <2> QED BY <2>1, <2>2
<1>4. CASE pieces = {}
  <2>1. t = [s EXCEPT !.sent = IF s.tool = 0 /\ s.tool # 0 THEN @ + 1 ELSE @]
    BY <1>4 DEF ToolDeltas, Piece
  <2>2. t = s  BY <1>1, <2>1 DEF Streams
  <2> QED BY <1>3, <2>2
<1>5. CASE pieces = {e}
  <2>1. e \in pieces /\ e + 1 \notin pieces /\ e + 2 \notin pieces  BY <1>1, <1>5
  <2>2. t = [r.s EXCEPT !.sent = IF s.tool = 0 /\ r.s.tool # 0 THEN @ + 1 ELSE @]
    <3> HIDE DEF e
    <3> QED BY <2>1 DEF ToolDeltas, Piece
  <2>3. CASE s.tool # 0
    <3> DEFINE u == Carry(s, s.tool, e)
    <3>1. s.type = "tool_use" /\ s.toolName = s.name[e] /\ n = e /\ e \in s.blocks[s.tool].calls
      BY <1>2, <2>3 DEF Orderly, Counted
    <3>2. r = [zero EXCEPT !.s = u]
      <4> HIDE DEF e
      <4> QED BY <2>3, <3>1 DEF ToolDelta, Carry
    <3>3. r.s = u  BY <3>2
    <3> HIDE DEF r
    <3>4. /\ Sound(u) /\ u \in Streams /\ u.tool = s.tool /\ u.toolName = s.toolName
          /\ u.name = s.name /\ u.pending = s.pending /\ u.sent = s.sent
          /\ Len(u.blocks) = Len(s.blocks)
          /\ \A j \in 1..Len(s.blocks) : u.blocks[j].calls = s.blocks[j].calls
      <4>1. s.tool \in 1..Len(s.blocks)  BY <1>1, <2>3
      <4> HIDE DEF e
      <4>2. Sound(u)  BY <1>1, <4>1, CarryKeeps
      <4>3. /\ u \in Streams /\ u.tool = s.tool /\ u.toolName = s.toolName
            /\ u.name = s.name /\ u.pending = s.pending /\ u.sent = s.sent
            /\ Len(u.blocks) = Len(s.blocks)
        BY <1>1, <4>1, CarryFacts
      <4>4. \A j \in 1..Len(s.blocks) : u.blocks[j].calls = s.blocks[j].calls
        BY <1>1, <3>1, <4>1, CarryAgain
      <4> QED BY <4>2, <4>3, <4>4
    <3>5. t = u
      <4> HIDE DEF u
      <4> QED BY <2>2, <2>3, <3>3, <3>4 DEF Streams
    <3> HIDE DEF u, t
    <3>6. \A j \in 1..Len(s.blocks) : u.blocks[j].calls = s.blocks[j].calls
      BY <3>4
    <3>7. \A c : (Once(s, c) => Once(u, c)) /\ (Never(s, c) => Never(u, c))
      <4>1. Len(u.blocks) = Len(s.blocks)  BY <3>4
      <4> QED BY <3>6, <4>1 DEF Once, Never
    <3>8. Counted(u, e, m)  BY <1>1, <1>3, <2>3, <3>4, <3>6, <3>7 DEF Counted
    <3> QED BY <3>4, <3>5, <3>8 DEF t
  <2>4. CASE s.tool = 0
    <3> DEFINE a == IF s.type \in {"none", "tool_use"} THEN s ELSE CloseCurrent(s)
               u == BeginTool(FlushTool(a), e)
    <3>1. /\ Sound(a) /\ a.type \in {"none", "tool_use"} /\ a.tool = 0 /\ Same(s, a)
          /\ Len(a.blocks) = Len(s.blocks)
      <4>1. Same(s, s)  BY <1>1 DEF Same
      <4> QED BY <1>1, <2>4, <4>1, CloseFacts
    <3>2. r = [s |-> u, into |-> 0]
      <4>1. a.tool = 0  BY <3>1
      <4> HIDE DEF e
      <4> QED BY <4>1 DEF ToolDelta
    <3>3. r.s = u  BY <3>2
    <3> HIDE DEF r, a
    <3>4. /\ Sound(u) /\ Kept(a, u) /\ Len(u.blocks) = Len(a.blocks) + 1
          /\ u.tool = Len(u.blocks) /\ u.toolName = a.name[e]
          /\ u.blocks[Len(u.blocks)].calls = {e}
          /\ \A j \in 1..Len(a.blocks) : u.blocks[j].calls = a.blocks[j].calls
      <4> HIDE DEF e
      <4>1. Sound(u) /\ Kept(a, u) /\ Len(u.blocks) = Len(a.blocks) + 1
        BY <1>1, <3>1, FlushBegin
      <4>2. /\ u.tool = Len(u.blocks) /\ u.toolName = a.name[e]
            /\ u.blocks[Len(u.blocks)].calls = {e}
        BY <1>1, <3>1, FlushBegin
      <4>3. \A j \in 1..Len(a.blocks) : u.blocks[j].calls = a.blocks[j].calls
        <5>1. PICK x \in Calls : x = e  BY <1>1
        <5>2. \A j \in 1..Len(a.blocks) :
                BeginTool(FlushTool(a), x).blocks[j].calls = a.blocks[j].calls
          BY <3>1, FlushBegin
        <5> QED BY <5>1, <5>2
      <4> QED BY <4>1, <4>2, <4>3
    <3> HIDE DEF u
    <3>5. /\ u.name = s.name /\ u.pending = s.pending /\ u.sent = s.sent
          /\ u.tool # 0 /\ u.toolName = s.name[e]
      BY <1>1, <3>1, <3>4 DEF Kept, Same
    <3>6. Never(s, e) /\ \A c \in 1..m : Once(s, c) /\ c # e /\ c \in Calls
      BY <1>1, <1>3, <2>4, StreamAssumption DEF Counted, Calls
    <3>7. Never(a, e) /\ \A c \in 1..m : Once(a, c)  BY <1>1, <3>1, <3>6, SameKeeps
    <3>8. Once(u, e) /\ \A c \in 1..m : Once(u, c)  BY <3>1, <3>4, <3>6, <3>7, AppendOnce
    <3>9. PICK k \in Nat : k = u.sent + 1  BY <1>1, <3>5
    <3>10. t = [u EXCEPT !.sent = k]  BY <2>2, <2>4, <3>3, <3>5, <3>9
    <3> HIDE DEF t
    <3>11. /\ t \in Streams /\ t.type = u.type /\ t.tool = u.tool /\ t.toolName = u.toolName
           /\ t.name = u.name /\ t.blocks = u.blocks /\ t.pending = u.pending /\ t.sent = k
      BY <3>4, <3>10 DEF Sound, Streams
    <3>12. Sound(t)  BY <3>4, <3>11 DEF Sound
    <3>13. Once(t, e) /\ \A c \in 1..m : Once(t, c)  BY <3>8, <3>11 DEF Once
    <3>14. t.pending = m /\ t.sent <= m + 1
      BY <1>1, <1>3, <2>4, <3>5, <3>9, <3>11 DEF Counted
    <3>15. e \in t.blocks[t.tool].calls  BY <3>4, <3>11
    <3>16. t.tool # 0 /\ t.toolName = t.name[e]  BY <3>5, <3>11
    <3>17. Counted(t, e, m)  BY <3>13, <3>14, <3>15, <3>16 DEF Counted
    <3> QED BY <3>12, <3>17 DEF t
  <2> QED BY <2>3, <2>4
<1> QED BY <1>4, <1>5

(* They do when that call is complete: if its block is open it was sent    *)
(* already, else it is sent whole; either way pending counts it.           *)
LEMMA ReadyOne ==
  ASSUME NEW s, Sound(s), NEW m \in Nat, m + 1 \in Calls, Counted(s, m + 1, m),
         NEW cs \in Seq(Calls), Len(cs) = 1, cs[1] = m + 1
  PROVE  Counted(ReadyCalls(s, cs), m + 1, m + 1)
<1> DEFINE e == m + 1
           a == IF s.tool # 0 THEN EndTool(s) ELSE SendWhole(CloseCurrent(s), cs)
           t == ReadyCalls(s, cs)
<1>1. /\ s.tool \in Nat /\ s.pending \in Nat /\ s.sent \in Nat /\ Len(s.blocks) \in Nat
      /\ s.pending = m /\ e \in Calls
  BY BlocksType DEF Sound, Counted
<1>2. cs # <<>>
  <2>1. Len(<<>>) = 0 /\ 1 # 0  OBVIOUS
  <2> QED BY <2>1, Zenon
<1>3. t = [a EXCEPT !.pending = @ + 1]  BY <1>2 DEF ReadyCalls
<1>4. \A c \in 1..m : c \in Calls /\ c # e /\ Once(s, c)
  BY StreamAssumption DEF Calls, Counted
<1>5. /\ Sound(a) /\ a.tool = 0 /\ a.pending = m /\ a.sent = s.sent
      /\ Once(a, e) /\ \A c \in 1..m : Once(a, c)
  <2>1. CASE s.tool # 0
    <3>1. a = EndTool(s)  BY <2>1
    <3> HIDE DEF a
    <3>2. Sound(a) /\ Same(s, a) /\ a.tool = 0  BY <3>1, EndToolFacts
    <3>3. Once(s, e)  BY <2>1 DEF Counted
    <3>4. Once(a, e) /\ \A c \in 1..m : Once(a, c)  BY <1>1, <1>4, <3>2, <3>3, SameKeeps
    <3> QED BY <1>1, <3>2, <3>4 DEF Same
  <2>2. CASE s.tool = 0
    <3> DEFINE b == CloseCurrent(s)
    <3>1. a = SendWhole(b, cs)  BY <2>2
    <3>2. Sound(b) /\ Same(s, b) /\ b.tool = 0  BY <2>2, CloseFacts
    <3>3. b \in Streams /\ Len(b.blocks) \in Nat /\ b.pending = m /\ b.sent = s.sent
      BY <1>1, <3>2, BlocksType DEF Sound, Same
    <3>4. Never(s, e)  BY <2>2 DEF Counted
    <3>5. Never(b, e) /\ \A c \in 1..m : Once(b, c)  BY <1>1, <1>4, <3>2, <3>4, SameKeeps
    <3> HIDE DEF a, b
    <3>6. /\ Sound(a) /\ a.tool = b.tool /\ a.pending = b.pending /\ a.sent = b.sent
          /\ Len(a.blocks) = Len(b.blocks) + 1
          /\ \A j \in 1..Len(b.blocks) : a.blocks[j] = b.blocks[j]
          /\ \A i \in 1..Len(cs) : a.blocks[Len(b.blocks) + i]
               = [kind |-> "tool_use", stops |-> 1, calls |-> {cs[i]}]
      <4>1. Sound(a)  BY <3>1, <3>2, SendKeeps
      <4>2. /\ a.tool = b.tool /\ a.pending = b.pending /\ a.sent = b.sent
            /\ Len(a.blocks) = Len(b.blocks) + 1
        BY <3>1, <3>3, SendFacts
      <4>3. /\ \A j \in 1..Len(b.blocks) : a.blocks[j] = b.blocks[j]
            /\ \A i \in 1..Len(cs) : a.blocks[Len(b.blocks) + i]
                 = [kind |-> "tool_use", stops |-> 1, calls |-> {cs[i]}]
        BY <3>1, <3>3, SendFacts
      <4> QED BY <4>1, <4>2, <4>3
    <3>7. a.blocks[Len(b.blocks) + 1] = [kind |-> "tool_use", stops |-> 1, calls |-> {e}]
      <4>1. 1 \in 1..Len(cs)  OBVIOUS
      <4> QED BY <3>6, <4>1
    <3>8. a.blocks[Len(a.blocks)].calls = {e}  BY <3>6, <3>7
    <3>9. \A j \in 1..Len(b.blocks) : a.blocks[j].calls = b.blocks[j].calls  BY <3>6
    <3>10. Once(a, e) /\ \A c \in 1..m : Once(a, c)
      BY <1>4, <3>2, <3>5, <3>6, <3>8, <3>9, AppendOnce
    <3> QED BY <3>2, <3>3, <3>6, <3>10
  <2> QED BY <2>1, <2>2
<1> HIDE DEF a
<1>6. t = [a EXCEPT !.pending = e]  BY <1>3, <1>5
<1> HIDE DEF t
<1>7. t.pending = e /\ t.tool = 0 /\ t.sent = s.sent /\ t.blocks = a.blocks
  <2>1. PICK k \in Nat : k = e  OBVIOUS
  <2> QED BY <1>5, <1>6, <2>1, PendingFacts
<1>8. \A c \in 1..e : Once(t, c)
  <2>1. \A c \in 1..e : c \in 1..m \/ c = e  OBVIOUS
  <2>2. \A c : Once(a, c) => Once(t, c)  BY <1>7 DEF Once
  <2> HIDE DEF e
  <2> QED BY <1>5, <2>1, <2>2
<1>9. t.sent <= e  BY <1>1, <1>7 DEF Counted
<1> QED BY <1>7, <1>8, <1>9 DEF Counted, t

(* A new message has sent no call.                                         *)
LEMMA InitCalls == Init => CallInv
<1> SUFFICES ASSUME Init  PROVE CallInv  OBVIOUS
<1>1. PICK names \in [Calls -> Names] :
        st = [type |-> "none", tool |-> 0, toolName |-> "x", pending |-> 0,
              sent |-> 0, name |-> names, blocks |-> <<>>]
  BY DEF Init
<1>2. /\ Len(st.blocks) = 0 /\ st.tool = 0 /\ st.type = "none"
      /\ st.pending = 0 /\ st.sent = 0
  BY <1>1
<1>3. phase = "streaming" /\ opened = 0 /\ closed = 0 /\ ~mixed  BY DEF Init
<1>4. Counted(st, 0, 0)  BY <1>2 DEF Counted
<1> QED BY <1>2, <1>3, <1>4 DEF CallInv

(* A thinking event keeps the counters right, if it did not interrupt a    *)
(* call.                                                                   *)
LEMMA CallsThinking ==
  ASSUME TypeInv, OrderInv, CallInv, ThinkingEvent
  PROVE  CallInv'
<1>1. /\ Sound(st) /\ opened \in Nat /\ opened <= MaxCalls /\ closed \in Nat
      /\ closed <= opened /\ phase = "streaming"
  BY StreamAssumption DEF TypeInv, ThinkingEvent, CanGoOn
<1>2. /\ st' = Thinking(st) /\ phase' = phase /\ opened' = opened /\ closed' = closed
      /\ mixed' = mixed
  BY DEF ThinkingEvent
<1>3. ~crowded' => ~crowded /\ st.tool = 0  BY Zenon DEF ThinkingEvent
<1>4. Sound(st') /\ Same(st, st') /\ st'.type = "thinking" /\ st'.tool = 0
  BY <1>1, <1>2, ThinkingFacts
<1>5. NoNative(st') => NoNative(st)  BY <1>1, <1>4, SameKeeps
<1>6. opened \in Calls \cup {0}  BY <1>1 DEF Calls
<1>7. st.tool = 0 /\ Counted(st, opened, closed) => Counted(st', opened, closed)
  BY <1>1, <1>4, <1>6, SameCounted
<1> QED BY <1>1, <1>2, <1>3, <1>4, <1>5, <1>7 DEF CallInv

(* An answer event does, if it brings one call at most and nothing with    *)
(* it.                                                                     *)
LEMMA CallsFeed ==
  ASSUME TypeInv, OrderInv, CallInv, Feed
  PROVE  CallInv'
<1>1. /\ Sound(st) /\ Bounded(st, opened) /\ opened \in Nat /\ closed \in Nat
      /\ opened <= MaxCalls /\ MaxCalls \in Nat /\ closed \in {opened, opened - 1}
  BY StreamAssumption DEF TypeInv
<1>2. PICK last \in opened..(IF opened + 2 < MaxCalls THEN opened + 2 ELSE MaxCalls) :
        \E ends, thinks, speaks \in BOOLEAN, pieces \in SUBSET ((closed + 1)..last) :
          FeedTo(last, ends, thinks, speaks, pieces)
  BY Zenon DEF Feed
<1>3. PICK ends \in BOOLEAN, thinks \in BOOLEAN, speaks \in BOOLEAN,
           pieces \in SUBSET ((closed + 1)..last) :
        FeedTo(last, ends, thinks, speaks, pieces)
  BY <1>2, Zenon
<1> DEFINE a == ToolDeltas(st, closed + 1, pieces)
           b == IF thinks THEN Thinking(a) ELSE a
           c == IF speaks THEN Text(b) ELSE b
<1>4. /\ closed' = IF ends \/ closed = last THEN last ELSE last - 1
      /\ st' = ReadyCalls(c, Between(closed, closed'))
      /\ opened' = last
      /\ mixed' = (mixed \/ (speaks /\ b.type = "native_tool"))
      /\ crowded' = (crowded \/ last > closed + 1
                             \/ (last > closed /\ (thinks \/ speaks)))
  BY <1>3, Zenon DEF FeedTo
<1>5. last \in Nat /\ opened <= last /\ last <= MaxCalls /\ closed <= last
  BY <1>1
<1>6. phase = "streaming" /\ phase' = phase  BY DEF Feed, CanGoOn
<1> SUFFICES ASSUME NoNative(st')
             PROVE  /\ ~mixed' /\ st'.type # "native_tool"
                    /\ ~crowded' => Counted(st', opened', closed')
  BY <1>6 DEF CallInv
<1>7. NoNative(st)  BY StepFeed DEF StepSound
<1>8. ~mixed /\ st.type # "native_tool" /\ Orderly(st)
  BY <1>6, <1>7 DEF CallInv, OrderInv
<1>9. st'.type # "native_tool"  BY <1>8, StepFeed
<1>10. pieces \in SUBSET Calls  BY <1>1, <1>5 DEF Calls
<1>11. closed + 1 \in Nat  BY <1>1
<1>12. /\ Sound(a) /\ (NoNative(a) => NoNative(st))
       /\ NoNative(a) /\ st.type # "native_tool" => a.type # "native_tool"
  BY <1>1, <1>10, <1>11, ToolDeltasFacts
<1>13. Sound(b) /\ (NoNative(b) => NoNative(a)) /\ (a.type # "native_tool" => b.type # "native_tool")
  <2> HIDE DEF a
  <2> QED BY <1>12, ThinkingFacts, SameKeeps
<1>14. Sound(c) /\ (NoNative(c) => NoNative(b))
  <2> HIDE DEF b
  <2> QED BY <1>13, TextFacts, SameKeeps
<1> DEFINE cs == Between(closed, closed')
<1>15. closed' \in Nat /\ closed <= closed' /\ closed' <= MaxCalls
  BY <1>1, <1>4, <1>5
<1>16. /\ cs \in Seq(Calls) /\ Len(cs) = closed' - closed
       /\ \A i \in 1..(closed' - closed) : cs[i] = closed + i
  <2>1. PICK n \in Nat, m \in Nat : n = closed /\ m = closed'  BY <1>1, <1>15
  <2>2. cs = Between(n, m) /\ n <= m /\ m <= MaxCalls  BY <1>15, <2>1
  <2> HIDE DEF cs
  <2>3. cs \in Seq(Calls) /\ Len(cs) = m - n /\ \A i \in 1..(m - n) : cs[i] = n + i
    BY <2>2, BetweenFacts
  <2> QED BY <2>1, <2>3
<1>17. st' = ReadyCalls(c, cs)  BY <1>4
<1> HIDE DEF cs
<1>18. NoNative(b) /\ ~mixed'
  <2>1. NoNative(c)
    <3> HIDE DEF c
    <3> QED BY <1>14, <1>16, <1>17, ReadyFacts
  <2>2. NoNative(b) /\ b.type # "native_tool"
    <3> HIDE DEF a, b, c
    <3> QED BY <1>8, <1>12, <1>13, <1>14, <2>1
  <2> QED BY <1>4, <1>8, <2>2, Zenon
<1>19. ASSUME ~crowded'  PROVE Counted(st', opened', closed')
  <2>1. ~crowded /\ ~(last > closed + 1) /\ ~(last > closed /\ (thinks \/ speaks))
    BY <1>4, <1>19, Zenon
  <2>2. Counted(st, opened, closed)  BY <1>6, <1>7, <2>1 DEF CallInv
  <2>3. last = closed \/ last = closed + 1  BY <1>1, <1>5, <2>1
  <2>4. CASE last = closed
    <3>1. opened = closed /\ opened' = closed /\ closed' = closed
      BY <1>1, <1>4, <1>5, <2>4
    <3>2. st.tool = 0  BY <1>1, <2>2, <3>1 DEF Counted
    <3>3. pieces = {}  BY <1>1, <2>4
    <3>4. a = [st EXCEPT !.sent = IF st.tool = 0 /\ st.tool # 0 THEN @ + 1 ELSE @]
      BY <3>3 DEF ToolDeltas, Piece
    <3>5. a = st  BY <1>1, <3>4 DEF Sound, Streams
    <3> HIDE DEF a
    <3>6. Same(st, b) /\ b.tool = 0
      <4>1. Same(st, st)  BY <1>1, BlocksType DEF Same, Sound
      <4> QED BY <1>1, <3>2, <3>5, <4>1, ThinkingFacts
    <3> HIDE DEF b
    <3>7. Same(st, c) /\ c.tool = 0
      <4>1. speaks => Sound(Text(b)) /\ Same(b, Text(b)) /\ Text(b).tool = 0
        BY <1>13, TextFacts
      <4> QED BY <1>1, <1>13, <3>6, <4>1, SameTrans
    <3> HIDE DEF c
    <3>8. cs = <<>>  BY <1>1, <1>16, <3>1
    <3>9. st' = c  BY <1>17, <3>8 DEF ReadyCalls
    <3>10. closed \in Calls \cup {0}  BY <1>1, <3>1 DEF Calls
    <3>11. Counted(c, closed, closed)
      BY <1>1, <1>14, <2>2, <3>1, <3>2, <3>7, <3>10, SameCounted
    <3> QED BY <3>1, <3>9, <3>11
  <2>5. CASE last = closed + 1
    <3>1. ~thinks /\ ~speaks
      <4>1. last > closed  BY <1>1, <2>5
      <4> QED BY <2>1, <4>1, Zenon
    <3>2. c = a  BY <3>1
    <3>3. /\ closed + 1 \in Calls /\ opened \in {closed, closed + 1}
          /\ pieces \in SUBSET {closed + 1} /\ opened' = closed + 1
      BY <1>1, <1>4, <1>5, <2>5 DEF Calls
    <3>4. Counted(a, closed + 1, closed)
      BY <1>1, <1>8, <2>2, <3>3, OnePiece
    <3> HIDE DEF a, c
    <3>5. CASE ends
      <4>1. closed' = closed + 1  BY <1>4, <2>5, <3>5
      <4>2. Len(cs) = 1 /\ cs[1] = closed + 1  BY <1>1, <1>16, <4>1
      <4> QED BY <1>1, <1>12, <1>16, <1>17, <3>2, <3>3, <3>4, <4>1, <4>2, ReadyOne
    <3>6. CASE ~ends
      <4>1. closed' = closed  BY <1>1, <1>4, <2>5, <3>6
      <4>2. cs = <<>>  BY <1>1, <1>16, <4>1
      <4>3. st' = a  BY <1>17, <3>2, <4>2 DEF ReadyCalls
      <4> QED BY <3>3, <3>4, <4>1, <4>3
    <3> QED BY <3>5, <3>6
  <2> QED BY <2>3, <2>4, <2>5
<1> QED BY <1>9, <1>18, <1>19

(* The last call is sent by _send_post_stream exactly if it was not sent   *)
(* before.                                                                 *)
LEMMA RestOnce ==
  ASSUME NEW d, Sound(d), NEW m \in Nat, m + 1 \in Calls,
         NEW all \in Seq(Calls), Len(all) = m + 1, all[m + 1] = m + 1,
         \A c \in 1..m : Once(d, c),
         \/ d.pending >= m + 1 /\ Once(d, m + 1)
         \/ d.pending = m /\ Never(d, m + 1)
  PROVE  \A c \in 1..(m + 1) : Once(PostStream(d, all), c)
<1> DEFINE e == m + 1
           t == PostStream(d, all)
<1>1. \A c \in 1..m : c \in Calls /\ c # e  BY StreamAssumption DEF Calls
<1>2. \A c \in 1..e : c \in 1..m \/ c = e  OBVIOUS
<1>3. CASE d.pending >= e /\ Once(d, e)
  <2>1. \A c \in Calls : Once(d, c) => Once(t, c)  BY <1>3, PostFacts
  <2>2. e \in Calls  OBVIOUS
  <2> HIDE DEF t, e
  <2>3. \A c \in 1..e : Once(t, c)  BY <1>1, <1>2, <1>3, <2>1, <2>2
  <2> QED BY <2>3 DEF t, e
<1>4. CASE d.pending = m /\ Never(d, e)
  <2>1. d.pending + 1 = Len(all)  BY <1>4
  <2>2. /\ Sound(t) /\ Len(t.blocks) = Len(d.blocks) + 1
        /\ t.blocks[Len(t.blocks)].calls = {all[Len(all)]}
        /\ \A j \in 1..Len(d.blocks) : t.blocks[j].calls = d.blocks[j].calls
    BY <2>1, PostFacts
  <2>3. all[Len(all)] = e  OBVIOUS
  <2> HIDE DEF t, e
  <2>4. Once(t, e) /\ \A c : c # e /\ Once(d, c) => Once(t, c)
    BY <1>4, <2>2, <2>3, AppendOnce
  <2>5. \A c \in 1..e : Once(t, c)  BY <1>1, <1>2, <2>4
  <2> QED BY <2>5 DEF t, e
<1> QED BY <1>3, <1>4

(* The end of the stream: the open call's block was counted by one of the  *)
(* two counters, so that reconcile_pending_tool_index does not send it     *)
(* again.                                                                  *)
LEMMA CallsComplete ==
  ASSUME TypeInv, OrderInv, CallInv, Complete
  PROVE  CallInv'
<1>1. /\ Sound(st) /\ Bounded(st, opened) /\ opened \in Nat /\ closed \in Nat
      /\ opened <= MaxCalls /\ closed <= opened /\ MaxCalls \in Nat
      /\ closed \in {opened, opened - 1}
  BY StreamAssumption DEF TypeInv
<1>2. PICK thinks \in BOOLEAN, speaks \in BOOLEAN, ends \in BOOLEAN,
           listed \in BOOLEAN, complete \in BOOLEAN :
         Finalize(thinks, speaks, ends, listed, complete)
  BY Zenon DEF Complete
<1> DEFINE late == ends /\ closed < opened
           m == IF late THEN opened ELSE closed
           all == Between(0, m)
           a == IF thinks THEN Thinking(st) ELSE st
           b == IF speaks \/ (a.type = "thinking" /\ opened = 0) THEN Text(a) ELSE a
           p == complete \/ all # <<>>
           c == IF late /\ listed THEN b ELSE EndOpenTool(b, p)
           d == IF c.type = "native_tool" THEN CloseCurrent(c) ELSE c
           e == [d EXCEPT !.pending = Reconciled(d, all)]
<1>3. /\ st' = PostStream(e, all) /\ closed' = Len(all)
      /\ mixed' = (mixed \/ (speaks /\ a.type = "native_tool"))
      /\ crowded' = (crowded \/ (late /\ (thinks \/ speaks)))
      /\ dropped' = (late /\ listed /\ b.tool # 0)
  BY <1>2, Zenon DEF Finalize
<1>4. phase = "streaming" /\ phase' = "done"  BY DEF Complete
<1>5. m \in Nat /\ m <= opened  BY <1>1
<1>6. all \in Seq(Calls) /\ Len(all) = m /\ \A i \in 1..m : all[i] = i
  <2> HIDE DEF m
  <2>1. PICK z \in Nat : z = 0  OBVIOUS
  <2>2. all = Between(z, m) /\ z <= m /\ m <= MaxCalls  BY <1>1, <1>5, <2>1
  <2> HIDE DEF all
  <2>3. all \in Seq(Calls) /\ Len(all) = m - z /\ \A i \in 1..(m - z) : all[i] = z + i
    BY <1>5, <2>2, BetweenFacts
  <2> QED BY <1>5, <2>1, <2>3
<1> SUFFICES ASSUME NoNative(st')
             PROVE  /\ ~mixed' /\ st'.type # "native_tool"
                    /\ ~crowded' => ((dropped' => st'.sent = closed')
                                       => \A i \in 1..closed' : Once(st', i))
  BY <1>4, Zenon DEF CallInv
<1>7. NoNative(st) /\ st'.type = "none"  BY StepComplete DEF StepSound
<1>8. ~mixed /\ st.type # "native_tool" /\ Orderly(st)
  BY <1>4, <1>7 DEF CallInv, OrderInv
<1>9. Sound(a) /\ Same(st, a) /\ a.type # "native_tool"
  <2>1. Same(st, st)  BY <1>1, BlocksType DEF Same, Sound
  <2> QED BY <1>1, <1>8, <2>1, ThinkingFacts
<1>10. ~mixed'  BY <1>3, <1>8, <1>9, Zenon
<1>11. Sound(b) /\ Same(st, b) /\ b.type # "native_tool"
  <2> HIDE DEF a
  <2>1. Sound(Text(a)) /\ Same(a, Text(a)) /\ Text(a).type = "text"  BY <1>9, TextFacts
  <2>2. Same(st, Text(a))  BY <1>1, <1>9, <2>1, SameTrans
  <2> QED BY <1>9, <2>1, <2>2
<1>12. PICK q \in BOOLEAN : q <=> p  BY Zenon
<1>13. c = IF late /\ listed THEN b ELSE EndOpenTool(b, q)
  BY <1>12 DEF EndOpenTool
<1>14. /\ Sound(EndOpenTool(b, q)) /\ EndOpenTool(b, q).sent = b.sent
       /\ EndOpenTool(b, q).tool = 0
       /\ EndOpenTool(b, q).type = IF b.tool = 0 THEN b.type ELSE "none"
       /\ EndOpenTool(b, q).pending = IF b.tool # 0 /\ q THEN b.pending + 1 ELSE b.pending
       /\ \A i \in Calls : /\ Once(b, i) => Once(EndOpenTool(b, q), i)
                           /\ Never(b, i) => Never(EndOpenTool(b, q), i)
  <2> HIDE DEF b
  <2> QED BY <1>11, EndOpenFacts
<1> DEFINE f == EndOpenTool(b, q)
<1>15. Sound(c) /\ c.type # "native_tool" /\ c = d
  <2> HIDE DEF b, c
  <2> QED BY <1>11, <1>13, <1>14
<1>16. st.sent \in Nat /\ st.pending \in Nat /\ st.tool \in Nat  BY <1>1, BlocksType DEF Sound
<1>17. /\ d.sent = st.sent /\ d.sent \in Nat /\ d.pending \in Nat
       /\ Reconciled(d, all) \in Nat /\ Reconciled(d, all) >= d.pending
  <2>1. d.sent = st.sent  BY <1>11, <1>13, <1>14, <1>15 DEF Same
  <2>2. d.sent \in Nat /\ d.pending \in Nat  BY <1>15, BlocksType DEF Sound
  <2> HIDE DEF d, all, m
  <2> QED BY <1>5, <1>6, <2>1, <2>2 DEF Reconciled
<1>18. PICK n \in Nat : n = Reconciled(d, all)  BY <1>17
<1>19. /\ Sound(e) /\ e.blocks = d.blocks /\ e.sent = st.sent /\ e.pending = n
  <2>1. e = [d EXCEPT !.pending = n]  BY <1>18
  <2>2. Sound(d)  BY <1>15
  <2> HIDE DEF d, e
  <2> QED BY <1>17, <2>1, <2>2, PendingFacts
<1>20. ASSUME ~crowded', dropped' => st'.sent = closed', NEW i \in 1..closed'
       PROVE  Once(st', i)
  <2>1. ~crowded /\ ~(late /\ (thinks \/ speaks))  BY <1>3, <1>20, Zenon
  <2>2. Counted(st, opened, closed)  BY <1>4, <1>7, <2>1 DEF CallInv
  <2>3. i \in 1..m /\ i \in Calls  BY <1>1, <1>3, <1>5, <1>6, <1>20 DEF Calls
  <2>4. CASE ~late
    <3>1. m = closed  BY <2>4
    <3>2. Once(b, i) /\ b.pending = closed
      BY <1>1, <1>11, <2>2, <2>3, <3>1, SameKeeps DEF Counted, Same
    <3>3. Once(d, i) /\ d.pending >= closed
      BY <1>1, <1>13, <1>14, <1>15, <2>3, <2>4, <3>2
    <3>4. Once(e, i) /\ e.pending >= Len(all)
      <4> HIDE DEF d, e
      <4>1. Once(e, i)  BY <1>19, <3>3 DEF Once
      <4> QED BY <1>1, <1>6, <1>17, <1>18, <1>19, <3>1, <3>3, <4>1
    <3> HIDE DEF e, all
    <3> QED BY <1>3, <1>6, <1>19, <2>3, <3>4, PostFacts
  <2>5. CASE late
    <3>1. m = opened /\ opened = closed + 1 /\ m = closed + 1 /\ opened # 0
      BY <1>1, <2>5
    <3>2. ~thinks /\ ~speaks  BY <2>1, <2>5, Zenon
    <3>3. a = st /\ b = st  BY <3>1, <3>2
    <3> HIDE DEF late, m, all, a, b, c, d, e, p
    <3>4. closed + 1 \in Calls /\ \A j \in 1..closed : j \in Calls  BY <1>1, <3>1 DEF Calls
    <3>5. \A j \in 1..closed : Once(st, j)  BY <2>2 DEF Counted
    <3>6. d = IF listed THEN st ELSE f  BY <1>13, <1>15, <2>5, <3>3
    <3>7. \A j \in 1..closed : Once(d, j)  BY <1>14, <3>3, <3>4, <3>5, <3>6
    <3>8. all # <<>>
      <4>1. Len(<<>>) = 0 /\ Len(all) # 0  BY <1>1, <1>6, <3>1
      <4> QED BY <4>1
    <3>9. n = IF d.pending < (IF closed + 1 < st.sent THEN closed + 1 ELSE st.sent)
              THEN (IF closed + 1 < st.sent THEN closed + 1 ELSE st.sent) ELSE d.pending
      BY <1>6, <1>17, <1>18, <3>1, <3>8 DEF Reconciled
    <3>10. \/ n >= closed + 1 /\ Once(d, closed + 1)
           \/ n = closed /\ Never(d, closed + 1)
      <4>1. CASE st.tool = 0
        <5>1. st.sent <= closed /\ st.pending = closed /\ Never(st, closed + 1)
          BY <1>1, <2>2, <3>1, <4>1 DEF Counted
        <5>2. d.pending = closed /\ Never(d, closed + 1)
          BY <1>14, <3>3, <3>4, <3>6, <4>1, <5>1
        <5> QED BY <1>1, <1>16, <3>9, <5>1, <5>2
      <4>2. CASE st.tool # 0
        <5>1. Once(st, closed + 1) /\ st.pending = closed
          BY <1>1, <2>2, <3>1, <4>2 DEF Counted
        <5>2. Once(d, closed + 1)  BY <1>14, <3>3, <3>4, <3>6, <5>1
        <5>3. CASE listed
          <6>1. dropped'  BY <1>3, <2>5, <3>3, <4>2, <5>3
          <6>2. st'.sent = closed + 1  BY <1>3, <1>6, <1>20, <3>1, <6>1
          <6>3. st'.sent = st.sent  BY <1>3, <1>6, <1>19, PostFacts
          <6>4. d.pending = closed  BY <3>6, <5>1, <5>3
          <6>5. n = closed + 1  BY <1>1, <3>9, <6>2, <6>3, <6>4
          <6> QED BY <1>1, <5>2, <6>5
        <5>4. CASE ~listed
          <6>1. q  BY <1>12, <3>8 DEF p
          <6>2. d.pending = closed + 1  BY <1>14, <3>3, <3>6, <4>2, <5>1, <5>4, <6>1
          <6> QED BY <1>1, <1>17, <1>18, <5>2, <6>2
        <5> QED BY <5>3, <5>4
      <4> QED BY <4>1, <4>2
    <3>11. /\ \A j \in 1..closed : Once(e, j)
           /\ \/ e.pending >= closed + 1 /\ Once(e, closed + 1)
              \/ e.pending = closed /\ Never(e, closed + 1)
      <4>1. \A j : (Once(d, j) => Once(e, j)) /\ (Never(d, j) => Never(e, j))
        BY <1>19 DEF Once, Never
      <4> QED BY <1>19, <3>7, <3>10, <4>1
    <3>12. Len(all) = closed + 1 /\ all[closed + 1] = closed + 1  BY <1>1, <1>6, <3>1
    <3>13. \A j \in 1..(closed + 1) : Once(PostStream(e, all), j)
      BY <1>1, <1>6, <1>19, <3>4, <3>11, <3>12, RestOnce
    <3> QED BY <1>3, <2>3, <3>1, <3>13
  <2> QED BY <2>4, <2>5
<1> QED BY <1>7, <1>10, <1>20, Zenon

(* The agreement of counters and blocks is inductive.                      *)
LEMMA NextCalls ==
  TypeInv /\ OrderInv /\ CallInv /\ [Next]_vars => CallInv'
<1> SUFFICES ASSUME TypeInv, OrderInv, CallInv, [Next]_vars  PROVE CallInv'
  OBVIOUS
<1>1. CASE ThinkingEvent  BY <1>1, CallsThinking
<1>2. CASE Feed  BY <1>2, CallsFeed
<1>3. CASE NativeCall
  <2>1. ~NoNative(st')  BY <1>3, StepNative
  <2> QED BY <2>1 DEF CallInv
<1>4. CASE Fail
  <2>1. /\ phase = "streaming" /\ phase' = "failed" /\ st' = st /\ opened' = opened
        /\ closed' = closed /\ mixed' = mixed /\ crowded' = crowded
    BY <1>4 DEF Fail
  <2> QED BY <2>1 DEF CallInv
<1>5. CASE Complete  BY <1>5, CallsComplete
<1>6. CASE UNCHANGED vars
  <2>1. /\ phase' = phase /\ st' = st /\ opened' = opened /\ closed' = closed
        /\ mixed' = mixed /\ crowded' = crowded /\ dropped' = dropped
    BY <1>6 DEF vars
  <2> QED BY <2>1 DEF CallInv
<1> QED BY <1>1, <1>2, <1>3, <1>4, <1>5, <1>6 DEF Next

(* Each call that the parser found is in exactly one block when the        *)
(* message ends, streamed or sent whole, with the exceptions that          *)
(* EachCallOnce names (pending_tc_count, stream_tool_blocks_sent,          *)
(* reconcile_pending_tool_index).                                          *)
THEOREM CallsReachTheClientOnce == Spec => []EachCallOnce
<1>1. TypeInv /\ CallInv => EachCallOnce
  <2> SUFFICES ASSUME TypeInv, CallInv, phase = "done", ~crowded,
                      \A i \in DOMAIN st.blocks : st.blocks[i].kind # "native_tool",
                      dropped => st.sent = closed, NEW c \in 1..closed
               PROVE  Cardinality(CarriedBy(c)) = 1
    BY Zenon DEF EachCallOnce
  <2>1. DOMAIN st.blocks = 1..Len(st.blocks)  BY BlocksType DEF TypeInv, Sound
  <2>2. Once(st, c)  BY <2>1, Zenon DEF CallInv, NoNative
  <2>3. PICK i : CarriedBy(c) = {i}  BY <2>1, <2>2 DEF CarriedBy, Once
  <2> QED BY <2>3, FS_Singleton
<1>2. Spec => []CallInv
  BY InitCalls, NextCalls, Invariants, PTL DEF Spec
<1> QED BY <1>1, <1>2, Invariants, PTL
=============================================================================
