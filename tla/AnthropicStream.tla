--------------------------- MODULE AnthropicStream ---------------------------
(***************************************************************************)
(* The content blocks of a streamed answer in the Messages format          *)
(* (handlers/anthropic/stream_content.py, stream_tools.py, stream_core.py, *)
(* handler.py).  The upstream's events are turned into blocks: each is     *)
(* started, gets deltas and is stopped, and the next starts after that.    *)
(* Tool calls come in two ways: as native events of the upstream, or as    *)
(* text that a parser (an outside library) takes for invocations; of those *)
(* the arguments are streamed while they are still incomplete.             *)
(*                                                                         *)
(* Data.  A block is known by its kind, how often it was stopped, and the  *)
(* parsed calls whose arguments went into it.  Texts are not kept.  Blocks *)
(* count from 1, so block_idx is the number of blocks begun, less one.     *)
(* The parser is nondeterministic: what it may report for one piece of     *)
(* text is stated in Feed.                                                 *)
(***************************************************************************)
EXTENDS Integers, Sequences, FiniteSets

CONSTANTS MaxCalls,     \* bound: calls the parser finds
          MaxBlocks     \* bound: blocks begun before the stream must end

ASSUME StreamAssumption == MaxCalls \in Nat /\ MaxBlocks \in Nat

Calls == 1..MaxCalls
Names == {"x", "y"}     \* names of tools

VARIABLES
  phase,      \* streaming, done, failed: an error event ended the stream
  st,         \* AnthropicStreamState and the blocks the client has seen
  opened,     \* calls the parser has begun: 1..opened
  closed,     \* calls it has found the end of, the first ones: 1..closed
  mixed,      \* history: a native call met text or a parsed call
  dropped,    \* history: _finalize_open_tools dropped a call
  crowded     \* history: a call was not alone: more came with it, or amid it

vars == <<phase, st, opened, closed, mixed, dropped, crowded>>

(* type     block_type: kind of the block taken for current                *)
(* tool     block of stream_tool, 0: none         toolName  its name       *)
(* pending  pending_tc_count      sent     stream_tool_blocks_sent         *)
(* name     name of each call     blocks   begun so far                    *)
Kinds == {"thinking", "text", "tool_use", "native_tool"}

Init ==
  /\ phase = "streaming"
  /\ \E names \in [Calls -> Names] :
       st = [type |-> "none", tool |-> 0, toolName |-> "x", pending |-> 0,
             sent |-> 0, name |-> names, blocks |-> <<>>]
  /\ opened = 0 /\ closed = 0
  /\ mixed = FALSE /\ dropped = FALSE /\ crowded = FALSE

-----------------------------------------------------------------------------
Stop(s, i) == [s EXCEPT !.blocks[i].stops = @ + 1]

Start(s, kind, calls) ==
  [s EXCEPT !.type = kind,
            !.blocks = Append(@, [kind |-> kind, stops |-> 0, calls |-> calls])]

(* _close_block, where the block type says that there is one to close *)
CloseCurrent(s) ==
  IF s.type = "none" THEN s ELSE [Stop(s, Len(s.blocks)) EXCEPT !.type = "none"]

(* _flush_open_stream_tool: arguments that wait are sent, then the stop. *)
FlushTool(s) == IF s.tool = 0 THEN s ELSE [Stop(s, s.tool) EXCEPT !.tool = 0]

EndTool(s) == IF s.tool = 0 THEN s ELSE [FlushTool(s) EXCEPT !.type = "none"]

(* Fault: an open tool block is taken for closed. *)
ThinkingForgetsTool(s) ==
  LET a == IF s.tool = 0 THEN s ELSE [s EXCEPT !.tool = 0, !.type = "none"]
  IN IF a.type = "thinking" THEN a ELSE Start(CloseCurrent(a), "thinking", {})

(* _send_thinking_delta *)
Thinking(s) ==
  LET a == EndTool(s)
  IN IF a.type = "thinking" THEN a ELSE Start(CloseCurrent(a), "thinking", {})

(* _emit_safe_text_delta with _start_text_block_if_needed, and             *)
(* _emit_final_text_delta: only a thinking block is closed first.          *)
Text(s) ==
  LET a == EndTool(s)
      b == IF a.type = "thinking" THEN CloseCurrent(a) ELSE a
  IN IF b.type = "text" THEN b ELSE Start(b, "text", {})

(* Fault: the index is counted up twice for the block of a tool. *)
BeginToolTwice(s, c) ==
  [Start(s, "tool_use", {c}) EXCEPT !.tool = Len(s.blocks) + 2, !.toolName = s.name[c]]

(* The block of a call whose arguments are streamed. *)
BeginTool(s, c) ==
  [Start(s, "tool_use", {c}) EXCEPT !.tool = Len(s.blocks) + 1, !.toolName = s.name[c]]

(* _apply_streaming_tool_json_delta, for a piece of the arguments of c.    *)
(* When another tool's block must be flushed first, that flush drains the  *)
(* pieces that follow: `into' is then the block they go to.                *)
ToolDelta(acc, c) ==
  LET a     == IF acc.s.type \in {"none", "tool_use"} THEN acc.s ELSE CloseCurrent(acc.s)
      other == a.tool # 0 /\ a.toolName # a.name[c]
  IN CASE acc.into # 0 ->
            [acc EXCEPT !.s.blocks[acc.into].calls = @ \cup {c}]
       [] acc.into = 0 /\ a.tool # 0 /\ ~other ->
            [acc EXCEPT !.s = [a EXCEPT !.blocks[a.tool].calls = @ \cup {c}]]
       [] OTHER ->
            [s |-> BeginTool(FlushTool(a), c), into |-> IF other THEN a.tool ELSE 0]

Piece(acc, c, pieces) == IF c \in pieces THEN ToolDelta(acc, c) ELSE acc

(* _emit_streaming_tool_delta: the pieces of one event belong to at most   *)
(* three calls, and c is the first of them.                                *)
ToolDeltas(s, c, pieces) ==
  LET one   == Piece([s |-> s, into |-> 0], c, pieces)
      two   == Piece(one, c + 1, pieces)
      three == Piece(two, c + 2, pieces)
  IN [three.s EXCEPT !.sent = IF s.tool = 0 /\ three.s.tool # 0 THEN @ + 1 ELSE @]

(* _send_tool_use_blocks *)
SendWhole(s, calls) ==
  [s EXCEPT !.blocks = @ \o [i \in DOMAIN calls |->
              [kind |-> "tool_use", stops |-> 1, calls |-> {calls[i]}]]]

(* Fault: calls that were streamed are not counted as sent. *)
ReadyCallsUncounted(s, ready) ==
  IF ready = <<>> THEN s
  ELSE IF s.tool # 0 THEN EndTool(s)
                     ELSE [SendWhole(CloseCurrent(s), ready) EXCEPT
                             !.pending = @ + Len(ready)]

(* _handle_ready_tool_calls_in_event: the open block is taken for theirs,  *)
(* else the calls are sent whole.                                          *)
ReadyCalls(s, ready) ==
  IF ready = <<>> THEN s
  ELSE [(IF s.tool # 0 THEN EndTool(s) ELSE SendWhole(CloseCurrent(s), ready)) EXCEPT
          !.pending = @ + Len(ready)]

(* The calls after the n-th, up to the m-th. *)
Between(n, m) == [i \in 1..(m - n) |-> n + i]

-----------------------------------------------------------------------------
CanGoOn == phase = "streaming" /\ Len(st.blocks) < MaxBlocks

(* A thinking event of the upstream. *)
ThinkingEvent ==
  /\ CanGoOn
  /\ st' = Thinking(st)
  /\ crowded' = (crowded \/ st.tool # 0)
  /\ UNCHANGED <<phase, opened, closed, mixed, dropped>>

(* One answer event, when the parser has begun the calls up to last.       *)
FeedTo(last, ends, thinks, speaks, pieces) ==
  LET a == ToolDeltas(st, closed + 1, pieces)
      b == IF thinks THEN Thinking(a) ELSE a
      c == IF speaks THEN Text(b) ELSE b
  IN /\ closed' = IF ends \/ closed = last THEN last ELSE last - 1
     /\ st' = ReadyCalls(c, Between(closed, closed'))
     /\ opened' = last
     /\ mixed' = (mixed \/ (speaks /\ b.type = "native_tool"))
     /\ crowded' = (crowded \/ last > closed + 1
                            \/ (last > closed /\ (thinks \/ speaks)))

(* An answer event: the parser is fed.  It may go on with the call that is *)
(* open and begin up to two more; all but the last are then closed.  For   *)
(* each it may have pieces of the arguments, and it may have more thinking *)
(* and more text.                                                          *)
Feed ==
  /\ CanGoOn
  /\ \E last \in opened..(IF opened + 2 < MaxCalls THEN opened + 2 ELSE MaxCalls) :
     \E ends, thinks, speaks \in BOOLEAN :
     \E pieces \in SUBSET ((closed + 1)..last) :
       FeedTo(last, ends, thinks, speaks, pieces)
  /\ UNCHANGED <<phase, dropped>>

(* Fault: a native call does not end the block before it. *)
NativeCallInside ==
  /\ CanGoOn
  /\ st' = [Start(st, "native_tool", {}) EXCEPT !.pending = @ + 1]
  /\ mixed' = (mixed \/ st.tool # 0)
  /\ UNCHANGED <<phase, opened, closed, dropped, crowded>>

(* _process_native_tool_call_anthropic, for an event that begins a call;   *)
(* one that carries arguments adds to the block or is ignored.             *)
NativeCall ==
  /\ CanGoOn
  /\ st' = [Start(CloseCurrent(st), "native_tool", {}) EXCEPT !.pending = @ + 1]
  /\ mixed' = (mixed \/ st.tool # 0)
  /\ UNCHANGED <<phase, opened, closed, dropped, crowded>>

(* _handle_classified_stream_error, or a disconnected client. *)
Fail ==
  /\ phase = "streaming"
  /\ phase' = "failed"
  /\ UNCHANGED <<st, opened, closed, mixed, dropped, crowded>>

(* _handle_open_stream_tool_at_end; the count goes up if the invocation    *)
(* was complete, or any call was parsed.                                   *)
EndOpenTool(s, complete) ==
  IF s.tool = 0 THEN s
  ELSE [EndTool(s) EXCEPT !.pending = IF complete THEN @ + 1 ELSE @]

(* reconcile_pending_tool_index *)
Reconciled(s, calls) ==
  LET seen == IF Len(calls) < s.sent THEN Len(calls) ELSE s.sent
  IN IF calls # <<>> /\ s.pending < seen THEN seen ELSE s.pending

(* Fault: the block that is current at the end is left open. *)
PostStreamLeavesBlock(s, calls) == SendWhole(s, SubSeq(calls, s.pending + 1, Len(calls)))

(* _send_post_stream: the last block is closed, what was not sent is sent. *)
PostStream(s, calls) ==
  SendWhole(CloseCurrent(s), SubSeq(calls, s.pending + 1, Len(calls)))

(* _complete_anthropic_stream, then _send_post_stream.  finalize may close *)
(* the open call (late).  If get_ready_tool_calls then returns that call,  *)
(* _finalize_open_tools has taken it out of the parser, and                *)
(* _handle_late_ready_tools, which asks again, finds nothing to do.        *)
Finalize(thinks, speaks, ends, listed, complete) ==
  LET late == ends /\ closed < opened
      all  == Between(0, IF late THEN opened ELSE closed)
      a == IF thinks THEN Thinking(st) ELSE st
      b == IF speaks \/ (a.type = "thinking" /\ opened = 0) THEN Text(a) ELSE a
      c == IF late /\ listed THEN b ELSE EndOpenTool(b, complete \/ all # <<>>)
      d == IF c.type = "native_tool" THEN CloseCurrent(c) ELSE c
  IN /\ st' = PostStream([d EXCEPT !.pending = Reconciled(d, all)], all)
     /\ closed' = Len(all)
     /\ mixed' = (mixed \/ (speaks /\ a.type = "native_tool"))
     /\ crowded' = (crowded \/ (late /\ (thinks \/ speaks)))
     /\ dropped' = (late /\ listed /\ b.tool # 0)

Complete ==
  /\ phase = "streaming"
  /\ \E thinks, speaks, ends, listed, complete \in BOOLEAN :
       Finalize(thinks, speaks, ends, listed, complete)
  /\ phase' = "done"
  /\ UNCHANGED opened

Next == ThinkingEvent \/ Feed \/ NativeCall \/ Fail \/ Complete

Spec == Init /\ [][Next]_vars

-----------------------------------------------------------------------------
Open == {i \in DOMAIN st.blocks : st.blocks[i].stops = 0}
CarriedBy(c) == {i \in DOMAIN st.blocks : c \in st.blocks[i].calls}

Blocks == [kind : Kinds, stops : Nat, calls : SUBSET Calls]
Streams == [type : Kinds \cup {"none"}, tool : Nat, toolName : Names,
            pending : Nat, sent : Nat, name : [Calls -> Names], blocks : Seq(Blocks)]

TypeOK ==
  /\ phase \in {"streaming", "done", "failed"}
  /\ st \in Streams
  /\ st.tool <= Len(st.blocks)
  /\ \A i \in DOMAIN st.blocks : st.blocks[i].calls \subseteq 1..opened
  /\ opened \in 0..MaxCalls
  /\ closed \in {opened, opened - 1} \cap Nat
  /\ {mixed, dropped, crowded} \subseteq BOOLEAN

(* "Anthropic requires a stop before the next block starts"                *)
(* (_flush_open_stream_tool): the client never has two blocks open, none   *)
(* is stopped twice, and the one that is open is the last.  The exception  *)
(* is a native call that meets text or a parsed call:                      *)
(* _start_text_block_if_needed does not close its block.                   *)
BlocksDoNotOverlap ==
  mixed \/ \A i \in DOMAIN st.blocks :
             /\ st.blocks[i].stops <= 1
             /\ st.blocks[i].stops = 0 => i = Len(st.blocks)

(* A message that is ended regularly has every block stopped. *)
AllStoppedAtEnd == phase = "done" /\ ~mixed => Open = {}

(* Each call that the parser found reaches the client in exactly one       *)
(* block: what was streamed is not sent again when it is complete or when  *)
(* the stream ends, and nothing is left out.  There are three exceptions:  *)
(*   - a call that came together with another one or with more text, or    *)
(*     that something interrupted: they are taken in another order;        *)
(*   - a message with native calls, which count as sent ones;              *)
(*   - a call that only finalize completed and that was dropped, if an     *)
(*     earlier one was sent whole: pending does not count it.              *)
EachCallOnce ==
  /\ phase = "done" /\ ~crowded
  /\ \A i \in DOMAIN st.blocks : st.blocks[i].kind # "native_tool"
  /\ dropped => st.sent = closed
  => \A c \in 1..closed : Cardinality(CarriedBy(c)) = 1
=============================================================================
