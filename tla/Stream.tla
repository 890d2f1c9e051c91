------------------------------- MODULE Stream -------------------------------
(***************************************************************************)
(* One streamed response: run_generation appends tokens to raw, looks for  *)
(* stop strings and tool markers, and after each token one of four live    *)
(* streams sends what can no longer turn out to be something else: the     *)
(* beginning of a stop string, of </think>, of a tool call, of a UTF-8     *)
(* character, or white space before a tool call.  At the end the whole     *)
(* text is parsed as for a response that is not streamed.                  *)
(*                                                                         *)
(* Text is a sequence of symbols and every marker is two of them: "<o" is  *)
(* <think>, "<k" is </think>, "<t" and "<e" begin and end a tool call,     *)
(* whose function is the symbol "x"; "_" is white space; "u" is the first  *)
(* and "v" the second byte of a character.  Sending fails at any event,    *)
(* which ends the request.                                                 *)
(***************************************************************************)
EXTENDS Integers, FiniteSets, SequencesExt

CONSTANTS
  Requests,   \* [api, tools, think, emit, stops]: the requests a client may send
  Pieces,     \* the texts of tokens
  MaxTokens   \* r->max_tokens

ASSUME StreamAssumption ==
  /\ Requests \subseteq [api : {"completions", "openai", "responses", "anthropic"},
                        tools : BOOLEAN, think : BOOLEAN, emit : BOOLEAN,
                        stops : SUBSET (Seq(STRING) \ {<<>>})]
  /\ \A r \in Requests : IsFiniteSet(r.stops)
  /\ Pieces \subseteq Seq(STRING)
  /\ MaxTokens \in Nat

VARIABLES
  req,      \* the request
  stage,    \* "begin", "decode", "finish", "done", "failed"
  raw,
  tokens,   \* completion_tokens
  sent,     \* the live stream: mode, checked, pos, and the items it has open
  scanFrom, \* stop_scan_from
  sawStart, sawEnd,
  finish,
  wire      \* events the client has received

streamVars == <<req, stage, raw, tokens, sent, scanFrom, sawStart, sawEnd, finish, wire>>

Open == <<"<", "o">>
Close == <<"<", "k">>
ToolStart == <<"<", "t">>
ToolEnd == <<"<", "e">>
None == -1

-----------------------------------------------------------------------------
(* Text.  Positions count the symbols before them.                         *)

Cut(s, from, to) == SubSeq(s, from + 1, to)

(* strstr and find_substr_from: the first place of needle in s[from..len) *)
Places(s, from, len, needle) ==
  {i \in from..(len - Len(needle)) : Cut(s, i, i + Len(needle)) = needle}
Find(s, from, len, needle) ==
  LET p == Places(s, from, len, needle) IN IF p = {} THEN None ELSE Min(p)
FindLast(s, needle) ==
  LET p == Places(s, 0, Len(s), needle) IN IF p = {} THEN None ELSE Max(p)

(* trim_tool_separator_ws *)
Trim(s, start, end) ==
  Max({start} \cup {i \in (start + 1)..end : s[i] # "_"})

(* utf8_stream_safe_len: only a first byte at the very end is held back *)
Utf8Safe(s, start, limit) ==
  IF limit <= start THEN start
  ELSE IF s[limit] = "u" THEN limit - 1 ELSE limit

StopLens == {Len(stop) : stop \in req.stops}
Hold == IF req.stops = {} THEN 0 ELSE Max(StopLens) - 1

(* stop_list_find_from: the earliest place of any stop string *)
StopPos(s, from) ==
  LET p == UNION {Places(s, from, Len(s), stop) : stop \in req.stops}
  IN IF p = {} THEN None ELSE Min(p)

(* stop_list_stream_safe_len; the mutant holds one symbol too few back *)
StopSafeShort(len) == IF len > Hold - 1 THEN len - Max({Hold - 1, 0}) ELSE 0
StopSafe(len) == IF len > Hold THEN len - Hold ELSE 0

(* text_stream_safe_limit.  The tool marker is looked for in all of raw. *)
TextLimit(s, start, len, final) ==
  LET tool == Find(s, start, Len(s), ToolStart)
      bare == Trim(s, start, len)
      marks == {i \in start..(len - 1) : s[i + 1] = "<"}
      held == IF marks = {} THEN bare ELSE Min({bare, Max(marks)})
  IN IF len <= start THEN len
     ELSE IF req.tools /\ tool # None THEN Utf8Safe(s, start, Trim(s, start, tool))
     ELSE IF req.tools /\ ~final THEN Utf8Safe(s, start, Trim(s, start, held))
     ELSE Utf8Safe(s, start, len)

-----------------------------------------------------------------------------
(* What the whole text means: parse_generated_message_ex.                  *)

SplitAt(body, close) ==
  IF close # None
  THEN [reasoning |-> Cut(body, 0, close), content |-> Cut(body, close + 2, Len(body))]
  ELSE IF req.think THEN [reasoning |-> body, content |-> <<>>]
  ELSE [reasoning |-> <<>>, content |-> body]
AfterOpen(text) ==
  IF Len(text) >= 2 /\ Cut(text, 0, 2) = Open THEN Cut(text, 2, Len(text)) ELSE text
Split(text) ==
  LET body == AfterOpen(text) IN SplitAt(body, Find(body, 0, Len(body), Close))

SkipWs(s, p) == Min({Len(s)} \cup {i \in p..(Len(s) - 1) : s[i + 1] # "_"})
At(s, p, needle) == p + Len(needle) <= Len(s) /\ Cut(s, p, p + Len(needle)) = needle

(* parse_official_tool_call_block: the end of the block, or None *)
FunctionEnd(s, function, end) ==
  IF At(s, function, <<"x">>) /\ At(s, end, ToolEnd) THEN end + 2 ELSE None
BlockEnd(s, p) ==
  LET function == SkipWs(s, p + 2)
  IN IF At(s, p, ToolStart) THEN FunctionEnd(s, function, SkipWs(s, function + 1)) ELSE None

(* parse_official_tool_calls_message: the number of calls of the message *)
(* whose tool part begins at start, None if one block is broken          *)
OneMore(calls) == IF calls = None THEN None ELSE calls + 1
CallsFrom(s, start) ==
  LET calls[p \in 0..Len(s)] ==
        LET end == BlockEnd(s, p)
        IN IF end = None THEN None
           ELSE IF ~At(s, SkipWs(s, end), ToolStart) THEN 1
           ELSE OneMore(calls[SkipWs(s, end)])
  IN calls[start]

(* Where tool calls are looked for: after the last </think> when thinking *)
SearchFrom(s) ==
  IF ~req.think THEN 0
  ELSE IF FindLast(s, Close) = None THEN Len(s) ELSE FindLast(s, Close) + 2

(* parse_generated_message_for_response *)
Parsed(ok, parts, calls) ==
  [ok |-> ok, reasoning |-> parts.reasoning, content |-> parts.content, calls |-> calls]
ParsedCalls(s, start, calls) ==
  IF calls = None THEN Parsed(FALSE, [reasoning |-> <<>>, content |-> s], 0)
  ELSE Parsed(TRUE, Split(Cut(s, 0, Trim(s, 0, start))), calls)
Parse(s) ==
  LET start == Find(s, SearchFrom(s), Len(s), ToolStart)
  IN IF start = None THEN Parsed(TRUE, Split(s), 0)
     ELSE ParsedCalls(s, start, CallsFrom(s, start))

(* find_next_dsml_tool_block finds a start and an end after it *)
BlockComplete(s) ==
  LET start == Find(s, SearchFrom(s), Len(s), ToolStart)
  IN start # None /\ Find(s, start, Len(s), ToolEnd) # None

(* try_repair_tool_call_text: the missing end is appended, if that parses *)
Opens(s) == Cardinality(Places(s, SearchFrom(s), Len(s), ToolStart))
Repairable(s) ==
  /\ Opens(s) = 1 /\ Find(s, SearchFrom(s), Len(s), ToolEnd) = None
  /\ Parse(s \o ToolEnd).ok

-----------------------------------------------------------------------------
(* The live streams.                                                       *)

StreamStart ==
  [mode |-> IF req.think THEN "thinking" ELSE "text", checked |-> FALSE, pos |-> 0,
   item |-> "none", next |-> 0, text |-> <<>>]

(* The part that reasoning_stream_update, responses_live_stream_update and *)
(* anthropic_live_stream_update share: what is emitted and where the       *)
(* stream stands afterwards.                                               *)
ThinkingStep(st, s, len, final) ==
  LET undecided == ~st.checked /\ len < 2 /\ Cut(s, 0, len) = Cut(Open, 0, len) /\ ~final
      pos == IF ~st.checked /\ len >= 2 /\ Cut(s, 0, 2) = Open THEN 2 ELSE st.pos
      close == Find(s, pos, len, Close)
      limit == IF close # None THEN close
               ELSE IF final THEN len
               ELSE IF len > 1 THEN Utf8Safe(s, pos, len - 1) ELSE pos
  IN IF undecided THEN [mode |-> "thinking", checked |-> FALSE, pos |-> st.pos, out |-> <<>>]
     ELSE [mode |-> IF close # None THEN "text" ELSE IF final THEN "suppress" ELSE "thinking",
           checked |-> TRUE,
           pos |-> IF close # None THEN close + 2 ELSE Max({pos, limit}),
           out |-> IF limit > pos THEN Cut(s, pos, limit) ELSE <<>>]

TextStep(pos, s, len, final) ==
  LET tool == IF req.tools THEN Find(s, pos, Len(s), ToolStart) ELSE None
      limit == TextLimit(s, pos, len, final)
  IN [mode |-> IF tool # None \/ final THEN "suppress" ELSE "text",
      tool |-> tool # None,
      pos |-> IF tool # None THEN tool ELSE Max({pos, limit}),
      out |-> IF limit > pos THEN Cut(s, pos, limit) ELSE <<>>]

Event(ev, item, idx, text, status) ==
  [ev |-> ev, item |-> item, idx |-> idx, text |-> text, status |-> status]

Quiet(st) == [st |-> st, events |-> <<>>]

(* responses_live_reasoning_delta, responses_live_text_delta and           *)
(* anthropic_live_delta open their item first; the chat stream has none.   *)
OpenItem(st, item) ==
  IF req.api = "openai" \/ st.item = item THEN Quiet(st)
  ELSE [st |-> [st EXCEPT !.item = item, !.next = @ + 1, !.text = <<>>],
        events |-> <<Event("added", item, st.next, <<>>, "in_progress")>>]

Delta(st, item, out) ==
  LET open == OpenItem(st, item)
  IN [st |-> [open.st EXCEPT !.text = @ \o out],
      events |-> Append(open.events, Event("delta", item, open.st.next - 1, out, "in_progress"))]

Emit(st, item, out) ==
  IF out = <<>> \/ (item = "reasoning" /\ req.api = "responses" /\ ~req.emit)
  THEN Quiet(st) ELSE Delta(st, item, out)

(* responses_live_reasoning_done, responses_live_message_done and          *)
(* anthropic_live_close_block do nothing when no item is open; the mutant  *)
(* lacks the test.                                                         *)
EndItemAlways(st, status) ==
  [st |-> [st EXCEPT !.item = "none"],
   events |-> <<Event("done", st.item, st.next - 1, st.text, status)>>]
EndItem(st, status) ==
  IF st.item = "none" THEN Quiet(st)
  ELSE [st |-> [st EXCEPT !.item = "none"],
        events |-> <<Event("done", st.item, st.next - 1, st.text, status)>>]

Thought(st, think) ==
  LET r1 == Emit(st, "reasoning", think.out)
      r2 == IF think.mode = "thinking" THEN Quiet(r1.st)
            ELSE EndItem(r1.st, IF think.mode = "text" THEN "completed" ELSE "incomplete")
  IN [st |-> [r2.st EXCEPT !.mode = think.mode, !.checked = think.checked, !.pos = think.pos],
      events |-> r1.events \o r2.events]

Spoken(st, text, status) ==
  LET t1 == Emit(st, "message", text.out)
      t2 == IF text.mode = "text" THEN Quiet(t1.st)
            ELSE EndItem(t1.st, IF text.tool THEN "completed" ELSE status)
  IN [st |-> [t2.st EXCEPT !.mode = text.mode, !.pos = text.pos],
      events |-> t1.events \o t2.events]

(* What of the text may be sent, after what the reasoning has sent.        *)
ThenText(first, s, len, final, status) ==
  IF first.st.mode # "text" THEN first
  ELSE [Spoken(first.st, TextStep(first.st.pos, s, len, final), status)
          EXCEPT !.events = first.events \o @]

Update(st, s, len, final, status) ==
  ThenText(IF st.mode = "thinking" THEN Thought(st, ThinkingStep(st, s, len, final))
           ELSE Quiet(st),
           s, len, final, status)

(* API_COMPLETIONS: the text as it is, but whole characters *)
CompletionUpdate(st, s, len) ==
  LET safe == Utf8Safe(s, st.pos, len)
  IN IF safe <= st.pos THEN [st |-> st, events |-> <<>>]
     ELSE [st |-> [st EXCEPT !.pos = safe],
           events |-> <<Event("delta", "message", None, Cut(s, st.pos, safe), "in_progress")>>]

-----------------------------------------------------------------------------
Fresh(r, s) ==
  /\ req = r /\ stage = s
  /\ raw = <<>> /\ tokens = 0 /\ scanFrom = 0 /\ sawStart = FALSE /\ sawEnd = FALSE
  /\ sent = StreamStart /\ finish = "stop" /\ wire = <<>>

StreamInit == \E r \in Requests : Fresh(r, "begin")

(* The events are sent one by one; the first that fails ends the request. *)
Send(events, next) ==
  \/ /\ wire' = wire \o events
     /\ stage' = next
  \/ \E k \in 0..(Len(events) - 1) :
       /\ wire' = wire \o SubSeq(events, 1, k)
       /\ stage' = "failed"

(* The role, response.created or message_start event. *)
Begin ==
  /\ stage = "begin"
  /\ Send(IF req.api = "completions" THEN <<>>
          ELSE <<Event("start", "none", None, <<>>, "in_progress")>>, "decode")
  /\ UNCHANGED <<req, raw, tokens, sent, scanFrom, sawStart, sawEnd, finish>>

(* A token that is neither eos nor im_end. *)
Token ==
  /\ stage = "decode" /\ tokens < MaxTokens
  /\ \E piece \in Pieces :
       LET s == raw \o piece
           stop == StopPos(s, scanFrom)
           hit == stop # None
           len == IF hit THEN stop ELSE StopSafe(Len(s))
           up == IF req.api = "completions" THEN CompletionUpdate(sent, s, len)
                 ELSE Update(sent, s, len, FALSE, "in_progress")
           scan == Find(s, SearchFrom(s), Len(s), ToolStart)
           looks == req.tools /\ (req.think => FindLast(s, Close) # None)
           ended == IF sawStart THEN Find(s, SearchFrom(s), Len(s), ToolEnd) # None
                    ELSE scan # None /\ Find(s, scan, Len(s), ToolEnd) # None
           complete == looks /\ BlockComplete(s)
       IN /\ sent' = up.st
          /\ tokens' = tokens + 1
          /\ raw' = IF hit THEN Cut(s, 0, stop) ELSE s
          /\ scanFrom' = IF hit \/ Len(s) <= Hold THEN 0 ELSE Len(s) - Hold
          /\ sawStart' = (sawStart \/ (~hit /\ looks /\ scan # None))
          /\ sawEnd' = (sawEnd \/ (~hit /\ looks /\ ended))
          /\ finish' = IF ~hit /\ complete THEN "tool_calls" ELSE "stop"
          /\ Send(up.events, IF hit \/ complete THEN "finish" ELSE "decode")
  /\ UNCHANGED req

(* eos or im_end, the token limit, the context limit, a failed evaluation   *)
(* or a requested shutdown                                                  *)
DecodeEnds ==
  /\ stage = "decode"
  /\ \E f \in {"stop", "length", "error"} :
       /\ f = "stop" => tokens < MaxTokens
       /\ finish' = f
  /\ stage' = "finish"
  /\ UNCHANGED <<req, raw, tokens, sent, scanFrom, sawStart, sawEnd, wire>>

(* The answer is complete, by a stop string or a block of calls, and still   *)
(* becomes an error: the evaluation of its last token fails or a shutdown is *)
(* requested.                                                                *)
Interrupted ==
  /\ stage = "finish" /\ finish \in {"stop", "tool_calls"}
  /\ finish' = "error"
  /\ UNCHANGED <<req, stage, raw, tokens, sent, scanFrom, sawStart, sawEnd, wire>>

(* After the loop: the token limit renames "stop", an unterminated call is  *)
(* repaired or is an error.                                                 *)
LoopFinish == IF tokens >= MaxTokens /\ finish = "stop" THEN "length" ELSE finish
Unterminated == req.tools /\ sawStart /\ ~sawEnd /\ LoopFinish # "error"
Repaired == Unterminated /\ Repairable(raw)
FinalRaw == IF Repaired THEN raw \o ToolEnd ELSE raw
FinalFinish ==
  IF Repaired THEN "tool_calls" ELSE IF Unterminated THEN "error" ELSE LoopFinish

Answer == Parse(FinalRaw)
WireFinish(answer) ==
  IF FinalFinish = "length" THEN "length"
  ELSE IF answer.calls > 0 THEN "tool_calls"
  ELSE IF ~answer.ok THEN "stop" ELSE FinalFinish

(* response_status_for_finish *)
Status(answer) == IF WireFinish(answer) = "length" THEN "incomplete" ELSE "completed"

(* A Messages stream that was cut off after its calls still names them. *)
StopReason(answer) ==
  IF req.api = "anthropic" /\ answer.calls > 0 THEN "tool_calls" ELSE WireFinish(answer)

CallEvents(answer, first) ==
  IF req.api = "openai"
  THEN IF answer.calls = 0 THEN <<>>
       ELSE <<Event("calls", "call", None, [i \in 1..answer.calls |-> "x"], "completed")>>
  ELSE [k \in 1..(2 * answer.calls) |->
         LET idx == first + ((k - 1) \div 2)
         IN IF k % 2 = 1 THEN Event("added", "call", idx, <<>>, "in_progress")
                         ELSE Event("done", "call", idx, <<"x">>, "completed")]

(* append_responses_output_items *)
OutputItems(answer) ==
  (IF req.emit /\ answer.reasoning # <<>> THEN <<[item |-> "reasoning", text |-> answer.reasoning]>>
   ELSE <<>>)
  \o (IF answer.content # <<>> THEN <<[item |-> "message", text |-> answer.content]>> ELSE <<>>)
  \o [i \in 1..answer.calls |-> [item |-> "call", text |-> <<"x">>]]

(* The items still open are closed, then come the calls and the last event. *)
LastEvents(up, answer) ==
  LET end == EndItem(up.st, Status(answer))
  IN up.events \o end.events \o CallEvents(answer, end.st.next)
       \o <<Event("end", "none", None, OutputItems(answer), StopReason(answer))>>

CompletionEvents(rest, answer) ==
  (IF rest = <<>> THEN <<>>
   ELSE <<Event("delta", "message", None, rest, "in_progress")>>)
  \o <<Event("end", "none", None, <<>>, WireFinish(answer))>>

(* responses_live_finish, anthropic_live_finish, sse_finish *)
FinalEvents(text, answer) ==
  IF FinalFinish = "error" THEN <<Event("error", "none", None, <<>>, "failed")>>
  ELSE IF req.api = "completions"
  THEN CompletionEvents(Cut(text, sent.pos, Len(text)), answer)
  ELSE LastEvents(Update(sent, text, Len(text), TRUE, Status(answer)), answer)

Finish ==
  /\ stage = "finish"
  /\ Send(FinalEvents(FinalRaw, Answer), "done")
  /\ UNCHANGED <<req, raw, tokens, sent, scanFrom, sawStart, sawEnd, finish>>

NextRequest ==
  /\ stage \in {"done", "failed"}
  /\ stage' = "begin"
  /\ raw' = <<>> /\ tokens' = 0 /\ scanFrom' = 0 /\ sawStart' = FALSE /\ sawEnd' = FALSE
  /\ sent' = StreamStart /\ finish' = "stop" /\ wire' = <<>>
  /\ UNCHANGED req

StreamNext == Begin \/ Token \/ DecodeEnds \/ Interrupted \/ Finish \/ NextRequest

StreamSpec == StreamInit /\ [][StreamNext]_streamVars

-----------------------------------------------------------------------------
Received(item) ==
  FlattenSeq([i \in DOMAIN wire |->
                IF wire[i].ev = "delta" /\ wire[i].item = item THEN wire[i].text ELSE <<>>])

(* A text is plain when its markers mean the same to a reader of the prefix *)
(* and to a reader of the whole: see the README for what happens otherwise. *)
PlainText(text) ==
  /\ ~req.think => Places(text, 0, Len(text), Open) \cup Places(text, 0, Len(text), Close) = {}
  /\ req.think => Cardinality(Places(text, 0, Len(text), Close)) <= 1
  /\ ~req.tools => Places(text, 0, Len(text), ToolStart) = {}
Plain == Answer.ok /\ PlainText(FinalRaw)

SameText(received, text) ==
  \/ received = text
  \/ text # <<>> /\ Last(text) = "u" /\ received = Front(text)

(* What was streamed is what the same answer gives a client that did not   *)
(* ask for a stream, up to an unfinished last character.                    *)
ReceivedWhole ==
  stage = "done" /\ FinalFinish # "error" /\ Plain =>
    /\ SameText(Received("message"), Answer.content)
    /\ req.api # "responses" \/ req.emit => SameText(Received("reasoning"), Answer.reasoning)

(* The output of the last Responses event is what was streamed item by item,*)
(* unless the text breaks off inside a character.                            *)
Done == SelectSeq(wire, LAMBDA e : e.ev = "done")
OutputAsStreamed ==
  /\ stage = "done" /\ FinalFinish # "error" /\ req.api = "responses" /\ Plain
  /\ \A i \in DOMAIN FinalRaw : FinalRaw[i] = "u" => At(FinalRaw, i, <<"v">>)
  => OutputItems(Answer) = [i \in DOMAIN Done |-> [item |-> Done[i].item, text |-> Done[i].text]]

(* A client that concatenates what was streamed has the whole answer: no    *)
(* part of a stop string, of a marker or of a call has been sent, and       *)
(* nothing has been dropped; the output that the last Responses event       *)
(* repeats is the same (text_stream_safe_limit, responses_live_finish).     *)
StreamedIsWhole == ReceivedWhole /\ OutputAsStreamed

(* A client that reads the events in order and keeps the open item.         *)
Heard(c, e) ==
  CASE e.ev = "added" -> [item |-> e.item, next |-> c.next + 1, text |-> <<>>]
    [] e.ev = "delta" -> [c EXCEPT !.text = @ \o e.text]
    [] e.ev = "done" -> [c EXCEPT !.item = "none"]
    [] OTHER -> c
NothingHeard == [item |-> "none", next |-> 0, text |-> <<>>]
Client(w) ==
  LET after[i \in 0..Len(w)] == IF i = 0 THEN NothingHeard ELSE Heard(after[i - 1], w[i])
  IN after

(* An event the client can place: an item opens when none is open, with the *)
(* next index; its deltas and its end name it and its index, and the end    *)
(* has the text of all its deltas; the last event leaves nothing open.      *)
Placed(c, e) ==
  /\ e.ev = "added" => c.item = "none" /\ e.item # "none" /\ e.idx = c.next
  /\ e.ev \in {"delta", "done"} => c.item # "none" /\ e.item = c.item /\ e.idx = c.next - 1
  /\ e.ev = "done" /\ e.item # "call" => e.text = c.text
  /\ e.ev = "end" => c.item = "none"

(* In the Responses and Messages streams items open with consecutive        *)
(* indices, one at a time, get their deltas while they are open and close   *)
(* once with the text of their deltas, and the last event comes after all   *)
(* have closed, wherever the request ends, by itself or when sending fails  *)
(* (responses_live_finish, anthropic_live_finish, send_sse_event_json).     *)
StreamWellFormed ==
  req.api \in {"responses", "anthropic"} =>
    \A i \in DOMAIN wire :
      /\ Placed(Client(wire)[i - 1], wire[i])
      /\ wire[i].ev \in {"end", "error"} => i = Len(wire)
=============================================================================
