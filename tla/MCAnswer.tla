------------------------------ MODULE MCAnswer ------------------------------
(* An answer and the calls it leaves: Stream, what the client is sent, and   *)
(* ToolMemory, what is kept of its calls.  They share no state in the model; *)
(* `part` says which of the two moves.                                       *)
EXTENDS Stream, MCToolMemory

VARIABLE part

\* Stop strings of one and of three symbols, and one with a character of two
\* bytes; one begins where a tool call may.  Responses requests have none.
McRequest(api, tools, think, emit, stops) ==
  [api |-> api, tools |-> tools, think |-> think, emit |-> emit, stops |-> stops]
McRequests ==
  {McRequest("completions", FALSE, FALSE, FALSE, {<<"x", "u", "v">>}),
   McRequest("openai", FALSE, FALSE, FALSE, {<<"x", "_", "x">>, <<"u", "v">>}),
   McRequest("openai", TRUE, TRUE, FALSE, {}),
   McRequest("responses", TRUE, TRUE, TRUE, {}),
   McRequest("responses", TRUE, TRUE, FALSE, {}),
   McRequest("anthropic", TRUE, FALSE, FALSE, {<<"_", "x">>}),
   McRequest("anthropic", TRUE, TRUE, FALSE, {<<"x", "x">>})}
McPieces ==
  {<<"x">>, <<"_">>, <<"<">>, <<"t">>, <<"u">>, <<"v">>, <<"<", "o">>, <<"<", "k">>,
   <<"<", "t", "x">>, <<"<", "e">>}

McInit ==
  \/ part = "memory" /\ Init /\ StreamInit /\ req = CHOOSE r \in Requests : TRUE
  \/ part = "stream" /\ Init /\ StreamInit
McNext ==
  /\ UNCHANGED part
  /\ \/ part = "memory" /\ Next /\ UNCHANGED streamVars
     \/ part = "stream" /\ StreamNext /\ UNCHANGED vars
McSpec == McInit /\ [][McNext]_<<part, vars, streamVars>>

\* The variables of the other part keep their initial values.
McView == <<part, IF part = "memory" THEN vars ELSE streamVars>>
=============================================================================
