---------------------------- MODULE MCGeneration ----------------------------
(* Generation over an alphabet of two visible letters and the hidden letter  *)
(* 0.  Token 12 spells the letters 1 2, which the model may also decode one  *)
(* by one: the tokens of a transcript need not be the tokens of the session. *)
EXTENDS Generation

McTokens == {0, 1, 2, 12}
McPiece(t) == IF t = 12 THEN <<1, 2>> ELSE <<t>>

\* The longest token first, as the BPE merge of the pair.
McTokenize(text) ==
    FoldLeft(LAMBDA toks, c : IF c = 2 /\ toks # <<>> /\ Last(toks) = 1
                              THEN Append(Front(toks), 12) ELSE Append(toks, c),
             <<>>, text)

McPrompts == {<<1, 1>>, <<2, 1>>, <<1, 2, 1>>}
TwoPrompts == {<<2, 1>>, <<1, 2, 1>>}
\* The second prompt continues the first.
GrowingPrompts == {<<2, 2>>, <<2, 2, 2>>, <<1, 1>>}
McTurns == {<<2>>, <<1, 1>>}
OneTurn == {<<2>>}
ResumeTurns == {<<>>, <<2>>}
McToolResult == <<2, 2>>
McClosing == <<2>>
NoStops == {}
McStops == {<<1, 2>>}
=============================================================================
