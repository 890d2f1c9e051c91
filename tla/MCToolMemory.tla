---------------------------- MODULE MCToolMemory ----------------------------
(* Small instances of ToolMemory: "c" and "d" are calls, "n" is a blank line *)
(* and "a" any other text.  Ids are alike, so they are symmetric; the        *)
(* properties are about safety.                                              *)
EXTENDS ToolMemory, TLC

McCalls == {"c", "d"}
Single == <<"a", "c">>
Other == <<"a", "d">>
Both == <<"a", "c", "d">>
AfterBlank == <<"a", "n", "c">>

McAnswers == {Single, Other, Both}
BlankAnswers == {AfterBlank, Both}
McTexts == {<<"a", "c", "a", "d">>}
BlankTexts == {AfterBlank}

McBlockBytes(b) == 2 * Len(b)
Symmetry == Permutations(Ids)
=============================================================================
