----------------------------- MODULE MCKvStore -----------------------------
(***************************************************************************)
(* Small instances of KvStore.  A conversation grows from a shared system  *)
(* prompt; a second one branches off.  The thinking snapshot has decoded   *)
(* tokens that the client never sends back, so it is filed under the       *)
(* visible transcript as well as under the text its tokens render to.      *)
(***************************************************************************)
EXTENDS KvStore

System   == <<1>>
Turn     == <<1, 2>>
Thought  == <<1, 3, 2>>
Branch   == <<1, 3, 4>>

MCFresh == [toks |-> 0, text |-> System, visible |-> {}, bytes |-> 0]
AtSystem  == [toks |-> 2, text |-> System, visible |-> {}, bytes |-> 2]
AtTurn    == [toks |-> 3, text |-> Turn, visible |-> {}, bytes |-> 3]
AtThought == [toks |-> 4, text |-> Thought, visible |-> {Turn}, bytes |-> 4]
AtBranch  == [toks |-> 5, text |-> Branch, visible |-> {}, bytes |-> 5]

MCTexts == {System, Turn, Branch}
MCSnapshots == {MCFresh, AtSystem, AtTurn, AtBranch}

ThinkingTexts == {System, Turn, Thought}
ThinkingSnapshots == {MCFresh, AtSystem, AtTurn, AtThought}
============================================================================
