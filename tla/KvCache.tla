------------------------------ MODULE KvCache ------------------------------
(***************************************************************************)
(* What the disk KV cache promises to its caller, without files, headers,  *)
(* budgets or temporary names: a partial map from a text to the session    *)
(* snapshot filed under it.  A snapshot enters the map in one step, under  *)
(* a text it may be filed under, and only while it is the live state of    *)
(* the session.  A lookup answers with a snapshot whose text is a prefix   *)
(* of the prompt.  Anything may be dropped at any time.                    *)
(***************************************************************************)
EXTENDS SequencesExt

CONSTANTS Texts,      \* the byte strings that matter: keys and prompts
          Snapshots,  \* the states a session can be in
          Keys(_)     \* the texts a snapshot may be filed under

VARIABLES cache,      \* text -> the snapshot filed under it (partial)
          live,       \* the state of the session
          reply       \* the answer a lookup has just given, or NoReply

vars == <<cache, live, reply>>

NoReply == <<>>

Init ==
    /\ cache = [t \in {} |-> live]
    /\ live \in Snapshots
    /\ reply = NoReply

\* The session is prefilled, decoded into or reset, while eviction, replacement
\* and damage take entries away.
Advance ==
    /\ live' \in Snapshots
    /\ reply' = NoReply
    /\ \E kept \in SUBSET DOMAIN cache : cache' = Restrict(cache, kept)

\* The live snapshot becomes visible under one of its texts.
Publish ==
    /\ \E t \in Keys(live) :
          cache' = [u \in DOMAIN cache \cup {t} |->
                       IF u = t THEN live ELSE cache[u]]
    /\ live' = live
    /\ reply' = NoReply

\* A lookup moves the snapshot into the session; a large one is consumed.
Serve ==
    \E p \in Texts : \E t \in DOMAIN cache :
       /\ IsPrefix(t, p)
       /\ live' = cache[t]
       /\ reply' = <<p, t>>
       /\ \/ cache' = cache
          \/ cache' = Restrict(cache, DOMAIN cache \ {t})

Next == Advance \/ Publish \/ Serve

Spec == Init /\ [][Next]_vars
=============================================================================
