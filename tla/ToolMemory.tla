----------------------------- MODULE ToolMemory -----------------------------
(***************************************************************************)
(* The tool memory of the server (src/sf37_server.c): for each tool call   *)
(* id sent to a client, the text the model produced for the calls, so that *)
(* the history a client sends back can be spelled as it was sampled.       *)
(* Entries form a doubly linked list in the order of their use and share   *)
(* the block of their text; two limits are kept by dropping the end of the *)
(* list.  Checkpoint files carry the part of the memory that belongs to    *)
(* their text, and a request first reads back what its ids need.           *)
(*                                                                         *)
(* A request holds gen_mu from parsing to its answer, so that requests are *)
(* not interleaved; an operation is cut into steps where it loops.  Where  *)
(* a loop runs over calls or over a chain of entries, the order is left    *)
(* open.  A cell of an array of entries stands for the address of the      *)
(* entry; the fields of cells that are not in ids have default values.     *)
(***************************************************************************)
EXTENDS Integers, FiniteSets, SequencesExt

CONSTANTS
    Ids,        \* tool call ids, each given to one call
    Null,       \* the null pointer
    Answers,    \* texts the model samples, each with tool calls
    Texts,      \* rendered texts that checkpoint files are named by
    CallChars,  \* characters of a text that stand for one <tool_call> each
    Blank,      \* the character for a blank line
    MaxEntries, \* max_entries
    MaxBytes,   \* max_bytes
    EntryBytes, \* bytes of an entry
    BlockBytes(_), \* bytes of a block
    MaxClock    \* bound of the model on the clock

\* parse_official_tool_calls_message: the block of an answer runs from its
\* first call over the calls and white space that follow it.
Raw(answer) ==
    LET inside == CallChars \cup {Blank}
        first  == SelectInSeq(answer, LAMBDA c : c \in CallChars)
        ends   == {j \in first..Len(answer) : \A i \in first..j : answer[i] \in inside}
    IN  SubSeq(answer, first, CHOOSE j \in ends : \A i \in ends : i <= j)

\* find_next_dsml_tool_block, over a whole text: each call by itself, with the
\* blank line in front of it.
Found(text) ==
    {SubSeq(text, IF i > 1 /\ text[i - 1] = Blank THEN i - 1 ELSE i, i) :
        i \in {k \in 1..Len(text) : text[k] \in CallChars}}

Blocks == {Raw(a) : a \in Answers}
Arity(block) == Len(SelectSeq(block, LAMBDA c : c \in CallChars))

ASSUME ToolAssumption ==
    /\ Null \notin Ids /\ Null \notin Blocks /\ IsFiniteSet(Ids)
    /\ {MaxEntries, EntryBytes} \subseteq Nat \ {0}
    /\ {MaxBytes, MaxClock} \subseteq Nat
    /\ \A b \in Blocks : BlockBytes(b) \in Nat

VARIABLES
    mem,     \* the tool memory
    maps,    \* tool maps of the checkpoint files: text -> pairs (partial)
    said,    \* the calls clients know: their ids and the block of their text
    job,     \* the operation in progress
    attached \* the message attach has finished last, and the text it was given

vars == <<mem, maps, said, job, attached>>

Pointer == Ids \cup {Null}
Pairs == Ids \X Blocks

\* users is the chain of a block; refs is 0 for a block that is not in by_block.
Memory ==
    [ids : SUBSET Ids, block : [Ids -> Blocks \cup {Null}], stamp : [Ids -> Nat],
     prev : [Ids -> Pointer], next : [Ids -> Pointer],
     users : [Blocks -> SUBSET Ids], refs : [Blocks -> Nat],
     head : Pointer, tail : Pointer, entries : Nat, bytes : Nat, clock : Nat]

Empty ==
    [ids |-> {}, block |-> [e \in Ids |-> Null], stamp |-> [e \in Ids |-> 0],
     prev |-> [e \in Ids |-> Null], next |-> [e \in Ids |-> Null],
     users |-> [b \in Blocks |-> {}], refs |-> [b \in Blocks |-> 0],
     head |-> Null, tail |-> Null, entries |-> 0, bytes |-> 0, clock |-> 0]

\* todo: puts to do; files: files to read back; wanted: the ids of the request;
\* groups: messages without text; rest, match, exact: the message at hand.
Jobs ==
    [pc : {"idle", "put", "prune", "restore", "attach"}, todo : SUBSET Pairs,
     files : SUBSET Texts, wanted : SUBSET Ids, groups : SUBSET SUBSET Ids,
     group : SUBSET Ids, rest : SUBSET Ids, match : Blocks \cup {Null}, exact : BOOLEAN]

Idle == [pc |-> "idle", todo |-> {}, files |-> {}, wanted |-> {}, groups |-> {},
         group |-> {}, rest |-> {}, match |-> Null, exact |-> TRUE]

Unattached == [group |-> {}, text |-> Null]

TypeOK ==
    /\ mem \in Memory
    /\ DOMAIN maps \subseteq Texts /\ \A t \in DOMAIN maps : maps[t] \subseteq Pairs
    /\ \A s \in said : s.ids \subseteq Ids /\ s.block \in Blocks
    /\ job \in Jobs
    /\ attached.group \subseteq Ids /\ attached.text \in Blocks \cup {Null}

Init ==
    /\ mem = Empty
    /\ maps = [t \in {} |-> {}]
    /\ said = {}
    /\ job = Idle
    /\ attached = Unattached
-----------------------------------------------------------------------------
(* The list and the blocks.                                                *)

\* Mutant: the tail stays where it is.
LinkHeadTail(m, e) ==
    [m EXCEPT !.prev = [x \in Ids |-> IF x = e THEN Null
                                      ELSE IF x = m.head THEN e ELSE m.prev[x]],
              !.next[e] = m.head,
              !.head = e]

\* tool_memory_link_head
LinkHead(m, e) ==
    [m EXCEPT !.prev = [x \in Ids |-> IF x = e THEN Null
                                      ELSE IF x = m.head THEN e ELSE m.prev[x]],
              !.next[e] = m.head,
              !.head = e,
              !.tail = IF m.head = Null THEN e ELSE @]

\* tool_memory_unlink
Unlink(m, e) ==
    LET p == m.prev[e]
        n == m.next[e]
    IN  [m EXCEPT !.prev = [x \in Ids |-> IF x = e THEN Null
                                          ELSE IF x = n THEN p ELSE m.prev[x]],
                  !.next = [x \in Ids |-> IF x = e THEN Null
                                          ELSE IF x = p THEN n ELSE m.next[x]],
                  !.head = IF p = Null THEN n ELSE @,
                  !.tail = IF n = Null THEN p ELSE @]

Stamped(m, e) == [m EXCEPT !.clock = @ + 1, !.stamp[e] = m.clock + 1]

\* Mutant: an entry is used without moving in the list.
TouchInPlace(m, e) == Stamped(m, e)

\* tool_memory_touch
Touch(m, e) ==
    IF m.head = e THEN Stamped(m, e) ELSE LinkHead(Unlink(Stamped(m, e), e), e)

Minus(n, k) == IF n >= k THEN n - k ELSE 0

\* Mutant: the new entry is not counted.
ShareUncounted(m, e, b) ==
    [m EXCEPT !.block[e] = b, !.users[b] = @ \cup {e},
              !.bytes = @ + (IF m.refs[b] = 0 THEN BlockBytes(b) ELSE 0)]

\* tool_memory_get_block_locked and the link of an entry to its block.
Share(m, e, b) ==
    [m EXCEPT !.block[e] = b, !.users[b] = @ \cup {e}, !.refs[b] = @ + 1,
              !.bytes = @ + (IF m.refs[b] = 0 THEN BlockBytes(b) ELSE 0)]

\* tool_memory_release_block_locked
Release(m, b) ==
    [m EXCEPT !.refs[b] = @ - 1,
              !.bytes = IF m.refs[b] > 1 THEN @ ELSE Minus(@, BlockBytes(b))]

\* The fields of an entry that is freed.
Free(m, e) == [m EXCEPT !.ids = @ \ {e}, !.block[e] = Null, !.stamp[e] = 0]

\* An entry leaves the list and the chain of its block, and the counts.
Detach(m, e) ==
    [Unlink(m, e) EXCEPT !.users[m.block[e]] = @ \ {e},
                         !.bytes = Minus(@, EntryBytes),
                         !.entries = Minus(@, 1)]

\* tool_memory_remove_entry_locked
RemoveEntry(m, e) == Free(Release(Detach(m, e), m.block[e]), e)

Enter(m, e) == [m EXCEPT !.ids = @ \cup {e}, !.entries = @ + 1,
                         !.bytes = @ + EntryBytes]

\* The rest of tool_memory_put_locked, for an id that is not in the memory.
Insert(m, e, b) == LinkHead(Enter(Stamped(Share(m, e, b), e), e), e)

\* tool_memory_put_locked up to the prune: the same text only moves the entry,
\* another text replaces it.
PutEntry(m, e, b) ==
    IF e \in m.ids /\ m.block[e] = b THEN Touch(m, e)
    ELSE IF e \in m.ids THEN Insert(RemoveEntry(m, e), e, b)
    ELSE Insert(m, e, b)

\* Mutant: only the number of entries is limited.
OverEntries(m) == m.entries > MaxEntries /\ m.tail # Null

\* The condition of tool_memory_prune_locked.
Over(m) == (m.entries > MaxEntries \/ m.bytes > MaxBytes) /\ m.tail # Null
-----------------------------------------------------------------------------
(* Answers, puts and the prune after each put.                             *)

\* tool_memory_remember after assign_tool_call_ids.  The ids are new: they hold
\* the time, the process and a counter, and tool_memory_has_id is asked too.
Remember(answer) ==
    /\ job.pc = "idle"
    /\ LET b == Raw(answer)
       IN  \E ids \in SUBSET (Ids \ UNION {s.ids : s \in said}) :
              /\ Cardinality(ids) = Arity(b)
              /\ said' = said \cup {[ids |-> ids, block |-> b]}
              /\ job' = [Idle EXCEPT !.pc = "put", !.todo = ids \X {b}]
    /\ attached' = Unattached
    /\ UNCHANGED <<mem, maps>>

\* An answer cut off by a limit: the client gets its calls and their ids, but
\* tool_memory_remember is not called.
RememberNone(answer) ==
    /\ job.pc = "idle"
    /\ LET b == Raw(answer)
       IN  \E ids \in SUBSET (Ids \ UNION {s.ids : s \in said}) :
              /\ Cardinality(ids) = Arity(b)
              /\ said' = said \cup {[ids |-> ids, block |-> b]}
    /\ attached' = Unattached
    /\ UNCHANGED <<mem, maps, job>>

Put ==
    /\ job.pc = "put" /\ mem.clock < MaxClock
    /\ \E p \in job.todo :
          /\ mem' = PutEntry(mem, p[1], p[2])
          /\ job' = [job EXCEPT !.pc = "prune", !.todo = @ \ {p}]
    /\ UNCHANGED <<maps, said, attached>>

PruneOne ==
    /\ job.pc = "prune" /\ Over(mem)
    /\ mem' = RemoveEntry(mem, mem.tail)
    /\ UNCHANGED <<maps, said, job, attached>>

PruneDone ==
    /\ job.pc = "prune" /\ ~Over(mem)
    /\ job' = [job EXCEPT !.pc = IF job.todo # {} THEN "put"
                                 ELSE IF job.wanted # {} THEN "restore" ELSE "idle"]
    /\ UNCHANGED <<mem, maps, said, attached>>
-----------------------------------------------------------------------------
(* Requests.                                                               *)

\* A client sends messages with calls it was given; one may join the calls of
\* two answers or leave some out.
Request(groups) ==
    /\ job.pc = "idle"
    /\ {} \notin groups /\ groups # {}
    /\ job' = [Idle EXCEPT !.pc = "restore", !.files = DOMAIN maps,
                           !.wanted = UNION groups, !.groups = groups]
    /\ attached' = Unattached
    /\ UNCHANGED <<mem, maps, said>>

\* Mutant: a map is read up to its first entry that is wanted.
ReadableFirst(text, wanted) ==
    IF \E p \in maps[text] : p[1] \in wanted
    THEN {CHOOSE p \in maps[text] : p[1] \in wanted} ELSE {}

\* kv_tool_map_load_from_pos: a map that is too long is not read.
Readable(text, wanted) ==
    IF Cardinality(maps[text]) > 4 * MaxEntries THEN {}
    ELSE {p \in maps[text] : p[1] \in wanted}

\* kv_cache_restore_tool_memory_for_messages, one file of the directory.
RestoreFile ==
    /\ job.pc = "restore"
    /\ \E t \in job.files :
          job' = [job EXCEPT !.files = @ \ {t}, !.todo = Readable(t, job.wanted),
                             !.pc = IF Readable(t, job.wanted) = {} THEN @ ELSE "put"]
    /\ UNCHANGED <<mem, maps, said, attached>>

\* tool_memory_attach_to_messages, one message.
Message ==
    /\ job.pc \in {"restore", "attach"} /\ job.files = {} /\ job.rest = {}
    /\ job.group = {}
    /\ \E g \in job.groups :
          job' = [job EXCEPT !.pc = "attach", !.groups = @ \ {g}, !.group = g, !.rest = g,
                             !.match = Null, !.exact = TRUE]
    /\ UNCHANGED <<mem, maps, said, attached>>

\* Mutant: the first block found is taken for the whole message.
SameBlockAny(e) == TRUE

SameBlock(e) == job.match = Null \/ job.match = mem.block[e]

\* tool_memory_lookup_locked for one of its calls.
LookUp ==
    /\ job.pc = "attach" /\ mem.clock < MaxClock
    /\ \E e \in job.rest :
          IF e \in mem.ids
          THEN /\ mem' = Touch(mem, e)
               /\ job' = [job EXCEPT !.rest = @ \ {e},
                                     !.match = IF @ = Null THEN mem.block[e] ELSE @,
                                     !.exact = @ /\ SameBlock(e)]
          ELSE /\ job' = [job EXCEPT !.rest = @ \ {e}, !.exact = FALSE]
               /\ UNCHANGED mem
    /\ UNCHANGED <<maps, said, attached>>

Attach ==
    /\ job.pc = "attach" /\ job.group # {} /\ job.rest = {}
    /\ attached' = [group |-> job.group, text |-> IF job.exact THEN job.match ELSE Null]
    /\ job' = IF job.groups = {} THEN Idle ELSE [job EXCEPT !.group = {}]
    /\ UNCHANGED <<mem, maps, said>>
-----------------------------------------------------------------------------
(* Checkpoint files.                                                       *)

\* kv_tool_map_write: the entries of the blocks found in the text.
Written(text) == {p \in Pairs : p[2] \in Found(text) /\ p[1] \in mem.users[p[2]]}

\* A checkpoint is stored; the map of one that is there is replaced unless
\* there is nothing to write.
SaveMap(text) ==
    /\ job.pc = "idle"
    /\ maps' = [t \in DOMAIN maps \cup {text} |->
                   IF t = text /\ (t \notin DOMAIN maps \/ Written(t) # {})
                   THEN Written(t) ELSE maps[t]]
    /\ attached' = Unattached
    /\ UNCHANGED <<mem, said, job>>

\* A checkpoint is loaded, and its whole map with it.
LoadMap(text) ==
    /\ job.pc = "idle"
    /\ text \in DOMAIN maps /\ Readable(text, Ids) # {}
    /\ job' = [Idle EXCEPT !.pc = "put", !.todo = Readable(text, Ids)]
    /\ attached' = Unattached
    /\ UNCHANGED <<mem, maps, said>>

\* A checkpoint is evicted.
DropFile(text) ==
    /\ job.pc = "idle"
    /\ text \in DOMAIN maps
    /\ maps' = Restrict(maps, DOMAIN maps \ {text})
    /\ attached' = Unattached
    /\ UNCHANGED <<mem, said, job>>

\* The process ends and another is started with the same directory.
Restart ==
    /\ mem # Empty
    /\ mem' = Empty
    /\ job' = Idle /\ attached' = Unattached
    /\ UNCHANGED <<maps, said>>

Groups == SUBSET ({s.ids : s \in said} \cup {UNION {s.ids : s \in said}})

Next ==
    \/ \E a \in Answers : Remember(a) \/ RememberNone(a)
    \/ Put \/ PruneOne \/ PruneDone
    \/ \E g \in Groups : Request(g)
    \/ RestoreFile \/ Message \/ LookUp \/ Attach
    \/ \E t \in Texts : SaveMap(t) \/ LoadMap(t) \/ DropFile(t)
    \/ Restart

Spec == Init /\ [][Next]_vars
-----------------------------------------------------------------------------
(* Properties.                                                             *)

\* The list links exactly the entries in L, both ways, the used last first.
Linked(m, L) ==
    /\ (m.head = Null) <=> (L = {})
    /\ (m.tail = Null) <=> (L = {})
    /\ L # {} => /\ m.head \in L /\ m.prev[m.head] = Null
                 /\ m.tail \in L /\ m.next[m.tail] = Null
    /\ \A e \in L : /\ m.next[e] = Null => e = m.tail
                    /\ m.prev[e] = Null => e = m.head
                    /\ m.next[e] # Null => /\ m.next[e] \in L /\ m.prev[m.next[e]] = e
                                           /\ m.stamp[m.next[e]] < m.stamp[e]
                    /\ m.prev[e] # Null => m.prev[e] \in L /\ m.next[m.prev[e]] = e

\* A block is kept as long as an entry names it, and counts its entries.
Shared(m) ==
    /\ \A e \in m.ids : m.block[e] \in Blocks
    /\ \A b \in Blocks : /\ m.users[b] = {e \in m.ids : m.block[e] = b}
                         /\ m.refs[b] = Cardinality(m.users[b])

\* Bytes that the ids in S and the blocks in B take; those of the blocks are
\* told apart and counted.
BytesOf(b) == {b} \X (1..BlockBytes(b))
Size(S, B) == EntryBytes * Cardinality(S) + Cardinality(UNION {BytesOf(b) : b \in B})

\* by_id, the list, the blocks and the number of entries always tell the same,
\* in the middle of a prune or a replacement too.
Consistent ==
    /\ Linked(mem, mem.ids)
    /\ Shared(mem)
    /\ mem.entries = Cardinality(mem.ids)

\* The byte count is exact, though a block shared by several entries is only
\* given back with the last of them, and after each put both limits hold.
WithinLimits ==
    /\ mem.bytes = Size(mem.ids, {b \in Blocks : mem.refs[b] > 0})
    /\ job.pc \notin {"put", "prune"} => mem.entries <= MaxEntries /\ mem.bytes <= MaxBytes

\* A prune drops the entry whose last use is the longest ago.
OldestGoes ==
    [][PruneOne => \A e \in mem.ids \ mem'.ids : \A x \in mem.ids :
                      mem.stamp[e] <= mem.stamp[x]]_vars

\* A message is only given a text that the model produced for each of its
\* calls, whatever was forgotten, restored or shared in between.
AttachTrue ==
    attached.text # Null =>
        \A e \in attached.group : \E s \in said : e \in s.ids /\ s.block = attached.text

\* What a request needs and a checkpoint file holds is in the memory when its
\* messages are looked up, if all of it fits: restoring one entry never costs
\* another one of the same request that came from a file.
Held == {p \in UNION {maps[t] : t \in {u \in DOMAIN maps : Cardinality(maps[u]) <= 4 * MaxEntries}} :
            p[1] \in job.wanted}
Fits == LET ids == {p[1] : p \in Held}
        IN  Cardinality(ids) <= MaxEntries /\ Size(ids, {p[2] : p \in Held}) <= MaxBytes

RestoreServes == job.pc = "attach" /\ Fits => \A p \in Held : p[1] \in mem.ids

\* test_official_tool_call_block_is_trailer_visible (sf37_server.c:8870): the
\* calls in a checkpoint's text are saved with it, so that they are spelled
\* alike after a restart.
Within(block, text) ==
    \E i \in 1..Len(text) : SubSeq(text, i, i + Len(block) - 1) = block

RememberedIsSaved ==
    [][\A t \in DOMAIN maps' : maps' # maps =>
          \A e \in mem.ids : Within(mem.block[e], t) => <<e, mem.block[e]>> \in maps'[t]]_vars
=============================================================================
