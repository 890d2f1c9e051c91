------------------------------- MODULE Server -------------------------------
(***************************************************************************)
(* The life of the HTTP server process (src/sf37_server.c): the accept     *)
(* loop of main, one detached thread per connection, gen_mu that lets one  *)
(* generation at a time use the session, the count of client threads and   *)
(* its condition variable, the signal handler that asks for a shutdown,    *)
(* and the drain after which main stores the session and frees everything. *)
(* What a generation does to the session is the subject of Generation.     *)
(***************************************************************************)
EXTENDS Integers, FiniteSets

CONSTANTS
    Conns,    \* connections, each made once
    Handlers, \* threads a signal may be delivered to: "main", "client"
    Faults    \* "peer": clients that go away, "spawn": pthread_create and
              \* accept that fail

ASSUME ServerAssumption ==
    /\ IsFiniteSet(Conns) /\ "nobody" \notin Conns
    /\ Handlers \subseteq {"main", "client"}
    /\ Faults \subseteq {"peer", "spawn"}

VARIABLES
    main,      \* where main is
    cur,       \* the connection accept has just returned
    signals,   \* signals handled so far; g_stop_requested is signals > 0
    listening, \* g_listen_fd >= 0
    woken,     \* the signal interrupted the accept that main is blocked in
    clients,   \* state.clients
    gen,       \* the thread holding gen_mu, or Nobody
    pc,        \* where each connection's thread is
    refused,   \* connections told "shutdown requested"
    replied    \* how much of its response each connection was sent

vars == <<main, cur, signals, listening, woken, clients, gen, pc, refused, replied>>

Nobody == "nobody"
Stopping == signals > 0

\* Connections without a thread, and those whose thread exists.
Threadless == {"absent", "backlog", "closed", "ended"}
Threads == {c \in Conns : pc[c] \notin Threadless}

TypeOK ==
    /\ main \in {"loop", "call", "accept", "accepted", "create", "drain", "wait",
                 "store", "free", "exited", "killed"}
    /\ cur \in Conns \cup {Nobody}
    /\ signals \in 0..1
    /\ listening \in BOOLEAN /\ woken \in BOOLEAN
    /\ clients \in Nat
    /\ gen \in Conns \cup {Nobody}
    /\ pc \in [Conns -> Threadless \cup {"read", "lock", "locked", "parse", "run",
                                         "unlock", "reply", "done"}]
    /\ refused \in SUBSET Conns
    /\ replied \in [Conns -> {"nothing", "part", "all"}]

Init ==
    /\ main = "loop" /\ cur = Nobody
    /\ signals = 0 /\ listening = TRUE /\ woken = FALSE
    /\ clients = 0 /\ gen = Nobody
    /\ pc = [c \in Conns |-> "absent"]
    /\ refused = {}
    /\ replied = [c \in Conns |-> "nothing"]
-----------------------------------------------------------------------------
(* Clients and signals.                                                    *)

\* A client connects while the listening socket is open, or while main's accept
\* still holds it open.
Connect(c) ==
    /\ pc[c] = "absent"
    /\ listening \/ (main = "accept" /\ ~woken)
    /\ pc' = [pc EXCEPT ![c] = "backlog"]
    /\ UNCHANGED <<main, cur, signals, listening, woken, clients, gen, refused, replied>>

\* stop_signal_handler, first signal: the flag is set, the socket closed.  Only
\* a handler that runs on main's own stack interrupts its accept.
FirstSignal(thread) ==
    /\ signals = 0 /\ main \notin {"exited", "killed"}
    /\ thread = "client" => Threads # {}
    /\ signals' = 1
    /\ listening' = FALSE
    /\ woken' = (thread = "main" /\ main = "accept")
    /\ UNCHANGED <<main, cur, clients, gen, pc, refused, replied>>

\* A second signal ends the process at once.
SecondSignal ==
    /\ Stopping /\ main \notin {"exited", "killed"}
    /\ main' = "killed"
    /\ UNCHANGED <<cur, signals, listening, woken, clients, gen, pc, refused, replied>>
-----------------------------------------------------------------------------
(* main.                                                                   *)

MainStays == UNCHANGED <<signals, listening, woken, gen, refused, replied>>

\* The loop condition, and then the call of accept: it fails at once if the
\* socket was closed in between.
LoopTest ==
    /\ main = "loop"
    /\ main' = IF Stopping THEN "drain" ELSE "call"
    /\ MainStays /\ UNCHANGED <<cur, clients, pc>>

CallAccept ==
    /\ main = "call"
    /\ main' = IF listening THEN "accept" ELSE "drain"
    /\ MainStays /\ UNCHANGED <<cur, clients, pc>>

AcceptConn(c) ==
    /\ main = "accept"
    /\ pc[c] = "backlog"
    /\ main' = "accepted" /\ cur' = c
    /\ MainStays /\ UNCHANGED <<clients, pc>>

\* accept returns an error: the signal interrupted it, or it failed by itself,
\* which ends the loop as well.
AcceptError ==
    /\ main = "accept"
    /\ woken \/ "spawn" \in Faults
    /\ main' = "drain"
    /\ MainStays /\ UNCHANGED <<cur, clients, pc>>

\* Mutant: the client is counted by its own thread, after it was created.
CountClientLate ==
    /\ main = "accepted"
    /\ IF Stopping
       THEN /\ main' = "drain" /\ cur' = Nobody
            /\ pc' = [pc EXCEPT ![cur] = "closed"]
       ELSE main' = "create" /\ UNCHANGED <<cur, pc>>
    /\ MainStays /\ UNCHANGED clients

\* A connection accepted after the stop is closed, any other is counted before
\* its thread exists.
CountClient ==
    /\ main = "accepted"
    /\ IF Stopping
       THEN /\ main' = "drain" /\ cur' = Nobody
            /\ pc' = [pc EXCEPT ![cur] = "closed"]
            /\ UNCHANGED clients
       ELSE /\ main' = "create"
            /\ clients' = clients + 1
            /\ UNCHANGED <<cur, pc>>
    /\ MainStays

\* Mutant: the failure path forgets the count.
CreateThreadLeaksCount ==
    /\ main = "create"
    /\ main' = "loop" /\ cur' = Nobody
    /\ \/ pc' = [pc EXCEPT ![cur] = "read"]
       \/ "spawn" \in Faults /\ pc' = [pc EXCEPT ![cur] = "closed"]
    /\ MainStays /\ UNCHANGED clients

CreateThread ==
    /\ main = "create"
    /\ main' = "loop" /\ cur' = Nobody
    /\ \/ pc' = [pc EXCEPT ![cur] = "read"] /\ UNCHANGED clients
       \/ /\ "spawn" \in Faults
          /\ pc' = [pc EXCEPT ![cur] = "closed"]
          /\ clients' = clients - 1
    /\ MainStays

\* The drain: main sleeps on clients_cv while any client is counted.  Leaving
\* the loop closes the socket if the handler has not.
Drain ==
    /\ main = "drain"
    /\ main' = IF clients > 0 THEN "wait" ELSE "store"
    /\ listening' = FALSE
    /\ UNCHANGED <<cur, signals, woken, clients, gen, pc, refused, replied>>

\* kv_cache_store_current(&state, "shutdown"), which reads the session without
\* gen_mu, and then everything is freed.
StoreAndFree ==
    /\ main \in {"store", "free"}
    /\ main' = IF main = "store" THEN "free" ELSE "exited"
    /\ MainStays /\ UNCHANGED <<cur, clients, pc>>
-----------------------------------------------------------------------------
(* Client threads.                                                         *)

Goto(c, where) == pc' = [pc EXCEPT ![c] = where]
ThreadStays == UNCHANGED <<main, cur, signals, listening, woken, clients>>

\* read_http_request and the choice of the handler: a generation takes gen_mu,
\* any other endpoint and any malformed request is answered directly.  The
\* receive timeout bounds how long this takes.
ReadRequest(c) ==
    /\ pc[c] = "read"
    /\ Goto(c, "lock") \/ Goto(c, "reply")
    /\ ThreadStays /\ UNCHANGED <<gen, refused, replied>>

LockGen(c) ==
    /\ pc[c] = "lock" /\ gen = Nobody
    /\ gen' = c
    /\ Goto(c, "locked")
    /\ ThreadStays /\ UNCHANGED <<refused, replied>>

\* Mutant: the early return forgets to unlock gen_mu.
TestStopKeepsLock(c) ==
    /\ pc[c] = "locked"
    /\ IF Stopping
       THEN refused' = refused \cup {c} /\ Goto(c, "reply")
       ELSE Goto(c, "parse") /\ UNCHANGED refused
    /\ ThreadStays /\ UNCHANGED <<gen, replied>>

\* The first test under gen_mu: a request that waited through the stop is
\* refused before it is parsed.
TestStop(c) ==
    /\ pc[c] = "locked"
    /\ IF Stopping
       THEN gen' = Nobody /\ refused' = refused \cup {c} /\ Goto(c, "reply")
       ELSE Goto(c, "parse") /\ UNCHANGED <<gen, refused>>
    /\ ThreadStays /\ UNCHANGED replied

\* Mutant: gen_mu protects the parsing only.
ParseUnlocksEarly(c) ==
    /\ pc[c] = "parse"
    /\ gen' = Nobody
    /\ \/ Goto(c, "reply") /\ UNCHANGED refused
       \/ Stopping /\ Goto(c, "reply") /\ refused' = refused \cup {c}
       \/ ~Stopping /\ Goto(c, "run") /\ UNCHANGED refused
    /\ ThreadStays /\ UNCHANGED replied

\* Parsing renders prompts and reads the tool memory and the live states.  A
\* bad request is answered after gen_mu is released, a good one tests the stop
\* once more before the session is touched.
ParseRequest(c) ==
    /\ pc[c] = "parse"
    /\ \/ gen' = Nobody /\ Goto(c, "reply") /\ UNCHANGED refused
       \/ Stopping /\ gen' = Nobody /\ Goto(c, "reply") /\ refused' = refused \cup {c}
       \/ ~Stopping /\ Goto(c, "run") /\ UNCHANGED <<gen, refused>>
    /\ ThreadStays /\ UNCHANGED replied

\* run_generation: prefill and decode check the stop at every chunk and token,
\* and send_all refuses to send after it, so the response ends where it is.
Run(c) ==
    /\ pc[c] = "run"
    /\ \/ ~Stopping /\ replied' = [replied EXCEPT ![c] = "part"] /\ UNCHANGED pc
       \/ ~Stopping /\ replied' = [replied EXCEPT ![c] = "all"] /\ Goto(c, "unlock")
       \/ /\ Stopping \/ "peer" \in Faults
          /\ Goto(c, "unlock") /\ UNCHANGED replied
    /\ ThreadStays /\ UNCHANGED <<gen, refused>>

UnlockGen(c) ==
    /\ pc[c] = "unlock"
    /\ gen' = Nobody
    /\ Goto(c, "done")
    /\ ThreadStays /\ UNCHANGED <<refused, replied>>

\* http_send and http_error_for_api go through send_all, whose loop gives up as
\* soon as a stop is requested.
Reply(c) ==
    /\ pc[c] = "reply"
    /\ Goto(c, "done")
    /\ replied' \in {[replied EXCEPT ![c] = s] :
                     s \in (IF Stopping THEN {"nothing"} ELSE {"all"})
                           \cup (IF "peer" \in Faults THEN {"nothing", "part"} ELSE {})}
    /\ ThreadStays /\ UNCHANGED <<gen, refused>>

\* Mutant: main is not woken.
ClientDoneSilently(c) ==
    /\ pc[c] = "done"
    /\ Goto(c, "ended")
    /\ clients' = IF clients > 0 THEN clients - 1 ELSE clients
    /\ UNCHANGED <<main, cur, signals, listening, woken, gen, refused, replied>>

\* close(fd) and server_client_done, which wakes main if it sleeps.
ClientDone(c) ==
    /\ pc[c] = "done"
    /\ Goto(c, "ended")
    /\ clients' = IF clients > 0 THEN clients - 1 ELSE clients
    /\ main' = IF main = "wait" THEN "drain" ELSE main
    /\ UNCHANGED <<cur, signals, listening, woken, gen, refused, replied>>
-----------------------------------------------------------------------------
Over == main \in {"exited", "killed"}

MainStep ==
    \/ LoopTest \/ CallAccept \/ AcceptError \/ CountClient \/ CreateThread
    \/ Drain \/ StoreAndFree
    \/ \E c \in Conns : AcceptConn(c)

ClientStep(c) ==
    /\ ~Over
    /\ \/ ReadRequest(c) \/ LockGen(c) \/ TestStop(c) \/ ParseRequest(c) \/ Run(c)
       \/ UnlockGen(c) \/ Reply(c) \/ ClientDone(c)

\* Nothing happens in a process that is gone.
Finished == Over /\ UNCHANGED vars

Next ==
    \/ \E c \in Conns : Connect(c)
    \/ \E t \in Handlers : FirstSignal(t)
    \/ SecondSignal
    \/ MainStep
    \/ \E c \in Conns : ClientStep(c)
    \/ Finished

Spec == Init /\ [][Next]_vars

\* Threads are scheduled, an accepted connection is returned by accept, reading
\* a request ends by its receive timeout and a generation by its token limit.
\* No signal has to come, no connection has to be made, no call has to fail.
FairSpec ==
    /\ Spec
    /\ WF_vars(LoopTest \/ CallAccept \/ CountClient \/ CreateThread \/ Drain \/ StoreAndFree)
    /\ WF_vars(woken /\ AcceptError)
    /\ WF_vars(\E c \in Conns : AcceptConn(c))
    /\ \A c \in Conns : WF_vars(ClientStep(c))
-----------------------------------------------------------------------------
(* Properties.                                                             *)

\* gen_mu keeps the session, the tool memory of a request and the disk cache to
\* one thread: at most one parses or generates, and it is the one that holds
\* the mutex, on every path out of handle_generation_request.
InGeneration == {c \in Conns : pc[c] \in {"locked", "parse", "run", "unlock"}}

SessionExclusive == \A c \in InGeneration : gen = c

\* main reads the session for the shutdown checkpoint without gen_mu and frees
\* engine, session and mutexes next: by then no thread that could use them is
\* left, however late it was created or however a signal hit.
NoUseAfterFree ==
    main \in {"store", "free", "exited"} => /\ \A c \in Conns : pc[c] \in Threadless
                                            /\ gen = Nobody

\* state.clients is what the drain waits for, so it must be exact between
\* creating a thread and the thread's own decrement, failed creations included.
ClientsCounted ==
    main # "killed" =>
    clients = Cardinality(Threads) + (IF main = "create" THEN 1 ELSE 0)

\* Once a generation is under way or waits for the mutex, its thread ends: no
\* early return keeps gen_mu.
EveryRequestEnds ==
    \A c \in Conns : (pc[c] = "lock") ~> (pc[c] = "ended" \/ main = "killed")

\* A stop ends the process, whatever main and the clients were doing, unless a
\* client thread took the signal while main was blocked in accept: the drain is
\* woken by the last client.
StopExits == (Stopping /\ (main = "accept" => woken)) ~> Over

\* handle_generation_request answers a request it refuses with 503 "shutdown
\* requested" (sf37_server.c:8355): a client that stays to read is told so.
RefusalDelivered ==
    \A c \in refused : pc[c] = "ended" => replied[c] = "all"
=============================================================================
