--------------------------- MODULE CompletionProxy ---------------------------
(***************************************************************************)
(* How an admitted completion is passed through (gateway/app.py,           *)
(* completions and iter_completion_response; gateway/backend_adapter.py,   *)
(* open_completion_response).  Two things are scarce and are held at the   *)
(* same time: the worker threads of the server's pool, which run a handler *)
(* from its start to its return and the generator of a stream from one     *)
(* chunk to the next, and the connections of the process-wide HTTP client, *)
(* which are held until the response is closed.  A handler that waits for  *)
(* a connection keeps its thread; a stream that waits for a thread, or for *)
(* its client to read what it was sent, keeps its connection.  The HTTP    *)
(* client itself is made by the first handlers that want it                *)
(* (backend_http_client).                                                  *)
(***************************************************************************)
EXTENDS Integers, FiniteSets

CONSTANTS
  Requests,        \* admitted completions
  Streams,         \* those of them that asked for a stream
  Threads,         \* worker threads of the server
  MaxConnections,  \* INFERENCE_BACKEND_MAX_CONNECTIONS
  MaxChunks,       \* the most chunks of one stream: completions are finite
  EarlyLeavers     \* clients that may leave before their body starts

ASSUME CompletionProxyAssumption ==
  /\ IsFiniteSet(Requests)
  /\ Streams \subseteq Requests
  /\ EarlyLeavers \subseteq Requests
  /\ Threads \in Nat \ {0}
  /\ MaxConnections \in Nat \ {0}
  /\ MaxChunks \in Nat

VARIABLES
  pc,           \* where each request is
  clients,      \* HTTP clients made so far; _http_client is the last one
  clientOf,     \* the client each request was given, 0 before that
  connections,  \* requests that hold a connection of the pool
  outcome,      \* what record_completion_event will say
  chunks,       \* chunks sent to each client
  gone,         \* requests whose client has disconnected
  recorded      \* history: how often each request was recorded

clientPool == <<clients, clientOf>>
vars == <<pc, clientPool, connections, outcome, chunks, gone, recorded>>

(* "client" and "lock": in backend_http_client, before its first test and  *)
(* before its lock.  "pool": in send(), waiting for a connection.          *)
(* "headers" and "body": on the wire.  "respond": the handler returned a   *)
(* StreamingResponse, which awaits the send of the response's start.       *)
(* "started": sent, and the generator waits for a thread for the first     *)
(* time.  "next": a thread runs the generator.  "sending": the generator   *)
(* is suspended at a yield, and the send of its chunk is awaited; "between": *)
(* that is sent, and the next chunk waits for a thread.                    *)
Locations == {"queued", "client", "lock", "pool", "headers", "body", "record",
              "respond", "started", "next", "sending", "between", "done", "abandoned"}

Unstarted == {"respond", "started"}

Suspended == {"sending", "between"}

OnThread == {"client", "lock", "pool", "headers", "body", "record", "next"}

ThreadFree == Cardinality({r \in Requests : pc[r] \in OnThread}) < Threads

ConnectionFree(r) ==
  Cardinality({q \in connections : clientOf[q] = clientOf[r]}) < MaxConnections

Goto(r, from, to) ==
  /\ pc[r] = from
  /\ pc' = [pc EXCEPT ![r] = to]

(* Mutant: the response is not closed.                                     *)
ReleaseNothing(r) == UNCHANGED connections

Release(r) == connections' = connections \ {r}

Decide(r, o) == outcome' = [outcome EXCEPT ![r] = o]

Init ==
  /\ pc = [r \in Requests |-> "queued"]
  /\ clients = 0
  /\ clientOf = [r \in Requests |-> 0]
  /\ connections = {}
  /\ outcome = [r \in Requests |-> "none"]
  /\ chunks = [r \in Requests |-> 0]
  /\ gone = {}
  /\ recorded = [r \in Requests |-> 0]

(* The server gives the handler a thread.                                  *)
Start(r) ==
  /\ ThreadFree
  /\ Goto(r, "queued", "client")
  /\ UNCHANGED <<clientPool, connections, outcome, chunks, gone, recorded>>

(* backend_http_client: the first test, without the lock.                  *)
FindClient(r) ==
  /\ Goto(r, "client", IF clients = 0 THEN "lock" ELSE "pool")
  /\ clientOf' = [clientOf EXCEPT ![r] = clients]
  /\ UNCHANGED <<clients, connections, outcome, chunks, gone, recorded>>

(* Mutant: the test is not repeated under the lock.                        *)
ClientsAlwaysMade == clients + 1

ClientsOnceLocked == IF clients = 0 THEN 1 ELSE clients

(* The second test and the assignment, under the lock.                     *)
MakeClient(r) ==
  /\ Goto(r, "lock", "pool")
  /\ clients' = ClientsOnceLocked
  /\ clientOf' = [clientOf EXCEPT ![r] = clients']
  /\ UNCHANGED <<connections, outcome, chunks, gone, recorded>>

Connect(r) ==
  /\ ConnectionFree(r)
  /\ Goto(r, "pool", "headers")
  /\ connections' = connections \cup {r}
  /\ UNCHANGED <<clientPool, outcome, chunks, gone, recorded>>

(* Mutant: the wait for the pool is not limited.                           *)
NoPoolTimeout(r) == FALSE

(* httpx.PoolTimeout, an HTTPError: BackendAdapterError.                   *)
PoolTimeout(r) ==
  /\ Goto(r, "pool", "record")
  /\ Decide(r, "backend_error")
  /\ UNCHANGED <<clientPool, connections, chunks, gone, recorded>>

HeadersArrive(r) ==
  /\ Goto(r, "headers", IF r \in Streams THEN "respond" ELSE "body")
  /\ UNCHANGED <<clientPool, connections, outcome, chunks, gone, recorded>>

(* A transport error, a timeout, or a status that is not 2xx and is closed *)
(* by open_completion_response.                                            *)
HeadersFail(r) ==
  /\ Goto(r, "headers", "record")
  /\ Release(r)
  /\ Decide(r, "backend_error")
  /\ UNCHANGED <<clientPool, chunks, gone, recorded>>

(* backend_response.read() returns or raises HTTPError; either way it is   *)
(* closed before the request is recorded.                                  *)
ReadBody(r) ==
  /\ Goto(r, "body", "record")
  /\ Release(r)
  /\ \E o \in {"allowed", "backend_error"} : Decide(r, o)
  /\ UNCHANGED <<clientPool, chunks, gone, recorded>>

(* record_completion_event, and the handler's or the generator's return.   *)
Record(r) ==
  /\ Goto(r, "record", "done")
  /\ recorded' = [recorded EXCEPT ![r] = @ + 1]
  /\ UNCHANGED <<clientPool, connections, outcome, chunks, gone>>

(* The server's send() returns.  It waits while the client's connection    *)
(* takes no more (flow control), so that a client that stays and does not  *)
(* read can keep it waiting for ever; nothing limits this wait.            *)
SendReturns(r) ==
  /\ \/ Goto(r, "respond", "started")
     \/ Goto(r, "sending", "between")
  /\ UNCHANGED <<clientPool, connections, outcome, chunks, gone, recorded>>

(* The server advances the generator on a thread of the pool.              *)
Advance(r) ==
  /\ ThreadFree
  /\ \/ Goto(r, "started", "next")
     \/ Goto(r, "between", "next")
  /\ UNCHANGED <<clientPool, connections, outcome, chunks, gone, recorded>>

YieldChunk(r) ==
  /\ chunks[r] < MaxChunks
  /\ Goto(r, "next", "sending")
  /\ chunks' = [chunks EXCEPT ![r] = @ + 1]
  /\ UNCHANGED <<clientPool, connections, outcome, gone, recorded>>

(* iter_raw ends, or raises HTTPError: the finally clause closes the       *)
(* response and records on the same thread.                                *)
EndOfStream(r) ==
  /\ Goto(r, "next", "record")
  /\ Release(r)
  /\ \E o \in {"allowed", "backend_error"} : Decide(r, o)
  /\ UNCHANGED <<clientPool, chunks, gone, recorded>>

(* Handlers are not told; only the streaming response listens.             *)
ClientLeaves(r) ==
  /\ pc[r] \in {"next"} \cup Suspended \/ (r \in EarlyLeavers /\ pc[r] # "queued")
  /\ pc[r] \notin {"done", "abandoned"}
  /\ gone' = gone \cup {r}
  /\ UNCHANGED <<clientPool, pc, connections, outcome, chunks, recorded>>

(* Mutant: the disconnect is recorded and the finally clause records too.  *)
CloseSuspendedTwice(r) ==
  /\ r \in gone
  /\ pc[r] \in Suspended
  /\ pc' = [pc EXCEPT ![r] = "record"]
  /\ Release(r)
  /\ Decide(r, "backend_error")
  /\ recorded' = [recorded EXCEPT ![r] = @ + 1]
  /\ UNCHANGED <<clientPool, chunks, gone>>

(* The response is cancelled while the generator is suspended at a yield:  *)
(* GeneratorExit is raised there, on the event loop, without a pool        *)
(* thread.                                                                 *)
CloseSuspended(r) ==
  /\ r \in gone
  /\ pc[r] \in Suspended
  /\ pc' = [pc EXCEPT ![r] = "done"]
  /\ Release(r)
  /\ Decide(r, "backend_error")
  /\ recorded' = [recorded EXCEPT ![r] = @ + 1]
  /\ UNCHANGED <<clientPool, chunks, gone>>

(* The response is cancelled before the generator was first advanced.      *)
(* Closing a generator that never started runs none of its code, so nobody *)
(* closes the backend response and nothing is recorded.                    *)
CloseUnstarted(r) ==
  /\ r \in gone
  /\ pc[r] \in Unstarted
  /\ pc' = [pc EXCEPT ![r] = "abandoned"]
  /\ UNCHANGED <<clientPool, connections, outcome, chunks, gone, recorded>>

(* What a running thread or the event loop does without waiting for a      *)
(* thread or a client.                                                     *)
Proceed(r) ==
  \/ FindClient(r) \/ MakeClient(r) \/ Connect(r) \/ PoolTimeout(r)
  \/ HeadersArrive(r) \/ HeadersFail(r)
  \/ ReadBody(r) \/ Record(r) \/ YieldChunk(r) \/ EndOfStream(r)
  \/ CloseSuspended(r) \/ CloseUnstarted(r)

Next ==
  \E r \in Requests :
    Start(r) \/ Advance(r) \/ Proceed(r) \/ SendReturns(r) \/ ClientLeaves(r)

Spec == Init /\ [][Next]_vars

(* A running thread runs on: each wait on the backend has a timeout, and   *)
(* its bodies are finite.  The queue for the server's threads is first     *)
(* come, first served, so whoever finds a thread free again and again is   *)
(* given one.  Nothing is assumed of clients: one may leave or not, and    *)
(* read what it is sent or not (SendReturns).                              *)
Fairness ==
  \A r \in Requests : WF_vars(Proceed(r)) /\ SF_vars(Start(r)) /\ SF_vars(Advance(r))

FairSpec == Spec /\ Fairness

-----------------------------------------------------------------------------
TypeOK ==
  /\ pc \in [Requests -> Locations]
  /\ clients \in Nat
  /\ clientOf \in [Requests -> Nat]
  /\ connections \in SUBSET Requests
  /\ outcome \in [Requests -> {"none", "allowed", "backend_error"}]
  /\ chunks \in [Requests -> Nat]
  /\ gone \in SUBSET Requests
  /\ recorded \in [Requests -> Nat]

Settled(r) == pc[r] \in {"done", "abandoned"}

(* A connection is held exactly while a response is open on it, and an     *)
(* open response always has one: nothing is closed under a reader, nothing *)
(* is kept by a request that finished.                                     *)
HeldWhileOpen ==
  \A r \in Requests :
    r \in connections <=>
      pc[r] \in {"headers", "body", "next", "abandoned"} \cup Unstarted \cup Suspended

(* The outcome is recorded once, by whichever end comes first: the end of  *)
(* the body, its failure, or the client's leaving (app.py:442, 473, 491,   *)
(* 672-680), and never while the request still occupies the backend.       *)
RecordedOnceReleased ==
  \A r \in Requests :
    /\ recorded[r] = IF pc[r] = "done" THEN 1 ELSE 0
    /\ recorded[r] > 0 => r \notin connections /\ outcome[r] # "none"

AwaitsClient(r) == pc[r] \in {"respond", "sending"}

(* Handlers that wait for a connection hold the threads that the streams   *)
(* which hold the connections wait for, and a client that does not read    *)
(* keeps its stream's connection for as long as it stays.  Neither stops   *)
(* the others: whatever the two limits are, every completion ends, but for *)
(* a stream that waits for its own client for ever                         *)
(* (backend_adapter.py:106, app.py:465).                                   *)
EveryCompletionEnds ==
  \A r \in Requests : <>Settled(r) \/ <>[]AwaitsClient(r)

(* The backend never sees more requests at once than the one client of the *)
(* process may have connections, also when the first requests race to make *)
(* the client (backend_adapter.py:24-52).                                  *)
BackendNeverOvercommitted == Cardinality(connections) <= MaxConnections

(* backend_adapter.py:66: "The caller owns the returned response and must  *)
(* close it."  A completion that has ended has returned its connection.    *)
OwnerCloses == \A r \in Requests : Settled(r) => r \notin connections
=============================================================================
