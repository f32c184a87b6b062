----------------------- MODULE CompletionProxy_proofs -----------------------
(***************************************************************************)
(* Theorems about CompletionProxy, for any number of completions, threads  *)
(* and connections.                                                        *)
(***************************************************************************)
EXTENDS CompletionProxy, FiniteSetTheorems, TLAPS

(* One client at most is made, and whoever is past backend_http_client has *)
(* that one.                                                               *)
ClientInv ==
  /\ clients \in {0, 1}
  /\ \A r \in Requests :
       pc[r] \notin {"queued", "client", "lock"} => clientOf[r] = 1 /\ clients = 1

(* Whoever has ended, or is about to be recorded, has an outcome.          *)
Decided ==
  \A r \in Requests : pc[r] \in {"record", "done"} => outcome[r] # "none"

RecordedWhenDone == \A r \in Requests : recorded[r] = IF pc[r] = "done" THEN 1 ELSE 0

ProxyInv == TypeOK /\ HeldWhileOpen /\ ClientInv /\ Decided /\ RecordedWhenDone

LEMMA ProxyInit == Init => ProxyInv
  BY DEF Init, ProxyInv, TypeOK, HeldWhileOpen, ClientInv, Decided, RecordedWhenDone, Locations,
         Unstarted, Suspended

(* A step that only moves r between two places where it holds a            *)
(* connection, or two where it holds none.                                 *)
LEMMA MovingStep ==
  ASSUME ProxyInv, NEW r \in Requests,
         Start(r) \/ Advance(r) \/ SendReturns(r) \/ HeadersArrive(r) \/ CloseUnstarted(r)
  PROVE  ProxyInv'
  <1> USE DEF ProxyInv, TypeOK, Goto, clientPool, Unstarted, Suspended
  <1>1. UNCHANGED <<clients, clientOf, connections, outcome, chunks, gone, recorded>>
    BY DEF Start, Advance, SendReturns, HeadersArrive, CloseUnstarted
  <1>2. PICK to \in Locations :
          /\ pc' = [pc EXCEPT ![r] = to]
          /\ \/ pc[r] = "queued" /\ to = "client"
             \/ pc[r] \in {"headers", "respond", "started", "sending", "between"}
                  /\ to \in {"respond", "body", "started", "next", "between", "abandoned"}
    BY DEF Start, Advance, SendReturns, HeadersArrive, CloseUnstarted, Locations
  <1>3. TypeOK'
    BY <1>1, <1>2
  <1>4. HeldWhileOpen'
    BY <1>1, <1>2 DEF HeldWhileOpen
  <1>5. ClientInv'
    BY <1>1, <1>2 DEF ClientInv
  <1>6. Decided' /\ RecordedWhenDone'
    BY <1>1, <1>2 DEF Decided, RecordedWhenDone
  <1>7. QED
    BY <1>3, <1>4, <1>5, <1>6

LEMMA ClientStep ==
  ASSUME ProxyInv, NEW r \in Requests, FindClient(r) \/ MakeClient(r)
  PROVE  ProxyInv'
  <1> USE DEF ProxyInv, TypeOK, Goto, Unstarted, Suspended
  <1>1. UNCHANGED <<connections, outcome, chunks, gone, recorded>>
    BY DEF FindClient, MakeClient
  <1>2. PICK to \in {"lock", "pool"} :
          /\ pc[r] \in {"client", "lock"}
          /\ pc' = [pc EXCEPT ![r] = to]
          /\ clients' \in {0, 1}
          /\ clients = 1 => clients' = 1
          /\ clientOf' = [clientOf EXCEPT ![r] = clients']
          /\ to = "pool" => clients' = 1
    BY DEF FindClient, MakeClient, ClientInv, ClientsOnceLocked
  <1>3. TypeOK'
    BY <1>1, <1>2 DEF Locations
  <1>4. HeldWhileOpen'
    BY <1>1, <1>2 DEF HeldWhileOpen
  <1>5. ClientInv'
    BY <1>2 DEF ClientInv
  <1>6. Decided' /\ RecordedWhenDone'
    BY <1>1, <1>2 DEF Decided, RecordedWhenDone
  <1>7. QED
    BY <1>3, <1>4, <1>5, <1>6

(* The steps that take a connection, count a chunk or end without one.     *)
LEMMA WorkingStep ==
  ASSUME ProxyInv, NEW r \in Requests, Connect(r) \/ PoolTimeout(r) \/ YieldChunk(r)
  PROVE  ProxyInv'
  <1> USE DEF ProxyInv, TypeOK, Goto, Decide, clientPool, Unstarted, Suspended
  <1>1. CASE Connect(r)
    <2>1. TypeOK'
      BY <1>1 DEF Connect, Locations
    <2>2. HeldWhileOpen'
      BY <1>1 DEF Connect, HeldWhileOpen
    <2>3. ClientInv' /\ Decided' /\ RecordedWhenDone'
      BY <1>1 DEF Connect, ClientInv, Decided, RecordedWhenDone
    <2>4. QED
      BY <2>1, <2>2, <2>3
  <1>2. CASE PoolTimeout(r)
    <2>1. TypeOK'
      BY <1>2 DEF PoolTimeout, Locations
    <2>2. HeldWhileOpen'
      BY <1>2 DEF PoolTimeout, HeldWhileOpen
    <2>3. ClientInv' /\ Decided' /\ RecordedWhenDone'
      BY <1>2 DEF PoolTimeout, ClientInv, Decided, RecordedWhenDone
    <2>4. QED
      BY <2>1, <2>2, <2>3
  <1>3. CASE YieldChunk(r)
    <2>1. TypeOK'
      BY <1>3 DEF YieldChunk, Locations
    <2>2. HeldWhileOpen'
      BY <1>3 DEF YieldChunk, HeldWhileOpen
    <2>3. ClientInv' /\ Decided' /\ RecordedWhenDone'
      BY <1>3 DEF YieldChunk, ClientInv, Decided, RecordedWhenDone
    <2>4. QED
      BY <2>1, <2>2, <2>3
  <1>4. QED
    BY <1>1, <1>2, <1>3

(* The steps that close the backend's response.                            *)
LEMMA ClosingStep ==
  ASSUME ProxyInv, NEW r \in Requests,
         HeadersFail(r) \/ ReadBody(r) \/ EndOfStream(r) \/ CloseSuspended(r)
  PROVE  ProxyInv'
  <1> USE DEF ProxyInv, TypeOK, Goto, Decide, Release, clientPool, Unstarted, Suspended
  <1>1. UNCHANGED <<clients, clientOf, chunks, gone>> /\ connections' = connections \ {r}
    BY DEF HeadersFail, ReadBody, EndOfStream, CloseSuspended
  <1>2. PICK to \in {"record", "done"} :
          /\ pc[r] \in {"headers", "body", "next", "sending", "between"}
          /\ pc' = [pc EXCEPT ![r] = to]
          /\ recorded' = IF to = "done" THEN [recorded EXCEPT ![r] = @ + 1] ELSE recorded
    BY DEF HeadersFail, ReadBody, EndOfStream, CloseSuspended
  <1>3. PICK o \in {"allowed", "backend_error"} : outcome' = [outcome EXCEPT ![r] = o]
    BY DEF HeadersFail, ReadBody, EndOfStream, CloseSuspended
  <1>4. TypeOK'
    BY <1>1, <1>2, <1>3 DEF Locations
  <1>5. HeldWhileOpen'
    BY <1>1, <1>2 DEF HeldWhileOpen
  <1>6. ClientInv'
    BY <1>1, <1>2 DEF ClientInv
  <1>7. Decided'
    BY <1>2, <1>3 DEF Decided
  <1>8. RecordedWhenDone'
    BY <1>2 DEF RecordedWhenDone
  <1>9. QED
    BY <1>4, <1>5, <1>6, <1>7, <1>8

LEMMA ProxyStep == ProxyInv /\ [Next]_vars => ProxyInv'
  <1> SUFFICES ASSUME ProxyInv, [Next]_vars PROVE ProxyInv'
    OBVIOUS
  <1> USE DEF ProxyInv, Unstarted, Suspended
  <1>1. CASE UNCHANGED vars
    BY <1>1 DEF vars, clientPool, TypeOK, HeldWhileOpen, ClientInv, Decided, RecordedWhenDone
  <1>2. CASE Next
    <2>1. PICK r \in Requests : Start(r) \/ Advance(r) \/ Proceed(r) \/ SendReturns(r) \/ ClientLeaves(r)
      BY <1>2 DEF Next
    <2>2. CASE Record(r)
      <3>1. UNCHANGED <<clients, clientOf, connections, outcome, chunks, gone>>
        BY <2>2 DEF Record, clientPool
      <3>2. /\ pc[r] = "record" /\ pc' = [pc EXCEPT ![r] = "done"]
            /\ recorded' = [recorded EXCEPT ![r] = @ + 1]
        BY <2>2 DEF Record, Goto
      <3>3. TypeOK'
        BY <3>1, <3>2 DEF TypeOK, Locations
      <3>4. HeldWhileOpen'
        BY <3>1, <3>2 DEF TypeOK, HeldWhileOpen
      <3>5. ClientInv' /\ Decided' /\ RecordedWhenDone'
        BY <3>1, <3>2 DEF TypeOK, ClientInv, Decided, RecordedWhenDone
      <3>6. QED
        BY <3>3, <3>4, <3>5
    <2>3. CASE ClientLeaves(r)
      BY <2>3 DEF ClientLeaves, clientPool, TypeOK, HeldWhileOpen, ClientInv, Decided,
                  RecordedWhenDone
    <2>4. QED
      BY <2>1, <2>2, <2>3, MovingStep, ClientStep, WorkingStep, ClosingStep DEF Proceed
  <1>3. QED
    BY <1>1, <1>2

LEMMA ProxyInvariant == Spec => []ProxyInv
  BY ProxyInit, ProxyStep, PTL DEF Spec

-----------------------------------------------------------------------------
(* Every variable keeps its type.                                          *)
THEOREM TypeCorrect == Spec => []TypeOK
  <1>1. ProxyInv => TypeOK
    BY DEF ProxyInv
  <1>2. QED
    BY <1>1, ProxyInvariant, PTL

(* A connection is held exactly while a backend response is open on it:    *)
(* from the send to the close, on every way a completion can end.          *)
THEOREM ConnectionsHeldWhileOpen == Spec => []HeldWhileOpen
  <1>1. ProxyInv => HeldWhileOpen
    BY DEF ProxyInv
  <1>2. QED
    BY <1>1, ProxyInvariant, PTL

(* A completion that ended was recorded once, and not before its           *)
(* connection was returned; no other was recorded.                         *)
THEOREM OutcomesRecordedOnce == Spec => []RecordedOnceReleased
  <1>1. ProxyInv => RecordedOnceReleased
    BY DEF ProxyInv, HeldWhileOpen, Decided, RecordedWhenDone, RecordedOnceReleased,
           Unstarted, Suspended
  <1>2. QED
    BY <1>1, ProxyInvariant, PTL

-----------------------------------------------------------------------------
(* The limit of the one client is the limit of the process.                *)
OvercommitInv == IsFiniteSet(connections) /\ BackendNeverOvercommitted

LEMMA OvercommitStep == ProxyInv /\ OvercommitInv /\ [Next]_vars => OvercommitInv'
  <1> SUFFICES ASSUME ProxyInv, OvercommitInv, [Next]_vars PROVE OvercommitInv'
    OBVIOUS
  <1> USE DEF OvercommitInv, BackendNeverOvercommitted
  <1>1. CASE UNCHANGED connections
    BY <1>1
  <1>2. ASSUME NEW r \in Requests, Connect(r) PROVE OvercommitInv'
    <2>1. pc[r] = "pool" /\ ConnectionFree(r) /\ connections' = connections \cup {r}
      BY <1>2 DEF Connect, Goto
    <2>2. \A q \in connections : q \in Requests /\ clientOf[q] = clientOf[r]
      BY <2>1 DEF ProxyInv, TypeOK, ClientInv, HeldWhileOpen, Unstarted, Suspended
    <2>3. {q \in connections : clientOf[q] = clientOf[r]} = connections
      BY <2>2
    <2>4. Cardinality(connections) < MaxConnections
      BY <2>1, <2>3 DEF ConnectionFree
    <2>5. Cardinality(connections) \in Nat /\ MaxConnections \in Nat
      BY FS_CardinalityType, CompletionProxyAssumption
    <2>6. /\ IsFiniteSet(connections \cup {r})
          /\ Cardinality(connections \cup {r}) <= Cardinality(connections) + 1
      BY <2>5, FS_AddElement
    <2>7. Cardinality(connections \cup {r}) \in Nat
      BY <2>6, FS_CardinalityType
    <2>8. QED
      BY <2>1, <2>4, <2>5, <2>6, <2>7
  <1>3. ASSUME NEW r \in Requests, connections' = connections \ {r} PROVE OvercommitInv'
    <2>1. Cardinality(connections) \in Nat /\ MaxConnections \in Nat
      BY FS_CardinalityType, CompletionProxyAssumption
    <2>2. /\ IsFiniteSet(connections \ {r})
          /\ Cardinality(connections \ {r}) <= Cardinality(connections)
      <3>1. connections \ {r} \in SUBSET connections
        OBVIOUS
      <3>2. QED
        BY <3>1, FS_Subset
    <2>3. Cardinality(connections \ {r}) \in Nat
      BY <2>2, FS_CardinalityType
    <2>4. QED
      BY <1>3, <2>1, <2>2, <2>3
  <1>4. QED
    BY <1>1, <1>2, <1>3 DEF Next, vars, clientPool, Start, Advance, Proceed, SendReturns, ClientLeaves,
       FindClient, MakeClient, PoolTimeout, HeadersArrive, HeadersFail, ReadBody, Record,
       YieldChunk, EndOfStream, CloseSuspended, CloseUnstarted, Release

(* However many completions race to make the HTTP client, the backend sees *)
(* no more of them at once than one client's limit.                        *)
THEOREM NeverOvercommitted == Spec => []BackendNeverOvercommitted
  <1>1. Init => OvercommitInv
    BY FS_EmptySet, CompletionProxyAssumption
       DEF Init, OvercommitInv, BackendNeverOvercommitted
  <1>2. OvercommitInv => BackendNeverOvercommitted
    BY DEF OvercommitInv
  <1>3. QED
    BY <1>1, <1>2, OvercommitStep, ProxyInvariant, PTL DEF Spec

-----------------------------------------------------------------------------
(* A client that may not leave early is still there until its stream       *)
(* starts, so nobody's stream is dropped before it started.                *)
PatientInv ==
  \A r \in Requests :
    /\ r \in gone => pc[r] \in {"next", "sending", "between", "record", "done"}
    /\ pc[r] # "abandoned"

LEMMA PatientStep ==
  EarlyLeavers = {} /\ ProxyInv /\ PatientInv /\ [Next]_vars => PatientInv'
  <1> SUFFICES ASSUME EarlyLeavers = {}, ProxyInv, PatientInv, [Next]_vars PROVE PatientInv'
    OBVIOUS
  <1> USE DEF PatientInv, Goto, ProxyInv, TypeOK, Unstarted, Suspended
  <1>1. CASE UNCHANGED vars
    BY <1>1 DEF vars
  <1>2. ASSUME NEW r \in Requests, ClientLeaves(r) PROVE PatientInv'
    BY <1>2 DEF ClientLeaves
  <1>3. ASSUME NEW r \in Requests, Start(r) \/ FindClient(r) \/ MakeClient(r) \/ Connect(r)
                                     \/ PoolTimeout(r) \/ HeadersArrive(r) \/ HeadersFail(r)
        PROVE  PatientInv'
    <2>1. UNCHANGED gone /\ r \notin gone
      BY <1>3 DEF Start, FindClient, MakeClient, Connect, PoolTimeout, HeadersArrive, HeadersFail
    <2>2. PICK to \in Locations \ {"abandoned"} : pc' = [pc EXCEPT ![r] = to]
      BY <1>3 DEF Start, FindClient, MakeClient, Connect, PoolTimeout, HeadersArrive,
                  HeadersFail, Locations
    <2>3. QED
      BY <2>1, <2>2
  <1>4. ASSUME NEW r \in Requests, ReadBody(r) \/ Record(r) \/ Advance(r) \/ YieldChunk(r)
                                     \/ EndOfStream(r) \/ CloseSuspended(r)
        PROVE  PatientInv'
    <2>1. UNCHANGED gone
      BY <1>4 DEF ReadBody, Record, Advance, YieldChunk, EndOfStream, CloseSuspended
    <2>2. PICK to \in {"next", "sending", "record", "done"} : pc' = [pc EXCEPT ![r] = to]
      BY <1>4 DEF ReadBody, Record, Advance, YieldChunk, EndOfStream, CloseSuspended
    <2>3. QED
      BY <2>1, <2>2
  <1>5. ASSUME NEW r \in Requests, SendReturns(r) PROVE PatientInv'
    BY <1>5 DEF SendReturns
  <1>6. ASSUME NEW r \in Requests PROVE ~ CloseUnstarted(r)
    BY DEF CloseUnstarted
  <1>7. QED
    BY <1>1, <1>2, <1>3, <1>4, <1>5, <1>6 DEF Next, Proceed

(* The connections that are never returned are all of one kind: as long as *)
(* no client leaves before its stream is started, every completion that    *)
(* has ended has closed its backend response.                              *)
THEOREM OnlyEarlyLeaversLeak ==
  ASSUME EarlyLeavers = {}
  PROVE  Spec => []OwnerCloses
  <1>1. Init => PatientInv
    BY DEF Init, PatientInv
  <1>2. ProxyInv /\ PatientInv => OwnerCloses
    BY DEF ProxyInv, HeldWhileOpen, PatientInv, OwnerCloses, Settled, Unstarted, Suspended
  <1>3. ProxyInv /\ PatientInv /\ [Next]_vars => PatientInv'
    BY PatientStep
  <1>4. QED
    BY <1>1, <1>2, <1>3, ProxyInvariant, PTL DEF Spec
=============================================================================
