------------------------ MODULE SecureTransportProofs ------------------------
(* Theorems about SecureTransport, for every value of its constants.       *)
EXTENDS SecureTransport, SequenceTheorems, TLAPS

-----------------------------------------------------------------------------
(* The inductive invariant.                                                *)

\* Where a thread is says which operation it performs and what it holds.
Holds(t) ==
    /\ pc[t] \in {"token", "provider", "use", "flight"} => op[t] \in Kinds
    /\ pc[t] = "lock" \/ pc[t] \in Building => op[t] # "none"
    /\ pc[t] \in Closing => op[t] \in Reloads \cup Closes
    /\ pc[t] \in {"idle", "token", "provider", "lock"} => hand[t] = NoClients
    /\ pc[t] \in {"use", "flight"} =>
          hand[t][op[t]] # 0 /\ clients[hand[t][op[t]]].kind = op[t]

Held == \A t \in Threads : Holds(t)

\* What a build found in the cache when it took the lock is still there, and
\* only reload holds a client, the first of two, while it builds another.
UnderLock ==
    \A t \in Threads : pc[t] \in Building =>
        /\ ~closed
        /\ op[t] \in Kinds \cup Reloads
        /\ hand[t]["async"] = 0
        /\ op[t] \in Kinds => hand[t]["sync"] = 0 /\ ~Cached(op[t])
        /\ op[t] = "reload" => cached # NoClients
        /\ op[t] = "reload_sync" => Cached("sync") /\ ~Cached("async") /\ hand[t]["sync"] = 0
        /\ hand[t]["sync"] # 0 => Cached("sync") /\ Cached("async")

\* The client a reload has built is open and nobody else's; clients that are
\* still to be closed are not cached.
Disjoint ==
    /\ \A t \in Threads : pc[t] \in Building /\ hand[t]["sync"] # 0 =>
          /\ hand[t]["sync"] \in open
          /\ clients[hand[t]["sync"]].kind = "sync"
          /\ \A k \in Kinds : cached[k] # hand[t]["sync"]
          /\ \A u \in Threads, k \in Kinds : pc[u] \in Closing => hand[u][k] # hand[t]["sync"]
    /\ \A t \in Threads : pc[t] \in Closing =>
          \A k \in Kinds : hand[t][k] # 0 => \A j \in Kinds : hand[t][k] # cached[j]
    /\ \A t \in Threads : pc[t] = "closeAsync" => hand[t]["sync"] \notin open

Owned == Held /\ UnderLock /\ Disjoint /\ CachedUsable /\ ClosedIsFinal /\ NoLeak

\* What a thread has to see: a request no less than the last reload promised,
\* a reload at least that, and what was read so far is new enough for both.
Sees(t) ==
    /\ asof[t] <= generation
    /\ op[t] \in Kinds => asof[t] <= promised
    /\ pc[t] \in Building /\ op[t] \in Reloads => asof[t] >= promised
    /\ pc[t] = "identity" => readCa >= promised /\ readCa >= asof[t]
    /\ pc[t] \in Building /\ hand[t]["sync"] # 0 =>
          LET c == clients[hand[t]["sync"]] IN c.ca >= asof[t] /\ c.identity >= asof[t]

\* What is cached is as new as the last reload promised.
Generations ==
    /\ promised <= generation
    /\ \A t \in Threads : Sees(t)
    /\ \A k \in Kinds : Cached(k) =>
          LET c == clients[cached[k]] IN c.ca >= promised /\ c.identity >= promised

Fresh == Generations /\ FreshAfterReload

IInv == TypeOK /\ Owned /\ Fresh

-----------------------------------------------------------------------------
(* Type correctness.                                                       *)

LEMMA PointFacts ==
    /\ Building \subseteq Points /\ Closing \subseteq Points
    /\ {"idle", "token", "provider", "lock", "use", "flight"} \subseteq Points \ (Building \cup Closing)
    /\ Building \cap Closing = {}
    /\ Kinds \cap (Reloads \cup Closes) = {} /\ Reloads \cap Closes = {}
    /\ "none" \notin Operations
    /\ Operations = Kinds \cup Reloads \cup Closes
  BY DEF Points, Building, Closing, Kinds, Reloads, Closes, Operations

LEMMA InitTypes == Init => TypeOK
  <1> SUFFICES ASSUME Init
               PROVE  TypeOK
    OBVIOUS
  <1>1. clients \in Seq(Client) /\ open \subseteq Ids
    BY EmptySeq DEF Init
  <1>2. cached \in [Kinds -> Ids \cup {0}] /\ hand \in [Threads -> [Kinds -> Ids \cup {0}]]
    BY DEF Init, NoClients
  <1>3. \A t \in Threads : lock = t <=> pc[t] \in Building
    BY ThreadsAssumption DEF Init, Building
  <1>4. pc \in [Threads -> Points] /\ op \in [Threads -> Operations \cup {"none"}]
    BY PointFacts DEF Init
  <1>5. generation \in 0 .. MaxGeneration
    BY BoundsAssumption DEF Init
  <1> QED
    BY <1>1, <1>2, <1>3, <1>4, <1>5 DEF Init, TypeOK

\* A thread that returns without having held the lock keeps the types.
LEMMA ReturnTypes ==
    ASSUME TypeOK, NEW t \in Threads, Return(t), pc[t] \notin Building,
           UNCHANGED <<files, lock, closed, cached, clients, readCa, begun>>,
           open' \subseteq open, promised' \in Nat
    PROVE  TypeOK'
  BY PointFacts DEF TypeOK, Return, Goto, NoClients, files, Ids

\* So does one that goes on, with typed local variables.
LEMMA GotoTypes ==
    ASSUME TypeOK, NEW t \in Threads, NEW p \in Points, Goto(t, p),
           pc[t] \in Building <=> p \in Building,
           UNCHANGED <<files, lock, clients, op, asof, promised, begun>>,
           closed' \in BOOLEAN, cached' \in [Kinds -> Ids \cup {0}],
           open' \subseteq open, readCa' \in Nat,
           hand' \in [Threads -> [Kinds -> Ids \cup {0}]]
    PROVE  TypeOK'
  BY DEF TypeOK, Goto, files, Ids

\* A client that is built is appended: the numbers of the others stay theirs.
LEMMA NewClientFacts ==
    ASSUME TypeOK, NEW t \in Threads, NEW k \in Kinds, NewClient(t, k)
    PROVE  /\ clients' \in Seq(Client) /\ Len(clients) \in Nat /\ Len(clients') = New
           /\ New \in Ids' /\ New \notin Ids /\ New # 0 /\ Ids \subseteq Ids' /\ 0 \notin Ids
           /\ \A i \in Ids : clients'[i] = clients[i]
           /\ clients'[New] = [kind |-> k, ca |-> readCa, identity |-> FileGeneration("identity")]
           /\ readCa' = 0
           /\ FileGeneration("identity") \in Nat /\ FileGeneration("identity") >= generation
  <1> DEFINE c == [kind |-> k, ca |-> readCa, identity |-> FileGeneration("identity")]
  <1>1. FileGeneration("identity") \in Nat /\ FileGeneration("identity") >= generation
    BY BoundsAssumption DEF TypeOK, FileGeneration
  <1>2. c \in Client
    BY <1>1 DEF TypeOK, Client
  <1>3. clients \in Seq(Client) /\ clients' = Append(clients, c) /\ readCa' = 0
    BY DEF TypeOK, NewClient
  <1> HIDE DEF c
  <1>4. /\ clients' \in Seq(Client) /\ Len(clients') = Len(clients) + 1
        /\ \A i \in 1 .. Len(clients) : clients'[i] = clients[i]
        /\ clients'[Len(clients) + 1] = c
    BY <1>2, <1>3, AppendProperties
  <1>5. Len(clients) \in Nat
    BY <1>3, LenProperties
  <1> QED
    BY <1>1, <1>3, <1>4, <1>5 DEF Ids, New, c

LEMMA NewClientFields ==
    ASSUME TypeOK, NEW t \in Threads, NEW k \in Kinds, NewClient(t, k)
    PROVE  /\ New \notin Ids /\ New # 0 /\ 0 \notin Ids
           /\ \A i \in Ids : clients'[i] = clients[i]
           /\ clients'[New].kind = k /\ clients'[New].ca = readCa
           /\ clients'[New].identity = FileGeneration("identity")
  <1>1. clients'[New] = [kind |-> k, ca |-> readCa, identity |-> FileGeneration("identity")]
    BY NewClientFacts
  <1>2. /\ New \notin Ids /\ New # 0 /\ 0 \notin Ids
        /\ \A i \in Ids : clients'[i] = clients[i]
    BY NewClientFacts
  <1> QED
    BY <1>1, <1>2

LEMMA LockTypes ==
    ASSUME TypeOK, NEW t \in Threads,
           \/ CheckToken(t) \/ TakeCached(t) \/ Refuse(t) \/ ReloadNothing(t) \/ Retire(t)
           \/ StartBuild(t)
    PROVE  TypeOK'
  <1>1. CASE CheckToken(t)
    BY <1>1, ReturnTypes, GotoTypes, PointFacts DEF TypeOK, CheckToken, files, store, Building
  <1>2. CASE TakeCached(t)
    <2>1. hand' \in [Threads -> [Kinds -> Ids \cup {0}]]
      BY <1>2 DEF TypeOK, TakeCached
    <2> QED
      BY <1>2, <2>1, GotoTypes, PointFacts DEF TypeOK, TakeCached, store, history, Building
  <1>3. CASE Refuse(t)
    BY <1>3, ReturnTypes, PointFacts DEF TypeOK, Refuse, store, Building
  <1>4. CASE ReloadNothing(t)
    <2>1. promised' \in Nat
      BY <1>4, BoundsAssumption DEF TypeOK, ReloadNothing
    <2> QED
      BY <1>4, <2>1, ReturnTypes, PointFacts DEF TypeOK, ReloadNothing, store, Building
  <1>5. CASE Retire(t)
    <2>1. hand' \in [Threads -> [Kinds -> Ids \cup {0}]] /\ cached' \in [Kinds -> Ids \cup {0}]
      BY <1>5 DEF TypeOK, Retire, NoClients
    <2>2. "closeSync" \in Points \ Building /\ "lock" \notin Building
      BY DEF Points, Building, Closing
    <2> QED
      BY <1>5, <2>1, <2>2, GotoTypes DEF TypeOK, Retire, history
  <1>6. CASE StartBuild(t)
    <2>1. asof' \in [Threads -> Nat]
      BY <1>6, BoundsAssumption DEF TypeOK, StartBuild
    <2>2. \A u \in Threads : pc[u] \notin Building
      BY <1>6, ThreadsAssumption DEF TypeOK, StartBuild, Free
    <2>3. "ca" \in Building /\ "ca" \in Points
      BY DEF Points, Building
    <2> QED
      BY <1>6, <2>1, <2>2, <2>3 DEF TypeOK, StartBuild, Goto, files, store, Ids
  <1> QED
    BY <1>1, <1>2, <1>3, <1>4, <1>5, <1>6

LEMMA BuildTypes ==
    ASSUME TypeOK, NEW t \in Threads,
           ReadCa(t) \/ BuiltForRequest(t) \/ BuiltFirst(t) \/ Install(t) \/ BuildFails(t)
    PROVE  TypeOK'
  <1>1. CASE ReadCa(t)
    <2>1. readCa' \in Nat
      BY <1>1, BoundsAssumption DEF TypeOK, ReadCa, FileGeneration
    <2>2. pc[t] \in Building /\ "identity" \in Building /\ "identity" \in Points
      BY <1>1 DEF ReadCa, Building, Points
    <2> QED
      BY <1>1, <2>1, <2>2, GotoTypes DEF TypeOK, ReadCa, store, history
  <1>2. ASSUME pc[t] \in Building
        PROVE  lock = t /\ \A u \in Threads \ {t} : pc[u] \notin Building
    BY <1>2 DEF TypeOK
  <1>3. "identity" \in Building /\ "ca" \in Building /\ "ca" \in Points
    BY DEF Building, Points
  <1>4. {"idle", "use", "closeSync"} \subseteq Points \ Building
    BY DEF Building, Points, Closing
  <1>5. CASE BuiltForRequest(t)
    <2>1. op[t] \in Kinds /\ NewClient(t, op[t]) /\ pc[t] \in Building
      BY <1>3, <1>5 DEF BuiltForRequest, NewClient
    <2> DEFINE o == op[t]
    <2>10. o \in Kinds /\ NewClient(t, o)
      BY <2>1
    <2> HIDE DEF o
    <2>11. /\ clients' \in Seq(Client) /\ New \in Ids' /\ Ids \subseteq Ids' /\ readCa' = 0
      BY <2>10, NewClientFacts
    <2>12. /\ cached' = [cached EXCEPT ![o] = New] /\ hand' = [hand EXCEPT ![t][o] = New]
          /\ open' = open \cup {New}
      BY <1>5 DEF BuiltForRequest, o
    <2>2. cached' \in [Kinds -> Ids' \cup {0}] /\ hand' \in [Threads -> [Kinds -> Ids' \cup {0}]]
      BY <2>10, <2>11, <2>12 DEF TypeOK
    <2>3. clients' \in Seq(Client) /\ open' \subseteq Ids' /\ readCa' \in Nat
      BY <2>11, <2>12 DEF TypeOK
    <2>4. pc' = [pc EXCEPT ![t] = "use"] /\ lock' = NoThread
      BY <1>5 DEF BuiltForRequest, Goto
    <2>5. \A u \in Threads : lock' = u <=> pc'[u] \in Building
      BY <1>2, <1>4, <2>1, <2>4, ThreadsAssumption DEF TypeOK
    <2> QED
      BY <1>4, <1>5, <2>2, <2>3, <2>4, <2>5 DEF TypeOK, BuiltForRequest, files, history
  <1>6. CASE BuiltFirst(t)
    <2>1. "sync" \in Kinds /\ NewClient(t, "sync") /\ pc[t] \in Building
      BY <1>3, <1>6 DEF BuiltFirst, NewClient, Kinds
    <2>10. /\ clients' \in Seq(Client) /\ New \in Ids' /\ Ids \subseteq Ids' /\ readCa' = 0
      BY <2>1, NewClientFacts
    <2>2. cached' \in [Kinds -> Ids' \cup {0}] /\ hand' \in [Threads -> [Kinds -> Ids' \cup {0}]]
      BY <1>6, <2>1, <2>10 DEF TypeOK, BuiltFirst
    <2>3. clients' \in Seq(Client) /\ open' \subseteq Ids' /\ readCa' \in Nat
      BY <1>6, <2>10 DEF TypeOK, BuiltFirst
    <2>4. pc' = [pc EXCEPT ![t] = "ca"] /\ lock' = lock
      BY <1>6 DEF BuiltFirst, Goto
    <2>5. \A u \in Threads : lock' = u <=> pc'[u] \in Building
      BY <1>2, <1>3, <2>1, <2>4 DEF TypeOK
    <2> QED
      BY <1>3, <1>6, <2>2, <2>3, <2>4, <2>5 DEF TypeOK, BuiltFirst, files, history
  <1>7. CASE Install(t)
    <2>1. PICK k \in Kinds : /\ NewClient(t, k) /\ (k = "sync" => ~Cached("async"))
                             /\ cached' = [hand[t] EXCEPT ![k] = New]
      BY <1>7 DEF Install
    <2>2. pc[t] \in Building
      BY <1>3, <2>1 DEF NewClient
    <2>10. /\ clients' \in Seq(Client) /\ New \in Ids' /\ Ids \subseteq Ids' /\ readCa' = 0
      BY <2>1, NewClientFacts
    <2>3. cached' \in [Kinds -> Ids' \cup {0}] /\ hand' \in [Threads -> [Kinds -> Ids' \cup {0}]]
      BY <1>7, <2>1, <2>10 DEF TypeOK, Install
    <2>4. clients' \in Seq(Client) /\ open' \subseteq Ids' /\ readCa' \in Nat
      BY <1>7, <2>10 DEF TypeOK, Install
    <2>5. pc' = [pc EXCEPT ![t] = "closeSync"] /\ lock' = NoThread
      BY <1>7 DEF Install, Goto
    <2>6. \A u \in Threads : lock' = u <=> pc'[u] \in Building
      BY <1>2, <1>4, <2>2, <2>5, ThreadsAssumption DEF TypeOK
    <2>7. promised' \in Nat
      BY <1>7 DEF TypeOK, Install
    <2> QED
      BY <1>4, <1>7, <2>3, <2>4, <2>5, <2>6, <2>7 DEF TypeOK, Install, files
  <1>8. CASE BuildFails(t)
    <2>1. pc' = [pc EXCEPT ![t] = "idle"] /\ lock' = NoThread /\ pc[t] \in Building
      BY <1>8 DEF BuildFails, Return, Goto
    <2>2. \A u \in Threads : lock' = u <=> pc'[u] \in Building
      BY <1>2, <1>4, <2>1, ThreadsAssumption DEF TypeOK
    <2> QED
      BY <1>4, <1>8, <2>1, <2>2 DEF TypeOK, BuildFails, Return, NoClients, files, Ids
  <1> QED
    BY <1>1, <1>5, <1>6, <1>7, <1>8

LEMMA OutsideTypes ==
    ASSUME TypeOK, NEW t \in Threads,
           \/ CloseSync(t) \/ CloseAsync(t) \/ Send(t) \/ ClientUnusable(t)
           \/ ProviderReturns(t) \/ RequestEnds(t) \/ \E o \in Operations : Begin(t, o)
    PROVE  TypeOK'
  <1>1. CASE CloseSync(t)
    <2>1. "closeAsync" \in Points \ Building /\ "closeSync" \notin Building
      BY DEF Points, Building, Closing
    <2> QED
      BY <1>1, <2>1, GotoTypes DEF TypeOK, CloseSync, history
  <1>2. CASE CloseAsync(t)
    <2>1. pc[t] \notin Building
      BY <1>2 DEF CloseAsync, Building
    <2> QED
      BY <1>2, <2>1, ReturnTypes DEF TypeOK, CloseAsync
  <1>3. CASE Send(t)
    BY <1>3, GotoTypes, PointFacts DEF TypeOK, Send, store, history, Building
  <1>4. CASE ClientUnusable(t)
    BY <1>4, ReturnTypes, PointFacts DEF TypeOK, ClientUnusable, store, Building
  <1>5. CASE ProviderReturns(t)
    BY <1>5, ReturnTypes, GotoTypes, PointFacts DEF TypeOK, ProviderReturns, store, Building
  <1>6. CASE RequestEnds(t)
    BY <1>6, ReturnTypes, PointFacts DEF TypeOK, RequestEnds, store, Building
  <1>7. ASSUME NEW o \in Operations, Begin(t, o)
        PROVE  TypeOK'
    <2>1. pc[t] \notin Building
      BY <1>7 DEF Begin, Building
    <2>2. PICK p \in Points \ Building : pc' = [pc EXCEPT ![t] = p]
      BY <1>7, PointFacts DEF Begin, Goto
    <2> QED
      BY <1>7, <2>1, <2>2 DEF TypeOK, Begin, files, store, Ids
  <1> QED
    BY <1>1, <1>2, <1>3, <1>4, <1>5, <1>6, <1>7

LEMMA RewriteTypes ==
    ASSUME TypeOK, NEW f \in Files, Rewrite(f)
    PROVE  TypeOK'
  <1>1. generation' \in 0 .. MaxGeneration /\ rewritten' \subseteq Files
    BY BoundsAssumption DEF TypeOK, Rewrite
  <1> QED
    BY <1>1 DEF TypeOK, Rewrite, store, history, Ids

\* Types, and the lock held exactly while a client is being built.
THEOREM TypeCorrectness == Spec => []TypeOK
  <1>1. Init => TypeOK
    BY InitTypes
  <1>2. TypeOK /\ [Next]_vars => TypeOK'
    <2> SUFFICES ASSUME TypeOK, [Next]_vars
                 PROVE  TypeOK'
      OBVIOUS
    <2>1. CASE UNCHANGED vars
      BY <2>1 DEF TypeOK, vars, files, store, history, Ids
    <2>2. CASE Next
      BY <2>2, LockTypes, BuildTypes, OutsideTypes, RewriteTypes DEF Next, Step
    <2> QED
      BY <2>1, <2>2
  <1> QED
    BY <1>1, <1>2, PTL DEF Spec

-----------------------------------------------------------------------------
(* Clients are owned, under the lock and after it is released.             *)

LEMMA InitOwned == Init => Owned
  BY DEF Init, Owned, Held, Holds, UnderLock, Disjoint, CachedUsable, ClosedIsFinal, NoLeak,
     Cached, NoClients, Building, Closing, Kinds

\* A thread that neither holds the lock nor has clients to close may move as it
\* likes, as long as it holds what its new place says.
LEMMA MoveOwned ==
    ASSUME TypeOK, Owned, NEW t \in Threads,
           UNCHANGED <<lock, store>>,
           \A u \in Threads \ {t} : pc'[u] = pc[u] /\ op'[u] = op[u] /\ hand'[u] = hand[u],
           pc[t] \notin Building \cup Closing, pc'[t] \notin Building \cup Closing,
           Holds(t)'
    PROVE  Owned'
  <1>1. Held'
    BY DEF Owned, Held, Holds, store
  <1>2. UnderLock'
    BY DEF Owned, UnderLock, Cached, store
  <1>3. Disjoint'
    <2>1. pc'[t] # "closeAsync"
      BY DEF Closing
    <2> QED
      BY <2>1 DEF Owned, Disjoint, store
  <1>4. CachedUsable' /\ ClosedIsFinal'
    BY DEF Owned, CachedUsable, ClosedIsFinal, Cached, Free, store
  <1>5. NoLeak'
    BY DEF Owned, NoLeak, store
  <1> QED
    BY <1>1, <1>2, <1>3, <1>4, <1>5 DEF Owned

LEMMA ReturnOwned ==
    ASSUME TypeOK, Owned, NEW t \in Threads, Return(t), UNCHANGED <<lock, store>>,
           pc[t] \notin Building \cup Closing
    PROVE  Owned'
  <1>1. pc'[t] = "idle" /\ op'[t] = "none" /\ hand'[t] = NoClients
    BY DEF TypeOK, Return, Goto
  <1>2. Holds(t)'
    BY <1>1 DEF Holds, Building, Closing
  <1>3. \A u \in Threads \ {t} : pc'[u] = pc[u] /\ op'[u] = op[u] /\ hand'[u] = hand[u]
    BY DEF TypeOK, Return, Goto
  <1>4. pc'[t] \notin Building \cup Closing
    BY <1>1 DEF Building, Closing
  <1> QED
    BY <1>2, <1>3, <1>4, MoveOwned

\* Requests and the steps that take no lock for long.
LEMMA QuietOwned ==
    ASSUME TypeOK, Owned, NEW t \in Threads,
           \/ CheckToken(t) \/ TakeCached(t) \/ Refuse(t) \/ ReloadNothing(t) \/ Send(t)
           \/ ClientUnusable(t) \/ ProviderReturns(t) \/ RequestEnds(t)
           \/ \E o \in Operations : Begin(t, o)
    PROVE  Owned'
  <1>1. {"idle", "token", "provider", "lock", "use", "flight"} \cap (Building \cup Closing) = {}
    BY PointFacts
  <1>2. Holds(t)
    BY DEF Owned, Held
  <1>3. CASE CheckToken(t) \/ ProviderReturns(t)
    <2>1. CASE Return(t)
      BY <1>1, <1>3, <2>1, ReturnOwned DEF CheckToken, ProviderReturns
    <2>2. CASE ~Return(t)
      <3>1. /\ pc'[t] \in {"provider", "lock"} /\ pc[t] \in {"token", "provider"}
            /\ \A u \in Threads \ {t} : pc'[u] = pc[u]
            /\ UNCHANGED <<lock, store, op, hand>>
        BY <1>3, <2>2 DEF TypeOK, CheckToken, ProviderReturns, Goto
      <3>2. Holds(t)'
        BY <1>1, <1>2, <3>1 DEF Holds, Operations, Kinds, Building, Closing
      <3> QED
        BY <1>1, <3>1, <3>2, MoveOwned
    <2> QED
      BY <2>1, <2>2
  <1>4. CASE TakeCached(t)
    <2>1. /\ pc'[t] = "use" /\ op'[t] = op[t] /\ op[t] \in Kinds
          /\ hand'[t][op[t]] = cached[op[t]] /\ cached[op[t]] # 0 /\ pc[t] = "lock"
          /\ UNCHANGED <<lock, store>>
          /\ \A u \in Threads \ {t} : pc'[u] = pc[u] /\ op'[u] = op[u] /\ hand'[u] = hand[u]
      BY <1>4 DEF TypeOK, TakeCached, Goto, Cached
    <2>2. clients'[cached[op[t]]].kind = op[t]
      BY <2>1 DEF Owned, CachedUsable, Cached, store
    <2>3. Holds(t)'
      BY <2>1, <2>2 DEF Holds, Building, Closing
    <2> QED
      BY <1>1, <2>1, <2>3, MoveOwned
  <1>5. CASE Refuse(t) \/ ReloadNothing(t) \/ ClientUnusable(t) \/ RequestEnds(t)
    BY <1>1, <1>5, ReturnOwned DEF Refuse, ReloadNothing, ClientUnusable, RequestEnds
  <1>6. CASE Send(t)
    <2>1. /\ pc'[t] = "flight" /\ pc[t] = "use" /\ UNCHANGED <<lock, store, op, hand>>
          /\ \A u \in Threads \ {t} : pc'[u] = pc[u]
      BY <1>6 DEF TypeOK, Send, Goto
    <2>2. Holds(t)'
      BY <1>2, <2>1 DEF Holds, Building, Closing, store
    <2> QED
      BY <1>1, <2>1, <2>2, MoveOwned
  <1>7. ASSUME NEW o \in Operations, Begin(t, o)
        PROVE  Owned'
    <2>1. /\ pc'[t] = (IF o \in Kinds THEN "token" ELSE "lock") /\ pc[t] = "idle"
          /\ op'[t] = o /\ UNCHANGED <<lock, store, hand>>
          /\ \A u \in Threads \ {t} : pc'[u] = pc[u] /\ op'[u] = op[u]
      BY <1>7 DEF TypeOK, Begin, Goto
    <2>2. o # "none" /\ hand[t] = NoClients
      BY <1>2, <1>7, <2>1, PointFacts DEF Holds
    <2>3. Holds(t)'
      BY <2>1, <2>2 DEF Holds, Building, Closing
    <2> QED
      BY <1>1, <2>1, <2>3, MoveOwned
  <1> QED
    BY <1>3, <1>4, <1>5, <1>6, <1>7

\* Nobody builds while the lock is free; nobody but its owner while it is held.
LEMMA LockOwner ==
    ASSUME TypeOK
    PROVE  /\ Free => \A u \in Threads : pc[u] \notin Building
           /\ \A t, u \in Threads : pc[t] \in Building /\ u # t => pc[u] \notin Building
           /\ \A t \in Threads : pc[t] \in Building => lock = t
  BY ThreadsAssumption DEF TypeOK, Free

\* close and aclose: what was cached is theirs to close.
LEMMA RetireOwned ==
    ASSUME TypeOK, Owned, NEW t \in Threads, Retire(t)
    PROVE  Owned'
  <1>1. /\ \A u \in Threads : pc[u] \notin Building
        /\ pc[t] = "lock" /\ pc'[t] = "closeSync" /\ op[t] \in Closes
        /\ hand'[t] = cached /\ cached' = NoClients /\ closed'
        /\ \A u \in Threads \ {t} : pc'[u] = pc[u] /\ hand'[u] = hand[u]
        /\ UNCHANGED <<lock, op, clients, open>> /\ Free
    BY LockOwner DEF TypeOK, Retire, Goto
  <1>2. /\ "closeSync" \in Closing /\ "closeSync" \notin Building /\ "lock" \notin Building \cup Closing
        /\ \A u \in Threads : pc'[u] \notin Building
    BY <1>1 DEF Closing, Building
  <1>3. \A k \in Kinds : cached'[k] = 0
    BY <1>1 DEF NoClients
  <1>4. Held'
    <2>1. \A u \in Threads \ {t} : Holds(u)'
      BY <1>1 DEF Owned, Held, Holds
    <2>2. Holds(t)'
      BY <1>1, <1>2 DEF Holds
    <2> QED
      BY <2>1, <2>2 DEF Held
  <1>5. UnderLock'
    BY <1>2 DEF UnderLock
  <1>6. Disjoint'
    BY <1>1, <1>2, <1>3 DEF Owned, Disjoint
  <1>7. CachedUsable' /\ ClosedIsFinal'
    BY <1>1, <1>3 DEF CachedUsable, ClosedIsFinal, Cached, Free
  <1>8. NoLeak'
    BY <1>1, <1>2 DEF Owned, NoLeak
  <1> QED
    BY <1>4, <1>5, <1>6, <1>7, <1>8 DEF Owned

LEMMA StartBuildOwned ==
    ASSUME TypeOK, Owned, NEW t \in Threads, StartBuild(t)
    PROVE  Owned'
  <1>1. /\ \A u \in Threads : pc[u] \notin Building
        /\ pc[t] = "lock" /\ pc'[t] = "ca" /\ ~closed /\ NeedsClient(t)
        /\ \A u \in Threads \ {t} : pc'[u] = pc[u]
        /\ UNCHANGED <<store, op, hand>>
    BY LockOwner DEF TypeOK, StartBuild, Goto
  <1>2. "ca" \in Building \ Closing /\ "lock" \notin Building \cup Closing
    BY DEF Closing, Building
  <1>3. hand[t] = NoClients /\ op[t] \in Kinds \cup Reloads
    BY <1>1 DEF Owned, Held, Holds, NeedsClient, Reloads
  <1>4. Held'
    <2>1. \A u \in Threads \ {t} : Holds(u)'
      BY <1>1 DEF Owned, Held, Holds, store
    <2>2. Holds(t)'
      BY <1>1, <1>2, <1>3, PointFacts DEF Holds
    <2> QED
      BY <2>1, <2>2 DEF Held
  <1>5. UnderLock'
    <2>1. hand[t]["sync"] = 0 /\ hand[t]["async"] = 0
      BY <1>3 DEF NoClients, Kinds
    <2>2. op[t] \in Kinds => op[t] \notin Reloads
      BY PointFacts
    <2> QED
      BY <1>1, <1>3, <2>1, <2>2 DEF UnderLock, NeedsClient, Cached, store, Kinds, Reloads
  <1>6. Disjoint'
    <2>1. hand'[t]["sync"] = 0
      BY <1>1, <1>3 DEF NoClients, Kinds
    <2>2. \A u \in Threads : pc'[u] \in Closing <=> pc[u] \in Closing
      BY <1>1, <1>2
    <2>3. \A u \in Threads : pc'[u] = "closeAsync" <=> pc[u] = "closeAsync"
      BY <1>1
    <2> QED
      BY <1>1, <2>1, <2>2, <2>3 DEF Owned, Disjoint, store
  <1>7. CachedUsable' /\ ClosedIsFinal'
    BY <1>1 DEF Owned, CachedUsable, ClosedIsFinal, Cached, store
  <1>8. NoLeak'
    BY <1>1, <1>2 DEF Owned, NoLeak, store
  <1> QED
    BY <1>4, <1>5, <1>6, <1>7, <1>8 DEF Owned

LEMMA ReadCaOwned ==
    ASSUME TypeOK, Owned, NEW t \in Threads, ReadCa(t)
    PROVE  Owned'
  <1>1. /\ pc[t] = "ca" /\ pc'[t] = "identity" /\ \A u \in Threads \ {t} : pc'[u] = pc[u]
        /\ UNCHANGED <<lock, store, op, hand>>
    BY DEF TypeOK, ReadCa, Goto
  <1>2. /\ {"ca", "identity"} \subseteq Building \ Closing
        /\ \A u \in Threads : pc'[u] \in Building <=> pc[u] \in Building
        /\ \A u \in Threads : pc'[u] \in Closing <=> pc[u] \in Closing
        /\ \A u \in Threads : pc'[u] = "closeAsync" <=> pc[u] = "closeAsync"
    BY <1>1 DEF Closing, Building
  <1>3. Held'
    <2>1. \A u \in Threads \ {t} : Holds(u)'
      BY <1>1 DEF Owned, Held, Holds, store
    <2>2. Holds(t)'
      BY <1>1, <1>2 DEF Owned, Held, Holds
    <2> QED
      BY <2>1, <2>2 DEF Held
  <1>4. UnderLock' /\ Disjoint'
    BY <1>1, <1>2 DEF Owned, UnderLock, Disjoint, Cached, store
  <1>5. CachedUsable' /\ ClosedIsFinal' /\ NoLeak'
    BY <1>1, <1>2 DEF Owned, CachedUsable, ClosedIsFinal, NoLeak, Cached, Free, store
  <1> QED
    BY <1>3, <1>4, <1>5 DEF Owned

LEMMA BuiltForRequestOwned ==
    ASSUME TypeOK, Owned, NEW t \in Threads, BuiltForRequest(t)
    PROVE  Owned'
  <1> DEFINE o == op[t]
  <1>1. o \in Kinds /\ NewClient(t, o) /\ pc[t] = "identity" /\ "identity" \in Building
    BY DEF BuiltForRequest, NewClient, Building
  <1>2. /\ New \notin Ids /\ New # 0 /\ 0 \notin Ids
        /\ \A i \in Ids : clients'[i] = clients[i]
        /\ clients'[New].kind = o
    <2> HIDE DEF o
    <2>1. o \in Kinds /\ NewClient(t, o)
      BY <1>1
    <2> QED
      BY <2>1, NewClientFields
  <1>3. /\ pc'[t] = "use" /\ op' = op /\ hand'[t] = [hand[t] EXCEPT ![o] = New]
        /\ \A u \in Threads \ {t} : pc'[u] = pc[u] /\ hand'[u] = hand[u] /\ pc[u] \notin Building
        /\ cached' = [cached EXCEPT ![o] = New] /\ open' = open \cup {New}
        /\ closed' = closed /\ Free'
    BY <1>1, LockOwner DEF TypeOK, BuiltForRequest, Goto, Free
  <1>4. /\ ~closed /\ ~Cached(o) /\ \A k \in Kinds : hand[t][k] = 0
    BY <1>1 DEF Owned, UnderLock, Kinds
  <1>5. /\ \A u \in Threads : pc'[u] \notin Building /\ (pc'[u] \in Closing <=> pc[u] \in Closing /\ u # t)
        /\ pc[t] \notin Closing
    BY <1>1, <1>3 DEF Building, Closing
  <1>6. /\ cached \in [Kinds -> Ids \cup {0}] /\ hand \in [Threads -> [Kinds -> Ids \cup {0}]]
        /\ open \subseteq Ids
    BY DEF TypeOK
  <1> HIDE DEF o
  <1>7. Held'
    <2>1. ASSUME NEW u \in Threads \ {t}
          PROVE  Holds(u)'
      <3>1. Holds(u) /\ (op[u] \in Kinds => hand[u][op[u]] \in Ids \cup {0})
        BY <1>6 DEF Owned, Held
      <3>2. pc[u] \in {"use", "flight"} => op[u] \in Kinds
        BY <3>1 DEF Holds
      <3> QED
        BY <1>2, <1>3, <3>1, <3>2 DEF Holds
    <2>2. hand'[t][o] = New /\ op'[t] = o
      BY <1>1, <1>3, <1>6 DEF o
    <2>3. Holds(t)'
      BY <1>1, <1>2, <1>3, <2>2 DEF Holds, Building, Closing
    <2> QED
      BY <2>1, <2>3 DEF Held
  <1>8. UnderLock'
    BY <1>5 DEF UnderLock
  <1>9. Disjoint'
    <2>1. ASSUME NEW u \in Threads, pc'[u] \in Closing, NEW k \in Kinds, hand'[u][k] # 0
          PROVE  \A j \in Kinds : hand'[u][k] # cached'[j]
      <3>1. u # t /\ hand'[u] = hand[u] /\ hand[u][k] \in Ids /\ pc[u] \in Closing
        BY <1>3, <1>5, <1>6, <2>1
      <3> QED
        BY <1>1, <1>2, <1>3, <1>6, <2>1, <3>1 DEF Owned, Disjoint
    <2>2. ASSUME NEW u \in Threads, pc'[u] = "closeAsync"
          PROVE  hand'[u]["sync"] \notin open'
      <3>1. u # t /\ hand'[u] = hand[u] /\ pc[u] = "closeAsync"
        BY <1>3, <2>2
      <3>2. hand[u]["sync"] \in Ids \cup {0} /\ hand[u]["sync"] \notin open
        BY <1>6, <3>1 DEF Owned, Disjoint, Kinds
      <3> QED
        BY <1>2, <1>3, <3>1, <3>2
    <2> QED
      BY <1>5, <2>1, <2>2 DEF Disjoint
  <1>10. CachedUsable' /\ ClosedIsFinal'
    BY <1>1, <1>2, <1>3, <1>4, <1>6 DEF Owned, CachedUsable, ClosedIsFinal, Cached
  <1>11. NoLeak'
    <2> SUFFICES ASSUME NEW i \in open'
                 PROVE  \/ \E k \in Kinds : cached'[k] = i
                        \/ \E u \in Threads : pc'[u] \in Building \cup Closing
                                               /\ \E k \in Kinds : hand'[u][k] = i
      BY DEF NoLeak
    <2>1. CASE i = New
      BY <1>1, <1>3, <1>6, <2>1
    <2>2. CASE i \in open /\ i # 0
      BY <1>3, <1>4, <1>5, <1>6, <2>2 DEF Owned, NoLeak, Cached
    <2>3. i \in open => i # 0
      BY <1>6 DEF Ids
    <2> QED
      BY <1>3, <2>1, <2>2, <2>3
  <1> QED
    BY <1>7, <1>8, <1>9, <1>10, <1>11 DEF Owned

\* reload keeps its first new client to itself while it builds the second.
LEMMA BuiltFirstOwned ==
    ASSUME TypeOK, Owned, NEW t \in Threads, BuiltFirst(t)
    PROVE  Owned'
  <1>1. /\ NewClient(t, "sync") /\ pc[t] = "identity" /\ {"identity", "ca"} \subseteq Building \ Closing
        /\ op[t] = "reload" /\ Cached("async") /\ "sync" = Target(t) /\ {"sync", "async"} = Kinds
    BY DEF BuiltFirst, NewClient, Building, Closing, Kinds
  <1>2. /\ New \notin Ids /\ New # 0 /\ 0 \notin Ids
        /\ \A i \in Ids : clients'[i] = clients[i]
        /\ clients'[New].kind = "sync"
    <2>1. "sync" \in Kinds /\ NewClient(t, "sync")
      BY <1>1
    <2> QED
      BY <2>1, NewClientFields
  <1>3. /\ pc'[t] = "ca" /\ op' = op /\ hand'[t] = [hand[t] EXCEPT !["sync"] = New]
        /\ \A u \in Threads \ {t} : pc'[u] = pc[u] /\ hand'[u] = hand[u] /\ pc[u] \notin Building
        /\ cached' = cached /\ open' = open \cup {New} /\ closed' = closed /\ lock' = lock
    BY <1>1, LockOwner DEF TypeOK, BuiltFirst, Goto
  <1>4. /\ Cached("sync") /\ hand[t]["sync"] = 0 /\ hand[t]["async"] = 0 /\ ~closed
    BY <1>1, PointFacts DEF Owned, UnderLock, Target, Reloads, Kinds
  <1>5. \A u \in Threads : /\ pc'[u] \in Closing <=> pc[u] \in Closing /\ u # t
                           /\ pc'[u] \in Building <=> u = t
    BY <1>1, <1>3
  <1>6. /\ cached \in [Kinds -> Ids \cup {0}] /\ hand \in [Threads -> [Kinds -> Ids \cup {0}]]
        /\ open \subseteq Ids
    BY DEF TypeOK
  <1>7. Held'
    <2>1. ASSUME NEW u \in Threads \ {t}
          PROVE  Holds(u)'
      <3>1. Holds(u) /\ (op[u] \in Kinds => hand[u][op[u]] \in Ids \cup {0})
        BY <1>6 DEF Owned, Held
      <3>2. pc[u] \in {"use", "flight"} => op[u] \in Kinds
        BY <3>1 DEF Holds
      <3> QED
        BY <1>2, <1>3, <3>1, <3>2 DEF Holds
    <2>2. Holds(t)'
      BY <1>1, <1>3 DEF Holds
    <2> QED
      BY <2>1, <2>2 DEF Held
  <1>8. UnderLock'
    <2>1. hand'[t]["async"] = 0 /\ op[t] \notin Kinds
      BY <1>1, <1>3, <1>4, <1>6, PointFacts DEF Reloads, Kinds
    <2>2. /\ cached' # NoClients /\ (Cached("sync") /\ Cached("async"))'
          /\ op'[t] \in Kinds \cup Reloads /\ op'[t] = "reload"
      BY <1>1, <1>3, <1>4 DEF NoClients, Cached, Reloads
    <2> QED
      BY <1>3, <1>4, <1>5, <2>1, <2>2 DEF UnderLock
  <1>9. Disjoint'
    <2>1. hand'[t]["sync"] = New /\ \A k \in Kinds : cached'[k] # New
      BY <1>1, <1>2, <1>3, <1>6
    <2>2. ASSUME NEW u \in Threads, NEW k \in Kinds, pc'[u] \in Closing
          PROVE  hand'[u][k] # New /\ (hand'[u][k] # 0 => \A j \in Kinds : hand'[u][k] # cached'[j])
      <3>1. u # t /\ hand'[u] = hand[u] /\ hand[u][k] \in Ids \cup {0} /\ pc[u] \in Closing
        BY <1>3, <1>5, <1>6, <2>2
      <3> QED
        BY <1>2, <1>3, <3>1 DEF Owned, Disjoint
    <2>3. ASSUME NEW u \in Threads, pc'[u] = "closeAsync"
          PROVE  hand'[u]["sync"] \notin open'
      <3>1. u # t /\ hand'[u] = hand[u] /\ pc[u] = "closeAsync"
        BY <1>3, <2>3
      <3>2. hand[u]["sync"] \in Ids \cup {0} /\ hand[u]["sync"] \notin open
        BY <1>6, <3>1 DEF Owned, Disjoint, Kinds
      <3> QED
        BY <1>2, <1>3, <3>1, <3>2
    <2>4. /\ \A u \in Threads, k \in Kinds : pc'[u] \in Closing => hand'[u][k] # hand'[t]["sync"]
          /\ hand'[t]["sync"] \in open' /\ clients'[hand'[t]["sync"]].kind = "sync"
      BY <1>2, <1>3, <2>1, <2>2
    <2> QED
      BY <1>5, <2>1, <2>2, <2>3, <2>4 DEF Disjoint
  <1>10. CachedUsable' /\ ClosedIsFinal'
    BY <1>2, <1>3, <1>4, <1>6 DEF Owned, CachedUsable, ClosedIsFinal, Cached
  <1>11. NoLeak'
    <2> SUFFICES ASSUME NEW i \in open'
                 PROVE  \/ \E k \in Kinds : cached'[k] = i
                        \/ \E u \in Threads : pc'[u] \in Building \cup Closing
                                               /\ \E k \in Kinds : hand'[u][k] = i
      BY DEF NoLeak
    <2>1. CASE i = New
      <3>1. hand'[t]["sync"] = i /\ "sync" \in Kinds /\ pc'[t] \in Building
        BY <1>1, <1>3, <1>6, <2>1
      <3> QED
        BY <3>1
    <2>2. CASE i \in open /\ i # 0
      <3>1. CASE \E k \in Kinds : cached[k] = i
        BY <1>3, <3>1
      <3>2. ASSUME NEW u \in Threads, pc[u] \in Building \cup Closing, NEW k \in Kinds, hand[u][k] = i
            PROVE  u # t
        BY <1>1, <1>4, <2>2, <3>2
      <3> QED
        BY <1>3, <1>5, <2>2, <3>1, <3>2 DEF Owned, NoLeak
    <2>3. i \in open => i # 0
      BY <1>2, <1>6
    <2> QED
      BY <1>3, <2>1, <2>2, <2>3
  <1> QED
    BY <1>7, <1>8, <1>9, <1>10, <1>11 DEF Owned

\* The last step of a reload replaces the clients that are cached, and those
\* only, by the one it has just built and the one it may have built before.
LEMMA InstallFacts ==
    ASSUME TypeOK, Owned, NEW t \in Threads, Install(t)
    PROVE  \E k \in Kinds :
              /\ NewClient(t, k) /\ cached'[k] = New /\ Cached(k)
              /\ \A j \in Kinds : cached'[j] = 0 <=> ~Cached(j)
              /\ \A j \in Kinds \ {k} : cached'[j] = hand[t][j]
              /\ \A j \in Kinds : hand[t][j] # 0 => j = "sync" /\ j # k
  <1>1. PICK k \in Kinds : /\ NewClient(t, k) /\ (k = "sync" => ~Cached("async"))
                           /\ cached' = [hand[t] EXCEPT ![k] = New]
    BY DEF Install
  <1>2. New # 0 /\ hand[t] \in [Kinds -> Ids \cup {0}]
    BY <1>1, NewClientFacts DEF TypeOK
  <1>3. k = Target(t) /\ pc[t] \in Building /\ op[t] \in Reloads /\ Kinds = {"sync", "async"}
    BY <1>1 DEF NewClient, Building, Install, Kinds
  <1>4. op[t] \notin Kinds
    BY <1>3, PointFacts
  <1>5. /\ hand[t]["async"] = 0 /\ (op[t] = "reload" => cached # NoClients)
        /\ op[t] = "reload_sync" => Cached("sync") /\ ~Cached("async") /\ hand[t]["sync"] = 0
        /\ hand[t]["sync"] # 0 => Cached("sync") /\ Cached("async")
    BY <1>3 DEF Owned, UnderLock
  <1>6. Cached("sync") \/ Cached("async")
    BY <1>3, <1>5 DEF TypeOK, Cached, NoClients, Reloads
  <1>7. CASE k = "sync"
    BY <1>1, <1>2, <1>3, <1>4, <1>5, <1>7 DEF Target
  <1>8. CASE k = "async"
    BY <1>1, <1>2, <1>3, <1>4, <1>5, <1>6, <1>8 DEF Target, Reloads
  <1> QED
    BY <1>3, <1>7, <1>8

LEMMA InstallOwned ==
    ASSUME TypeOK, Owned, NEW t \in Threads, Install(t)
    PROVE  Owned'
  <1>1. PICK k \in Kinds :
              /\ NewClient(t, k) /\ cached'[k] = New /\ Cached(k)
              /\ \A j \in Kinds : cached'[j] = 0 <=> ~Cached(j)
              /\ \A j \in Kinds \ {k} : cached'[j] = hand[t][j]
              /\ \A j \in Kinds : hand[t][j] # 0 => j = "sync" /\ j # k
    BY InstallFacts
  <1>2. /\ New \notin Ids /\ New # 0 /\ 0 \notin Ids
        /\ \A i \in Ids : clients'[i] = clients[i]
        /\ clients'[New].kind = k
    BY <1>1, NewClientFields
  <1>3. pc[t] = "identity" /\ "identity" \in Building \ Closing /\ "closeSync" \in Closing \ Building
    BY <1>1 DEF NewClient, Building, Closing
  <1>4. /\ pc'[t] = "closeSync" /\ op' = op /\ op[t] \in Reloads /\ hand'[t] = cached
        /\ \A u \in Threads \ {t} : pc'[u] = pc[u] /\ hand'[u] = hand[u] /\ pc[u] \notin Building
        /\ open' = open \cup {New} /\ closed' = closed /\ ~closed
    BY <1>3, LockOwner DEF TypeOK, Install, Goto, Owned, UnderLock
  <1>5. \A u \in Threads : /\ pc'[u] \in Closing <=> pc[u] \in Closing \/ u = t
                           /\ pc'[u] \notin Building
    BY <1>3, <1>4
  <1>6. /\ cached \in [Kinds -> Ids \cup {0}] /\ hand \in [Threads -> [Kinds -> Ids \cup {0}]]
        /\ open \subseteq Ids
    BY DEF TypeOK
  <1>7. /\ hand[t]["sync"] # 0 =>
              /\ hand[t]["sync"] \in open /\ clients[hand[t]["sync"]].kind = "sync"
              /\ \A j \in Kinds : cached[j] # hand[t]["sync"]
              /\ \A u \in Threads, j \in Kinds : pc[u] \in Closing => hand[u][j] # hand[t]["sync"]
    BY <1>3 DEF Owned, Disjoint
  <1>8. Held'
    <2>1. ASSUME NEW u \in Threads \ {t}
          PROVE  Holds(u)'
      <3>1. Holds(u) /\ (op[u] \in Kinds => hand[u][op[u]] \in Ids \cup {0})
        BY <1>6 DEF Owned, Held
      <3>2. pc[u] \in {"use", "flight"} => op[u] \in Kinds
        BY <3>1 DEF Holds
      <3> QED
        BY <1>2, <1>4, <3>1, <3>2 DEF Holds
    <2>2. Holds(t)'
      BY <1>3, <1>4 DEF Holds
    <2> QED
      BY <2>1, <2>2 DEF Held
  <1>9. UnderLock'
    BY <1>5 DEF UnderLock
  <1>10. Disjoint'
    <2>1. ASSUME NEW u \in Threads, NEW j \in Kinds, pc'[u] \in Closing, hand'[u][j] # 0
          PROVE  \A l \in Kinds : hand'[u][j] # cached'[l]
      <3>1. CASE u = t
        <4>1. hand'[u][j] = cached[j] /\ cached[j] \in Ids
          BY <1>4, <1>6, <2>1, <3>1
        <4>2. ASSUME NEW l \in Kinds \ {k}, hand[t][l] # 0
              PROVE  cached[j] # hand[t][l]
          BY <1>1, <1>7, <4>2
        <4> QED
          BY <1>1, <1>2, <1>4, <4>1, <4>2
      <3>2. CASE u # t
        <4>1. hand'[u] = hand[u] /\ pc[u] \in Closing /\ hand[u][j] \in Ids
          BY <1>4, <1>5, <1>6, <2>1, <3>2
        <4>2. ASSUME NEW l \in Kinds \ {k}, hand[t][l] # 0
              PROVE  hand[u][j] # hand[t][l]
          BY <1>1, <1>7, <4>1, <4>2
        <4> QED
          BY <1>1, <1>2, <2>1, <4>1, <4>2
      <3> QED
        BY <3>1, <3>2
    <2>2. ASSUME NEW u \in Threads, pc'[u] = "closeAsync"
          PROVE  hand'[u]["sync"] \notin open'
      <3>1. u # t /\ hand'[u] = hand[u] /\ pc[u] = "closeAsync"
        BY <1>4, <2>2
      <3>2. hand[u]["sync"] \in Ids \cup {0} /\ hand[u]["sync"] \notin open
        BY <1>6, <3>1 DEF Owned, Disjoint, Kinds
      <3> QED
        BY <1>2, <1>4, <3>1, <3>2
    <2> QED
      BY <1>5, <2>1, <2>2 DEF Disjoint
  <1>11. CachedUsable'
    <2> SUFFICES ASSUME NEW j \in Kinds, cached'[j] # 0
                 PROVE  cached'[j] \in open' /\ clients'[cached'[j]].kind = j
      BY DEF CachedUsable, Cached
    <2>1. CASE j = k
      BY <1>1, <1>2, <1>4, <2>1
    <2>2. CASE j # k
      <3>1. cached'[j] = hand[t]["sync"] /\ j = "sync" /\ hand[t]["sync"] # 0
        BY <1>1, <2>2
      <3> QED
        BY <1>2, <1>4, <1>6, <1>7, <3>1
    <2> QED
      BY <2>1, <2>2
  <1>12. ClosedIsFinal'
    BY <1>4 DEF ClosedIsFinal
  <1>13. NoLeak'
    <2> SUFFICES ASSUME NEW i \in open'
                 PROVE  \/ \E j \in Kinds : cached'[j] = i
                        \/ \E u \in Threads : pc'[u] \in Building \cup Closing
                                               /\ \E j \in Kinds : hand'[u][j] = i
      BY DEF NoLeak
    <2>1. CASE i = New
      BY <1>1, <2>1
    <2>2. CASE i \in open /\ i # 0
      <3>1. CASE \E j \in Kinds : cached[j] = i
        BY <1>3, <1>4, <3>1
      <3>2. ASSUME NEW u \in Threads, pc[u] \in Building \cup Closing, NEW j \in Kinds, hand[u][j] = i
            PROVE  \/ u # t /\ pc'[u] \in Closing /\ hand'[u][j] = i
                   \/ cached'[j] = i
        BY <1>1, <1>4, <1>5, <2>2, <3>2
      <3> QED
        BY <2>2, <3>1, <3>2 DEF Owned, NoLeak
    <2>3. i \in open => i # 0
      BY <1>2, <1>6
    <2> QED
      BY <1>4, <2>1, <2>2, <2>3
  <1> QED
    BY <1>8, <1>9, <1>10, <1>11, <1>12, <1>13 DEF Owned

\* A build that fails closes the client only its reload knew.
LEMMA BuildFailsOwned ==
    ASSUME TypeOK, Owned, NEW t \in Threads, BuildFails(t)
    PROVE  Owned'
  <1>1. /\ pc[t] \in Building /\ pc[t] \notin Closing /\ "idle" \notin Building \cup Closing
    BY DEF BuildFails, Building, Closing
  <1>2. /\ pc'[t] = "idle" /\ op'[t] = "none" /\ hand'[t] = NoClients
        /\ \A u \in Threads \ {t} : /\ pc'[u] = pc[u] /\ op'[u] = op[u] /\ hand'[u] = hand[u]
                                     /\ pc[u] \notin Building
        /\ open' = open \ {hand[t]["sync"]} /\ UNCHANGED <<closed, cached, clients>> /\ Free'
    BY <1>1, LockOwner DEF TypeOK, BuildFails, Return, Goto, Free
  <1>3. \A u \in Threads : /\ pc'[u] \in Closing <=> pc[u] \in Closing
                           /\ pc'[u] \notin Building
                           /\ pc'[u] = "closeAsync" <=> pc[u] = "closeAsync"
    BY <1>1, <1>2 DEF Closing
  <1>4. hand[t]["async"] = 0 /\ ~closed
    BY <1>1 DEF Owned, UnderLock
  <1>5. Held'
    <2>1. \A u \in Threads \ {t} : Holds(u)'
      BY <1>2 DEF Owned, Held, Holds
    <2>2. Holds(t)'
      BY <1>1, <1>2 DEF Holds
    <2> QED
      BY <2>1, <2>2 DEF Held
  <1>6. UnderLock'
    BY <1>3 DEF UnderLock
  <1>7. Disjoint'
    <2>1. \A u \in Threads \ {t} : hand'[u] = hand[u]
      BY <1>2
    <2> QED
      BY <1>1, <1>2, <1>3, <2>1 DEF Owned, Disjoint
  <1>8. CachedUsable' /\ ClosedIsFinal'
    BY <1>1, <1>2, <1>4 DEF Owned, Disjoint, CachedUsable, ClosedIsFinal, Cached
  <1>9. NoLeak'
    <2>1. \A i \in open' : i # 0 /\ \A k \in Kinds : hand[t][k] # i
      BY <1>2, <1>4 DEF TypeOK, Ids, Kinds
    <2> QED
      BY <1>1, <1>2, <1>3, <2>1 DEF Owned, NoLeak
  <1> QED
    BY <1>5, <1>6, <1>7, <1>8, <1>9 DEF Owned

LEMMA CloseSyncOwned ==
    ASSUME TypeOK, Owned, NEW t \in Threads, CloseSync(t)
    PROVE  Owned'
  <1>1. /\ pc[t] = "closeSync" /\ pc'[t] = "closeAsync" /\ UNCHANGED <<lock, op, hand>>
        /\ \A u \in Threads \ {t} : pc'[u] = pc[u]
        /\ open' = open \ {hand[t]["sync"]} /\ UNCHANGED <<closed, cached, clients>>
    BY DEF TypeOK, CloseSync, Goto
  <1>2. /\ {"closeSync", "closeAsync"} \subseteq Closing \ Building
        /\ \A u \in Threads : pc'[u] \in Closing <=> pc[u] \in Closing
        /\ \A u \in Threads : pc'[u] \in Building <=> pc[u] \in Building
    BY <1>1 DEF Building, Closing
  <1>3. "sync" \in Kinds
    BY DEF Kinds
  <1>4. Held'
    <2>1. \A u \in Threads \ {t} : Holds(u)'
      BY <1>1 DEF Owned, Held, Holds
    <2>2. Holds(t)'
      BY <1>1, <1>2 DEF Owned, Held, Holds
    <2> QED
      BY <2>1, <2>2 DEF Held
  <1>5. UnderLock' /\ ClosedIsFinal'
    BY <1>1, <1>2 DEF Owned, UnderLock, ClosedIsFinal, Cached, Free
  <1>6. Disjoint'
    <2>1. \A u \in Threads : pc'[u] = "closeAsync" => u = t \/ pc[u] = "closeAsync"
      BY <1>1
    <2> QED
      BY <1>1, <1>2, <1>3, <2>1 DEF Owned, Disjoint
  <1>7. CachedUsable'
    BY <1>1, <1>2, <1>3 DEF Owned, Disjoint, CachedUsable, Cached
  <1>8. NoLeak'
    BY <1>1, <1>2 DEF Owned, NoLeak
  <1> QED
    BY <1>4, <1>5, <1>6, <1>7, <1>8 DEF Owned

LEMMA CloseAsyncOwned ==
    ASSUME TypeOK, Owned, NEW t \in Threads, CloseAsync(t)
    PROVE  Owned'
  <1>1. /\ pc[t] = "closeAsync" /\ pc'[t] = "idle" /\ op'[t] = "none" /\ hand'[t] = NoClients
        /\ \A u \in Threads \ {t} : pc'[u] = pc[u] /\ op'[u] = op[u] /\ hand'[u] = hand[u]
        /\ open' = open \ {hand[t]["async"]} /\ UNCHANGED <<lock, closed, cached, clients>>
    BY DEF TypeOK, CloseAsync, Return, Goto
  <1>2. /\ "closeAsync" \in Closing \ Building /\ "idle" \notin Building \cup Closing
        /\ \A u \in Threads : pc'[u] \in Closing <=> pc[u] \in Closing /\ u # t
        /\ \A u \in Threads : pc'[u] \in Building <=> pc[u] \in Building
        /\ \A u \in Threads : pc[u] \in Building => u # t
    BY <1>1 DEF Building, Closing
  <1>3. "async" \in Kinds /\ hand[t]["sync"] \notin open
    BY <1>1 DEF Owned, Disjoint, Kinds
  <1>4. Held'
    <2>1. \A u \in Threads \ {t} : Holds(u)'
      BY <1>1 DEF Owned, Held, Holds
    <2>2. Holds(t)'
      BY <1>1, <1>2 DEF Holds
    <2> QED
      BY <2>1, <2>2 DEF Held
  <1>5. UnderLock' /\ ClosedIsFinal'
    BY <1>1, <1>2 DEF Owned, UnderLock, ClosedIsFinal, Cached, Free
  <1>6. Disjoint'
    <2>1. \A u \in Threads : pc'[u] = "closeAsync" => u # t /\ pc[u] = "closeAsync"
      BY <1>1
    <2> QED
      BY <1>1, <1>2, <1>3, <2>1 DEF Owned, Disjoint
  <1>7. CachedUsable'
    BY <1>1, <1>2, <1>3 DEF Owned, Disjoint, CachedUsable, Cached
  <1>8. NoLeak'
    <2>1. \A i \in open' : i \in open /\ \A k \in Kinds : hand[t][k] # i
      BY <1>1, <1>3 DEF Kinds
    <2> QED
      BY <1>1, <1>2, <2>1 DEF Owned, NoLeak
  <1> QED
    BY <1>4, <1>5, <1>6, <1>7, <1>8 DEF Owned

LEMMA StutterOwned ==
    ASSUME TypeOK, Owned, UNCHANGED <<lock, store, pc, op, hand>>
    PROVE  Owned'
  <1>1. Held' /\ UnderLock'
    BY DEF Owned, Held, Holds, UnderLock, Cached, store
  <1>2. Disjoint' /\ NoLeak'
    BY DEF Owned, Disjoint, NoLeak, store
  <1>3. CachedUsable' /\ ClosedIsFinal'
    BY DEF Owned, CachedUsable, ClosedIsFinal, Cached, Free, store
  <1> QED
    BY <1>1, <1>2, <1>3 DEF Owned

LEMMA NextOwned ==
    ASSUME TypeOK, Owned, [Next]_vars
    PROVE  Owned'
  <1>1. CASE UNCHANGED vars
    BY <1>1, StutterOwned DEF vars
  <1>2. ASSUME NEW f \in Files, Rewrite(f)
        PROVE  Owned'
    BY <1>2, StutterOwned DEF Rewrite
  <1>3. ASSUME NEW t \in Threads, Step(t)
        PROVE  Owned'
    BY <1>3, QuietOwned, RetireOwned, StartBuildOwned, ReadCaOwned, BuiltForRequestOwned, BuiltFirstOwned,
       InstallOwned, BuildFailsOwned, CloseSyncOwned, CloseAsyncOwned DEF Step
  <1>4. ASSUME NEW t \in Threads,
               ProviderReturns(t) \/ RequestEnds(t) \/ \E o \in Operations : Begin(t, o)
        PROVE  Owned'
    BY <1>4, QuietOwned
  <1> QED
    BY <1>1, <1>2, <1>3, <1>4 DEF Next

\* Who owns a client, at every moment: the cache, a reload that still builds, or
\* an operation that still closes.
THEOREM Ownership == Spec => []Owned
  <1>1. Init => Owned
    BY InitOwned
  <1>2. TypeOK /\ Owned /\ [Next]_vars => Owned'
    BY NextOwned
  <1> QED
    BY <1>1, <1>2, TypeCorrectness, PTL DEF Spec

\* No client with its connections and key material is lost, also when the second
\* of two builds fails or two threads ask for a first client at once.
THEOREM NoClientLeaks == Spec => []NoLeak
  <1>1. Owned => NoLeak
    BY DEF Owned
  <1> QED
    BY <1>1, Ownership, PTL

\* A request never finds a closed client in the cache, or one of the other kind.
THEOREM CacheIsUsable == Spec => []CachedUsable
  <1>1. Owned => CachedUsable
    BY DEF Owned
  <1> QED
    BY <1>1, Ownership, PTL

\* A closed profile caches no client, and no thread is building one for it.
THEOREM CloseIsFinal == Spec => []ClosedIsFinal
  <1>1. Owned => ClosedIsFinal
    BY DEF Owned
  <1> QED
    BY <1>1, Ownership, PTL

-----------------------------------------------------------------------------
(* Requests run on credentials that are new enough.                        *)

LEMMA InitFresh == Init => Fresh
  BY DEF Init, Fresh, Generations, Sees, FreshAfterReload, Cached, NoClients, Building, Kinds, Reloads

LEMMA ClientTypes ==
    ASSUME TypeOK
    PROVE  /\ \A i \in Ids : clients[i].ca \in Nat /\ clients[i].identity \in Nat
           /\ generation \in Nat /\ promised \in Nat /\ readCa \in Nat
           /\ \A t \in Threads : asof[t] \in Nat
  <1>1. clients \in Seq(Client)
    BY DEF TypeOK
  <1>2. \A i \in Ids : clients[i] \in Client
    BY <1>1, ElementOfSeq DEF Ids
  <1> QED
    BY <1>2, BoundsAssumption DEF TypeOK, Client

\* A step of one thread that builds nothing and promises nothing.
LEMMA MoveFresh ==
    ASSUME TypeOK, Fresh, NEW t \in Threads,
           UNCHANGED <<generation, clients, promised>>,
           cached' = cached \/ cached' = NoClients,
           \A u \in Threads \ {t} : /\ pc'[u] = pc[u] /\ op'[u] = op[u] /\ hand'[u] = hand[u]
                                    /\ asof'[u] = asof[u],
           readCa' = readCa \/ \A u \in Threads \ {t} : pc[u] # "identity",
           Sees(t)',
           op'[t] \in Kinds /\ pc'[t] \in {"use", "flight"} =>
              LET c == clients[hand'[t][op'[t]]] IN c.ca >= asof'[t] /\ c.identity >= asof'[t]
    PROVE  Fresh'
  <1>1. \A u \in Threads \ {t} : Sees(u)'
    BY DEF Fresh, Generations, Sees
  <1>2. \A k \in Kinds : Cached(k)' =>
           LET c == clients'[cached'[k]] IN c.ca >= promised' /\ c.identity >= promised'
    BY DEF Fresh, Generations, Cached, NoClients
  <1>3. Generations'
    BY <1>1, <1>2 DEF Fresh, Generations
  <1>4. FreshAfterReload'
    BY DEF Fresh, FreshAfterReload
  <1> QED
    BY <1>3, <1>4 DEF Fresh

LEMMA ReturnFresh ==
    ASSUME TypeOK, Fresh, NEW t \in Threads, Return(t),
           UNCHANGED <<generation, cached, clients, promised>>,
           readCa' = readCa \/ \A u \in Threads \ {t} : pc[u] # "identity"
    PROVE  Fresh'
  <1>1. /\ pc'[t] = "idle" /\ op'[t] = "none" /\ asof'[t] = 0
        /\ \A u \in Threads \ {t} : /\ pc'[u] = pc[u] /\ op'[u] = op[u] /\ hand'[u] = hand[u]
                                     /\ asof'[u] = asof[u]
    BY DEF TypeOK, Return, Goto
  <1>2. Sees(t)'
    BY <1>1, ClientTypes DEF Sees, Building, Kinds
  <1> QED
    BY <1>1, <1>2, MoveFresh

LEMMA OutsideFresh ==
    ASSUME TypeOK, Owned, Fresh, NEW t \in Threads,
           \/ CheckToken(t) \/ TakeCached(t) \/ Refuse(t) \/ Retire(t) \/ BuildFails(t)
           \/ CloseSync(t) \/ CloseAsync(t) \/ Send(t) \/ ClientUnusable(t)
           \/ ProviderReturns(t) \/ RequestEnds(t) \/ \E o \in Operations : Begin(t, o)
    PROVE  Fresh'
  <1>1. Sees(t)
    BY DEF Fresh, Generations
  <1>2. CASE Refuse(t) \/ ClientUnusable(t) \/ RequestEnds(t) \/ CloseAsync(t)
    BY <1>2, ReturnFresh DEF Refuse, ClientUnusable, RequestEnds, CloseAsync, files, store
  <1>3. CASE BuildFails(t)
    <2>1. pc[t] \in Building /\ "identity" \in Building
      BY <1>3 DEF BuildFails, Building
    <2>2. \A u \in Threads \ {t} : pc[u] # "identity"
      BY <2>1, LockOwner
    <2> QED
      BY <1>3, <2>2, ReturnFresh DEF BuildFails, files
  <1>4. CASE CheckToken(t) \/ ProviderReturns(t)
    <2>1. CASE Return(t)
      BY <1>4, <2>1, ReturnFresh DEF CheckToken, ProviderReturns, files, store
    <2>2. CASE ~Return(t)
      <3>1. /\ pc'[t] \in {"provider", "lock"} /\ \A u \in Threads \ {t} : pc'[u] = pc[u]
            /\ UNCHANGED <<op, hand, asof, readCa, generation, clients, cached, promised>>
        BY <1>4, <2>2 DEF TypeOK, CheckToken, ProviderReturns, Goto, files, store
      <3>2. Sees(t)'
        BY <1>1, <3>1 DEF Sees, Building
      <3> QED
        BY <3>1, <3>2, MoveFresh
    <2> QED
      BY <2>1, <2>2
  <1>5. CASE TakeCached(t)
    <2>1. /\ pc'[t] = "use" /\ op[t] \in Kinds /\ Cached(op[t])
          /\ \A u \in Threads \ {t} : pc'[u] = pc[u] /\ hand'[u] = hand[u]
          /\ hand'[t][op[t]] = cached[op[t]]
          /\ UNCHANGED <<op, asof, readCa, generation, clients, cached, promised>>
      BY <1>5 DEF TypeOK, TakeCached, Goto, files, store, history
    <2>2. Sees(t)'
      BY <1>1, <2>1 DEF Sees, Building
    <2>3. LET c == clients[cached[op[t]]] IN c.ca >= asof[t] /\ c.identity >= asof[t]
      <3>1. cached[op[t]] \in Ids /\ asof[t] <= promised
        BY <1>1, <2>1 DEF TypeOK, Cached, Sees
      <3>2. clients[cached[op[t]]].ca >= promised /\ clients[cached[op[t]]].identity >= promised
        BY <2>1 DEF Fresh, Generations
      <3> QED
        BY <3>1, <3>2, ClientTypes
    <2> QED
      BY <2>1, <2>2, <2>3, MoveFresh
  <1>6. CASE Retire(t) \/ CloseSync(t)
    <2>1. /\ pc'[t] \in Closing /\ \A u \in Threads \ {t} : pc'[u] = pc[u] /\ hand'[u] = hand[u]
          /\ cached' = cached \/ cached' = NoClients
          /\ UNCHANGED <<op, asof, readCa, generation, clients, promised>>
      BY <1>6 DEF TypeOK, Retire, CloseSync, Goto, files, history, Closing
    <2>2. pc'[t] \notin Building \cup {"use", "flight"}
      BY <2>1 DEF Closing, Building
    <2>3. Sees(t)'
      BY <1>1, <2>1, <2>2 DEF Sees, Building
    <2> QED
      BY <2>1, <2>2, <2>3, MoveFresh
  <1>7. CASE Send(t)
    <2>1. /\ pc[t] = "use" /\ pc'[t] = "flight" /\ \A u \in Threads \ {t} : pc'[u] = pc[u]
          /\ UNCHANGED <<op, hand, asof, readCa, generation, clients, cached, promised>>
      BY <1>7 DEF TypeOK, Send, Goto, files, store, history
    <2>2. Sees(t)'
      BY <1>1, <2>1 DEF Sees, Building
    <2> QED
      BY <2>1, <2>2, MoveFresh DEF Fresh, FreshAfterReload
  <1>8. ASSUME NEW o \in Operations, Begin(t, o)
        PROVE  Fresh'
    <2>1. /\ pc'[t] \in {"token", "lock"} /\ asof'[t] = promised
          /\ \A u \in Threads \ {t} : pc'[u] = pc[u] /\ op'[u] = op[u] /\ asof'[u] = asof[u]
          /\ UNCHANGED <<hand, readCa, generation, clients, cached, promised>>
      BY <1>8 DEF TypeOK, Begin, Goto, files, store
    <2>2. Sees(t)'
      BY <2>1, ClientTypes DEF Fresh, Generations, Sees, Building
    <2> QED
      BY <2>1, <2>2, MoveFresh
  <1> QED
    BY <1>2, <1>3, <1>4, <1>5, <1>6, <1>7, <1>8

\* A reload sets out to load what the files hold when it takes the lock.
LEMMA StartBuildFresh ==
    ASSUME TypeOK, Owned, Fresh, NEW t \in Threads, StartBuild(t)
    PROVE  Fresh'
  <1>1. /\ pc[t] = "lock" /\ pc'[t] = "ca" /\ asof'[t] = (IF op[t] \in Reloads THEN generation ELSE asof[t])
        /\ \A u \in Threads \ {t} : pc'[u] = pc[u] /\ asof'[u] = asof[u]
        /\ UNCHANGED <<op, hand, readCa, generation, clients, cached, promised>>
    BY DEF TypeOK, StartBuild, Goto, files, store
  <1>2. hand[t]["sync"] = 0
    BY <1>1 DEF Owned, Held, Holds, NoClients, Kinds
  <1>3. op[t] \in Kinds => op[t] \notin Reloads
    BY PointFacts
  <1>4. Sees(t)'
    BY <1>1, <1>2, <1>3, ClientTypes DEF Fresh, Generations, Sees
  <1> QED
    BY <1>1, <1>4, MoveFresh

LEMMA ReadCaFresh ==
    ASSUME TypeOK, Owned, Fresh, NEW t \in Threads, ReadCa(t)
    PROVE  Fresh'
  <1>1. /\ pc[t] = "ca" /\ pc'[t] = "identity" /\ readCa' = FileGeneration("ca")
        /\ \A u \in Threads \ {t} : pc'[u] = pc[u]
        /\ UNCHANGED <<op, hand, asof, generation, clients, cached, promised>>
    BY DEF TypeOK, ReadCa, Goto, files, store, history
  <1>2. {"ca", "identity"} \subseteq Building
    BY DEF Building
  <1>3. \A u \in Threads \ {t} : pc[u] # "identity"
    BY <1>1, <1>2, LockOwner
  <1>4. readCa' >= generation /\ readCa' \in Nat
    BY <1>1, ClientTypes DEF FileGeneration
  <1>5. Sees(t)'
    BY <1>1, <1>2, <1>4, ClientTypes DEF Fresh, Generations, Sees
  <1> QED
    BY <1>1, <1>3, <1>5, MoveFresh

LEMMA ReloadNothingFresh ==
    ASSUME TypeOK, Owned, Fresh, NEW t \in Threads, ReloadNothing(t)
    PROVE  Fresh'
  <1>1. /\ pc'[t] = "idle" /\ op'[t] = "none" /\ asof'[t] = 0 /\ promised' = generation
        /\ \A u \in Threads \ {t} : /\ pc'[u] = pc[u] /\ op'[u] = op[u] /\ hand'[u] = hand[u]
                                     /\ asof'[u] = asof[u]
        /\ \A u \in Threads : pc[u] \notin Building
        /\ cached = NoClients /\ UNCHANGED <<cached, generation, clients>>
    BY LockOwner DEF TypeOK, ReloadNothing, Return, Goto, files, store
  <1>2. "idle" \notin Building /\ "identity" \in Building
    BY DEF Building
  <1>3. \A u \in Threads : Sees(u)'
    <2>1. ASSUME NEW u \in Threads \ {t}
          PROVE  Sees(u)'
      BY <1>1, <1>2, ClientTypes DEF Fresh, Generations, Sees
    <2>2. Sees(t)'
      BY <1>1, <1>2, ClientTypes DEF Sees, Kinds
    <2> QED
      BY <2>1, <2>2
  <1>4. Generations'
    BY <1>1, <1>3, ClientTypes DEF Generations, Cached, NoClients
  <1>5. FreshAfterReload'
    BY <1>1 DEF Fresh, FreshAfterReload
  <1> QED
    BY <1>4, <1>5 DEF Fresh

\* What a build has read is new enough for its request and for the cache.
LEMMA BuiltIsNew ==
    ASSUME TypeOK, Owned, Fresh, NEW t \in Threads, NEW k \in Kinds, NewClient(t, k)
    PROVE  /\ clients'[New].ca >= asof[t] /\ clients'[New].identity >= asof[t]
           /\ clients'[New].ca >= promised /\ clients'[New].identity >= promised
           /\ asof[t] <= generation /\ promised <= generation
  <1>1. pc[t] = "identity" /\ Sees(t) /\ promised <= generation
    BY DEF NewClient, Fresh, Generations
  <1>2. FileGeneration("identity") >= generation /\ FileGeneration("identity") \in Nat
    BY NewClientFacts
  <1>3. /\ readCa >= promised /\ readCa >= asof[t] /\ asof[t] <= generation
    BY <1>1 DEF Sees
  <1>4. FileGeneration("identity") >= promised /\ FileGeneration("identity") >= asof[t]
    BY <1>1, <1>2, <1>3, ClientTypes
  <1>5. clients'[New].ca = readCa /\ clients'[New].identity = FileGeneration("identity")
    BY NewClientFields
  <1> QED
    BY <1>1, <1>3, <1>4, <1>5

\* The requests of other threads keep the clients they hold, whatever is built.
LEMMA OthersKeepClients ==
    ASSUME TypeOK, Owned, Fresh, NEW t \in Threads, NEW k \in Kinds, NewClient(t, k),
           \A u \in Threads \ {t} : pc'[u] = pc[u] /\ hand'[u] = hand[u],
           UNCHANGED <<op, asof>>
    PROVE  \A u \in Threads \ {t} : op'[u] \in Kinds /\ pc'[u] \in {"use", "flight"} =>
              LET c == clients'[hand'[u][op'[u]]] IN c.ca >= asof'[u] /\ c.identity >= asof'[u]
  <1> SUFFICES ASSUME NEW u \in Threads \ {t}, op[u] \in Kinds, pc[u] \in {"use", "flight"}
               PROVE  LET c == clients'[hand[u][op[u]]] IN c.ca >= asof[u] /\ c.identity >= asof[u]
    OBVIOUS
  <1>1. hand[u][op[u]] \in Ids
    BY DEF TypeOK, Owned, Held, Holds
  <1>2. clients'[hand[u][op[u]]] = clients[hand[u][op[u]]]
    BY <1>1, NewClientFields
  <1> QED
    BY <1>2 DEF Fresh, FreshAfterReload

LEMMA BuiltForRequestFresh ==
    ASSUME TypeOK, Owned, Fresh, NEW t \in Threads, BuiltForRequest(t)
    PROVE  Fresh'
  <1> DEFINE o == op[t]
  <1>1. o \in Kinds /\ NewClient(t, o) /\ pc[t] \in Building /\ "identity" \in Building /\ "use" \notin Building
    BY DEF BuiltForRequest, NewClient, Building
  <1>2. /\ pc'[t] = "use" /\ op' = op /\ hand'[t][o] = New
        /\ \A u \in Threads \ {t} : pc'[u] = pc[u] /\ hand'[u] = hand[u] /\ pc[u] \notin Building
        /\ cached' = [cached EXCEPT ![o] = New] /\ UNCHANGED <<generation, asof, promised>>
    BY <1>1, LockOwner DEF TypeOK, BuiltForRequest, Goto, files, history
  <1> HIDE DEF o
  <1>3. \A i \in Ids : clients'[i] = clients[i]
    BY <1>1, NewClientFields
  <1>4. Sees(t) /\ promised <= generation
    BY DEF Fresh, Generations
  <1>5. \A u \in Threads : Sees(u)'
    <2>1. \A u \in Threads \ {t} : Sees(u)'
      BY <1>1, <1>2 DEF Fresh, Generations, Sees
    <2>2. Sees(t)'
      BY <1>1, <1>2, <1>4 DEF Sees
    <2> QED
      BY <2>1, <2>2
  <1>6. ASSUME NEW k \in Kinds, cached'[k] # 0
        PROVE  clients'[cached'[k]].ca >= promised /\ clients'[cached'[k]].identity >= promised
    <2>1. CASE k = o
      BY <1>1, <1>2, <2>1, BuiltIsNew DEF TypeOK
    <2>2. CASE k # o
      <3>1. cached'[k] = cached[k] /\ cached[k] \in Ids
        BY <1>2, <1>6, <2>2 DEF TypeOK
      <3> QED
        BY <1>3, <1>6, <3>1 DEF Fresh, Generations, Cached
    <2> QED
      BY <2>1, <2>2
  <1>7. Generations'
    BY <1>2, <1>4, <1>5, <1>6 DEF Generations, Cached
  <1>8. clients'[New].ca >= asof[t] /\ clients'[New].identity >= asof[t]
    BY <1>1, BuiltIsNew
  <1>9. FreshAfterReload'
    <2>1. hand'[t][op'[t]] = New
      BY <1>2 DEF o
    <2> QED
      BY <1>1, <1>2, <1>8, <2>1, OthersKeepClients DEF FreshAfterReload
  <1> QED
    BY <1>7, <1>9 DEF Fresh

LEMMA BuiltFirstFresh ==
    ASSUME TypeOK, Owned, Fresh, NEW t \in Threads, BuiltFirst(t)
    PROVE  Fresh'
  <1>1. /\ "sync" \in Kinds /\ NewClient(t, "sync") /\ pc[t] \in Building /\ "ca" \in Building
        /\ "identity" \in Building /\ op[t] = "reload" /\ op[t] \notin Kinds /\ op[t] \in Reloads
    BY DEF BuiltFirst, NewClient, Building, Kinds, Reloads
  <1>2. /\ pc'[t] = "ca" /\ op' = op /\ hand'[t]["sync"] = New
        /\ \A u \in Threads \ {t} : pc'[u] = pc[u] /\ hand'[u] = hand[u] /\ pc[u] \notin Building
        /\ cached' = cached /\ UNCHANGED <<generation, asof, promised>>
    BY <1>1, LockOwner DEF TypeOK, BuiltFirst, Goto, files, history
  <1>3. \A i \in Ids : clients'[i] = clients[i]
    BY <1>1, NewClientFields
  <1>4. Sees(t) /\ promised <= generation
    BY DEF Fresh, Generations
  <1>5. clients'[New].ca >= asof[t] /\ clients'[New].identity >= asof[t]
    BY <1>1, BuiltIsNew
  <1>6. \A u \in Threads : Sees(u)'
    <2>1. \A u \in Threads \ {t} : Sees(u)'
      BY <1>1, <1>2 DEF Fresh, Generations, Sees
    <2>2. Sees(t)'
      BY <1>1, <1>2, <1>4, <1>5 DEF Sees
    <2> QED
      BY <2>1, <2>2
  <1>7. ASSUME NEW k \in Kinds, cached[k] # 0
        PROVE  clients'[cached[k]].ca >= promised /\ clients'[cached[k]].identity >= promised
    <2>1. cached[k] \in Ids
      BY <1>7 DEF TypeOK
    <2> QED
      BY <1>3, <1>7, <2>1 DEF Fresh, Generations, Cached
  <1>8. Generations'
    BY <1>2, <1>4, <1>6, <1>7 DEF Generations, Cached
  <1>9. FreshAfterReload'
    BY <1>1, <1>2, OthersKeepClients DEF FreshAfterReload
  <1> QED
    BY <1>8, <1>9 DEF Fresh

\* Both clients a reload installs are as new as what it set out to load.
LEMMA InstallFresh ==
    ASSUME TypeOK, Owned, Fresh, NEW t \in Threads, Install(t)
    PROVE  Fresh'
  <1>1. PICK k \in Kinds :
              /\ NewClient(t, k) /\ cached'[k] = New /\ Cached(k)
              /\ \A j \in Kinds : cached'[j] = 0 <=> ~Cached(j)
              /\ \A j \in Kinds \ {k} : cached'[j] = hand[t][j]
              /\ \A j \in Kinds : hand[t][j] # 0 => j = "sync" /\ j # k
    BY InstallFacts
  <1>2. /\ pc[t] \in Building /\ "identity" \in Building /\ "closeSync" \notin Building \cup {"use", "flight"}
        /\ op[t] \in Reloads /\ op[t] \notin Kinds
    BY <1>1, PointFacts DEF NewClient, Building, Install
  <1>3. /\ pc'[t] = "closeSync" /\ op' = op /\ UNCHANGED <<generation, asof>>
        /\ \A u \in Threads \ {t} : pc'[u] = pc[u] /\ hand'[u] = hand[u] /\ pc[u] \notin Building
        /\ promised' = (IF asof[t] > promised THEN asof[t] ELSE promised)
    BY <1>2, LockOwner DEF TypeOK, Install, Goto, files, history
  <1>4. Sees(t) /\ promised <= generation
    BY DEF Fresh, Generations
  <1>5. promised' = asof[t] /\ promised' >= promised /\ promised' <= generation
    BY <1>2, <1>3, <1>4, ClientTypes DEF Sees
  <1>6. \A i \in Ids : clients'[i] = clients[i]
    BY <1>1, NewClientFields
  <1>7. \A u \in Threads : Sees(u)'
    <2>1. ASSUME NEW u \in Threads \ {t}
          PROVE  Sees(u)'
      <3>1. Sees(u) /\ asof[u] \in Nat /\ promised \in Nat /\ promised' \in Nat
        BY <1>5, ClientTypes DEF Fresh, Generations
      <3>2. op[u] \in Kinds => asof[u] <= promised'
        BY <1>5, <3>1 DEF Sees
      <3> QED
        BY <1>2, <1>3, <3>1, <3>2 DEF Sees
    <2>2. Sees(t)'
      BY <1>2, <1>3, <1>4 DEF Sees
    <2> QED
      BY <2>1, <2>2
  <1>8. ASSUME NEW j \in Kinds, cached'[j] # 0
        PROVE  clients'[cached'[j]].ca >= promised' /\ clients'[cached'[j]].identity >= promised'
    <2>1. CASE j = k
      BY <1>1, <1>5, <2>1, BuiltIsNew
    <2>2. CASE j # k
      <3>1. cached'[j] = hand[t]["sync"] /\ hand[t]["sync"] # 0 /\ j = "sync"
        BY <1>1, <1>8, <2>2
      <3>2. hand[t]["sync"] \in Ids
        BY <3>1 DEF TypeOK
      <3> QED
        BY <1>2, <1>4, <1>5, <1>6, <3>1, <3>2 DEF Sees
    <2> QED
      BY <2>1, <2>2
  <1>9. Generations'
    BY <1>3, <1>5, <1>7, <1>8 DEF Generations, Cached
  <1>10. FreshAfterReload'
    <2>1. UNCHANGED <<op, asof>>
      BY <1>3
    <2> QED
      BY <1>1, <1>2, <1>3, <2>1, OthersKeepClients DEF FreshAfterReload
  <1> QED
    BY <1>9, <1>10 DEF Fresh

\* A rotation makes the files newer, never what was read of them.
LEMMA StutterFresh ==
    ASSUME TypeOK, Fresh, UNCHANGED <<store, readCa, pc, op, hand, history>>,
           generation' \in Nat, generation' >= generation
    PROVE  Fresh'
  <1>1. \A t \in Threads : Sees(t)'
    BY ClientTypes DEF Fresh, Generations, Sees, store, history
  <1>2. Generations'
    BY <1>1, ClientTypes DEF Fresh, Generations, Cached, store, history
  <1>3. FreshAfterReload'
    BY DEF Fresh, FreshAfterReload, store, history
  <1> QED
    BY <1>2, <1>3 DEF Fresh

LEMMA NextFresh ==
    ASSUME TypeOK, Owned, Fresh, [Next]_vars
    PROVE  Fresh'
  <1>1. CASE UNCHANGED vars
    BY <1>1, ClientTypes, StutterFresh DEF vars, files
  <1>2. ASSUME NEW f \in Files, Rewrite(f)
        PROVE  Fresh'
    <2>1. generation' \in Nat /\ generation' >= generation
      BY <1>2, ClientTypes DEF Rewrite
    <2> QED
      BY <1>2, <2>1, StutterFresh DEF Rewrite
  <1>3. ASSUME NEW t \in Threads, Step(t)
        PROVE  Fresh'
    BY <1>3, OutsideFresh, StartBuildFresh, ReadCaFresh, ReloadNothingFresh, BuiltForRequestFresh,
       BuiltFirstFresh, InstallFresh DEF Step
  <1>4. ASSUME NEW t \in Threads,
               ProviderReturns(t) \/ RequestEnds(t) \/ \E o \in Operations : Begin(t, o)
        PROVE  Fresh'
    BY <1>4, OutsideFresh
  <1> QED
    BY <1>1, <1>2, <1>3, <1>4 DEF Next

\* The inductive invariant.
THEOREM Invariant == Spec => []IInv
  <1>1. Init => Fresh
    BY InitFresh
  <1>2. TypeOK /\ Owned /\ Fresh /\ [Next]_vars => Fresh'
    BY NextFresh
  <1> QED
    BY <1>1, <1>2, TypeCorrectness, Ownership, PTL DEF Spec, IInv

\* No request that starts after a reload returned runs on credentials from before
\* the rotation the reload was to load.
THEOREM CredentialsAreFresh == Spec => []FreshAfterReload
  <1>1. IInv => FreshAfterReload
    BY DEF IInv, Fresh
  <1> QED
    BY <1>1, Invariant, PTL

-----------------------------------------------------------------------------
(* A reload replaces all cached clients at once.                           *)

\* The steps in which a thread may change what is cached.
LEMMA CacheChanges ==
    ASSUME TypeOK, [Next]_vars, NEW t \in Threads, lock = t, cached' # cached
    PROVE  Install(t) \/ (BuiltForRequest(t) /\ op[t] \in Kinds)
  <1>1. pc[t] \in Building /\ ~Free
    BY ThreadsAssumption DEF TypeOK, Free
  <1>2. Next
    BY DEF vars, store
  <1>3. PICK u \in Threads : BuiltForRequest(u) \/ Install(u) \/ Retire(u)
    BY <1>2 DEF Next, Step, Rewrite, Begin, CheckToken, ProviderReturns, TakeCached, Refuse, ReloadNothing,
       StartBuild, ReadCa, BuiltFirst, BuildFails, CloseSync, CloseAsync, Send, ClientUnusable,
       RequestEnds, store
  <1>4. ~Retire(u)
    BY <1>1 DEF Retire
  <1>5. pc[u] \in Building
    BY <1>3, <1>4 DEF BuiltForRequest, Install, NewClient, Building
  <1>6. u = t
    BY <1>1, <1>5, LockOwner
  <1> QED
    BY <1>3, <1>4, <1>6 DEF BuiltForRequest

\* A step of a reload replaces every cached client by another one, or none, and
\* caches no client of a kind that was not cached.
THEOREM ReloadIsAtomic == Spec => ReloadAtomic
  <1>1. IInv /\ [Next]_vars =>
           [\A t \in Threads : lock = t /\ op[t] \in Reloads /\ cached' # cached =>
              \A k \in Kinds : IF Cached(k) THEN cached'[k] \notin {0, cached[k]} ELSE cached'[k] = 0]_vars
    <2> SUFFICES ASSUME IInv, [Next]_vars, NEW t \in Threads, lock = t, op[t] \in Reloads,
                        cached' # cached, NEW j \in Kinds
                 PROVE  IF Cached(j) THEN cached'[j] \notin {0, cached[j]} ELSE cached'[j] = 0
      OBVIOUS
    <2>1. Install(t)
      BY CacheChanges, PointFacts DEF IInv
    <2>2. TypeOK /\ Owned
      BY DEF IInv
    <2>3. PICK k \in Kinds :
                /\ NewClient(t, k) /\ cached'[k] = New /\ Cached(k)
                /\ \A i \in Kinds : cached'[i] = 0 <=> ~Cached(i)
                /\ \A i \in Kinds \ {k} : cached'[i] = hand[t][i]
                /\ \A i \in Kinds : hand[t][i] # 0 => i = "sync" /\ i # k
      BY <2>1, <2>2, InstallFacts
    <2>4. cached[j] \in Ids \cup {0} /\ New \notin Ids /\ New # 0
      BY <2>2, <2>3, NewClientFields DEF TypeOK
    <2>5. pc[t] \in Building
      BY <2>3 DEF NewClient, Building
    <2>6. ASSUME Cached(j), j # k
          PROVE  cached'[j] # cached[j]
      <3>1. cached'[j] = hand[t]["sync"] /\ hand[t]["sync"] # 0
        BY <2>3, <2>6
      <3> QED
        BY <2>2, <2>5, <3>1 DEF Owned, Disjoint
    <2> QED
      BY <2>3, <2>4, <2>6 DEF Cached
  <1> QED
    BY <1>1, Invariant, PTL DEF Spec, ReloadAtomic
=============================================================================
