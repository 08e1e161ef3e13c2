--------------------------- MODULE SecureTransport ---------------------------
(***************************************************************************)
(* SecureTransportProfile (secure_transport.py): the cached mutual-TLS     *)
(* clients of a profile, built on first use, replaced by reload and        *)
(* retired by close, while threads send requests and an operator rotates   *)
(* the credential files.                                                   *)
(*                                                                         *)
(* Every member of Threads performs one operation of the profile after     *)
(* another.  The CA bundle and the client identity are read one after the  *)
(* other, under the profile's lock but not under the operator's control,   *)
(* so a client may be built in the middle of a rotation.  A request takes  *)
(* its client under the lock and uses it after the lock was released.      *)
(***************************************************************************)
EXTENDS Integers, Sequences

CONSTANTS
    Threads,         \* threads and tasks that share the profile
    NoThread,        \* the owner of a free lock
    MaxOperations,   \* bound: operations begun by all threads together
    MaxGeneration    \* bound: complete rotations of the credential files

ASSUME ThreadsAssumption == NoThread \notin Threads
ASSUME BoundsAssumption == MaxOperations \in Nat /\ MaxGeneration \in Nat

Kinds == {"sync", "async"}
Files == {"ca", "identity"}
Reloads == {"reload", "reload_sync"}
Closes == {"aclose", "close"}

\* A request is named after the kind of client it asks for.
Operations == Kinds \cup Reloads \cup Closes

Building == {"ca", "identity"}
Closing == {"closeSync", "closeAsync"}
Points == {"idle", "token", "provider", "lock", "use", "flight"} \cup Building \cup Closing

\* Clients are numbered in the order they are built; no client is 0.
NoClients == [k \in Kinds |-> 0]

VARIABLES
    generation,   \* rotations of the credential files that are complete
    rewritten,    \* files the rotation under way has already replaced
    lock,         \* owner of _lock
    closed,       \* _closed
    cached,       \* _sync_client and _async_client
    clients,      \* every client built: its kind and what its files held
    open,         \* clients that were not closed
    readCa,       \* what the CA bundle held when the build under way read it
    pc, op,       \* where a thread is, and in which operation
    hand,         \* clients in a thread's local variables
    asof,         \* (history) generation its operation must at least see
    promised,     \* (history) generation the last reload was to load
    begun         \* operations begun

files == <<generation, rewritten>>
store == <<closed, cached, clients, open>>
history == <<asof, promised>>
vars == <<files, lock, store, readCa, pc, op, hand, history, begun>>

Client == [kind: Kinds, ca: Nat, identity: Nat]
FileGeneration(f) == IF f \in rewritten THEN generation + 1 ELSE generation
Free == lock = NoThread
Cached(k) == cached[k] # 0

-----------------------------------------------------------------------------
Init ==
    /\ generation = 0 /\ rewritten = {}
    /\ lock = NoThread
    /\ closed = FALSE
    /\ cached = NoClients
    /\ clients = <<>>
    /\ open = {}
    /\ readCa = 0
    /\ pc = [t \in Threads |-> "idle"]
    /\ op = [t \in Threads |-> "none"]
    /\ hand = [t \in Threads |-> NoClients]
    /\ asof = [t \in Threads |-> 0]
    /\ promised = 0
    /\ begun = 0

Goto(t, point) == pc' = [pc EXCEPT ![t] = point]

\* The operation returns or raises: its local variables are gone.
Return(t) ==
    /\ Goto(t, "idle")
    /\ op' = [op EXCEPT ![t] = "none"]
    /\ hand' = [hand EXCEPT ![t] = NoClients]
    /\ asof' = [asof EXCEPT ![t] = 0]

\* The operator replaces the credential files one at a time.
Rewrite(f) ==
    /\ generation < MaxGeneration
    /\ f \notin rewritten
    /\ IF rewritten \cup {f} = Files
       THEN generation' = generation + 1 /\ rewritten' = {}
       ELSE rewritten' = rewritten \cup {f} /\ UNCHANGED generation
    /\ UNCHANGED <<lock, store, readCa, pc, op, hand, history, begun>>

Begin(t, o) ==
    /\ pc[t] = "idle"
    /\ begun < MaxOperations
    /\ begun' = begun + 1
    /\ op' = [op EXCEPT ![t] = o]
    /\ asof' = [asof EXCEPT ![t] = promised]
    /\ Goto(t, IF o \in Kinds THEN "token" ELSE "lock")
    /\ UNCHANGED <<files, lock, store, readCa, hand, promised>>

-----------------------------------------------------------------------------
(* token(): a request asks for its bearer token before it takes a client.  *)

\* Mutant: the token provider is called with the lock held.
CheckTokenLocked(t) ==
    /\ pc[t] = "token" /\ Free
    /\ IF closed
       THEN Return(t) /\ UNCHANGED lock
       ELSE Goto(t, "provider") /\ lock' = t /\ UNCHANGED <<op, hand, asof>>
    /\ UNCHANGED <<files, store, readCa, promised, begun>>

CheckToken(t) ==
    /\ pc[t] = "token" /\ Free
    /\ IF closed THEN Return(t) ELSE Goto(t, "provider") /\ UNCHANGED <<op, hand, asof>>
    /\ UNCHANGED <<files, lock, store, readCa, promised, begun>>

\* The application's token provider returns a token, or raises, or returns
\* one that is empty or has several lines.
ProviderReturns(t) ==
    /\ pc[t] = "provider"
    /\ Return(t) \/ (Goto(t, "lock") /\ UNCHANGED <<op, hand, asof>>)
    /\ UNCHANGED <<files, lock, store, readCa, promised, begun>>

-----------------------------------------------------------------------------
(* The lock is taken.  What needs no build is done in one step.            *)

TakeCached(t) ==
    /\ pc[t] = "lock" /\ Free /\ ~closed
    /\ op[t] \in Kinds /\ Cached(op[t])
    /\ hand' = [hand EXCEPT ![t][op[t]] = cached[op[t]]]
    /\ Goto(t, "use")
    /\ UNCHANGED <<files, lock, store, readCa, op, history, begun>>

\* A closed profile, or a synchronous form on a profile with an async client.
Refuse(t) ==
    /\ pc[t] = "lock" /\ Free
    /\ closed \/ (op[t] \in {"reload_sync", "close"} /\ Cached("async"))
    /\ Return(t)
    /\ UNCHANGED <<files, lock, store, readCa, promised, begun>>

ReloadNothing(t) ==
    /\ pc[t] = "lock" /\ Free /\ ~closed
    /\ op[t] \in Reloads /\ cached = NoClients
    /\ promised' = generation
    /\ Return(t)
    /\ UNCHANGED <<files, lock, store, readCa, begun>>

Retire(t) ==
    /\ pc[t] = "lock" /\ Free /\ ~closed
    /\ op[t] \in Closes /\ (op[t] = "close" => ~Cached("async"))
    /\ closed' = TRUE
    /\ hand' = [hand EXCEPT ![t] = cached]
    /\ cached' = NoClients
    /\ Goto(t, "closeSync")
    /\ UNCHANGED <<files, lock, clients, open, readCa, op, history, begun>>

\* Whether the operation has to build a client.
NeedsClient(t) ==
    \/ op[t] \in Kinds /\ ~Cached(op[t])
    \/ op[t] = "reload" /\ cached # NoClients
    \/ op[t] = "reload_sync" /\ Cached("sync") /\ ~Cached("async")

\* Mutant: the profile is not checked again once the token was acquired.
StartBuildUnchecked(t) ==
    /\ pc[t] = "lock" /\ Free
    /\ NeedsClient(t)
    /\ lock' = t
    /\ asof' = [asof EXCEPT ![t] = IF op[t] \in Reloads THEN generation ELSE @]
    /\ Goto(t, "ca")
    /\ UNCHANGED <<files, store, readCa, op, hand, promised, begun>>

\* Mutant: reload closes the old clients before it builds the new ones.
StartBuildClosing(t) ==
    /\ pc[t] = "lock" /\ Free /\ ~closed
    /\ NeedsClient(t)
    /\ lock' = t
    /\ open' = IF op[t] \in Reloads THEN open \ {cached[k] : k \in Kinds} ELSE open
    /\ asof' = [asof EXCEPT ![t] = IF op[t] \in Reloads THEN generation ELSE @]
    /\ Goto(t, "ca")
    /\ UNCHANGED <<files, closed, cached, clients, readCa, op, hand, promised, begun>>

StartBuild(t) ==
    /\ pc[t] = "lock" /\ Free /\ ~closed
    /\ NeedsClient(t)
    /\ lock' = t
    /\ asof' = [asof EXCEPT ![t] = IF op[t] \in Reloads THEN generation ELSE @]
    /\ Goto(t, "ca")
    /\ UNCHANGED <<files, store, readCa, op, hand, promised, begun>>

-----------------------------------------------------------------------------
(* _client_components and the constructors of the clients.                 *)

\* What is being built: reload starts with the synchronous client.
Target(t) ==
    IF op[t] \in Kinds THEN op[t]
    ELSE IF Cached("sync") /\ hand[t]["sync"] = 0 THEN "sync" ELSE "async"

ReadCa(t) ==
    /\ pc[t] = "ca"
    /\ readCa' = FileGeneration("ca")
    /\ Goto(t, "identity")
    /\ UNCHANGED <<files, lock, store, op, hand, history, begun>>

\* Certificate and private key are loaded together; a pair that does not match
\* is refused (BuildFails).
NewClient(t, k) ==
    /\ pc[t] = "identity" /\ k = Target(t)
    /\ clients' = Append(clients,
          [kind |-> k, ca |-> readCa, identity |-> FileGeneration("identity")])
    /\ readCa' = 0

New == Len(clients) + 1

BuiltForRequest(t) ==
    /\ op[t] \in Kinds
    /\ NewClient(t, op[t])
    /\ open' = open \cup {New}
    /\ cached' = [cached EXCEPT ![op[t]] = New]
    /\ hand' = [hand EXCEPT ![t][op[t]] = New]
    /\ lock' = NoThread
    /\ Goto(t, "use")
    /\ UNCHANGED <<files, closed, op, history, begun>>

\* Mutant: each new client is cached as soon as it was built.
BuiltFirstInstalled(t) ==
    /\ op[t] = "reload" /\ Cached("async")
    /\ NewClient(t, "sync")
    /\ open' = open \cup {New}
    /\ cached' = [cached EXCEPT !["sync"] = New]
    /\ hand' = [hand EXCEPT ![t]["sync"] = New]
    /\ Goto(t, "ca")
    /\ UNCHANGED <<files, lock, closed, op, history, begun>>

\* reload has another client to build before anything is replaced.
BuiltFirst(t) ==
    /\ op[t] = "reload" /\ Cached("async")
    /\ NewClient(t, "sync")
    /\ open' = open \cup {New}
    /\ hand' = [hand EXCEPT ![t]["sync"] = New]
    /\ Goto(t, "ca")
    /\ UNCHANGED <<files, lock, closed, cached, op, history, begun>>

\* Mutant: reload leaves an async client alone, as reload_sync does.
InstallSyncOnly(t) ==
    /\ op[t] \in Reloads
    /\ \E k \in Kinds :
          /\ NewClient(t, k) /\ (k = "sync" => ~Cached("async"))
          /\ cached' = [cached EXCEPT !["sync"] = hand[t]["sync"]]
          /\ hand' = [hand EXCEPT ![t] = [sync |-> cached["sync"], async |-> New]]
    /\ open' = open \cup {New}
    /\ promised' = IF asof[t] > promised THEN asof[t] ELSE promised
    /\ lock' = NoThread
    /\ Goto(t, "closeSync")
    /\ UNCHANGED <<files, closed, op, asof, begun>>

\* The last client reload needs: all active clients are replaced at once.
Install(t) ==
    /\ op[t] \in Reloads
    /\ \E k \in Kinds :
          /\ NewClient(t, k) /\ (k = "sync" => ~Cached("async"))
          /\ cached' = [hand[t] EXCEPT ![k] = New]
    /\ open' = open \cup {New}
    /\ hand' = [hand EXCEPT ![t] = cached]
    /\ promised' = IF asof[t] > promised THEN asof[t] ELSE promised
    /\ lock' = NoThread
    /\ Goto(t, "closeSync")
    /\ UNCHANGED <<files, closed, op, asof, begun>>

\* Mutant: an error while the second client is built drops the first.
BuildFailsLeaking(t) ==
    /\ pc[t] \in Building
    /\ lock' = NoThread
    /\ readCa' = 0
    /\ Return(t)
    /\ UNCHANGED <<files, store, promised, begun>>

\* Mutant: the lock is released on success only.
BuildFailsLocked(t) ==
    /\ pc[t] \in Building
    /\ open' = open \ {hand[t]["sync"]}
    /\ readCa' = 0
    /\ Return(t)
    /\ UNCHANGED <<files, lock, closed, cached, clients, promised, begun>>

\* A file is missing, empty or unreadable, certificate and key do not match,
\* or the timeouts or the proxy are invalid.  reload closes the client it has
\* already built.
BuildFails(t) ==
    /\ pc[t] \in Building
    /\ open' = open \ {hand[t]["sync"]}
    /\ lock' = NoThread
    /\ readCa' = 0
    /\ Return(t)
    /\ UNCHANGED <<files, closed, cached, clients, promised, begun>>

-----------------------------------------------------------------------------
(* After the lock was released.                                            *)

CloseSync(t) ==
    /\ pc[t] = "closeSync"
    /\ open' = open \ {hand[t]["sync"]}
    /\ Goto(t, "closeAsync")
    /\ UNCHANGED <<files, lock, closed, cached, clients, readCa, op, hand, history, begun>>

CloseAsync(t) ==
    /\ pc[t] = "closeAsync"
    /\ open' = open \ {hand[t]["async"]}
    /\ Return(t)
    /\ UNCHANGED <<files, lock, closed, cached, clients, readCa, promised, begun>>

Send(t) ==
    /\ pc[t] = "use"
    /\ hand[t][op[t]] \in open
    /\ Goto(t, "flight")
    /\ UNCHANGED <<files, lock, store, readCa, op, hand, history, begun>>

\* The client was closed after the request took it: httpx raises RuntimeError.
ClientUnusable(t) ==
    /\ pc[t] = "use"
    /\ hand[t][op[t]] \notin open
    /\ Return(t)
    /\ UNCHANGED <<files, lock, store, readCa, promised, begun>>

\* The request is answered, or fails: by itself, or as its client is closed.
RequestEnds(t) ==
    /\ pc[t] = "flight"
    /\ Return(t)
    /\ UNCHANGED <<files, lock, store, readCa, promised, begun>>

-----------------------------------------------------------------------------
\* What the profile does by itself, as opposed to what it is called to do and
\* to what the token provider and the gateway do.
Step(t) ==
    \/ CheckToken(t) \/ TakeCached(t) \/ Refuse(t) \/ ReloadNothing(t) \/ Retire(t)
    \/ StartBuild(t) \/ ReadCa(t)
    \/ BuiltForRequest(t) \/ BuiltFirst(t) \/ Install(t) \/ BuildFails(t)
    \/ CloseSync(t) \/ CloseAsync(t) \/ Send(t) \/ ClientUnusable(t)

Next ==
    \/ \E t \in Threads :
          Step(t) \/ ProviderReturns(t) \/ RequestEnds(t) \/ \E o \in Operations : Begin(t, o)
    \/ \E f \in Files : Rewrite(f)

Spec == Init /\ [][Next]_vars

\* A thread that can go on with an operation does.
FairSpec == Spec /\ \A t \in Threads : WF_vars(Step(t))

-----------------------------------------------------------------------------
(* Properties.                                                             *)

Ids == 1 .. Len(clients)

\* Types; and the lock is held exactly while a client is being built.
TypeOK ==
    /\ generation \in 0 .. MaxGeneration /\ rewritten \subseteq Files
    /\ lock \in Threads \cup {NoThread}
    /\ closed \in BOOLEAN
    /\ cached \in [Kinds -> Ids \cup {0}]
    /\ clients \in Seq(Client)
    /\ open \subseteq Ids
    /\ readCa \in Nat
    /\ pc \in [Threads -> Points]
    /\ op \in [Threads -> Operations \cup {"none"}]
    /\ hand \in [Threads -> [Kinds -> Ids \cup {0}]]
    /\ asof \in [Threads -> Nat]
    /\ promised \in Nat
    /\ begun \in Nat
    /\ \A t \in Threads : lock = t <=> pc[t] \in Building

\* No client with its connections and key material is lost: whatever is open
\* is cached, or in the hands of a reload or close that still has to close it,
\* also when building the second of two clients fails (secure_transport.py:99)
\* and when several threads ask for a first client at once.  Closing a client
\* is assumed to succeed.
NoLeak ==
    \A i \in open :
        \/ \E k \in Kinds : cached[k] = i
        \/ \E t \in Threads : pc[t] \in Building \cup Closing /\ \E k \in Kinds : hand[t][k] = i

\* A request never finds a closed client in the cache, or one of the other
\* kind: only a request that took its client before it was replaced or retired
\* can be left with a closed one.
CachedUsable == \A k \in Kinds : Cached(k) => cached[k] \in open /\ clients[cached[k]].kind = k

\* Closed is final: no client is cached, being built or left to a later close,
\* whatever requests had passed their first check when the profile was closed.
ClosedIsFinal == closed => cached = NoClients /\ Free

\* Once a reload that began after a rotation has returned, no request that
\* starts later runs on credentials from before that rotation, even if their
\* client was being built or taken by another thread meanwhile.
FreshAfterReload ==
    \A t \in Threads : op[t] \in Kinds /\ pc[t] \in {"use", "flight"} =>
        LET c == clients[hand[t][op[t]]] IN c.ca >= asof[t] /\ c.identity >= asof[t]

\* reload's docstring: "Atomically replace all active TLS clients".  A step of
\* a reload replaces all that are cached or none, and creates no other.
ReloadAtomic ==
    [][\A t \in Threads : lock = t /\ op[t] \in Reloads /\ cached' # cached =>
          \A k \in Kinds : IF Cached(k) THEN cached'[k] \notin {0, cached[k]} ELSE cached'[k] = 0]_vars

\* The lock is given back although token providers and requests may hang: no
\* thread keeps the others from reloading or closing the profile.
LockReleased == ~Free ~> Free
=============================================================================
