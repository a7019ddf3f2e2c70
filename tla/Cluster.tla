------------------------------ MODULE Cluster -------------------------------
(***************************************************************************)
(* The endpoint registry: the loop that asks the discovery service for the *)
(* endpoints and reconciles what Discover returns into the balancer, with  *)
(* the service whose listing changes while a call is on its way and whose  *)
(* calls fail or are cancelled.  The loop is not among the sources: its    *)
(* steps follow section 4.5 of the specification around Discover of        *)
(* discovery.go, and a refresh is one atomic step on the balancer's table. *)
(***************************************************************************)
EXTENDS Discovery, Balancer, Naturals

Seqs == INSTANCE SequencesExt

CONSTANTS
    Addrs,          \* the endpoints there are, each an (address, port) pair
    SslOf,          \* Addrs -> BOOLEAN: whether the endpoint speaks ssl
    LocationOf,     \* Addrs -> Locations: where the endpoint is
    SelfLocation,   \* where the service says the client is
    LoadFactors,    \* the load factors the service reports
    Client,         \* the discoveryClient: [database, ssl]
    Failures,       \* the ways a call of ListEndpoints fails
    MaxChanges      \* bound: times the service's listing changes

VARIABLES
    listing,        \* the service: the endpoints it lists and their load factors
    changes,        \* how often the listing changed
    inflight,       \* the discovery call: Idle, Request, or the response
    elements        \* the balancer's table

vars == <<listing, changes, inflight, elements>>

Idle    == [kind |-> "idle"]
Request == [kind |-> "request"]

-----------------------------------------------------------------------------
(* The service. *)

\* An endpoint joins, leaves, or reports another load.
Change == \E a \in Addrs, l \in LoadFactors :
    /\ changes < MaxChanges
    /\ changes' = changes + 1
    /\ listing' \in { [b \in DOMAIN listing \cup {a} |-> IF b = a THEN l ELSE listing[b]],
                      [b \in DOMAIN listing \ {a} |-> listing[b]] } \ {listing}
    /\ UNCHANGED <<inflight, elements>>

\* The listing as ListEndpoints sends it.
Listed ==
    LET order == Seqs!SetToSeq(DOMAIN listing)
    IN  Listing([i \in DOMAIN order |->
                    EndpointInfo(order[i], listing[order[i]],
                                 LocationOf[order[i]], SslOf[order[i]])],
                SelfLocation)

\* The service answers the request with its listing as it is now.
AnswerListing ==
    /\ inflight = Request
    /\ inflight' = Listed
    /\ UNCHANGED <<listing, changes, elements>>

\* The call fails: in the transport, in the bytes, or in the operation.
AnswerFailure == \E failure \in Failures :
    /\ inflight = Request
    /\ inflight' = failure
    /\ UNCHANGED <<listing, changes, elements>>

-----------------------------------------------------------------------------
(* The discovery loop. *)

\* What the balancer is told of an endpoint.
ConnInfo(e) == [loadFactor |-> e.LoadFactor, local |-> e.Local]

\* The entry of an address in the endpoints of a refresh.
EntryOf(endpoints, a) == endpoints[CHOOSE i \in DOMAIN endpoints : endpoints[i].Addr = a]

\* The entries that are there refreshed, the new ones inserted.
Upsert(table, endpoints) ==
    LET listed    == {endpoints[i].Addr : i \in DOMAIN endpoints}
        refreshed == [c \in Conns(table) |->
                         IF c \in listed
                         THEN [table[c] EXCEPT !.info = ConnInfo(EntryOf(endpoints, c))]
                         ELSE table[c]]
    IN  Seqs!FoldSet(LAMBDA a, t : Insert(t, a, ConnInfo(EntryOf(endpoints, a))),
                     refreshed, listed \ Conns(table))

\* A reconcile that leaves the missing entries where they are.
Reconcile_KeepingMissing(table, endpoints) == Upsert(table, endpoints)

\* The endpoints of a refresh reconciled into the table by identity: a
\* missing entry is removed, an entry that is there is refreshed and keeps
\* its state, a new one is inserted.
Reconcile(table, endpoints) ==
    LET listed == {endpoints[i].Addr : i \in DOMAIN endpoints}
    IN  Upsert(Seqs!FoldSet(LAMBDA c, t : Remove(t, c), table, Conns(table) \ listed),
               endpoints)

\* The tick of the loop: Discover is called.
Tick ==
    /\ inflight = Idle
    /\ inflight' = Request
    /\ UNCHANGED <<listing, changes, elements>>

\* Discover returns and the loop reconciles, or keeps the table on an error.
Refresh ==
    /\ inflight.kind \notin {"idle", "request"}
    /\ LET discovered == Discover(Client, inflight)
       IN  elements' = IF discovered.err = "nil"
                      THEN Reconcile(elements, discovered.endpoints)
                      ELSE elements
    /\ inflight' = Idle
    /\ UNCHANGED <<listing, changes>>

\* The call is cancelled or times out; a late answer is dropped.
Cancel ==
    /\ inflight # Idle
    /\ inflight' = Idle
    /\ UNCHANGED <<listing, changes, elements>>

-----------------------------------------------------------------------------
Init ==
    /\ listing = <<>>
    /\ changes = 0
    /\ inflight = Idle
    /\ elements = EmptyTable

Next ==
    \/ Change
    \/ AnswerListing \/ AnswerFailure
    \/ Tick \/ Refresh \/ Cancel

\* Nothing is assumed of how often the loop ticks or the service answers:
\* the timer and the retry are not in the sources.
Spec == Init /\ [][Next]_vars

-----------------------------------------------------------------------------
(* Properties. *)

\* The endpoints of the listing a client with this ssl setting may use.
Usable == {a \in DOMAIN listing : SslOf[a] = Client.ssl}

\* The usable endpoints of the listing in flight, as the registry is to see it.
SnapshotInFlight ==
    IF inflight.kind = "listing"
    THEN <<{inflight.Endpoints[i].Address : i \in
               {j \in DOMAIN inflight.Endpoints : inflight.Endpoints[j].Ssl = Client.ssl}}>>
    ELSE <<>>

\* The registry this cluster is to implement.
Abstract == INSTANCE Registry WITH
    Endpoints <- Addrs,
    offered   <- Usable,
    snapshot  <- SnapshotInFlight,
    members   <- Conns(elements)

\* Type invariant.
TypeOK ==
    /\ DOMAIN listing \subseteq Addrs
    /\ \A a \in DOMAIN listing : listing[a] \in LoadFactors
    /\ changes \in 0..MaxChanges
    /\ inflight.kind \in {"idle", "request", "listing", "transport_error", "garbage",
                          "operation_failed"}
    /\ Conns(elements) \subseteq Addrs
    /\ \A c \in Conns(elements) :
          /\ elements[c].state \in {"Online", "Banned"}
          /\ elements[c].info.local \in BOOLEAN

\* What Discover filters and flags is what the balancer routes to: every
\* element is an endpoint that speaks the client's ssl, and it is local
\* exactly when it is where the service says the client is (the ssl test and
\* the Location comparison of Discover, carried through every reconcile).
RegistryReflectsDiscovery ==
    \A c \in Conns(elements) :
        /\ SslOf[c] = Client.ssl
        /\ elements[c].info.local <=> (LocationOf[c] = SelfLocation)

\* The cluster implements the registry: the balancer's members change only
\* in a refresh, to the usable endpoints of the listing that the service sent
\* in answer to this call, however the listing changed while the answer was
\* on its way; ticks, failed calls and cancellations leave them alone
\* (Discover's error returns and the reconcile of what it returns).
RegistrySpec == Abstract!Spec

\* "A discovery failure is retried on the next tick and does not invalidate
\* the current set": a refresh whose call did not bring a listing leaves the
\* table as it is (Discover reads the result of the operation without
\* looking at whether the operation succeeded).
FailureKeepsTheSet ==
    [][(inflight.kind \in {"transport_error", "garbage", "operation_failed"}
            /\ inflight' = Idle)
          => elements' = elements]_vars

\* "Each endpoint is received with its load factor, and a refresh updates
\* the load factor of an entry that is there" (specification, section 4.5):
\* the load factor of every element is one the service reported.  About
\* the fields Discover copies into an Endpoint.
LoadFactorIsOneReported ==
    \A c \in Conns(elements) : elements[c].info.loadFactor \in LoadFactors
=============================================================================
