----------------------------- MODULE Discovery ------------------------------
(***************************************************************************)
(* The discovery client of discovery.go: one call of ListEndpoints turned  *)
(* into a list of Endpoint.                                                *)
(*                                                                         *)
(* A response is what the call to the discovery service comes back with:   *)
(* an error of the transport, an operation whose result does not unmarshal,*)
(* an operation without a result (the service refused or failed), or a     *)
(* listing.  An endpoint's address stands for its (address, port) pair.    *)
(***************************************************************************)
EXTENDS Sequences

\* type Endpoint struct
Endpoint(addr, loadFactor, local) ==
    [Addr |-> addr, LoadFactor |-> loadFactor, Local |-> local]

\* type discoveryClient struct (the service handle left out)
DiscoveryClient(database, ssl) == [database |-> database, ssl |-> ssl]

-----------------------------------------------------------------------------
(* What ListEndpoints returns. *)

TransportError  == [kind |-> "transport_error"]
Garbage         == [kind |-> "garbage"]
OperationFailed == [kind |-> "operation_failed"]

\* An entry of a listing, and a listing.
EndpointInfo(address, loadFactor, location, ssl) ==
    [Address |-> address, LoadFactor |-> loadFactor, Location |-> location, Ssl |-> ssl]
Listing(endpoints, selfLocation) ==
    [kind |-> "listing", Endpoints |-> endpoints, SelfLocation |-> selfLocation]

\* The location of a message that names none.
NoLocation == "none"

\* response.GetOperation().GetResult().GetValue() unmarshalled: the getters
\* return nil for what is absent, and no bytes unmarshal to the empty message.
ListEndpointsResult(response) ==
    IF response.kind = "listing"
    THEN [Endpoints |-> response.Endpoints, SelfLocation |-> response.SelfLocation]
    ELSE [Endpoints |-> <<>>, SelfLocation |-> NoLocation]

-----------------------------------------------------------------------------
\* The listed endpoints whatever their ssl flag.
Secured_All(d, result) == result.Endpoints
\* The listed endpoints whose ssl flag is the client's.
Secured(d, result) == SelectSeq(result.Endpoints, LAMBDA e : e.Ssl = d.ssl)

\* Local: the endpoint is where the answering node says the client is.
IsLocal(e, result) == e.Location = result.SelfLocation

\* Discover without the check of the error of proto.Unmarshal.
Discover_IgnoringUnmarshalError(d, response) ==
    IF response.kind = "transport_error"
    THEN [endpoints |-> <<>>, err |-> response.kind]
    ELSE LET result == ListEndpointsResult(response)
             listed == Secured(d, result)
         IN  [endpoints |-> [i \in DOMAIN listed |->
                                Endpoint(listed[i].Address, 0, IsLocal(listed[i], result))],
              err       |-> "nil"]

\* discoveryClient.Discover.  Both errors return before anything is built;
\* LoadFactor is not among the fields set, so it is the zero of float32.
Discover(d, response) ==
    IF response.kind \in {"transport_error", "garbage"}
    THEN [endpoints |-> <<>>, err |-> response.kind]
    ELSE LET result == ListEndpointsResult(response)
             listed == Secured(d, result)
         IN  [endpoints |-> [i \in DOMAIN listed |->
                                Endpoint(listed[i].Address, 0, IsLocal(listed[i], result))],
              err       |-> "nil"]
=============================================================================
