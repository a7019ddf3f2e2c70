------------------------------ MODULE Registry ------------------------------
(***************************************************************************)
(* What the endpoint registry promises (specification, section 4.5): the   *)
(* balancer's members are replaced only by a listing the service gave in   *)
(* answer to the call in flight, and a call that brings no listing leaves  *)
(* them as they are.  The load factors, the flags of an element and how    *)
(* the call fails are of no concern here.                                  *)
(***************************************************************************)
CONSTANTS Endpoints     \* the endpoints there are

VARIABLES
    offered,            \* the endpoints the service lists for this client
    snapshot,           \* the listing on its way to the registry: <<>> or <<set>>
    members             \* the endpoints the balancer routes to

vars == <<offered, snapshot, members>>

TypeOK ==
    /\ offered \subseteq Endpoints
    /\ snapshot \in {<<>>} \cup {<<s>> : s \in SUBSET Endpoints}
    /\ members \subseteq Endpoints

Init ==
    /\ offered = {}
    /\ snapshot = <<>>
    /\ members = {}

\* Endpoints join or leave.
Offer ==
    /\ offered' \in (SUBSET Endpoints) \ {offered}
    /\ UNCHANGED <<snapshot, members>>

\* The service answers with what it lists now.
Take ==
    /\ snapshot = <<>>
    /\ snapshot' = <<offered>>
    /\ UNCHANGED <<offered, members>>

\* The listing that arrived becomes the members.
Install ==
    /\ snapshot # <<>>
    /\ members' = snapshot[1]
    /\ snapshot' = <<>>
    /\ UNCHANGED offered

\* The listing is lost on its way: the call is cancelled or times out.
Drop ==
    /\ snapshot # <<>>
    /\ snapshot' = <<>>
    /\ UNCHANGED <<offered, members>>

Next == Offer \/ Take \/ Install \/ Drop

Spec == Init /\ [][Next]_vars
=============================================================================
