---------------------------- MODULE BalancerTest ----------------------------
(***************************************************************************)
(* The balancer's tests, unnamed/part_000, run against the balancer's      *)
(* contract.  TestRoundRobinBalancer and TestRandomChoiceBalancer are the  *)
(* same driver over the same table: the elements of a row are inserted,    *)
(* some removed, some pessimized (in the order Go ranges over a map: any),  *)
(* and Next is called `repeat` times.  The contract says which elements    *)
(* Next selects among and not how often, so of the distribution a test     *)
(* counts the model keeps the addresses that were returned.  A row is a    *)
(* subtest: t.Fatal ends the row, and the next row runs all the same.      *)
(***************************************************************************)
EXTENDS Balancer, Naturals, Sequences

CONSTANTS
    testData,       \* the table: rows [add, del, banned, repeat, exp]
    MaxCalls        \* bound: the calls of Next followed in a row

VARIABLES
    test,           \* the index of the row that runs
    left,           \* what the loops over add, del and banned have still to do
    r,              \* the balancer under test
    calls,          \* the calls of Next made
    mdist,          \* the addresses Next returned
    errors,         \* what the row reported with t.Errorf and t.Fatal
    ended           \* the row is over: compared, or stopped by t.Fatal

vars == <<test, left, r, calls, mdist, errors, ended>>

Row == testData[test]

\* The row as the three loops find it.
Start(row) == [add |-> row.add, del |-> row.del, banned |-> row.banned]

\* The loops are through and Next is being called.
Calling == ~ended /\ left = [add |-> <<>>, del |-> <<>>, banned |-> {}]

\* The calls of Next the model follows.
Repeat == IF Row.repeat < MaxCalls THEN Row.repeat ELSE MaxCalls

Init ==
    /\ test = 1
    /\ left = Start(testData[1])
    /\ r = EmptyTable
    /\ calls = 0
    /\ mdist = {}
    /\ errors = {}
    /\ ended = FALSE

\* melem[e.Addr] = r.Insert(c, connInfo{loadFactor: e.LoadFactor})
InsertEach ==
    /\ ~ended /\ left.add # <<>>
    /\ r' = Insert(r, Head(left.add).Addr, [loadFactor |-> Head(left.add).LoadFactor])
    /\ left' = [left EXCEPT !.add = Tail(@)]
    /\ UNCHANGED <<test, calls, mdist, errors, ended>>

\* r.Remove(melem[e.Addr])
RemoveEach ==
    /\ ~ended /\ left.add = <<>> /\ left.del # <<>>
    /\ r' = Remove(r, Head(left.del))
    /\ left' = [left EXCEPT !.del = Tail(@)]
    /\ UNCHANGED <<test, calls, mdist, errors, ended>>

\* r.Pessimize(melem[addr]) in the order Go ranges over the map, any error
\* being reported and the loop going on.
PessimizeEach == \E addr \in left.banned :
    /\ ~ended /\ left.add = <<>> /\ left.del = <<>>
    /\ LET pessimized == Pessimize(r, addr)
       IN  /\ r' = pessimized.table
           /\ errors' = errors \cup
                  IF pessimized.err # "nil" THEN {"unexpected pessimization error"} ELSE {}
    /\ left' = [left EXCEPT !.banned = @ \ {addr}]
    /\ UNCHANGED <<test, calls, mdist, ended>>

\* What Next() returns: a connection it selects among, or nil.
Returned == IF NextChoices(r) = {} THEN {"nil"} ELSE NextChoices(r)

\* The counting without the test for nil.
Counted_NilToo(conn) == mdist' = mdist \cup {conn} /\ UNCHANGED <<errors, ended>>

\* A connection is counted; nil with elements left is fatal and ends the
\* row, nil with none left is passed over.
Counted(conn) ==
    CASE conn # "nil" -> mdist' = mdist \cup {conn} /\ UNCHANGED <<errors, ended>>
      [] conn = "nil" /\ Len(Row.add) > Len(Row.del) ->
            /\ errors' = errors \cup {"unexpected no-Conn"}
            /\ ended' = TRUE
            /\ UNCHANGED mdist
      [] OTHER -> UNCHANGED <<mdist, errors, ended>>

\* conn := r.Next(), `repeat` times.
CallNext == \E conn \in Returned :
    /\ Calling /\ calls < Repeat
    /\ calls' = calls + 1
    /\ Counted(conn)
    /\ UNCHANGED <<test, left, r>>

\* What the comparison with exp reports.  Of a count the model keeps
\* whether it is zero: an address that was returned and is expected never,
\* and an address that was returned and is not in exp at all.  That an
\* expected address has the count expected is beyond it.
Mismatches ==
    (IF \E addr \in DOMAIN Row.exp : Row.exp[addr] = 0 /\ addr \in mdist
     THEN {"unexpected distribution"} ELSE {})
        \cup (IF mdist \ DOMAIN Row.exp # {} THEN {"unexpected addr in distribution"} ELSE {})

\* The distribution is compared with exp, and the row is over.
Compare ==
    /\ Calling /\ calls = Repeat
    /\ errors' = errors \cup Mismatches
    /\ ended' = TRUE
    /\ UNCHANGED <<test, left, r, calls, mdist>>

\* t.Run of the next row, whatever the last one reported: new maps and a
\* new balancer.  After the last row the test is over.
RunNext ==
    /\ ended /\ test < Len(testData)
    /\ test' = test + 1
    /\ left' = Start(testData[test'])
    /\ r' = EmptyTable
    /\ calls' = 0
    /\ mdist' = {}
    /\ errors' = {}
    /\ ended' = FALSE

Next == InsertEach \/ RemoveEach \/ PessimizeEach \/ CallNext \/ Compare \/ RunNext

Spec == Init /\ [][Next]_vars

-----------------------------------------------------------------------------
(* Properties. *)

\* The addresses a row expects traffic for.
Expected == {addr \in DOMAIN Row.exp : Row.exp[addr] > 0}

Reports == {"unexpected pessimization error", "unexpected no-Conn",
            "unexpected distribution", "unexpected addr in distribution"}

\* Type invariant.
TypeOK ==
    /\ test \in DOMAIN testData
    /\ calls \in 0..MaxCalls
    /\ mdist \subseteq Conns(r)
    /\ errors \subseteq Reports
    /\ ended \in BOOLEAN

\* The contract and the tests agree on whom Next serves: in every row, when
\* the elements are inserted, removed and pessimized, in whatever order the
\* banned ones were gone through, Next selects among exactly the addresses
\* the row expects a share for; a banned element has a share only in the
\* rows that ban every element (Insert, Remove and Pessimize of the
\* contract against the table of the tests).
NextServesWhomTheTestExpects ==
    Calling => NextChoices(r) = Expected

\* No row of the table fails against the contract, in whatever order the
\* banned addresses are ranged over and whichever connections Next
\* returns: no call of Pessimize returns an error, in the rows that ban all
\* three elements either, Next returns nil only where a row removed what it
\* added, and no address is counted that the row does not expect (the four
\* reports of TestRoundRobinBalancer against Insert, Remove, Pessimize and
\* Next).
NoRowFails == errors = {}
=============================================================================
