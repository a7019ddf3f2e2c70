------------------------------ MODULE Balancer ------------------------------
(***************************************************************************)
(* The balancer's contract (its source is not in the repository; the       *)
(* operations are the ones the balancer's tests, unnamed/part_000, call,   *)
(* as section 4.6 of the specification describes them and, where the two   *)
(* differ, as the tests expect them).                                      *)
(*                                                                         *)
(* The table maps a connection to the element that holds it:               *)
(* [info, state].  Selection is by weight; every weight is positive, so    *)
(* what Next may return is the set of elements it selects among, and the   *)
(* frequencies are not modelled.                                           *)
(***************************************************************************)
EXTENDS FiniteSets

EmptyTable == <<>>

Conns(table)  == DOMAIN table
Online(table) == {c \in Conns(table) : table[c].state = "Online"}
Banned(table) == {c \in Conns(table) : table[c].state = "Banned"}

\* Every element is banned, and there is one.
AllBanned(table) == Conns(table) # {} /\ Online(table) = {}

\* Insert of a connection whose state was not set to Online before.
Insert_Offline(table, conn, info) ==
    [c \in Conns(table) \cup {conn} |->
        IF c = conn THEN [info |-> info, state |-> "Offline"] ELSE table[c]]

\* Insert(conn, info): a new element, Online.
Insert(table, conn, info) ==
    [c \in Conns(table) \cup {conn} |->
        IF c = conn THEN [info |-> info, state |-> "Online"] ELSE table[c]]

\* Remove(element).
Remove(table, conn) == [c \in Conns(table) \ {conn} |-> table[c]]

\* Pessimize as section 4.6 of the specification has it: AllBannedError to
\* the call that left no element Online.
Pessimize_TellingAllBanned(table, conn) ==
    LET after == [table EXCEPT ![conn].state = "Banned"]
    IN  [table |-> after,
         err   |-> IF AllBanned(after) /\ ~AllBanned(table) THEN "AllBannedError" ELSE "nil"]

\* Pessimize(element): the element is Banned.  The tests ban every element
\* of a table and take any error for a failure, so the balancer they were
\* written for returns nil for an element of the table, the last one
\* online too.
Pessimize(table, conn) ==
    [table |-> [table EXCEPT ![conn].state = "Banned"], err |-> "nil"]

\* Next() choosing among every element, banned or not.
NextChoices_Any(table) == Conns(table)
\* What Next() may return: an Online element; a Banned one when all are;
\* nothing (nil) when the table is empty.
NextChoices(table) == IF Online(table) # {} THEN Online(table) ELSE Banned(table)
=============================================================================
