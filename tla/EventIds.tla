------------------------------ MODULE EventIds ------------------------------
(***************************************************************************)
(* The ids the companion plugin puts on its Server-Sent Events:            *)
(* "<bootId>-<seq>" (EventServer.java:155).  A boot is one life of the     *)
(* plugin's EventServer object, numbered here in the order of its start    *)
(* time; seq restarts at 1 in every boot.                                  *)
(***************************************************************************)
EXTENDS Naturals, Sequences

Ids == [boot : Nat, seq : Nat]

\* The empty string the bridge starts with, and "no event in this register".
\* Its boot, 0, is no boot of the plugin, so a request that carries it (the
\* header is then not sent at all) never matches the running boot.
NoId == [boot |-> 0, seq |-> 0]

\* The order in which the plugin hands the ids out.
Before(x, y) == \/ x.boot < y.boot
                \/ x.boot = y.boot /\ x.seq < y.seq

\* A sequence of ids in the order they were handed out, each at most once.
Increasing(s) == \A i, j \in 1..Len(s) : i < j => Before(s[i], s[j])

\* Every id of s was handed out after x.
AllAfter(x, s) == \A i \in 1..Len(s) : Before(x, s[i])

\* Every id of s was handed out before y.
AllBefore(s, y) == \A i \in 1..Len(s) : Before(s[i], y)

\* Every id of s was handed out before every id of t.
Precedes(s, t) == \A i \in 1..Len(s) : \A j \in 1..Len(t) : Before(s[i], t[j])

=============================================================================
