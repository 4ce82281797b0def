---------------------------- MODULE MCMigrations ----------------------------
(* Instances of Migrations: the shape of the six migrations of the program - tables with *)
(* an index, an index that is replaced, a column that is added. *)
EXTENDS Migrations

CONSTANTS table, index, column, p1, p2, p3

Ensure(n, d) == [op |-> "ENSURE", name |-> n, def |-> d]
Drop(n)      == [op |-> "DROP", name |-> n, def |-> 0]

Tables  == <<Ensure(table, 1), Ensure(index, 1)>>
Reindex == <<Drop(index), Ensure(index, 2)>>
Again   == <<Drop(index), Ensure(index, 3)>>
Column  == <<Ensure(column, 1)>>
Edited  == <<Drop(index), Ensure(index, 4)>>

\* A rolling update: p1 and p2 are of the last release, p3 of the one before.
Update ==
    [p \in Processes |->
        IF p = p3 THEN <<Tables, Reindex, Again>> ELSE <<Tables, Reindex, Again, Column>>]

\* p3 is of a release in which a migration was edited.
Divergent ==
    [p \in Processes |-> IF p = p3 THEN <<Tables, Reindex, Edited>> ELSE <<Tables, Reindex, Again>>]

TwoDeployments == {Update, Divergent}
==============================================================================
