------------------------------ MODULE MCFiles ------------------------------
(* Files on a small instance: edits that match once, twice and not at all, *)
(* that grow the file and undo one another.                                *)
EXTENDS Files, TLC
MCContents == {<<"a", "b", "a">>}
Symmetry == Permutations(Editors)
\* Bound: a read is followed where every backup is dated alike.  No read looks
\* at a backup, and no edit at a read.
ReadsApart ==
    (\E r \in Readers : rd[r].pc # "idle") =>
        \A e \in Editors : ed[e].high <= 1 /\ \A i \in DOMAIN ed[e].try : ed[e].try[i].stamp = 1
MCEditRequests ==
    {[old |-> "a", new |-> <<"b">>, all |-> TRUE], [old |-> "b", new |-> <<"a", "a">>, all |-> FALSE]}
MCReadRequests ==
    {[offset |-> 0, limit |-> 3, maxSize |-> 0], [offset |-> 1, limit |-> 0, maxSize |-> 2]}
=============================================================================
