------------------------------- MODULE Tables -------------------------------
(***************************************************************************)
(* A database table as a function on the keys of its rows.                 *)
(***************************************************************************)

EmptyTable == [k \in {} |-> k]

IsTable(f, S, T) == DOMAIN f \subseteq S /\ f \in [DOMAIN f -> T]

Inserted(f, k, v) == [x \in DOMAIN f \cup {k} |-> IF x = k THEN v ELSE f[x]]

Removed(f, K) == [x \in DOMAIN f \ K |-> f[x]]

=============================================================================
