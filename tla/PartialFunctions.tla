-------------------------- MODULE PartialFunctions --------------------------
(***************************************************************************)
(* Finite partial functions: the associative containers of the code        *)
(* (std::map, std::set ordered by a key, dense_hash_map, database tables). *)
(* A key outside the domain is a key the container does not hold.          *)
(***************************************************************************)

EmptyFcn == [x \in {} |-> x]

\* Insert or overwrite.
Put(f, k, v) == [x \in DOMAIN f \cup {k} |-> IF x = k THEN v ELSE f[x]]

\* Erase.
Drop(f, k) == [x \in DOMAIN f \ {k} |-> f[x]]
=============================================================================
