----------------------------- MODULE MCProfile -----------------------------
(* An instance of Profile for TLC: up to six points, along steps of two    *)
(* lengths, that fall by various amounts.                                  *)
EXTENDS Profile

Along == {<<0, 10, 20, 34, 44, 54>>, <<0, 14, 28, 38, 48, 62>>}

(* Profiles of n points, from the falls between them. *)
Falling(n) ==
    {[i \in 1 .. n |-> [x |-> xs[i], z |-> LET fall[k \in 1 .. n] == IF k = 1 THEN 40 ELSE fall[k - 1] - f[k - 1]
                                           IN  fall[i]]] :
        xs \in Along, f \in [1 .. n - 1 -> {0, 1, 3, 8}]}

MCProfiles == {<<>>, <<[x |-> 0, z |-> 40]>>} \union Falling(2) \union Falling(4) \union Falling(6)

MCOptions ==
    {[maxSegments |-> 3, minLength |-> 15], [maxSegments |-> 2, minLength |-> 0],
     [maxSegments |-> 5, minLength |-> 25], [maxSegments |-> 0, minLength |-> 11]}

=============================================================================
