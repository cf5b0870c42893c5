------------------------------- MODULE MCAcme -------------------------------
(***************************************************************************)
(* Files with up to two entries for one resolver and three for the other,  *)
(* and hosts 1, 3 and 4 with the same slug, whose second suffix is what    *)
(* host 2 is called (as with "a b", "a_b" and "a/b", and "a_b-2").         *)
(***************************************************************************)
EXTENDS Acme

CONSTANTS a, m1, m2

Entry(h, c, k) == [main |-> h, cert |-> c, key |-> k]

MCEntries ==
  {Entry(1, m1, m1), Entry(1, m2, m2), Entry(2, m1, m1),
   Entry(NoHost, m1, m1), Entry(1, NotGiven, m2), Entry(1, m1, Bad)}

UpTo(n, S) == UNION {[1..k -> S] : k \in 0..n}

SameSlug == {<<Entry(1, m1, m1), Entry(3, m1, m1)>>,
              <<Entry(4, m1, m1), Entry(3, m2, m1), Entry(1, m1, m2)>>}

MCFiles ==
  {Other}
    \cup UNION {[R -> UpTo(2, MCEntries)] : R \in SUBSET Resolvers}
    \cup {[r \in Resolvers |-> IF r = 1 THEN s ELSE t] : s \in SameSlug, t \in UpTo(2, MCEntries)}

MCSlug == <<<<a>>, <<a, 2>>, <<a>>, <<a>>>>
=============================================================================
