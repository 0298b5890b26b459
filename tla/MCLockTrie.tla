----------------------------- MODULE MCLockTrie -----------------------------
(***************************************************************************)
(* Instances of LockTrie for TLC.  A node is the sequence of its path's    *)
(* segments, and its ancestors are the proper prefixes.                    *)
(***************************************************************************)
EXTENDS LockTrie

\* "/", "/a", "/a/b", "/a/c"
ForkNodes == {<<>>, <<"a">>, <<"a", "b">>, <<"a", "c">>}

ForkAbove == [n \in ForkNodes |-> {m \in ForkNodes : IsStrictPrefix(m, n)}]

\* "/", "/a", "/a/b"
ChainNodes == {<<>>, <<"a">>, <<"a", "b">>}

ChainAbove == [n \in ChainNodes |-> {m \in ChainNodes : IsStrictPrefix(m, n)}]

Clients == Permutations(Fd)
=============================================================================
