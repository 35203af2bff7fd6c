--------------------------- MODULE MCWebdavLocks ---------------------------
(* TLC instances of WebdavLocks: paths are tuples of segments.              *)
EXTENDS WebdavLocks, TLC

CONSTANTS c1, c2

MCName == {<<>>, <<"a">>, <<"a", "b">>}
MCRoot == <<>>
MCPath == {<<"a">>, <<"a", "b">>}
MCWalk == [n \in MCName |-> {SubSeq(n, 1, i) : i \in 0 .. Len(n)}]
MCDuration == {-1, 1}
MCTime == 0 .. MaxTime
MCJoin == [b \in MCName |-> [p \in MCName |-> b \o p]]

\* Every user at the root, and one whose base path is /a
MCRootBase == (c1 :> MCRoot) @@ (c2 :> MCRoot)
MCUserBase == (c1 :> <<"a">>) @@ (c2 :> <<"a">>)

\* Users at the same base path are interchangeable.
Clients == Permutations(Client)

MCTags == {<<"a">>}
MCNoTags == {}
MCNameBase == {<<>>, <<"a">>, <<"b">>, <<"a", "b">>}
MCWalkBase == [n \in MCNameBase |-> {SubSeq(n, 1, i) : i \in 0 .. Len(n)}]
MCJoinBase == [b \in MCNameBase |-> [p \in MCNameBase |-> b \o p]]

============================================================================
