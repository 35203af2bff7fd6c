----------------------------- MODULE LockTable -----------------------------
(***************************************************************************)
(* What the WebDAV lock system promises (the LockSystem interface of       *)
(* server/webdav/lock.go), without its indexes: a table of granted locks   *)
(* no two of which conflict, tokens that are never reused, and claims that *)
(* keep a lock from being dropped or claimed again until they are          *)
(* returned.  When a lock expires is left open; a claimed one never does.  *)
(***************************************************************************)
EXTENDS Integers

CONSTANTS Name, Walk, MaxToken

VARIABLES
    locks,    \* the granted locks
    claimed,  \* the tokens that are claimed by a confirmed request
    issued    \* how many tokens were handed out

tableVars == <<locks, claimed, issued>>

Grantable == [token : 1 .. MaxToken, root : Name, zeroDepth : BOOLEAN]

\* Lock l stands in the way of a lock on root.
Conflicts(l, root, zeroDepth) ==
    \/ l.root = root
    \/ ~l.zeroDepth /\ l.root \in Walk[root]
    \/ ~zeroDepth /\ root \in Walk[l.root]

Init ==
    /\ locks = {}
    /\ claimed = {}
    /\ issued = 0

\* Any set of unclaimed locks may go: by expiry, by UNLOCK, or by both.
Drop(kept) ==
    /\ kept \subseteq locks
    /\ \A l \in locks \ kept : l.token \notin claimed

Forget(kept) ==
    /\ Drop(kept)
    /\ locks' = kept
    /\ UNCHANGED <<claimed, issued>>

Grant(kept, root, zeroDepth) ==
    /\ Drop(kept)
    /\ \A l \in kept : ~Conflicts(l, root, zeroDepth)
    /\ issued' = issued + 1
    /\ locks' = kept \cup {[token |-> issued + 1, root |-> root,
                            zeroDepth |-> zeroDepth]}
    /\ UNCHANGED claimed

Claim(kept, tokens) ==
    /\ Drop(kept)
    /\ locks' = kept
    /\ tokens \subseteq {l.token : l \in kept} \ claimed
    /\ claimed' = claimed \cup tokens
    /\ UNCHANGED issued

Unclaim(tokens) ==
    /\ tokens \subseteq claimed
    /\ claimed' = claimed \ tokens
    /\ UNCHANGED <<locks, issued>>

Next ==
    \/ \E kept \in SUBSET locks :
          \/ Forget(kept)
          \/ \E root \in Name, zeroDepth \in BOOLEAN :
                Grant(kept, root, zeroDepth)
          \/ \E tokens \in SUBSET {l.token : l \in kept} : Claim(kept, tokens)
    \/ \E tokens \in SUBSET claimed : Unclaim(tokens)

Spec == Init /\ [][Next]_tableVars

=============================================================================
