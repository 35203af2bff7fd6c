------------------------- MODULE MCStorageLifecycle -------------------------
(* TLC instances of StorageLifecycle.                                        *)
EXTENDS StorageLifecycle, TLC

\* Administrators are alike, and so are mount paths, which are only compared.
\* Driver objects are taken in a fixed order, so they are no symmetry set.
Alike == Permutations(Proc) \cup Permutations(Path)

============================================================================
