------------------------------- MODULE MCOpFs -------------------------------
(* TLC instances of OpFs: one directory d with a file f, and a second          *)
(* directory e where something is moved or copied.                            *)
EXTENDS OpFs, TLC

D == <<"d">>
E == <<"e">>
DF == <<"d", "f">>
DT == <<"d", "f.alist_to_delete">>
EF == <<"e", "f">>

MCTemp == [n \in {"f"} |-> "f.alist_to_delete"]

\* Trees
OneDir == {Root, D, DF, DT}
TwoDirs == {Root, D, E, DF, EF}
Tree(paths, dirs, files) ==
    [x \in paths |-> IF x \in dirs THEN "dir"
                     ELSE IF x \in files THEN "file" ELSE "none"]

Symmetric == Permutations(Proc)

List(dir) == ListFrame(dir, NoName, FALSE)
Put(path, kind) == OpFrame("put", path, NoName, kind, FALSE)
To(fn, path, to, lazy) == OpFrame(fn, path, to, NoName, lazy)
Both == BOOLEAN
Yes == {TRUE}

\* opfs_cache: every operation, on d and f, with a second directory e
CacheDisks == {Tree(TwoDirs, {Root, D, E}, {DF})}
CacheRequests ==
    {ListFrame(D, NoName, TRUE), RemoveFrame(DF), RemoveFrame(D),
     RenameFrame(DF, "f"), RenameFrame(D, "e"), Put(DF, "file"), Put(DF, "empty"),
     To("move", DF, E, FALSE), To("copy", DF, E, TRUE),
     OpFrame("puturl", EF, NoName, "file", FALSE)}

\* opfs_upload: uploads only (each lists d several times)
UploadDisks == {Tree(OneDir, {Root, D}, {DF})}
UploadRequests == {Put(DF, "file")}

\* opfs_parent_found: an upload and a listing, and nothing fails
ParentRequests == {List(D), Put(DF, "file")}
ParentDisks == {Tree(OneDir, {Root}, {})}

============================================================================
