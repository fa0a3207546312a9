------------------------------ MODULE FileTree ------------------------------
(***************************************************************************)
(* Directory trees as common/file_scanner and common/file_diff see them: a *)
(* partial function from relative paths to files.  A file is its           *)
(* modification time and its content; contents are numbered, and Torn      *)
(* stands for every content nobody wrote (empty, a prefix, two writes      *)
(* mixed).  A scan keeps the times only.                                   *)
(***************************************************************************)
EXTENDS Naturals

CONSTANT Path    \* the relative paths of regular files

Torn == 0

File == [ts : Nat, data : Nat]
IsDir(dir) == DOMAIN dir \subseteq Path /\ dir \in [DOMAIN dir -> File]
IsSnapshot(list) == DOMAIN list \subseteq Path /\ list \in [DOMAIN list -> Nat]

EmptyDir == [p \in {} |-> [ts |-> 0, data |-> Torn]]

Nothing == [p \in {} |-> 0]    \* a FileScanner without files

\* Creates p, or replaces the file that p names; or adds p to a list.
Put(dir, p, f) == [q \in DOMAIN dir \cup {p} |-> IF q = p THEN f ELSE dir[q]]

\* fs::remove.
Drop(dir, p) == [q \in DOMAIN dir \ {p} |-> dir[q]]

\* The list of the paths in names with their times.
Scan(dir, names) == [p \in names |-> dir[p].ts]

\* Mutation: the two scans swapped.
getDeletedSinceSwapped(newest, previous) == DOMAIN newest \ DOMAIN previous

getDeletedSince(newest, previous) == DOMAIN previous \ DOMAIN newest

getAddedSince(newest, previous) == DOMAIN newest \ DOMAIN previous

\* Mutation: files the other side alone has are left out.
getModifiedOnly(mine, other) ==
    {p \in DOMAIN other : p \in DOMAIN mine /\ mine[p] < other[p]}

\* Mutation: files of the same age count as modified.
getNotOlder(mine, other) ==
    {p \in DOMAIN other : p \in DOMAIN mine => mine[p] <= other[p]}

getModifiedOrAdded(mine, other) ==
    {p \in DOMAIN other : p \in DOMAIN mine => mine[p] < other[p]}
=============================================================================
