------------------------------- MODULE Boundary -------------------------------
(***************************************************************************)
(* internal/evidence/boundary.go: which paths lie in the evidence, over a    *)
(* file system of directories, files and reparse points.                     *)
(*                                                                         *)
(* A path is the sequence of its components, absolute and cleaned.  A tree   *)
(* gives what each component's own directory entry is: a directory, a file,  *)
(* a directory that may not be read, a reparse point and the path it points  *)
(* at, or nothing.  The file system answers as Windows does: what lies below *)
(* a file does not exist.                                                    *)
(***************************************************************************)
EXTENDS Integers, Sequences

CONSTANTS MaxReparseDepth,   \* maxReparseDepth
          OSReparseLimit     \* how many reparse points the system itself follows

ASSUME DepthAssumption == MaxReparseDepth \in Nat /\ OSReparseLimit \in Nat

Path == Seq(STRING)
NoPath == <<>>

EntryAt(t, p) == IF p \in DOMAIN t THEN t[p].is ELSE "absent"
Upto(p, k) == SubSeq(p, 1, k)

Within(parent, child) == Len(parent) <= Len(child) /\ Upto(child, Len(parent)) = parent

-----------------------------------------------------------------------------
(* The file system.                                                         *)

\* Where the system lands when it opens p: the first reparse point on the way is
\* replaced by what it points at, until there is none.
Lands(t, p) ==
  LET follow[n \in 0..OSReparseLimit, q \in Path] ==
        LET points == {k \in 1..Len(q) : EntryAt(t, Upto(q, k)) = "link"} IN
        IF points = {} THEN q
        ELSE IF n = 0 THEN NoPath
        ELSE LET k == CHOOSE k \in points : \A l \in points : k <= l
             IN  follow[n - 1, t[Upto(q, k)].to \o SubSeq(q, k + 1, Len(q))]
  IN  follow[OSReparseLimit, p]

\* os.Lstat of a path without reparse points before its last component.
Lstat(t, p) ==
  LET blocked == {k \in 1..(Len(p) - 1) : EntryAt(t, Upto(p, k)) # "dir"} IN
  IF p = NoPath THEN "error"
  ELSE IF blocked = {} THEN EntryAt(t, p)
  ELSE LET k == CHOOSE k \in blocked : \A l \in blocked : k <= l
       IN  IF EntryAt(t, Upto(p, k)) = "denied" THEN "error" ELSE "absent"

Stat(t, p) == LET s == Lstat(t, Lands(t, p)) IN IF s = "denied" THEN "dir" ELSE s

\* os.ReadDir: "ok", or the error, which for a file says that it does not exist.
ReadDir(t, p) == LET s == Lstat(t, Lands(t, p)) IN
  CASE s = "dir" -> "ok" [] s \in {"denied", "error"} -> "error" [] OTHER -> "absent"

Entries(t, p) == LET at == Lands(t, p) IN
  {q[Len(q)] : q \in {q \in DOMAIN t : /\ Len(q) = Len(at) + 1 /\ Upto(q, Len(at)) = at
                                          /\ EntryAt(t, q) # "absent"}}

\* DirEntry.IsDir, which is FALSE of a reparse point whatever it points at.
EntryIsDir(t, p, name) == EntryAt(t, Append(Lands(t, p), name)) \in {"dir", "denied"}

-----------------------------------------------------------------------------
(* The boundary.                                                            *)

\* Mutant: the target of a reparse point is spliced in as it is written.
SplicedWalk(t, depth0, path) ==
  LET walk[at \in Path, rest \in Path] ==
        IF rest = <<>> THEN at
        ELSE LET candidate == Append(at, Head(rest)) IN
             walk[IF EntryAt(t, candidate) = "link" THEN t[candidate].to ELSE candidate, Tail(rest)]
  IN  walk[<<>>, path]

\* A component at a time; the target of a reparse point is resolved in full, one
\* level deeper.  What is not there is carried as written.
ResolveWalk(t, depth0, path) ==
  LET walk[depth \in Nat, at \in Path, rest \in Path] ==
        IF depth > MaxReparseDepth THEN NoPath
        ELSE IF rest = <<>> THEN at
        ELSE LET candidate == Append(at, Head(rest)) IN
             IF EntryAt(t, candidate) # "link" THEN walk[depth, candidate, Tail(rest)]
             ELSE LET expanded == walk[depth + 1, <<>>, t[candidate].to] IN
                  IF expanded = NoPath THEN NoPath ELSE walk[depth, expanded, Tail(rest)]
  IN  walk[depth0, <<>>, path]

ResolvePath(t, p) == ResolveWalk(t, 0, p)

\* NewBoundary: the root resolved, or NoPath where it cannot be read.
BoundaryRoot(t, declared) ==
  IF Stat(t, ResolvePath(t, declared)) \in {"dir", "file"} THEN ResolvePath(t, declared) ELSE NoPath

\* Mutant: a path that resolves is contained whether or not it is there.
ContainsAbsent(t, root, p) == LET at == ResolvePath(t, p) IN at # NoPath /\ Within(root, at)

Contains(t, root, p) ==
  LET at == ResolvePath(t, p) IN
  at # NoPath /\ Lstat(t, at) \in {"dir", "file", "denied"} /\ Within(root, at)

\* Mutant: a path that has to be there is asked about before it is made.
RefuseExisting(t, root, p) == Contains(t, root, p)

RefuseWrite(t, root, p) == ResolvePath(t, p) = NoPath \/ Within(root, ResolvePath(t, p))
=============================================================================
