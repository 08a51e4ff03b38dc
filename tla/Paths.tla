------------------------------- MODULE Paths -------------------------------
(***************************************************************************)
(* Which file a path means.  The file tools resolve a path once             *)
(* (pathutil, tools/builtins/paths.go), a judge decides on the resolved     *)
(* path (file_judge.go), a detector reports the symbolic links on the way   *)
(* (tools/symlink.go), and at last the kernel follows the links again.      *)
(* The properties compare what was decided with where the kernel lands, on  *)
(* small trees with symbolic links; the tree does not change in between.    *)
(*                                                                          *)
(* A path is a sequence of names that starts at the root; "." and ".." may  *)
(* occur in it.  File names are compared case-sensitively.                  *)
(***************************************************************************)
EXTENDS Integers, SequencesExt, Cases

CONSTANTS MaxNames,  \* bound: names in an enumerated path
          MaxLinks   \* links followed before ELOOP (255)

ASSUME PathsAssumption == MaxNames \in Nat \ {0} /\ MaxLinks \in Nat \ {0}

Up == ".."
Dot == "."
Outside == <<>>   \* the empty string resolvePath returns to reject a path
                  \* (no path it returns is empty: the root is not a file)

-----------------------------------------------------------------------------
(* The file system: canonical paths to entries *)

Dir == [kind |-> "dir", abs |-> FALSE, target |-> <<>>]
File == [kind |-> "file", abs |-> FALSE, target |-> <<>>]
LinkTo(abs, target) == [kind |-> "link", abs |-> abs, target |-> target]

Skeleton == (<<"ws">> :> Dir) @@ (<<"w">> :> LinkTo(FALSE, <<"ws">>)) @@ (<<"t">> :> Dir)
            @@ (<<"out">> :> Dir) @@ (<<"out", "f">> :> File)
            @@ (<<"ws", "git">> :> Dir) @@ (<<"ws", "f">> :> File)
            @@ (<<"ws", "git", "a">> :> LinkTo(FALSE, <<Up, "f">>))
            @@ (<<"out", "a">> :> LinkTo(FALSE, <<Up, "ws", "f">>))
Entries == {Dir, File, LinkTo(TRUE, <<"out">>), LinkTo(FALSE, <<Up, "out">>),
            LinkTo(TRUE, <<"out", "new">>), LinkTo(FALSE, <<"b">>), LinkTo(FALSE, <<"git">>),
            LinkTo(TRUE, <<"t">>), LinkTo(FALSE, <<"a">>)}
Trees == {Skeleton} \cup {Skeleton @@ (<<"ws", "a">> :> x) @@ (<<"ws", "b">> :> y) :
                              x, y \in Entries}

IsDirAt(fs, p) == p = <<>> \/ (p \in DOMAIN fs /\ fs[p].kind = "dir")
LinkAt(fs, p) == p \in DOMAIN fs /\ fs[p].kind = "link"
Parent(p) == IF p = <<>> THEN p ELSE Front(p)

\* filepath.EvalSymlinks, and the kernel's own walk: "done" is canonical,
\* "todo" is still to be walked.
RECURSIVE WalkPath(_, _, _, _)
WalkPath(fs, done, todo, links) ==
    IF todo = <<>> THEN [err |-> "none", path |-> done]
    ELSE LET c == Head(todo)
             p == Append(done, c)
         IN  CASE c = Dot -> WalkPath(fs, done, Tail(todo), links)
               [] c = Up -> WalkPath(fs, Parent(done), Tail(todo), links)
               [] c \notin {Dot, Up} /\ p \notin DOMAIN fs -> [err |-> "notexist", path |-> p]
               [] LinkAt(fs, p) /\ links = 0 -> [err |-> "loop", path |-> p]
               [] LinkAt(fs, p) /\ links > 0 ->
                    WalkPath(fs, IF fs[p].abs THEN <<>> ELSE done,
                             fs[p].target \o Tail(todo), links - 1)
               [] p \in DOMAIN fs /\ fs[p].kind = "file" /\ Tail(todo) # <<>> ->
                    [err |-> "notdir", path |-> p]
               [] OTHER -> WalkPath(fs, p, Tail(todo), links)
Eval(fs, p) == WalkPath(fs, <<>>, p, MaxLinks)

\* filepath.Clean: lexical.
Clean(p) == FoldLeft(LAMBDA acc, c : IF c = Dot THEN acc
                                     ELSE IF c = Up THEN Parent(acc) ELSE Append(acc, c),
                     <<>>, p)

-----------------------------------------------------------------------------
(* pathutil *)

\* The longest prefix that exists is resolved; the rest is joined to it
\* lexically.  An error other than "does not exist" leaves the path alone.
RECURSIVE ResolvePrefix(_, _, _), JoinOrShorten(_, _, _, _)
ResolvePrefix(fs, p, n) == JoinOrShorten(Eval(fs, SubSeq(p, 1, n)), fs, p, n)
JoinOrShorten(r, fs, p, n) ==
    IF r.err = "none" THEN (IF n = Len(p) THEN r.path
                            ELSE Clean(r.path \o SubSeq(p, n + 1, Len(p))))
    ELSE IF r.err = "notexist" /\ n > 0 THEN ResolvePrefix(fs, p, n - 1)
    ELSE p

\* What EvalSymlinks returned, or what was there before.
PathOr(r, p) == IF r.err = "none" THEN r.path ELSE p

\* Mutant: a path that does not exist yet is left as it is spelled.
ResolveExistingOnly(fs, p) == PathOr(Eval(fs, p), p)

ResolveExistingPrefix(fs, p) == ResolvePrefix(fs, p, Len(p))

IsWithinRoot(fs, root, p) ==
    IsPrefix(ResolveExistingPrefix(fs, Clean(root)), ResolveExistingPrefix(fs, p))

-----------------------------------------------------------------------------
(* tools/builtins/paths.go; the workspace is reached through a link *)

Workspace == <<"w">>
TempDir == <<"t">>
SessionRoots == {Workspace, TempDir}

\* Eval of a root that does not exist is the root itself.
ResolveWorkspaceRoot(fs, ws) == PathOr(Eval(fs, Clean(ws)), Clean(ws))

\* in.abs: the input was an absolute path; any other is joined to the
\* workspace and has to stay in it.
Joined(fs, in) == IF in.abs THEN in.names ELSE ResolveWorkspaceRoot(fs, Workspace) \o in.names
Contained(fs, in, r) ==
    IF in.abs \/ IsWithinRoot(fs, ResolveWorkspaceRoot(fs, Workspace), r) THEN r ELSE Outside

ResolvePath(fs, in) == Contained(fs, in, ResolveExistingPrefix(fs, Joined(fs, in)))

\* The last name is kept as it is, so that a link is removed, not its target.
ResolveKeepFinal(fs, p) ==
    IF p = <<>> \/ Last(p) \in {Dot, Up} THEN ResolveExistingPrefix(fs, p)
    ELSE Clean(Append(ResolveExistingPrefix(fs, Front(p)), Last(p)))

ResolvePathUnresolved(fs, in) == Contained(fs, in, ResolveKeepFinal(fs, Joined(fs, in)))

HarmlessDevices == {<<"dev", "null">>}
IsPathInSessionRoots(fs, p) ==
    p \in HarmlessDevices
    \/ \E root \in SessionRoots : IsWithinRoot(fs, ResolveWorkspaceRoot(fs, root), p)

ContainsGit(p) == \E i \in DOMAIN p : p[i] = "git"
\* The temp directory is exempt: only the workspace's repositories are
\* guarded.
IsPathInGitDir(fs, p) ==
    IsWithinRoot(fs, ResolveWorkspaceRoot(fs, Workspace), p) /\ ContainsGit(p)

-----------------------------------------------------------------------------
(* tools/builtins/file_judge.go *)

\* The parent alone, with every link resolved; or, of a path that exists,
\* the path itself.
InParent(dir, p) == IF dir.err = "none" /\ p # <<>> THEN Append(dir.path, Last(p)) ELSE p
ByParent(fs, p) == InParent(Eval(fs, Parent(p)), p)
Judged(fs, path) == PathOr(Eval(fs, Clean(path)), ByParent(fs, Clean(path)))
\* Mutant: the link's target is judged, where the link itself is removed.
JudgedFollowing(fs, path) == Judged(fs, path)

JudgedUnresolved(fs, path) == ByParent(fs, Clean(path))

AllowWrite(fs, target) == ~IsPathInGitDir(fs, target) /\ IsPathInSessionRoots(fs, target)

\* p is what ResolvePath or, of a delete, ResolvePathUnresolved returned.
WriteAllowed(fs, p) == p # Outside /\ AllowWrite(fs, Judged(fs, p))
DeleteAllowed(fs, p) == p # Outside /\ AllowWrite(fs, JudgedUnresolved(fs, p))
ReadAllowed(fs, p) == p # Outside /\ IsPathInSessionRoots(fs, Judged(fs, p))

-----------------------------------------------------------------------------
(* Where the tools land.  The result is <<>> or <<the canonical path>>; p   *)
(* is the resolved path, and stat and r are where the kernel takes it.      *)

\* os.MkdirAll: missing directories are made; a dangling link in their place
\* is an error.
RECURSIVE MkdirAll(_, _)
MadeIn(fs, up, name) ==
    IF up = <<>> \/ Append(up[1], name) \in DOMAIN fs THEN <<>> ELSE <<Append(up[1], name)>>
DirOf(fs, r) == IF IsDirAt(fs, r.path) THEN <<r.path>> ELSE <<>>
MkdirAll(fs, p) ==
    IF Eval(fs, p).err = "none" THEN DirOf(fs, Eval(fs, p))
    ELSE IF p = <<>> THEN <<>>
    ELSE MadeIn(fs, MkdirAll(fs, Parent(p)), Last(p))

\* write_file: Stat refuses a target that is there and is no regular file;
\* MkdirAll; the rename replaces the entry in the directory it was given.
WriteAt(fs, p, stat) ==
    IF p = Outside \/ (stat.err = "none" /\ IsDirAt(fs, stat.path)) THEN <<>>
    ELSE LET dir == MkdirAll(fs, Clean(Parent(p)))
         IN  IF dir = <<>> THEN <<>> ELSE <<Append(dir[1], Last(p))>>

\* edit_file: the content is read through the links, and the resolved path
\* is replaced.
EditAt(fs, p, r) ==
    IF p = Outside \/ r.err # "none" \/ IsDirAt(fs, r.path) THEN <<>> ELSE <<r.path>>

\* delete_file: Lstat and Remove.
RemovedAt(fs, at) == IF at \notin DOMAIN fs \/ fs[at].kind = "dir" THEN <<>> ELSE <<at>>
DeleteAt(fs, p, dir) ==
    IF p = Outside \/ dir.err # "none" THEN <<>> ELSE RemovedAt(fs, Append(dir.path, Last(p)))
DeleteLands(fs, p) == DeleteAt(fs, p, Eval(fs, Parent(p)))

ReadAt(p, r) == IF p = Outside \/ r.err # "none" THEN <<>> ELSE <<r.path>>

-----------------------------------------------------------------------------
(* tools/symlink.go *)

\* wellKnownOSSymlinks is empty here; a link on the way to the workspace
\* itself is the host's business.
IsOSLevelSymlink(link, workspace) == link # <<>> /\ IsPrefix(link, workspace)

\* Mutant: only the link's own target is looked at, not where the path goes
\* on from there.
TraversalsFirstLink(fs, path) ==
    LET p == Clean(path)
        at(i) == SubSeq(p, 1, i)
    IN  {fs[at(i)].target : i \in {j \in 1..Len(p) : LinkAt(fs, at(j))
                                    /\ ~IsOSLevelSymlink(at(j), Workspace)}}

\* walkSymlinkComponents: for every link on the path, where the rest of the
\* path leads from its target (a relative one is joined lexically).
Through(fs, l, before, after) ==
    LET joined == Clean((IF l.abs THEN <<>> ELSE before) \o l.target \o after)
    IN  PathOr(Eval(fs, joined), joined)
\* before is the path up to the name: <<>>, or <<the entry of a link there>>.
LinkNamed(fs, dir, before, name) ==
    IF dir.err = "none" /\ LinkAt(fs, Append(dir.path, name))
       /\ ~IsOSLevelSymlink(Append(before, name), Workspace)
    THEN {fs[Append(dir.path, name)]} ELSE {}
TraversalsOf(fs, p) ==
    UNION {LET before == SubSeq(p, 1, i - 1)
           IN  {Through(fs, l, before, SubSeq(p, i + 1, Len(p))) :
                    l \in LinkNamed(fs, Eval(fs, before), before, p[i])} : i \in DOMAIN p}
Traversals(fs, path) == TraversalsOf(fs, Clean(path))

\* checkPathsForSymlinks
TraversalsOutside(fs, path) ==
    {t \in Traversals(fs, path) : ~\E root \in SessionRoots : IsWithinRoot(fs, root, t)}

-----------------------------------------------------------------------------
(* safeio.MkdirAllReal and MkdirAllRealWithin *)

\* MkdirAllReal on a clean path: links that lead to a directory are
\* followed, every other link and every file is an error.  The result is an
\* error flag and the directories made.
EntryIn(fs, dir, name) == dir.err = "none" /\ Append(dir.path, name) \in DOMAIN fs
DirFor(fs, r) == r.err = "none" /\ IsDirAt(fs, r.path)
\* How many names of p are entries, a link counting as one.
ExistingNames(fs, p) ==
    CHOOSE n \in 0..Len(p) :
        /\ \A m \in 1..n : EntryIn(fs, Eval(fs, SubSeq(p, 1, m - 1)), p[m])
        /\ n < Len(p) => ~EntryIn(fs, Eval(fs, SubSeq(p, 1, n)), p[n + 1])
MadeBelow(base, rest) ==
    [ok |-> TRUE, made |-> {base \o SubSeq(rest, 1, m) : m \in DOMAIN rest}, dir |-> base \o rest]
DirsFrom(fs, p, n) ==
    IF \E m \in 1..n : ~DirFor(fs, Eval(fs, SubSeq(p, 1, m)))
    THEN [ok |-> FALSE, made |-> {}, dir |-> <<>>]
    ELSE MadeBelow(Eval(fs, SubSeq(p, 1, n)).path, SubSeq(p, n + 1, Len(p)))
RealDirs(fs, p) == DirsFrom(fs, p, ExistingNames(fs, p))

\* Where the directory ended up is checked once more.
Landed(made, boundary) ==
    [ok |-> made.ok /\ IsPrefix(boundary.path, made.dir), made |-> made.made]
Refused == [ok |-> FALSE, made |-> {}]

\* Mutant: the landing place is checked only after the directories are made.
RealDirsCheckedAfter(fs, root, dir) ==
    LET boundary == Eval(fs, Clean(root))
    IN  IF boundary.err # "none" THEN Refused ELSE Landed(RealDirs(fs, Clean(dir)), boundary)

RealDirsWithin(fs, root, dir) ==
    LET boundary == Eval(fs, Clean(root))
    IN  IF boundary.err # "none" \/ ~IsWithinRoot(fs, boundary.path, Clean(dir)) THEN Refused
        ELSE Landed(RealDirs(fs, Clean(dir)), boundary)

-----------------------------------------------------------------------------
Names == {"a", "b", "f", "new", "git", Up}
NameSeqs(max) == UNION {[1..n -> Names] : n \in 1..max}
Inputs == {[abs |-> FALSE, names |-> s] : s \in NameSeqs(MaxNames)}
          \cup {[abs |-> TRUE, names |-> <<d>> \o s] : d \in {"ws", "w", "out"}, s \in NameSeqs(MaxNames - 1)}

PathsNext == Pick("paths", [fs : Trees, in : Inputs])

-----------------------------------------------------------------------------
(* Properties *)

InRoots(p) == IsPrefix(<<"ws">>, p) \/ IsPrefix(<<"t">>, p) \/ p \in HarmlessDevices
InGit(p) == IsPrefix(<<"ws">>, p) /\ ContainsGit(p)

\* A write, a deletion or a read that the judge approves happens, after the
\* kernel has followed every link, inside the session's roots, and the two
\* that change something happen outside the repository's internals.  (A
\* spelling with a ".." behind what does not exist, is a file or a loop of
\* links is cleaned lexically, and is left out.)
LandsWhereJudged ==
    Picked("paths") =>
        LET fs == case[1].fs
            in == case[1].in
            spelled == IF in.abs THEN in.names ELSE Workspace \o in.names
            p == ResolvePath(fs, in)
            r == Eval(fs, p)
        IN  (Up \notin ToSet(spelled) \/ Eval(fs, spelled).err = "none") =>
            /\ \A at \in ToSet(WriteAt(fs, p, r)) \cup ToSet(EditAt(fs, p, r)) :
                   WriteAllowed(fs, p) => InRoots(at) /\ ~InGit(at)
            /\ \A at \in ToSet(ReadAt(p, r)) : ReadAllowed(fs, p) => InRoots(at)

\* delete_file removes the entry it names and never what a link points to:
\* what it removes with approval is not in the repository's internals, and
\* what it leads to is inside the session's roots.  file_judge.go:79-85 asks
\* for more, the containment of the link itself; isPathInSessionRoots follows
\* the link, so an entry outside the roots is removed without a question in
\* exactly one case, when it is a link that resolves into them.
DeletesWhereJudged ==
    Picked("paths") =>
        LET fs == case[1].fs
            p == ResolvePathUnresolved(fs, case[1].in)
        IN  \A at \in ToSet(DeleteLands(fs, p)) : \A r \in {Eval(fs, at)} :
                DeleteAllowed(fs, p) =>
                    /\ ~InGit(at)
                    /\ r.err = "none" => InRoots(r.path)
                    /\ ~InRoots(at) => LinkAt(fs, at) /\ r.err = "none"

\* A path that reaches something outside the roots through a link below the
\* workspace is reported by the detector, wherever on the path the link is
\* and however many follow it.  ("..", which the detector cancels lexically,
\* is left to the judge.)
EscapesReported ==
    Picked("paths") =>
        LET fs == case[1].fs
            in == case[1].in
            p == IF in.abs THEN in.names ELSE Workspace \o in.names
            r == Eval(fs, p)
        IN  (Up \notin ToSet(p) /\ Head(p) # "out" /\ r.err = "none" /\ ~InRoots(r.path))
                => TraversalsOutside(fs, p) # {}

\* MkdirAllRealWithin makes no directory outside its root, not even when it
\* then fails, and when it succeeds the path it was given leads, through
\* whatever links it spells, to a directory inside.
DirectoriesStayWithin ==
    Picked("paths") =>
        LET fs == case[1].fs
            in == case[1].in
            p == IF in.abs THEN in.names ELSE Workspace \o in.names
            r == RealDirsWithin(fs, Workspace, p)
            after == [d \in r.made |-> Dir] @@ fs
        IN  /\ \A d \in r.made : IsPrefix(<<"ws">>, d)
            /\ r.ok => \A at \in {Eval(after, Clean(p))} :
                          DirFor(after, at) /\ IsPrefix(<<"ws">>, at.path)

(* What was judged is what is touched: on every tree of links a write, an    *)
(* edit or a read that was allowed lands inside the roots, a delete removes  *)
(* an entry there or a link that leads there, and what leaves the roots is   *)
(* reported (paths.go:15, file_judge.go:79, symlink.go, write.go:385).       *)
JudgedIsTouched ==
    /\ LandsWhereJudged
    /\ DeletesWhereJudged
    /\ EscapesReported
    /\ DirectoriesStayWithin
=============================================================================
