-------------------------------- MODULE Refs --------------------------------
(***************************************************************************)
(* References: finding the repository (DiscoverWithEnv of                  *)
(* internal/gitengine/discovery.go), resolving a name (ResolveRef of       *)
(* refs.go) and listing all of them (ListAllRefs), one file or directory   *)
(* read a step, while git moves branches and packs them.                   *)
(*                                                                         *)
(* A path is a sequence of names from the root; a file is known by what it *)
(* holds.  The repository has no lock that a reader takes: what is read    *)
(* later may be younger.                                                   *)
(*                                                                         *)
(* An operator named ...Fault is a wrong variant of the one it precedes,   *)
(* kept to show that the properties would notice.                          *)
(***************************************************************************)
EXTENDS Naturals, SequencesExt, FiniteSetsExt

CONSTANTS OID,                \* object names in full
          Junk,               \* contents that are no object name
          Invalid,            \* names that isValidRefName refuses
          Fresh,              \* object names that git writes meanwhile
          MaxRefFollowDepth,  \* symbolic references followed in a row
          MaxGitOps           \* bound on what git does meanwhile

(***************************************************************************)
(* Files: a directory; an object name; "ref: " and a path; "gitdir: " or   *)
(* the contents of commondir, an absolute or relative path; packed-refs;   *)
(* or something else.                                                      *)
(***************************************************************************)
Dir        == [kind |-> "dir"]
Oid(o)     == [kind |-> "oid", oid |-> o]
Sym(p)     == [kind |-> "sym", to |-> p]
Link(b, p) == [kind |-> "link", abs |-> b, to |-> p]
Other      == [kind |-> "other"]
Packed(rs) == [kind |-> "packed", refs |-> rs]

IsNode(f) ==
  CASE f.kind = "dir"    -> TRUE
    [] f.kind = "oid"    -> f.oid \in OID
    [] f.kind = "sym"    -> f.to \in Seq(STRING)
    [] f.kind = "link"   -> f.abs \in BOOLEAN /\ f.to \in Seq(STRING)
    [] f.kind = "packed" -> \A r \in DOMAIN f.refs : r \in Seq(STRING) /\ f.refs[r] \in OID
    [] f.kind = "other"  -> TRUE
    [] OTHER -> FALSE

\* A function with one more value, or another one.
With(f, x, v) == [y \in DOMAIN f \cup {x} |-> IF y = x THEN v ELSE f[y]]

\* filepath.Clean
Clean(p) ==
  LET clean[k \in 0 .. Len(p)] == IF k = 0 THEN << >>
                                  ELSE IF p[k] = ".." THEN Front(clean[k - 1])
                                  ELSE Append(clean[k - 1], p[k])
  IN  clean[Len(p)]

\* A target, relative to a directory unless it is absolute.
Target(t, base) == IF t.abs THEN Clean(t.to) ELSE Clean(base \o t.to)

\* Neither among the references of the shared directory nor above it.
IsApart(dir, shared) ==
  dir # shared => ~IsPrefix(shared \o << "refs" >>, dir) /\ ~IsPrefix(dir, shared)

(***************************************************************************)
(* What a file system on which git works looks like: what is not a root is *)
(* in a directory; what is packed is a reference, at whose path there is   *)
(* nothing or an object name, and which is not the directory of another    *)
(* one; and the git directory of a linked worktree lies neither among the  *)
(* shared references nor above the shared files.                           *)
(***************************************************************************)
IsFileSystem(fs) ==
  /\ IsFiniteSet(DOMAIN fs)
  /\ \A p \in DOMAIN fs :
       /\ p \in Seq(STRING) /\ IsNode(fs[p])
       /\ p # << >> => Front(p) \in DOMAIN fs /\ fs[Front(p)].kind = "dir"
       /\ fs[p].kind = "packed" => \A r \in DOMAIN fs[p].refs :
            /\ r # << >> /\ r[1] = "refs"
            /\ \A k \in 1 .. Len(r) :
                 LET q == SubSeq(r, 1, k)
                 IN  /\ k < Len(r) => q \notin DOMAIN fs[p].refs
                     /\ Front(p) \o q \in DOMAIN fs =>
                          fs[Front(p) \o q].kind = IF k < Len(r) THEN "dir" ELSE "oid"
       /\ p # << >> /\ fs[p].kind = "link" => IsApart(Front(p), Target(fs[p], Front(p)))

ASSUME OIDAssumption == Junk \notin OID /\ Fresh \subseteq OID
ASSUME BoundAssumption == MaxRefFollowDepth \in Nat /\ MaxGitOps \in Nat

VARIABLES
  files,    \* the file system: paths and what is there
  repo,     \* the repository found: [gitDir, commonGitDir], or << >>
  reading,  \* what is read next: "loose", "packed", "list", "scan" or "none"
  call,     \* the candidates for a name, and how far the search is
  answer,   \* what came of it, or << >>
  listed,   \* ListAllRefs: the references so far
  scan,     \* scanLooseRefs: entries still to be looked at
  gitOps,   \* how often git has written
  unpruned, \* packed references whose files git is about to remove
  had,      \* what each reference has been since the call began
  pruned    \* whose file was removed since then

look    == << reading, call, answer >>
gitVars == << gitOps, unpruned >>
refVars == << files, repo, look, listed, scan, gitVars, had, pruned >>

IsDir(p)  == p \in DOMAIN files /\ files[p].kind = "dir"
IsFile(p) == p \in DOMAIN files /\ files[p].kind # "dir"

\* There is a file where a directory should be on the way.
IsBlocked(p) == \E k \in 1 .. Len(p) - 1 : IsFile(SubSeq(p, 1, k))

-----------------------------------------------------------------------------
(* Discovery                                                               *)

IsLink(p) == IsFile(p) /\ files[p].kind = "link" /\ files[p].to # << >>

\* resolveCommonDir
CommonDir(g) ==
  LET f == g \o << "commondir" >> IN IF IsLink(f) THEN Target(files[f], g) ELSE g

\* ValidateRepo
IsRepo(g, c) == IsFile(g \o << "HEAD" >>) /\ IsDir(c \o << "objects" >>)

\* The git directory at a path, or behind the gitdir file there.
RepoAt(p, base) ==
  LET g == IF IsLink(p) THEN Target(files[p], base) ELSE p
  IN  IF IsDir(g) /\ IsRepo(g, CommonDir(g))
      THEN << [gitDir |-> g, commonGitDir |-> CommonDir(g)] >> ELSE << >>

\* Upwards from a directory: whatever is called .git decides, a directory that
\* could be a bare repository only if it is one.
Upwards(start) ==
  LET at(k)  == SubSeq(start, 1, k)
      dot(k) == at(k) \o << ".git" >>
      hits   == { k \in 0 .. Len(start) : dot(k) \in DOMAIN files \/ IsRepo(at(k), at(k)) }
      hit    == Max(hits)
  IN  CASE hits = {} -> << >>
        [] hits # {} /\ dot(hit) \in DOMAIN files -> RepoAt(dot(hit), at(hit))
        [] OTHER -> << [gitDir |-> at(hit), commonGitDir |-> at(hit)] >>

\* DiscoverWithEnv
Discover(start, gitDirEnv) ==
  IF gitDirEnv = << >> THEN Upwards(start)
  ELSE LET g == Target(gitDirEnv[1], start) IN RepoAt(g, SubSeq(g, 1, Len(g) - 1))

-----------------------------------------------------------------------------
(* What the references are                                                 *)

Loose(r) == repo.commonGitDir \o r
PackedFile == repo.commonGitDir \o << "packed-refs" >>

\* ReadPackedRefs: peeled values have keys of their own, which nobody asks for.
PackedRefs == IF IsFile(PackedFile) /\ files[PackedFile].kind = "packed"
              THEN files[PackedFile].refs ELSE << >>

\* The value of a branch, a tag or a remote branch.
Value(r) == IF IsFile(Loose(r)) THEN files[Loose(r)].oid ELSE PackedRefs[r]

LooseRefs ==
  LET n == Len(repo.commonGitDir)
  IN  { SubSeq(p, n + 1, Len(p)) :
          p \in { p \in DOMAIN files : /\ IsPrefix(Loose(<< "refs" >>), p)
                                       /\ files[p].kind = "oid" } }
Refs == LooseRefs \cup DOMAIN PackedRefs

\* A call begins: from here on the values of all references are remembered.
Watch == had' = [r \in Refs |-> {Value(r)}] /\ pruned' = {}

-----------------------------------------------------------------------------
(* git                                                                     *)

Budget == gitOps < MaxGitOps /\ gitOps' = gitOps + 1

\* The directories on the way to a reference.
Above(r) == { Loose(SubSeq(r, 1, k)) : k \in 1 .. Len(r) - 1 }

\* A branch moves: its file is replaced, or made where there was none.
UpdateRef(r, o) ==
  /\ Budget /\ r \in Refs /\ Value(r) # o
  /\ files' = With([p \in DOMAIN files \cup Above(r) |->
                      IF p \in DOMAIN files THEN files[p] ELSE Dir], Loose(r), Oid(o))
  /\ had' = [had EXCEPT ![r] = @ \cup {o}]
  /\ UNCHANGED << repo, look, listed, scan, unpruned, pruned >>

\* git pack-refs: first all references go to packed-refs ...
PackRefs ==
  /\ Budget /\ LooseRefs # {} /\ unpruned = {}
  /\ files' = With(files, PackedFile, Packed([r \in Refs |-> Value(r)]))
  /\ unpruned' = LooseRefs
  /\ UNCHANGED << repo, look, listed, scan, had, pruned >>

\* ... then the files that still say the same are removed.
PruneRef(r) ==
  /\ unpruned' = unpruned \ {r}
  /\ IF Value(r) = PackedRefs[r]
     THEN /\ files' = [p \in DOMAIN files \ {Loose(r)} |-> files[p]]
          /\ pruned' = pruned \cup {r}
     ELSE UNCHANGED << files, pruned >>
  /\ UNCHANGED << repo, look, listed, scan, gitOps, had >>

\* What git does between two reads of a call.
Git == /\ reading # "none"
       /\ \/ PackRefs
          \/ \E r \in unpruned : PruneRef(r)
          \/ \E r \in Refs, o \in Fresh : UpdateRef(r, o)

-----------------------------------------------------------------------------
(* ResolveRef                                                              *)

Found(o) == [is |-> "found", oid |-> o]
Unknown  == [is |-> "unknown"]
Failed   == [is |-> "failed"]

Answer(a) == reading' = "none" /\ answer' = << a >>

\* isValidRefName; an operator (~ or ^) is not part of a name.
IsValidRefName(r) ==
  r.ops = << >> /\ r.base # << >> /\ r.base # << "." >>
  /\ \A i \in DOMAIN r.base : r.base[i] # "" /\ r.base[i] \notin Invalid

Candidates(p) ==
  IF p[1] = "refs" \/ p = << "HEAD" >> THEN << p >>
  ELSE << p, << "refs" >> \o p, << "refs", "heads" >> \o p, << "refs", "tags" >> \o p,
          << "refs", "remotes" >> \o p, << "refs", "remotes", "origin" >> \o p >>

\* resolveRefRecursive up to the first read.
Resolve(r, depth) ==
  CASE depth > MaxRefFollowDepth -> Answer(Failed) /\ UNCHANGED call
    [] depth <= MaxRefFollowDepth /\ r \in [base : { << o >> : o \in OID }, ops : { << >> }] ->
         Answer(Found(r.base[1])) /\ call' = [cands |-> << >>]
    [] OTHER ->
         IF IsValidRefName(r)
         THEN /\ reading' = "loose" /\ answer' = << >>
              /\ call' = [cands |-> Candidates(r.base), k |-> 1, dir |-> 1, depth |-> depth]
         ELSE Answer(Failed) /\ call' = [cands |-> << >>]

\* GitDir comes first, for HEAD and the references of a worktree.
Dirs == IF repo.gitDir = repo.commonGitDir THEN << repo.gitDir >>
        ELSE << repo.gitDir, repo.commonGitDir >>

\* The references that all worktrees share are forgotten.
NextPlaceFault == [call EXCEPT !.k = @ + 1]

\* The next place to look for a loose reference.
NextPlace == IF call.dir < Len(Dirs) THEN [call EXCEPT !.dir = @ + 1]
             ELSE [call EXCEPT !.dir = 1, !.k = @ + 1]

\* A file decides, whatever it holds; a path that cannot be read ends the call.
ReadLoose ==
  /\ reading = "loose"
  /\ LET p == Dirs[call.dir] \o call.cands[call.k]
     IN  CASE IsFile(p) ->
                IF files[p].kind = "sym"
                THEN Resolve([base |-> files[p].to, ops |-> << >>], call.depth + 1)
                ELSE /\ Answer(Found(IF files[p].kind = "oid" THEN files[p].oid ELSE Junk))
                     /\ UNCHANGED call
           [] IsDir(p) \/ IsBlocked(p) -> Answer(Failed) /\ UNCHANGED call
           [] OTHER -> /\ call' = NextPlace
                       /\ reading' = IF NextPlace.k > Len(call.cands) THEN "packed" ELSE "loose"
                       /\ UNCHANGED answer
  /\ UNCHANGED << files, repo, listed, scan, gitVars, had, pruned >>

ReadPacked ==
  /\ reading = "packed"
  /\ LET packed == PackedRefs
         hits   == { k \in DOMAIN call.cands : call.cands[k] \in DOMAIN packed }
     IN  Answer(IF hits = {} THEN Unknown ELSE Found(packed[call.cands[Min(hits)]]))
  /\ UNCHANGED << files, repo, call, listed, scan, gitVars, had, pruned >>

-----------------------------------------------------------------------------
(* ListAllRefs                                                             *)

Entry(dir, p) == [dir |-> dir, path |-> p, isDir |-> IsDir(dir \o p)]

\* What is packed is overridden by what is loose.
ListPacked ==
  /\ reading = "list" /\ reading' = "scan"
  /\ listed' = PackedRefs
  /\ scan' = [i \in DOMAIN Dirs |-> Entry(Reverse(Dirs)[i], << "refs" >>)]
  /\ UNCHANGED << files, repo, call, answer, gitVars, had, pruned >>

\* os.ReadDir
ReadDir(e) ==
  LET below == { p \in DOMAIN files : Len(p) = Len(e.dir) + Len(e.path) + 1
                                      /\ IsPrefix(e.dir \o e.path, p) }
  IN  IF IsDir(e.dir \o e.path)
      THEN SetToSeq({ Entry(e.dir, Append(e.path, p[Len(p)])) : p \in below }) ELSE << >>

\* A reference that is listed already keeps its value.
ListFault(r, o) == IF r \in DOMAIN listed THEN listed ELSE With(listed, r, o)

List(r, o) == With(listed, r, o)

\* scanLooseRefs: a directory is replaced by its entries; a file that is gone,
\* or holds no object name, changes nothing.
ScanEntry ==
  /\ reading = "scan" /\ scan # << >>
  /\ LET e == Head(scan)
         p == e.dir \o e.path
     IN  IF e.isDir THEN scan' = ReadDir(e) \o Tail(scan) /\ UNCHANGED listed
         ELSE /\ scan' = Tail(scan)
              /\ listed' = IF IsFile(p) /\ files[p].kind = "oid"
                           THEN List(e.path, files[p].oid) ELSE listed
  /\ UNCHANGED << files, repo, look, gitVars, had, pruned >>

\* HEAD is resolved like any other name.
ScanDone ==
  /\ reading = "scan" /\ scan = << >>
  /\ Resolve([base |-> << "HEAD" >>, ops |-> << >>], 0) /\ Watch
  /\ UNCHANGED << files, repo, listed, scan, gitVars >>

RefStep == ReadLoose \/ ReadPacked \/ ListPacked \/ ScanEntry \/ ScanDone

-----------------------------------------------------------------------------
\* A linked worktree has files of its own, which are no references that it shares.
Own(r) ==
  { files[p].oid : p \in { p \in { d \o r : d \in ToSet(Dirs) } :
      IsFile(p) /\ files[p].kind = "oid" /\ p \notin { Loose(s) : s \in Refs } } }

(* A reference that git moves and packs while a name is resolved is found, *)
(* with a value that it has had since the call began: files are read       *)
(* before packed-refs, and git removes a file only after it has packed it. *)
(* An object name that is the answer belongs to a candidate, or to a file  *)
(* that is no reference, like those of a worktree.  (ResolveRef, refs.go)  *)
ResolvesToALiveValue ==
  reading = "none" /\ answer # << >> =>
    LET live == UNION { had[r] : r \in ToSet(call.cands) \cap DOMAIN had }
        own  == UNION { Own(r) : r \in ToSet(call.cands) }
    IN  CASE answer[1].is = "unknown" -> live = {}
          [] answer[1].is = "found" /\ call.cands # << >> ->
               answer[1].oid \in live \cup own \cup {Junk}
          [] OTHER -> TRUE

(* All references are listed with values they have had since the call      *)
(* began, but for those whose file git removed after packed-refs was read  *)
(* and before the file was: these are missing, or have the value they had  *)
(* when they were packed before.  In a linked worktree a file of its own   *)
(* hides a shared reference of that name.  (ListAllRefs, refs.go)          *)
ListsEveryRef ==
  reading = "scan" /\ scan = << >> =>
    \A r \in DOMAIN had \ pruned :
      r \in DOMAIN listed /\ listed[r] \in had[r] \cup Own(r)
=============================================================================
