----------------------------- MODULE Revisions -----------------------------
(***************************************************************************)
(* From a command line to the commits where the search begins: the command *)
(* line is parsed and validated (CommandLine), the repository is found,    *)
(* and the revisions, branches and dates that were asked for are resolved  *)
(* (Refs), as runContext (cmd/grg/main.go), ParseRevSpec (revlist.go) and  *)
(* collectOrderedCommits (walker.go) have it.  HistoryWalker goes on from  *)
(* the tips found here.                                                    *)
(*                                                                         *)
(* An operator named ...Fault is a wrong variant of the one it precedes,   *)
(* kept to show that the properties would notice.                          *)
(***************************************************************************)
EXTENDS CommandLine, Refs

CONSTANTS Parents,   \* the commits, with their parents
          Input      \* the file systems and command lines

(***************************************************************************)
(* What grg is given: its arguments, the file system, the directory where  *)
(* it is started and GIT_DIR, unless that is not set; and whether git may  *)
(* be at work at the same time.                                            *)
(***************************************************************************)
IsInput(g) ==
  /\ DOMAIN g = {"args", "files", "start", "gitDir", "busy"}
  /\ g.args \in Seq(ToSet(g.args)) /\ \A i \in DOMAIN g.args : IsArg(g.args[i])
  /\ g.start \in Seq(STRING) /\ g.busy \in BOOLEAN
  /\ g.gitDir \in Seq([abs : BOOLEAN, to : Seq(STRING)]) /\ Len(g.gitDir) <= 1

ASSUME InputAssumption == \A g \in Input : IsInput(g)
ASSUME FilesAssumption == \A fs \in { g.files : g \in Input } : IsFileSystem(fs)
ASSUME ParentsAssumption ==
  DOMAIN Parents \subseteq OID /\ \A c \in DOMAIN Parents : Parents[c] \in Seq(OID)
ASSUME InvalidAssumption ==
  Invalid = { n \in DOMAIN Marks : Marks[n] \cap {"blank", "control", "special"} # {} }

VARIABLES
  in,       \* start, gitDir and busy of the input
  phase,    \* "start", "resolve", "more", "filter", "done" or "failed"
  todo,     \* names still to be resolved, each with its role
  include,  \* RevRangeSpec.Include
  exclude,  \* RevRangeSpec.Exclude
  dates     \* sinceTime and untilTime; << >> is no filter

vars == << cmdVars, refVars, in, phase, todo, include, exclude, dates >>

Init ==
  /\ \E g \in Input : CmdInit(g.args) /\ files = g.files
                      /\ in = [start |-> g.start, gitDir |-> g.gitDir, busy |-> g.busy]
  /\ repo = << >>
  /\ reading = "none" /\ call = << >> /\ answer = << >>
  /\ listed = << >> /\ scan = << >>
  /\ gitOps = (IF in.busy THEN 0 ELSE MaxGitOps) /\ unpruned = {}
  /\ had = << >> /\ pruned = {}
  /\ phase = "start" /\ todo = << >> /\ include = << >> /\ exclude = << >>
  /\ dates = [since |-> << >>, until |-> << >>]

ParseStep == phase = "start" /\ CmdNext
             /\ UNCHANGED << refVars, in, phase, todo, include, exclude, dates >>

-----------------------------------------------------------------------------
(* ParseRevSpec                                                            *)

HeadRev    == [base |-> << "HEAD" >>, ops |-> << >>]
OrHead(r)  == IF r.base = << >> /\ r.ops = << >> THEN HeadRev ELSE r
Goal(role, r) == [role |-> role, rev |-> r]

\* The end of a range comes first; a side that is left out is HEAD.
RevGoals ==
  LET parts == IF cfg.RevRange = << >> THEN << >> ELSE Revision(cfg.RevRange[1])
  IN  CASE Len(parts) = 0 -> << Goal("include", HeadRev) >>
        [] Len(parts) = 2 -> << Goal("include", OrHead(parts[2])),
                                Goal("exclude", OrHead(parts[1])) >>
        [] OTHER -> << Goal("include", parts[1]) >>

\* ~ and what comes after it.
Ancestry(r) == LET first == SelectInSeq(r.ops, LAMBDA o : o.op = "~")
               IN  IF first = 0 THEN << >> ELSE SubSeq(r.ops, first, Len(r.ops))

\* resolveRevWithAncestry: one ~n is understood; all else is a name to be resolved.
Name(r) == [base |-> r.base, ops |-> SubSeq(r.ops, 1, Len(r.ops) - Len(Ancestry(r)))]
IsAncestry(a) == Len(a) = 1 /\ a[1].n # << >>

\* n first parents up: one too many.
AncestorsFault(o, n) ==
  LET up[k \in 0 .. n + 1] ==
        IF k = 0 THEN {o}
        ELSE { Parents[c][1] : c \in { c \in up[k - 1] : c \in DOMAIN Parents /\ Parents[c] # << >> } }
  IN  up[IF n = 0 THEN 0 ELSE n + 1]

\* n first parents up from an object: the commit, or none.
Ancestors(o, n) ==
  LET up[k \in 0 .. n] ==
        IF k = 0 THEN {o}
        ELSE { Parents[c][1] : c \in { c \in up[k - 1] : c \in DOMAIN Parents /\ Parents[c] # << >> } }
  IN  up[n]

\* Discover, then the first part of collectOrderedCommits.
FindRepository ==
  /\ phase = "start" /\ stage = "accepted"
  /\ LET found == Discover(in.start, in.gitDir)
     IN  IF found = << >> THEN phase' = "failed" /\ UNCHANGED << repo, todo >>
         ELSE phase' = "resolve" /\ repo' = found[1] /\ todo' = RevGoals
  /\ UNCHANGED << cmdVars, files, look, listed, scan, gitVars, had, pruned, in,
                  include, exclude, dates >>

\* The next name; a malformed ancestry is an error before anything is read.
ResolveNext ==
  /\ phase \in {"resolve", "more"} /\ reading = "none" /\ answer = << >> /\ todo # << >>
  /\ LET g == Head(todo)
         a == Ancestry(g.rev)
     IN  IF g.role # "branch" /\ a # << >> /\ ~IsAncestry(a)
         THEN Answer(Failed) /\ call' = [cands |-> << >>]
         ELSE Resolve(IF g.role = "branch" THEN g.rev ELSE Name(g.rev), 0)
  /\ Watch
  /\ UNCHANGED << cmdVars, files, repo, listed, scan, gitVars, in, phase, todo,
                  include, exclude, dates >>

\* What was resolved becomes a tip; a revision that was not is an error, a branch
\* that was not is passed over.
TakeAnswer ==
  /\ phase \in {"resolve", "more"} /\ todo # << >> /\ answer # << >>
  /\ LET g    == Head(todo)
         a    == Ancestry(g.rev)
         tips == IF answer[1].is # "found" THEN {}
                 ELSE IF g.role = "branch" \/ a = << >> THEN {answer[1].oid}
                 ELSE Ancestors(answer[1].oid, a[1].n[1])
     IN  /\ include' = IF g.role = "exclude" THEN include ELSE include \o SetToSeq(tips)
         /\ exclude' = IF g.role = "exclude" THEN SetToSeq(tips) ELSE exclude
         /\ phase' = IF g.role # "branch" /\ tips = {} THEN "failed" ELSE phase
  /\ answer' = << >> /\ todo' = Tail(todo)
  /\ UNCHANGED << cmdVars, files, repo, reading, call, listed, scan, gitVars, had, pruned,
                  in, dates >>

-----------------------------------------------------------------------------
(* collectOrderedCommits, up to the queue                                  *)

\* --all wins over --branch.
MoreTips ==
  /\ phase = "resolve" /\ todo = << >>
  /\ phase' = "more"
  /\ IF cfg.All
     THEN reading' = "list" /\ Watch /\ UNCHANGED todo
     ELSE /\ todo' = [i \in DOMAIN cfg.Branches |->
                        Goal("branch", Revision(cfg.Branches[i])[1])]
          /\ UNCHANGED << reading, had, pruned >>
  /\ UNCHANGED << cmdVars, files, repo, call, answer, listed, scan, gitVars, in,
                  include, exclude, dates >>

\* ListAllRefs has resolved HEAD, or not.
TakeListed ==
  /\ phase = "more" /\ cfg.All /\ answer # << >>
  /\ LET head == IF answer[1].is = "found" THEN << answer[1].oid >> ELSE << >>
     IN  include' = include \o SetToSeq({ listed[r] : r \in DOMAIN listed }) \o head
  /\ answer' = << >> /\ phase' = "filter"
  /\ UNCHANGED << cmdVars, files, repo, reading, call, listed, scan, gitVars, had, pruned,
                  in, todo, exclude, dates >>

\* A date that cannot be parsed is no filter.
SetFilters ==
  /\ phase = "filter" \/ (phase = "more" /\ ~cfg.All /\ todo = << >>)
  /\ dates' = [since |-> FilterDate(cfg.Since), until |-> FilterDate(cfg.Until)]
  /\ phase' = "done"
  /\ UNCHANGED << cmdVars, refVars, in, todo, include, exclude >>

GitStep == Git /\ UNCHANGED << cmdVars, in, phase, todo, include, exclude, dates >>

Next ==
  \/ ParseStep \/ FindRepository \/ ResolveNext \/ TakeAnswer
  \/ (RefStep /\ UNCHANGED << cmdVars, in, phase, todo, include, exclude, dates >>)
  \/ MoreTips \/ TakeListed \/ SetFilters \/ GitStep

Spec == Init /\ [][Next]_vars
-----------------------------------------------------------------------------
(* Reference: what a revision means while git leaves the repository alone. *)

\* What stands at a full name, perhaps a symbolic reference; any file may be there.
Is(r) ==
  LET p == (IF r = << "HEAD" >> THEN repo.gitDir ELSE repo.commonGitDir) \o r
  IN  CASE r \in Refs -> { Value(r) }
        [] IsFile(p) /\ files[p].kind = "sym" ->
             { Value(t) : t \in {files[p].to} \cap Refs }
        [] IsFile(p) /\ files[p].kind # "sym" ->
             { IF files[p].kind = "oid" THEN files[p].oid ELSE Junk }
        [] OTHER -> {}

\* The full names that a name may be short for, by precedence.
FullNames(path) ==
  LET dirs == << << >>, << "refs" >>, << "refs", "heads" >>, << "refs", "tags" >>,
                 << "refs", "remotes" >>, << "refs", "remotes", "origin" >> >>
  IN  [k \in DOMAIN dirs |-> dirs[k] \o path]

\* The objects that a name may stand for: what precedes the others among the files,
\* and only if there is no file, among what is packed.
Tips(path) ==
  LET names    == FullNames(path)
      isFile   == { k \in DOMAIN names : \E d \in ToSet(Dirs) : IsFile(d \o names[k]) }
      isPacked == { k \in DOMAIN names : names[k] \in DOMAIN PackedRefs }
  IN  CASE Len(path) = 1 /\ path[1] \in OID -> { path[1] }
        [] isFile # {}   -> Is(names[Min(isFile)])
        [] isPacked # {} -> Is(names[Min(isPacked)])
        [] OTHER -> {}
HeadTips == Is(<< "HEAD" >>)

\* The end of a chain of first parents of that length.
FirstParents(c, n) ==
  IF n = 0 THEN {c}
  ELSE { s[n] : s \in { s \in [0 .. n -> DOMAIN Parents] :
           s[0] = c /\ \A i \in 1 .. n : s[i] \in ToSet(First(Parents[s[i - 1]])) } }

\* A directory is in the way, or a file where there should be one.
IsObstructed(path) ==
  \E r \in ToSet(FullNames(path)), d \in ToSet(Dirs) : IsDir(d \o r) \/ IsBlocked(d \o r)

Base(r)    == IF r.base = << >> THEN HeadTips ELSE Tips(r.base)
Ups(r)     == IF r.ops = << >> THEN 0 ELSE r.ops[1].n[1]
IsPlain(r) == r.ops = << >> \/ (Len(r.ops) = 1 /\ r.ops[1].op = "~")

Meaning(r) == IF IsPlain(r) THEN UNION { FirstParents(c, Ups(r)) : c \in Base(r) } ELSE {}

\* It may stand for nothing, or for something without as many ancestors.
IsMeaningless(r) == ~IsPlain(r) \/ Base(r) = {} \/ \E c \in Base(r) : FirstParents(c, Ups(r)) = {}

(* The search begins at what the revision means, and leaves out what it    *)
(* says to leave out: an accepted revision is honoured, or refused because *)
(* it means nothing here or something is in the way, and never read as     *)
(* something else.  Nothing more is searched unless --all or --branch asks *)
(* for it; with --all every reference is, and with --branch every branch   *)
(* that stands for something, whatever comes of the others.                *)
(* (ParseRevSpec, revlist.go; collectOrderedCommits, walker.go)            *)
RangeIsHonoured ==
  phase \in {"done", "failed"} /\ repo # << >> /\ ~in.busy =>
    LET parts == IF cfg.RevRange = << >> THEN << >> ELSE Revision(cfg.RevRange[1])
        end   == IF parts = << >> THEN HeadTips ELSE Meaning(parts[Len(parts)])
        more  == IF cfg.All THEN UNION { Is(r) : r \in Refs \cup {<< "HEAD" >>} }
                 ELSE UNION { Tips(Revision(b)[1].base) : b \in ToSet(cfg.Branches) }
    IN  IF phase = "failed"
        THEN (parts = << >> /\ end = {})
             \/ \E i \in DOMAIN parts : IsMeaningless(parts[i]) \/ IsObstructed(parts[i].base)
        ELSE /\ include[1] \in end
             /\ ToSet(include) \subseteq {include[1]} \cup more
             /\ cfg.All => more \subseteq ToSet(include)
             /\ ~cfg.All => \A b \in ToSet(cfg.Branches) :
                  LET r == Revision(b)[1]
                  IN  r.ops = << >> /\ Tips(r.base) # {} /\ ~IsObstructed(r.base) =>
                        Tips(r.base) \subseteq ToSet(include)
             /\ IF Len(parts) < 2 THEN exclude = << >>
                ELSE Len(exclude) = 1 /\ exclude[1] \in Meaning(parts[1])
=============================================================================
