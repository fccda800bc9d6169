---------------------------- MODULE MCRevisions ----------------------------
(***************************************************************************)
(* Command lines of up to three arguments on a plain repository; revisions *)
(* in plain, linked, bare and damaged ones; and references that git moves  *)
(* and packs meanwhile.                                                    *)
(***************************************************************************)
EXTENDS Revisions, FiniteSets

\* A merge c4 is on its way; t1 is an annotated tag.
History == ("c1" :> << >>) @@ ("c2" :> << "c1" >>) @@ ("c3" :> << "c2" >>)
           @@ ("c4" :> << "c3", "c2" >>)

R(b, o)  == << [base |-> b, ops |-> o] >>
Plain(b) == R(b, << >>)
Op(o, n) == [op |-> o, n |-> n]
Up(n)    == Op("~", << n >>)
Parent   == Op("^", << >>)

RevisionOf ==
     ("" :> << >>) @@ ("refs/heads/main" :> Plain(<< "refs", "heads", "main" >>))
  @@ ("heads/dev" :> Plain(<< "heads", "dev" >>)) @@ ("main/x" :> Plain(<< "main", "x" >>))
  @@ ("origin/main" :> Plain(<< "origin", "main" >>))
  @@ ("origin/HEAD" :> Plain(<< "origin", "HEAD" >>))
  @@ ("/main" :> Plain(<< "", "main" >>)) @@ ("main/" :> Plain(<< "main", "" >>))
  @@ ("main~1" :> R(<< "main" >>, << Up(1) >>)) @@ ("main~3" :> R(<< "main" >>, << Up(3) >>))
  @@ ("main~x" :> R(<< "main" >>, << Op("~", << >>) >>)) @@ ("~1" :> R(<< >>, << Up(1) >>))
  @@ ("main^" :> R(<< "main" >>, << Parent >>))
  @@ ("main^~1" :> R(<< "main" >>, << Parent, Up(1) >>))
  @@ ("main~1^" :> R(<< "main" >>, << Up(1), Parent >>))
  @@ ("note~1" :> R(<< "note" >>, << Up(1) >>))
  @@ ("dev..main" :> Plain(<< "dev" >>) \o Plain(<< "main" >>))
  @@ ("main~2..dev~0" :> R(<< "main" >>, << Up(2) >>) \o R(<< "dev" >>, << Up(0) >>))
  @@ ("..main" :> Plain(<< >>) \o Plain(<< "main" >>))
  @@ ("dev.." :> Plain(<< "dev" >>) \o Plain(<< >>)) @@ (".." :> Plain(<< >>) \o Plain(<< >>))
  @@ ("nosuch..main" :> Plain(<< "nosuch" >>) \o Plain(<< "main" >>))
  @@ ("dev..nosuch" :> Plain(<< "dev" >>) \o Plain(<< "nosuch" >>))
  @@ ("dev...main" :> Plain(<< "dev" >>) \o Plain(<< ".main" >>))
  @@ ("v1..dev..main" :> Plain(<< "v1" >>) \o Plain(<< "dev" >>) \o Plain(<< "main" >>))

OddNames == (".main" :> {"dot"}) @@ ("ma in" :> {"blank"}) @@ ("ma:in" :> {"special"})
            @@ ("bell" :> {"control"})
Names    == {"HEAD", "main", "dev", "v1", "note", "c2", "origin", "config", "objects",
             "loop", "nosuch"} \cup DOMAIN OddNames
Revs     == DOMAIN RevisionOf \cup Names
Dates    == ("2 weeks ago" :> "relative") @@ ("2024-01-02" :> "date") @@ ("2" :> "unix")
Numbers  == "2" :> 2
WithoutSign == "=2" :> "2"
Texts    == {"pattern", "Pattern", "(", "2", "=2", "false", "off", "maybe", "blue", "never"}
            \cup Revs \cup DOMAIN Dates

-----------------------------------------------------------------------------
(* Repositories                                                            *)

Put(dir, fs) == [p \in { dir \o q : q \in DOMAIN fs } |-> fs[SubSeq(p, Len(dir) + 1, Len(p))]]
At(path)     == << "refs" >> \o path
Main   == At(<< "heads", "main" >>)
Dev    == At(<< "heads", "dev" >>)
V1     == At(<< "tags", "v1" >>)
Note   == At(<< "tags", "note" >>)
Remote == At(<< "remotes", "origin", "main" >>)

All == (Main :> "c3") @@ (Dev :> "c2") @@ (V1 :> "c1") @@ (Note :> "t1") @@ (Remote :> "c2")

Dirs5 == [p \in { << >>, << "objects" >>, << "refs" >>, At(<< "heads" >>), At(<< "tags" >>),
                  At(<< "remotes" >>), At(<< "remotes", "origin" >>) } |-> Dir]

\* A git directory with these references loose and those packed.
GitDir(head, loose, packed) ==
  [r \in DOMAIN loose |-> Oid(loose[r])]
  @@ Dirs5 @@ (<< "HEAD" >> :> head) @@ (<< "config" >> :> Other)
  @@ (<< "packed-refs" >> :> Packed(packed))
  @@ (At(<< "remotes", "origin", "HEAD" >>) :> Sym(Remote))
  @@ (At(<< "heads", "loop" >>) :> Sym(At(<< "heads", "loop" >>)))

OnMain == Sym(Main)
Some(S) == [r \in S |-> All[r]]
LooseGit  == GitDir(OnMain, All, << >>)
PackedGit == GitDir(OnMain, << >>, All)
\* main has moved and dev is both; a loose tag hides the packed branch, a loose branch
\* the loose tag, and a packed branch the packed tag.
MixedGit  == GitDir(OnMain, Some({Main, Dev}), (Main :> "c2") @@ Some({Dev, V1, Note, Remote}))
ClashGit  == GitDir(OnMain, (At(<< "tags", "main" >>) :> "c1") @@ Some({Dev})
                              @@ (At(<< "tags", "dev" >>) :> "c3"),
                    Some({Main, V1}) @@ (At(<< "heads", "v1" >>) :> "c2"))
Detached  == GitDir(Oid("c2"), Some({Main}), Some({Dev, V1}))
Looping   == GitDir(Sym(At(<< "heads", "loop" >>)), Some({Main}), Some({Dev, V1}))
Headless  == [p \in DOMAIN LooseGit \ {<< "HEAD" >>} |-> LooseGit[p]]

W   == << "w", ".git" >>
Src == << "w", "src" >>
Linked(g) ==
  Put(W, g) @@ (<< "x", ".git" >> :> Link(TRUE, << "w", ".git", "worktrees", "x" >>))
  @@ Put(W \o << "worktrees", "x" >>,
         (<< >> :> Dir) @@ (<< "HEAD" >> :> Sym(Dev))
         @@ (<< "commondir" >> :> Link(FALSE, << "..", ".." >>)))

\* The directories where the files are.
WithDirs(f) == f @@ [p \in UNION { { SubSeq(q, 1, k) : k \in 0 .. Len(q) } : q \in DOMAIN f } |-> Dir]

Call(a, f, s, e, b) ==
  [args |-> a, files |-> WithDirs(f), start |-> s, gitDir |-> e, busy |-> b]
InPlain(a, g)       == Call(a, Put(W, g), Src, << >>, FALSE)

-----------------------------------------------------------------------------
(* Command lines                                                           *)

L(n, v) == [kind |-> "long", name |-> n, val |-> v]
S(f, v) == [kind |-> "short", flags |-> f, val |-> v]
Dashes  == [kind |-> "dashes"]

CaseArgs ==
  { S(<< "i" >>, << >>), S(<< "S" >>, << >>), S(<< "n", "s" >>, << >>),
    S(<< "S", "i", "e" >>, << >>), S(<< "e" >>, << "Pattern" >>),
    L("ignore-case", << >>), L("ignore-case", << "false" >>), L("ignore-case", << "maybe" >>),
    L("case-sensitive", << >>), L("case-sensitive", << "off" >>), L("smart-case", << >>),
    Dashes, Word("Pattern"), Word("pattern") }
OtherArgs ==
  { S(<< "C" >>, << "=2" >>), S(<< "l", "A" >>, << >>), S(<< "Z" >>, << >>), S(<< "h" >>, << >>),
    S(<< "v", "B" >>, << "2" >>), S(<< "m" >>, << >>), S(<< "N", "V" >>, << >>),
    L("context", << "2" >>), L("after-context", << >>), L("max-count", << "maybe" >>),
    L("before-context", << >>), L("author", << >>), L("committer", << "(" >>), L("type", << "" >>),
    L("since", << "2 weeks ago" >>), L("until", << "maybe" >>), L("color", << >>),
    L("color", << "blue" >>), L("no-heading", << >>), L("no-line-number", << "false" >>),
    L("fixed-strings", << >>), L("help", << >>), L("version", << >>), L("nosuch", << >>),
    Word("never"), Word("2"), Word("("), Word("=2"), Word(""), Dashes, Word("pattern") }

SeqsUpTo(n, X) == UNION { [1 .. k -> X] : k \in 0 .. n }
CommandLines ==
  { InPlain(a, PackedGit) : a \in SeqsUpTo(3, CaseArgs) \cup SeqsUpTo(2, OtherArgs) }
  \cup { InPlain(a \o << Word("pattern") >>, PackedGit) : a \in SeqsUpTo(3, CaseArgs)
                                                             \cup SeqsUpTo(2, OtherArgs) }

-----------------------------------------------------------------------------
(* Revisions                                                               *)

All1 == L("all", << >>)
Branch(b) == L("branch", << b >>)
Options == { << >>, << All1 >>, << Branch("dev") >>, << Branch("nosuch"), Branch("v1") >>,
             << Branch("heads/dev") >>, << All1, Branch("dev") >> }
Ask(rev, o) == << Word("pattern"), Word(rev) >> \o o

Quiet ==
  { InPlain(Ask(r, o), g) : r \in Revs, o \in Options,
                            g \in {LooseGit, MixedGit, ClashGit, Detached} }
  \cup { InPlain(Ask(r, << >>), g) : r \in Revs, g \in {Looping, Headless, PackedGit} }
  \cup { Call(Ask(r, o), Linked(g), << "x", "y" >>, << >>, FALSE) :
           r \in Revs, o \in { << >>, << All1 >> }, g \in {LooseGit, MixedGit} }
  \cup { Call(Ask(r, << >>), Put(<< "b" >>, g), << "b", "refs" >>, << >>, FALSE) :
           r \in Revs, g \in {LooseGit, Headless} }
  \cup { Call(Ask("main", << >>), Linked(LooseGit), s, e, FALSE) :
           s \in { Src, << "x" >>, << >> },
           e \in { << >>, << [abs |-> TRUE, to |-> W] >>,
                   << [abs |-> FALSE, to |-> << "..", "x", ".git" >>] >> } }

Busy(a, f, s) == Call(a, f, s, << >>, TRUE)
Moving ==
  { Busy(Ask(r, << >>), Put(W, g), Src) :
      r \in {"main", "v1", "origin/main", "dev..main"}, g \in {LooseGit, MixedGit} }
  \cup { Busy(Ask("c2", << All1 >>), Put(W, MixedGit), Src),
         Busy(Ask("main~1", << Branch("dev") >>), Linked(MixedGit), << "x" >>) }

Inputs == CommandLines \cup Quiet \cup Moving
=============================================================================
