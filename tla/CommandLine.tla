---------------------------- MODULE CommandLine ----------------------------
(***************************************************************************)
(* The command line of grg: ParseArgs (internal/cli/flags.go,              *)
(* short_flags.go and positional.go), one argument a step, then Validate   *)
(* (validate.go); and what NewMatcher (internal/search/matcher.go) makes   *)
(* of the three ways to say how letter case counts.                        *)
(*                                                                         *)
(* An argument is "--", a long flag with or without a value of its own, a  *)
(* bundle of one-letter flags of which the last may have the rest as its   *)
(* value, or any other word.  Texts are atomic; the constants say how each *)
(* reads as a number, a date, a pattern or a revision.                     *)
(*                                                                         *)
(* An operator named ...Fault is a wrong variant of the one it precedes,   *)
(* kept to show that the properties would notice.                          *)
(***************************************************************************)
EXTENDS Naturals, SequencesExt

CONSTANTS Text,        \* the texts of words and of attached values
          Atoi,        \* those that strconv.Atoi reads as a number >= 0
          Stripped,    \* those that begin with '=', without it
          DateFormat,  \* those that are dates, with the format they have
          BadRegexp,   \* those that are no regular expression
          Upper,       \* those with an upper-case letter
          RevOf,       \* those that are more than a plain one-component name
          Marks        \* odd names, with what is odd about them

(***************************************************************************)
(* A text read as a revision: what ".." separates, each a path of names    *)
(* and the operators after it, with a number or without.  No parts: the    *)
(* text is blank; an empty name comes before or after a stray slash.  A    *)
(* name may begin with a dot, have white space (or an open "@{") or a      *)
(* control character in it, or be what isValidRefName alone refuses        *)
(* ("special").                                                            *)
(***************************************************************************)
RevPart == [base : Seq(STRING), ops : Seq([op : {"~", "^"}, n : Seq(Nat)])]

ASSUME TextAssumption ==
  /\ DOMAIN Atoi \subseteq Text /\ \A t \in DOMAIN Atoi : Atoi[t] \in Nat
  /\ DOMAIN Stripped \subseteq Text /\ DOMAIN DateFormat \subseteq Text
  /\ BadRegexp \subseteq Text /\ Upper \subseteq Text
  /\ DOMAIN RevOf \subseteq Text
  /\ \A t \in DOMAIN RevOf : RevOf[t] \in Seq(RevPart)
ASSUME MarksAssumption ==
  \A n \in DOMAIN Marks : Marks[n] \in SUBSET {"dot", "blank", "control", "special"}

VARIABLES
  args,         \* os.Args[1:]
  at,           \* the next argument
  dashesSeen,   \* doubleDashSeen
  positional,   \* words that are neither flags nor values
  dashedPaths,  \* pathsAfterDoubleDash
  cfg,          \* the configuration
  stage         \* "args", "parsed", "help", "rejected" or "accepted"

cmdVars == << args, at, dashesSeen, positional, dashedPaths, cfg, stage >>

Defaults ==
  [Help |-> FALSE, LongHelp |-> FALSE, Version |-> FALSE,
   CaseMode |-> "sensitive", CaseSensitive |-> TRUE, IgnoreCase |-> FALSE,
   SmartCase |-> FALSE, LineNumber |-> TRUE, Heading |-> TRUE, FixedStrings |-> FALSE,
   WordRegexp |-> FALSE, InvertMatch |-> FALSE, FilesWithMatches |-> FALSE,
   Count |-> FALSE, Quiet |-> FALSE, Text |-> FALSE, All |-> FALSE,
   FirstParent |-> FALSE, Uncommitted |-> FALSE, ExpandCommits |-> FALSE,
   Unordered |-> FALSE, BeforeContext |-> 0, AfterContext |-> 0, MaxCount |-> 0,
   Color |-> "auto", Globs |-> << >>, Types |-> << >>, Patterns |-> << >>,
   Branches |-> << >>, Paths |-> << >>, Since |-> << >>, Until |-> << >>,
   Author |-> << >>, Committer |-> << >>, Pattern |-> << >>, RevRange |-> << >>]

CmdInit(a) ==
  /\ args = a /\ at = 1 /\ dashesSeen = FALSE
  /\ positional = << >> /\ dashedPaths = << >>
  /\ cfg = Defaults /\ stage = "args"

Reject == stage' = "rejected" /\ UNCHANGED << args, at, dashesSeen, positional, dashedPaths, cfg >>

Word(t) == [kind |-> "word", text |-> t]

\* The configuration is changed, and so many arguments are used up.
Use(n, c) ==
  /\ cfg' = c /\ at' = at + n
  /\ UNCHANGED << args, dashesSeen, positional, dashedPaths, stage >>

HasArg == stage = "args" /\ at <= Len(args)

\* The value of a flag: its own, or else the next argument, whatever that is.
Operand(own) == IF own # << >> THEN << Word(own[1]) >>
                ELSE IF at < Len(args) THEN << args[at + 1] >> ELSE << >>
UsedWith(own) == IF own = << >> THEN 2 ELSE 1

-----------------------------------------------------------------------------
(* Flags                                                                   *)

\* Flags by what they are about.
Named(flags) == [x \in UNION { flags[f] : f \in DOMAIN flags } |->
                   CHOOSE f \in DOMAIN flags : x \in flags[f]]

\* Boolean flags that only set a field, and those that clear it.
Sets ==
  Named([FixedStrings |-> {"fixed-strings", "F"},    WordRegexp |-> {"word-regexp", "w"},
         InvertMatch |-> {"invert-match", "v"},      LineNumber |-> {"line-number", "n"},
         FilesWithMatches |-> {"files-with-matches", "l"}, Count |-> {"count", "c"},
         Quiet |-> {"quiet", "q"},  Text |-> {"text", "a"},  Heading |-> {"heading", "H"},
         All |-> {"all"},           FirstParent |-> {"first-parent"},
         Uncommitted |-> {"uncommitted"}, Unordered |-> {"unordered"},
         ExpandCommits |-> {"expand-commits", "all-commits"}])
Clears == Named([LineNumber |-> {"no-line-number", "N"}, Heading |-> {"no-heading"}])

CaseFlag == Named([ignore |-> {"i", "ignore-case"}, sensitive |-> {"s", "case-sensitive"},
                   smart |-> {"S", "smart-case"}])

Letter   == {"h", "V", "i", "s", "S", "F", "w", "v", "n", "N", "l", "c", "q", "a", "H",
             "C", "A", "B", "m", "g", "t", "e"}
Switches == DOMAIN Sets \cup DOMAIN Clears \cup DOMAIN CaseFlag

\* -s forgets to take back -i.
SetCaseFault(c, mode) ==
  [c EXCEPT !.CaseMode = mode, !.CaseSensitive = (mode = "sensitive"),
            !.IgnoreCase = (mode = "ignore" \/ (mode = "sensitive" /\ @)),
            !.SmartCase = (mode = "smart")]

SetCase(c, mode) ==
  [c EXCEPT !.CaseMode = mode, !.CaseSensitive = (mode = "sensitive"),
            !.IgnoreCase = (mode = "ignore"), !.SmartCase = (mode = "smart")]

\* Only --ignore-case=false says anything; SmartCase stays as it is.
ClearCase(c, mode) ==
  IF mode # "ignore" THEN c
  ELSE [c EXCEPT !.CaseMode = "sensitive", !.CaseSensitive = TRUE, !.IgnoreCase = FALSE]

Switch(c, name, b) ==
  CASE name \in DOMAIN Sets     -> [c EXCEPT ![Sets[name]] = b]
    [] name \in DOMAIN Clears   -> [c EXCEPT ![Clears[name]] = ~b]
    [] name \in DOMAIN CaseFlag -> IF b THEN SetCase(c, CaseFlag[name])
                                        ELSE ClearCase(c, CaseFlag[name])

\* Flags with a value: it is a number, replaces the one before, or is added.
Counts == {"context", "after-context", "before-context", "max-count", "C", "A", "B", "m"}
Takes  == Named([Since |-> {"since"}, Until |-> {"until"}, Author |-> {"author"},
                 Committer |-> {"committer"}])
Adds   == Named([Globs |-> {"glob", "g"}, Types |-> {"type", "t"},
                 Patterns |-> {"regexp", "e"}, Branches |-> {"branch"}])
Valued == Counts \cup DOMAIN Takes \cup DOMAIN Adds

IsArg(a) ==
  CASE a.kind = "dashes" -> TRUE
    [] a.kind = "word"   -> a.text \in Text
    [] a.kind = "long"   -> a.name \in STRING /\ a.val \in Seq(Text) /\ Len(a.val) <= 1
    [] a.kind = "short"  -> /\ a.flags \in Seq(STRING) /\ a.flags # << >>
                            /\ a.val \in Seq(Text) /\ Len(a.val) <= 1
                            /\ a.val # << >> => a.flags[Len(a.flags)] \in Valued \cap Letter
    [] OTHER -> FALSE

IsNumber(v) == v.kind = "word" /\ v.text \in DOMAIN Atoi

SetValue(c, name, v) ==
  CASE name \in {"context", "C"}        -> [c EXCEPT !.BeforeContext = Atoi[v.text],
                                                     !.AfterContext = Atoi[v.text]]
    [] name \in {"after-context", "A"}  -> [c EXCEPT !.AfterContext = Atoi[v.text]]
    [] name \in {"before-context", "B"} -> [c EXCEPT !.BeforeContext = Atoi[v.text]]
    [] name \in {"max-count", "m"}      -> [c EXCEPT !.MaxCount = Atoi[v.text]]
    [] name \in DOMAIN Takes            -> [c EXCEPT ![Takes[name]] = << v >>]
    [] name \in DOMAIN Adds             -> [c EXCEPT ![Adds[name]] = Append(@, v)]

\* parseBool: what a value of its own makes of a boolean flag.
TrueTexts   == {"true", "1", "yes", "on"}
FalseTexts  == {"false", "0", "no", "off"}
IsBool(own) == own = << >> \/ own[1] \in TrueTexts \cup FalseTexts
Bool(own)   == own = << >> \/ own[1] \in TrueTexts

ColorChoice == {"auto", "always", "never", "ansi"}
IsColor(v)  == v.kind = "word" /\ v.text \in ColorChoice

-----------------------------------------------------------------------------
(* ParseArgs                                                               *)

\* After "--" there are only paths.
TakePath ==
  /\ HasArg /\ dashesSeen
  /\ dashedPaths' = Append(dashedPaths, args[at]) /\ at' = at + 1
  /\ UNCHANGED << args, dashesSeen, positional, cfg, stage >>

TakeDashes ==
  /\ HasArg /\ ~dashesSeen /\ args[at].kind = "dashes"
  /\ dashesSeen' = TRUE /\ at' = at + 1
  /\ UNCHANGED << args, positional, dashedPaths, cfg, stage >>

TakeWord ==
  /\ HasArg /\ ~dashesSeen /\ args[at].kind = "word"
  /\ positional' = Append(positional, args[at]) /\ at' = at + 1
  /\ UNCHANGED << args, dashesSeen, dashedPaths, cfg, stage >>

LongFlag ==
  /\ HasArg /\ ~dashesSeen /\ args[at].kind = "long"
  /\ LET name == args[at].name
         own  == args[at].val
         v    == Operand(own)
     IN  CASE name = "help"    -> Use(1, [cfg EXCEPT !.Help = TRUE, !.LongHelp = TRUE])
           [] name = "version" -> Use(1, [cfg EXCEPT !.Version = TRUE])
           [] name \in Switches \ Letter /\ IsBool(own) ->
                Use(1, Switch(cfg, name, Bool(own)))
           [] name \in Valued \ Letter /\ v # << >>
                              /\ (name \in Counts => IsNumber(v[1])) ->
                Use(UsedWith(own), SetValue(cfg, name, v[1]))
           [] name = "color" /\ v # << >> /\ IsColor(v[1]) ->
                Use(UsedWith(own), [cfg EXCEPT !.Color = v[1].text])
           [] name = "color" /\ own = << >> /\ ~(v # << >> /\ IsColor(v[1])) ->
                Use(1, [cfg EXCEPT !.Color = "always"])
           [] OTHER -> Reject

\* A number may be attached with an equals sign.
Unassigned(v) == IF v.kind = "word" /\ v.text \in DOMAIN Stripped
                 THEN Word(Stripped[v.text]) ELSE v

SetLetter(c, f) == CASE f = "h" -> [c EXCEPT !.Help = TRUE]
                     [] f = "V" -> [c EXCEPT !.Version = TRUE]
                     [] OTHER   -> Switch(c, f, TRUE)

\* parseShortFlags: switches, then perhaps one flag with a value.
ShortFlags ==
  /\ HasArg /\ ~dashesSeen /\ args[at].kind = "short"
  /\ LET flags    == args[at].flags
         own      == args[at].val
         last     == flags[Len(flags)]
         hasValue == last \in Valued \cap Letter
         switches == IF hasValue THEN SubSeq(flags, 1, Len(flags) - 1) ELSE flags
         set[k \in 0 .. Len(switches)] ==
                       IF k = 0 THEN cfg ELSE SetLetter(set[k - 1], switches[k])
         v        == IF last \in Counts /\ Operand(own) # << >>
                     THEN << Unassigned(Operand(own)[1]) >> ELSE Operand(own)
     IN  CASE ToSet(switches) \subseteq Letter \ Valued /\ ~hasValue ->
                Use(1, set[Len(switches)])
           [] ToSet(switches) \subseteq Letter \ Valued /\ hasValue /\ v # << >>
                                /\ (last \in Counts => IsNumber(v[1])) ->
                Use(UsedWith(own), SetValue(set[Len(switches)], last, v[1]))
           [] OTHER -> Reject

\* The first element, if there is one.
First(s) == IF s = << >> THEN s ELSE << s[1] >>

\* resolvePositionals: the pattern unless -e gave one, a revision, and paths.
EndOfArgs ==
  /\ stage = "args" /\ at > Len(args)
  /\ LET hasPattern == cfg.Patterns # << >>
         rest == IF hasPattern \/ positional = << >> THEN positional ELSE Tail(positional)
         patterns == IF hasPattern THEN cfg.Patterns ELSE First(positional)
     IN  IF cfg.Help \/ cfg.Version
         THEN stage' = "help" /\ UNCHANGED cfg
         ELSE IF patterns = << >>
         THEN stage' = "rejected" /\ UNCHANGED cfg
         ELSE /\ stage' = "parsed"
              /\ cfg' = [cfg EXCEPT
                           !.Pattern = First(patterns), !.Patterns = patterns,
                           !.RevRange = First(rest),
                           !.Paths = SubSeq(rest, 2, Len(rest)) \o dashedPaths]
  /\ UNCHANGED << args, at, dashesSeen, positional, dashedPaths >>

-----------------------------------------------------------------------------
(* Validate                                                                *)

IsBlank(v) == v.kind = "word" /\ v.text \in DOMAIN RevOf /\ RevOf[v.text] = << >>

\* How an argument reads as a revision, or as the name of a branch.
Revision(v) ==
  IF v.kind = "word" /\ v.text \in DOMAIN RevOf THEN RevOf[v.text]
  ELSE << [base |-> << IF v.kind = "word" THEN v.text ELSE "-" >>, ops |-> << >>] >>

\* What is odd about a name; an empty one stands next to a stray slash.
Mark(name) == IF name \in DOMAIN Marks THEN Marks[name] ELSE {}
Has(path, mark) == \E i \in DOMAIN path : mark \in Mark(path[i])

\* Compiles as it stands; \b(?:...)\b around it changes nothing about that.
IsRegexp(v) == v.kind = "word" => v.text \notin BadRegexp

\* validatePatterns
PatternsAreValid == ~cfg.FixedStrings => \A i \in DOMAIN cfg.Patterns : IsRegexp(cfg.Patterns[i])

\* validateSingleRev: a name, one ^ or ^n after it at most, and then ~n at most.
IsSingleRev(r) ==
  LET ancestry == r.ops # << >> /\ r.ops[Len(r.ops)].op = "~"
      before   == IF ancestry THEN SubSeq(r.ops, 1, Len(r.ops) - 1) ELSE r.ops
  IN  /\ r.base # << >> /\ r.base[1] # "" /\ "dot" \notin Mark(r.base[1])
      /\ ~Has(r.base, "blank")
      /\ ancestry => r.ops[Len(r.ops)].n # << >>
      /\ Len(before) <= 1 /\ \A i \in DOMAIN before : before[i].op = "^"

\* validateRevSpec: at most two revisions; either side of a range may be left out.
RevSpecIsValid(v) ==
  LET parts == Revision(v)
      isLeftOut(r) == Len(parts) = 2 /\ r.base = << >> /\ r.ops = << >>
  IN  /\ Len(parts) <= 2
      /\ \A i \in DOMAIN parts : /\ ~Has(parts[i].base, "control")
                                 /\ isLeftOut(parts[i]) \/ IsSingleRev(parts[i])

\* validateBranchName: a single name, whatever operators come after it.
BranchIsValid(v) ==
  /\ ~IsBlank(v) /\ Len(Revision(v)) = 1 /\ Len(Revision(v)[1].base) <= 1
  /\ ~Has(Revision(v)[1].base, "control")

\* validateDate, relative dates and every format of ParseFilterDate among others.
DateIsValid(v) == IsBlank(v) \/ (v.kind = "word" /\ v.text \in DOMAIN DateFormat)

Validate ==
  /\ stage = "parsed"
  /\ stage' =
       IF /\ PatternsAreValid
          /\ \A v \in ToSet(cfg.Author \o cfg.Committer) : IsRegexp(v)
          /\ \A v \in ToSet(cfg.RevRange) : RevSpecIsValid(v)
          /\ \A v \in ToSet(cfg.Branches) : BranchIsValid(v)
          /\ \A v \in ToSet(cfg.Paths \o cfg.Types) : ~IsBlank(v)
          /\ \A v \in ToSet(cfg.Since \o cfg.Until) : DateIsValid(v)
       THEN "accepted" ELSE "rejected"
  /\ UNCHANGED << args, at, dashesSeen, positional, dashedPaths, cfg >>

-----------------------------------------------------------------------------
(* What becomes of it                                                      *)

\* NewMatcher: whether the case of letters is ignored.
IgnoresCase ==
  LET hasUpper == \E v \in ToSet(cfg.Patterns) : v.kind = "word" /\ v.text \in Upper
  IN  CASE cfg.IgnoreCase    -> TRUE
        [] cfg.CaseSensitive /\ ~cfg.IgnoreCase -> FALSE
        [] OTHER -> IF cfg.SmartCase \/ cfg.CaseMode = "smart" THEN ~hasUpper
                    ELSE cfg.CaseMode = "ignore"

\* ParseFilterDate: no time at all (and so no filter) for what it cannot parse.
FilterDate(v) ==
  IF v # << >> /\ v[1].kind = "word" /\ v[1].text \in DOMAIN DateFormat
     /\ DateFormat[v[1].text] \in {"unix", "RFC3339", "date T time", "date time", "date",
                                   "RFC1123", "RFC822"}
  THEN v ELSE << >>

CmdNext == TakePath \/ TakeDashes \/ TakeWord \/ LongFlag \/ ShortFlags \/ EndOfArgs \/ Validate

-----------------------------------------------------------------------------
(* Reference: the command line read by position.                           *)

TakesNext(a) ==
  CASE a.kind = "long"  -> a.val = << >> /\ a.name \in Valued
    [] a.kind = "short" -> a.val = << >> /\ a.flags[Len(a.flags)] \in Valued
    [] OTHER -> FALSE

\* The arguments that are not the value of the one before.
IsUnit[i \in 1 .. Len(args)] ==
  i = 1 \/ ~(IsUnit[i - 1] /\ TakesNext(args[i - 1]))

IsFlags(i) ==
  /\ IsUnit[i] /\ args[i].kind \in {"long", "short"}
  /\ ~\E j \in 1 .. i : IsUnit[j] /\ args[j].kind = "dashes"

\* What an argument says about case, at last.
CaseSaid(a) ==
  LET letters == { k \in DOMAIN a.flags : a.flags[k] \in {"i", "s", "S"} }
  IN  CASE a.kind = "long" /\ a.name \in DOMAIN CaseFlag /\ Bool(a.val) -> << CaseFlag[a.name] >>
        [] a.kind = "long" /\ a.name = "ignore-case" /\ ~Bool(a.val) -> << "sensitive" >>
        [] a.kind = "short" /\ letters # {} -> << CaseFlag[a.flags[Max(letters)]] >>
        [] OTHER -> << >>

\* Of the flags that say how case counts the last one wins, wherever they stand
\* and whatever stands between them; a flag that is the value of another, or
\* comes after "--", is none.  (flags.go, short_flags.go; matcher.go)
LastCaseFlagWins ==
  stage = "accepted" =>
    LET said == { i \in 1 .. Len(args) : IsFlags(i) /\ CaseSaid(args[i]) # << >> }
        last == IF said = {} THEN "sensitive"
                ELSE CaseSaid(args[CHOOSE i \in said : \A j \in said : j <= i])[1]
    IN  IgnoresCase <=> \/ last = "ignore"
                        \/ last = "smart" /\ ~\E v \in ToSet(cfg.Patterns) :
                                                v.kind = "word" /\ v.text \in Upper
=============================================================================
