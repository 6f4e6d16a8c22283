----------------------------- MODULE ShellReads -----------------------------
(***************************************************************************)
(* Which files does a shell command put in front of the model?  The        *)
(* transcript readers split a command line into simple commands, follow    *)
(* `cd`, and take the operands of the commands they know (shell.rs).  The  *)
(* module runs that scanner beside a shell which gives the same line its   *)
(* meaning: both take one symbol of the line after the other, so that all  *)
(* lines up to a length are covered.                                       *)
(*                                                                         *)
(* A symbol is a word with the blank behind it, an operator, a double      *)
(* quote, or a newline.  Single quotes and backslashes only form words.    *)
(* What a known command reads of its operands is common to both sides;     *)
(* where `cd` leads is not.  Every command succeeds: `&&` is as `;`, but   *)
(* for a list of them that goes to the background as a whole.              *)
(***************************************************************************)
EXTENDS Naturals, Sequences, FiniteSets, SequencesExt, Places

CONSTANTS
  MaxSymbols,  \* bound on the symbols of a line
  MaxDepth,    \* bound on the subshells open at a time
  MaxWords,    \* bound on the words of a command
  MaxQuirks    \* bound on the constructs of a line the scanner does not follow

ASSUME ShellAssumption ==
  MaxSymbols \in Nat /\ MaxDepth \in Nat /\ MaxWords \in Nat /\ MaxQuirks \in Nat

Name == {"a"}
Reader == {"cat", "sed"}
Word == Name \cup Reader \cup {"cd", "echo", "env", "opt"}
Redirection == {"<", ">", "<<"}
NoWord == "none"
Glued == "glued"      \* a quoted word of several symbols, a name of its own
Empty == "empty"      \* a pair of quotes with nothing in it
Unknown == "?"        \* a word the shell makes of a command's output
Parens == "()"        \* stands for a subshell that has ended

VARIABLES
  scan,    \* the scanner of brain0
  shell,   \* the shell: frames of open commands and subshells, and what was read
  count,   \* symbols so far
  quirks   \* constructs the scanner does not follow

shellVars == <<scan, shell, count, quirks>>

-----------------------------------------------------------------------------
(***************************************************************************)
(* One simple command, whose words are known.                              *)
(***************************************************************************)
Usable(w) == w \in Name \cup Reader \cup {Glued, "cd", "echo", "env", "sep"}

\* Redirections and their operands are no arguments.
IsPlain(words, i) ==
  words[i] \notin Redirection /\ (i = 1 \/ words[i - 1] \notin Redirection)

Plain(words) == Pick(words, {i \in DOMAIN words : IsPlain(words, i)})

\* `env` and its flags are skipped.
Skipped(plain, i) == \A k \in 1..i : plain[k] = "env" \/ (plain[k] = "opt" /\ k > 1)

Command(plain) == Pick(plain, {i \in DOMAIN plain : ~Skipped(plain, i)})

\* How many of the words behind it an option takes: one, where the command's table has
\* it (sed's -e), and none as a plain flag (cat's -n).
TakesArgs(cmd, x) == IF x = "opt" /\ cmd = "sed" THEN 1 ELSE 0

\* The arguments from left to right: an option or an operand, and what the option takes.
Positionals(cmd, args) ==
  LET Read[i \in 1..Len(args) + 1] ==
        IF i > Len(args) THEN <<>>
        ELSE IF args[i] = "opt"
             THEN LET next == i + 1 + TakesArgs(cmd, args[i])
                  IN  IF next > Len(args) THEN <<>> ELSE Read[next]
             ELSE <<args[i]>> \o Read[i + 1]
  IN  Read[1]

\* sed's script is its first operand, unless an option gave it.
Operands(cmd, args) ==
  LET positional == Positionals(cmd, args)
  IN  IF cmd = "sed" /\ "opt" \notin Range(args) /\ positional # <<>>
      THEN Tail(positional)
      ELSE positional

FilesRead(words) ==
  LET cmd == Command(Plain(words))
      operands == IF cmd # <<>> /\ Head(cmd) \in Reader THEN Operands(Head(cmd), Tail(cmd))
                  ELSE <<>>
  IN  {w \in Range(operands) : Usable(w)} \cup
      {words[i + 1] : i \in {k \in DOMAIN words : words[k] = "<" /\ k + 1 \in DOMAIN words
                                                   /\ Usable(words[k + 1])}}

Paths(dir, names) == {Append(dir, n) : n \in names}

-----------------------------------------------------------------------------
(***************************************************************************)
(* The scanner.  base and out go on from segment to segment.               *)
(***************************************************************************)
\* The directories a `cd` leads to: none, or one, the first word behind it.
ChangesTo(words) ==
  LET cmd == Command(Plain(words))
  IN  IF Len(cmd) > 1 /\ Head(cmd) = "cd" /\ Usable(cmd[2]) THEN {cmd[2]} ELSE {}

Enter(dir, to) == IF to = {} THEN dir ELSE Append(dir, CHOOSE d \in to : TRUE)

ScanInit ==
  [words |-> <<>>, word |-> NoWord, quoted |-> FALSE, stack |-> <<>>, pending |-> <<>>,
   skip |-> <<>>, row |-> NoWord, base |-> <<>>, out |-> {}]

Glue(word, x) ==
  CASE word \in {NoWord, Empty} -> x
    [] word = Unknown           -> Unknown
    [] OTHER                    -> Glued

\* Two words `<< tag` announce a body that starts on the next line.
NoteTag(words, pending) ==
  IF /\ Len(words) > 1 /\ words[Len(words) - 1] = "<<"
     /\ pending = <<>> \/ Last(pending) # Last(words)
  THEN Append(pending, Last(words))
  ELSE pending

Ended(words, word) == IF word = NoWord THEN words ELSE Append(words, word)

EndWord(b) ==
  LET words == Ended(b.words, b.word)
  IN  [b EXCEPT !.words = words, !.word = NoWord, !.pending = NoteTag(words, @)]

EndSegment(b) ==
  LET e == EndWord(b)
  IN  [e EXCEPT !.words = <<>>,
                !.out = @ \cup Paths(b.base, FilesRead(e.words)),
                !.base = Enter(@, ChangesTo(e.words))]

\* Lines up to the tag are skipped.
InBody(b) == b.skip # <<>>

SkipLine(b) ==
  [b EXCEPT !.row = NoWord, !.skip = IF b.row = Head(@) THEN Tail(@) ELSE @]

ScanWord(b, x) ==
  IF InBody(b) THEN [b EXCEPT !.row = Glue(@, x)]
  ELSE IF b.quoted THEN [b EXCEPT !.word = Glue(@, x)]
  ELSE EndWord([b EXCEPT !.word = x])

ScanSeparator(b, x) ==
  IF InBody(b) \/ b.quoted THEN ScanWord(b, x) ELSE EndSegment(b)

ScanNewline(b) ==
  IF InBody(b) THEN SkipLine(b)
  ELSE IF b.quoted THEN ScanWord(b, "nl")
  ELSE LET e == EndSegment(b) IN [e EXCEPT !.skip = e.pending, !.pending = <<>>]

ScanQuote(b) ==
  IF InBody(b) THEN ScanWord(b, "quote")
  ELSE IF b.quoted THEN EndWord([b EXCEPT !.quoted = FALSE])
  ELSE [b EXCEPT !.quoted = TRUE, !.word = Empty]

ScanSubst(b) ==
  IF InBody(b) THEN ScanWord(b, "$(")
  ELSE [EndSegment(b) EXCEPT !.stack = Append(@, b.quoted), !.quoted = FALSE]

\* Variant with a fault: the quotes around a substitution are not restored behind it.
UnquotedBehind(stack) == FALSE

\* A closing parenthesis of any kind ends a substitution.
QuotedBehind(stack) == stack # <<>> /\ Last(stack)

ScanClose(b) ==
  IF InBody(b) \/ b.quoted THEN ScanWord(b, ")")
  ELSE [EndSegment(b) EXCEPT !.quoted = QuotedBehind(b.stack),
                             !.stack = IF @ = <<>> THEN @ ELSE Front(@)]

Found(b) == (EndSegment(b)).out

-----------------------------------------------------------------------------
(***************************************************************************)
(* The shell.  Parentheses, substitutions and the parts of a pipeline run  *)
(* in subshells with a working directory of their own.                     *)
(***************************************************************************)
Frame(via, cwd) ==
  [via |-> via, cwd |-> cwd, words |-> <<>>, word |-> NoWord, quoted |-> FALSE,
   piped |-> FALSE, substituted |-> FALSE]

ShellInit ==
  [frames |-> <<Frame("line", <<>>)>>, pending |-> <<>>, skip |-> <<>>, row |-> NoWord,
   read |-> {}]

Top == Last(shell.frames)
Below == Front(shell.frames)
Reads(f) == Paths(f.cwd, FilesRead(f.words))

\* Where a `cd` of the shell's own leads to: past its options to its one operand, without
\* one to the home directory, and with two nowhere.  Behind `env` it is not the shell's.
Landed(cwd, words) ==
  LET plain == Plain(words)
      args == Tail(plain)
      dirs == Pick(args, {i \in DOMAIN args : \E k \in 1..i : args[k] # "opt"})
  IN  IF plain = <<>> \/ Head(plain) # "cd" \/ Len(dirs) > 1 THEN cwd
      ELSE CASE dirs = <<>>        -> <<"home">>
             [] dirs = <<Unknown>> -> <<Unknown>>
             [] OTHER              -> IF Usable(dirs[1]) THEN Append(cwd, dirs[1]) ELSE cwd

\* A command before `;` or a newline runs in the shell itself, and one in a pipeline or
\* before `&` in a subshell.
InShell(f, by) == by = "seq" /\ ~f.piped

Ran(f, by) ==
  [Frame(f.via, IF InShell(f, by) THEN Landed(f.cwd, f.words) ELSE f.cwd)
     EXCEPT !.piped = (by = "pipe")]

Argument(f, x) == [f EXCEPT !.words = Append(@, x)]

Announced(f, x) == f.words # <<>> /\ Last(f.words) = "<<"

InDoc == shell.skip # <<>>

LineInit ==
  /\ scan = ScanInit
  /\ shell = ShellInit
  /\ count = 0
  /\ quirks = {}

\* What the symbol adds to the constructs the scanner does not follow.
Quirk(q) == quirks' = quirks \cup q /\ Cardinality(quirks') <= MaxQuirks

If(cond, name) == IF cond THEN {name} ELSE {}

Symbol == count < MaxSymbols /\ count' = count + 1

After(x) == Top.words # <<>> /\ Last(Top.words) = x
AfterRedirection == Top.words # <<>> /\ Last(Top.words) \in Redirection
Begins(x) == Top.words # <<>> /\ Head(Top.words) = x

\* What may stand here: a command where one starts, arguments behind it.
Fits(x) ==
  IF AfterRedirection THEN x \in Name
  ELSE /\ ~Begins(Parens)
       /\ CASE Plain(Top.words) = <<>> -> x \in Word \ (Name \cup {"opt"})
            [] After("env") -> x \in Word \ Name
            [] OTHER -> x \in Name \cup {"opt"} \/ (x = "cat" /\ Begins("echo"))

AppendWord(x) ==
  /\ Symbol /\ ~InDoc /\ ~Top.quoted /\ Fits(x)
  /\ Len(Top.words) < MaxWords
  /\ scan' = ScanWord(scan, x)
  /\ shell' = [shell EXCEPT !.frames = Append(Below, Argument(Top, x)),
                 !.pending = IF Announced(Top, x) THEN Append(@, x) ELSE @]
  /\ Quirk(If(Top.substituted, "words behind a substitution")
            \cup If(Announced(Top, x) /\ shell.pending # <<>> /\ Last(shell.pending) = x,
                    "one tag twice"))

Redirect(x) ==
  /\ Symbol /\ ~InDoc /\ ~Top.quoted /\ ~AfterRedirection
  /\ Top.words # <<>> /\ Len(Top.words) < MaxWords
  /\ scan' = ScanWord(scan, x)
  /\ shell' = [shell EXCEPT !.frames = Append(Below, Argument(Top, x))]
  /\ Quirk(If(Top.substituted, "words behind a substitution"))

\* A line of a here-document, or a word in quotes.
Typed(x) ==
  /\ Symbol
  /\ InDoc \/ Top.quoted
  /\ scan' = IF x = "sep" THEN ScanSeparator(scan, x) ELSE ScanWord(scan, x)
  /\ shell' = IF InDoc THEN [shell EXCEPT !.row = Glue(@, x)]
              ELSE [shell EXCEPT !.frames =
                      Append(Below, [Top EXCEPT !.word = Glue(@, x)])]
  /\ UNCHANGED quirks

\* The scanner follows a `cd` that moves only a subshell.
Chdirs(f) == ChangesTo(f.words) # {}

ScopedCd(by) ==
  If(Chdirs(Top) /\ (by = "pipe" \/ Top.piped \/ Top.via # "line"), "cd in a subshell")
    \cup If(Chdirs(Top) /\ by = "background", "cd in the background")

\* The scanner takes `cd` behind env for the shell's, and the first word behind it for the
\* directory.
MisreadCd(words) ==
  LET cmd == Command(Plain(words))
      args == Range(Tail(cmd))
  IN  IF cmd = <<>> \/ Head(cmd) # "cd" THEN {}
      ELSE If(Head(Plain(words)) # "cd", "cd behind a wrapper")
             \cup If("opt" \in args, "cd with an option")
             \cup If(args = {}, "cd to the home directory")
             \cup If(Len(cmd) > 2, "cd with two operands")
             \cup If(Unknown \in args, "cd with a substitution")

Separate(by) ==
  /\ Symbol /\ ~InDoc /\ ~Top.quoted /\ Top.words # <<>> /\ ~AfterRedirection
  /\ scan' = ScanSeparator(scan, "sep")
  /\ shell' = [shell EXCEPT !.frames = Append(Below, Ran(Top, by)),
                            !.read = @ \cup Reads(Top)]
  /\ Quirk(ScopedCd(by) \cup MisreadCd(Top.words))

Newline ==
  /\ Symbol /\ ~Top.quoted /\ ~AfterRedirection
  /\ scan' = ScanNewline(scan)
  /\ IF InDoc
     THEN /\ shell' = [shell EXCEPT !.row = NoWord,
                         !.skip = IF shell.row = Head(@) THEN Tail(@) ELSE @]
          /\ UNCHANGED quirks
     ELSE /\ Top.words # <<>>
          /\ shell' = [shell EXCEPT !.frames = Append(Below, Ran(Top, "seq")),
                         !.read = @ \cup Reads(Top), !.skip = shell.pending, !.pending = <<>>]
          /\ Quirk(ScopedCd("seq") \cup MisreadCd(Top.words))

Quote ==
  /\ Symbol /\ ~InDoc
  /\ IF Top.quoted
     THEN shell' = [shell EXCEPT !.frames = Append(Below,
                      [Top EXCEPT !.quoted = FALSE, !.words = Ended(@, Top.word),
                                  !.word = NoWord])]
     ELSE /\ Top.words # <<>> /\ ~Begins(Parens) /\ Len(Top.words) < MaxWords
          /\ ~After("<<")
          /\ shell' = [shell EXCEPT !.frames = Append(Below,
                         [Top EXCEPT !.quoted = TRUE, !.word = Empty])]
  /\ scan' = ScanQuote(scan)
  /\ Quirk(If(~Top.quoted /\ Top.substituted, "words behind a substitution"))

OpenParens ==
  /\ Symbol /\ ~InDoc /\ ~Top.quoted /\ Top.words = <<>>
  /\ Len(shell.frames) <= MaxDepth
  /\ scan' = ScanSeparator(scan, "(")
  /\ shell' = [shell EXCEPT !.frames = Append(@, Frame("paren", Top.cwd))]
  /\ UNCHANGED quirks

\* `x $(`, or `x a$(`: a word, glued to the substitution, is in the segment that ends.
OpenSubst(prefix) ==
  /\ Symbol /\ ~InDoc /\ Top.words # <<>> /\ ~Begins(Parens) /\ ~After("<<")
  /\ Len(Top.words) < MaxWords /\ Len(shell.frames) <= MaxDepth
  /\ LET b == IF prefix = NoWord THEN scan ELSE [scan EXCEPT !.word = Glue(@, prefix)]
     IN  scan' = ScanSubst(b)
  /\ shell' = [shell EXCEPT !.frames = Append(@, Frame("subst", Top.cwd))]
  /\ Quirk(If(prefix # NoWord \/ Top.word \notin {NoWord, Empty}, "word with a substitution")
            \cup If(Top.substituted, "words behind a substitution")
            \cup If(Chdirs(Top), "cd with a substitution"))

\* The output of a substitution is a word, or part of one.
Return(f) ==
  IF f.quoted THEN [f EXCEPT !.word = Unknown, !.substituted = TRUE]
  ELSE [f EXCEPT !.words = Append(@, Unknown), !.substituted = TRUE]

Close ==
  /\ Symbol /\ ~InDoc /\ ~Top.quoted /\ Top.via # "line" /\ ~AfterRedirection
  /\ shell.pending = <<>>
  /\ scan' = ScanClose(scan)
  /\ LET outer == Last(Below)
     IN  shell' = [shell EXCEPT !.read = @ \cup Reads(Top),
                     !.frames = Append(Front(Below),
                        IF Top.via = "subst" THEN Return(outer) ELSE Argument(outer, Parens))]
  /\ Quirk(ScopedCd("seq")
            \cup If(Top.via = "paren" /\ \E i \in DOMAIN Below : Below[i].via = "subst",
                    "parentheses in a substitution"))

LineNext ==
  \/ \E x \in Word : AppendWord(x)
  \/ \E x \in Redirection : Redirect(x)
  \/ \E x \in {"a", "cat", "sep"} : Typed(x)
  \/ \E by \in {"seq", "pipe", "background"} : Separate(by)
  \/ Newline \/ Quote \/ OpenParens \/ Close
  \/ \E prefix \in {NoWord, "a"} : OpenSubst(prefix)

LineSpec == LineInit /\ [][LineNext]_shellVars

-----------------------------------------------------------------------------
Complete ==
  /\ Len(shell.frames) = 1 /\ Top.words = <<>> /\ ~Top.quoted /\ ~Top.piped
  /\ ~InDoc /\ shell.pending = <<>>

\* On a line the scanner follows, it finds exactly what the known readers read: no
\* quoting, redirection, here-document, wrapper of a reader, plain `cd` or substitution
\* hides a file or makes one up.  quirks names what it does not follow, a `cd` that is not
\* plain among it.
PlainLinesExact == Complete /\ quirks = {} => Found(scan) = shell.read
=============================================================================
