------------------------------- MODULE Getopt -------------------------------
(***************************************************************************)
(* Options of a command line (getoptb.c): subgetopt is called until it is  *)
(* done, and keeps its place in optind and optpos between the calls.  A    *)
(* word is a sequence of characters; words are counted from 1, as argv is  *)
(* behind the name of the program.                                         *)
(***************************************************************************)
EXTENDS Naturals, Sequences, SequencesExt

CONSTANTS
  Letters,      \* the characters of words
  Dash,         \* one of them
  Plain,        \* options without an argument
  WithArg,      \* options with one
  CommandLines

ASSUME GetoptAssumption ==
  "nul" \notin Letters /\ Plain \cap WithArg = {} /\ CommandLines \subseteq Seq(Seq(Letters))

VARIABLES
  argv, optind, optpos,
  got,      \* history: what the calls returned, with the argument and its word
  finished  \* subgetopt returned optdone: "no", or "operand" or "dashes"

getoptVars == <<argv, optind, optpos, got, finished>>

GetoptInit == argv \in CommandLines /\ optind = 1 /\ optpos = 0 /\ got = <<>> /\ finished = "no"

CharAt(i, p) == IF p < Len(argv[i]) THEN argv[i][p + 1] ELSE "nul"

\* the place the call begins at: behind a word that has been read to its end
Begin == IF optind <= Len(argv) /\ optpos > 0 /\ CharAt(optind, optpos) = "nul" THEN <<optind + 1, 0>> ELSE <<optind, optpos>>

Done(i, why) == optind' = i /\ optpos' = 0 /\ finished' = why /\ UNCHANGED <<argv, got>>

\* getopt: what it says of a problem
Complaint(i) == IF i <= Len(argv) THEN "illegal" ELSE "requires"

Result(i, p, c, arg, word, problem) ==
  /\ optind' = i /\ optpos' = p
  /\ got' = Append(got, [option |-> c, arg |-> arg, word |-> word, problem |-> problem])
  /\ UNCHANGED <<argv, finished>>

\* faulty variant of Option: a missing word is taken for an empty argument
OptionEmpty(i, p) ==
  LET c == CharAt(i, p)
      rest == SubSeq(argv[i], p + 2, Len(argv[i]))
  IN  CASE c \in Plain -> Result(i, p + 1, c, <<>>, 0, "none")
        [] c \in WithArg -> Result(i + 1, 0, c, rest, 0, "none")
        [] OTHER -> Result(i, p + 1, c, <<>>, 0, Complaint(i))

\* an option: its argument is the rest of the word, or the next word
Option(i, p) ==
  LET c == CharAt(i, p)
      rest == SubSeq(argv[i], p + 2, Len(argv[i]))
  IN  CASE c \in Plain -> Result(i, p + 1, c, <<>>, 0, "none")
        [] c \in WithArg /\ rest # <<>> -> Result(i + 1, 0, c, rest, 0, "none")
        [] c \in WithArg /\ rest = <<>> /\ i < Len(argv) -> Result(i + 2, 0, c, argv[i + 1], i + 1, "none")
        [] c \in WithArg /\ rest = <<>> /\ i = Len(argv) -> Result(i + 1, 0, c, <<>>, 0, Complaint(i + 1))
        [] OTHER -> Result(i, p + 1, c, <<>>, 0, Complaint(i))

\* getopt, subgetopt
Subgetopt ==
  LET i == Begin[1]
      p == Begin[2]
  IN  /\ finished = "no"
      /\ CASE i > Len(argv) -> Done(i, "operand")
           [] i <= Len(argv) /\ p > 0 -> Option(i, p)
           [] i <= Len(argv) /\ p = 0 ->
                IF CharAt(i, 0) # Dash \/ CharAt(i, 1) = "nul" THEN Done(i, "operand")
                ELSE IF CharAt(i, 1) = Dash THEN Done(i + 1, "dashes")
                ELSE Option(i, 1)

OptionsSpec == GetoptInit /\ [][Subgetopt]_getoptVars

-----------------------------------------------------------------------------
IsArgument(i) == \E k \in DOMAIN got : got[k].word = i

\* what the options of the first n words, and their arguments, are made of
WordsRead(n) == [i \in 1 .. n |-> IF IsArgument(i) THEN argv[i] ELSE SubSeq(argv[i], 2, Len(argv[i]))]

\* what has been read of the word i, up to p
Begun(i, p) == IF p = 0 THEN <<>> ELSE SubSeq(argv[i], 2, p)

Returned == FlattenSeq([k \in DOMAIN got |-> <<got[k].option>> \o got[k].arg])

\* Options and their arguments are all the characters of the words that were taken, each
\* of them once, whatever way an argument is given, and only a word of its own may be an
\* empty argument; the first word that is left is no option, and what is said of a
\* problem is right (getoptb.c:26-99).  One word is left out: that which begins with two
\* dashes ends the options and is passed over as a whole, so that what stands behind the
\* dashes in it, such as the a of --a, is returned by no call (getoptb.c:68-71).
OptionsAreWords ==
  /\ FlattenSeq(WordsRead(optind - (IF finished = "dashes" THEN 2 ELSE 1))) \o Begun(optind, optpos) = Returned
  /\ \A k \in DOMAIN got :
       /\ got[k].problem = "illegal" <=> got[k].option \notin Plain \cup WithArg
       /\ got[k].problem = "requires" => k = Len(got) /\ optind > Len(argv)
       /\ got[k].problem = "none" /\ got[k].option \in WithArg => got[k].arg # <<>> \/ got[k].word # 0
  /\ finished = "operand" /\ optind <= Len(argv) => argv[optind] = <<>> \/ argv[optind][1] # Dash \/ Len(argv[optind]) = 1
=============================================================================
