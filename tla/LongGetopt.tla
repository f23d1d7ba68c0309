----------------------------- MODULE LongGetopt -----------------------------
(***************************************************************************)
(* longgetopt.c: the re-entrant option parser.  One call of longgetopt      *)
(* after another is made, as tests/longgetopttest.c does, until one returns *)
(* -1 or '?'.                                                               *)
(*                                                                          *)
(* An item of argv is the sequence of its characters, each a string; the    *)
(* name of a long option counts as one character longer than a letter.      *)
(* Indices are those of C: s[i] is the character At(s, i), the empty string *)
(* at the terminating NUL.                                                  *)
(***************************************************************************)
EXTENDS Integers, SequencesExt

CONSTANTS Letters,    \* letter -> "none", "required" or "optional" (optstring)
          Names,      \* name of a long option -> [arg, val] (longopts)
          Lines,      \* the argument vectors
          NULL

VARIABLES given,      \* argv as it was at the first call
          permute,    \* _permute: not POSIXLY_CORRECT, no + in the optstring
          argv, optind, optend, optpos,
          reported,   \* what the calls so far have returned, with optarg
          parsing     \* "parse", "end" (a call returned -1) or "bad" (it returned '?')

optVars == <<given, permute, argv, optind, optend, optpos, reported, parsing>>

Separators == {"=", " ", ":"}

ASSUME LinesAssumption == \A line \in Lines : line \in Seq(Seq(STRING))
ASSUME NullAssumption == NULL \notin Seq(STRING)

\* A separator ends a name, so that it is no part of one; nor is the NUL that
\* ends an item.
ASSUME OptionsAssumption ==
    (Separators \union {""}) \cap (DOMAIN Letters \union DOMAIN Names) = {}

At(s, i) == IF i < Len(s) THEN s[i + 1] ELSE ""
From(s, i) == SubSeq(s, i + 1, Len(s))

Report(opt, arg) == [opt |-> opt, arg |-> arg]
Bad(arg) == Report("?", arg)

OptionsInit ==
    /\ given \in Lines
    /\ permute \in BOOLEAN
    /\ argv = given
    /\ optind = 0 /\ optend = Len(given) /\ optpos = 0
    /\ reported = <<>>
    /\ parsing = "parse"

-----------------------------------------------------------------------------
(* One call: its return value with optarg, and what optpos and optind       *)
(* become.                                                                  *)

\* permute: the k items at optind go, one by one, to the end of the vector.
MoveInFront(v, i, k) ==
    SubSeq(v, 1, i) \o From(v, i + k) \o Reverse(SubSeq(v, i + 1, i + k))
MoveToEnd(v, i, k) ==
    SubSeq(v, 1, i) \o From(v, i + k) \o SubSeq(v, i + 1, i + k)

\* Once the letter of s at position `at` is known to take an argument, the rest
\* of the item is it, or else the next item is.
KeepSeparator(rest) == rest
DropSeparator(rest) == IF rest[1] \in Separators THEN Tail(rest) ELSE rest

LetterArgument(s, at, i, v, end) ==
    LET ch == At(s, at)  rest == From(s, at + 1) IN
    IF rest # <<>>
    THEN [ret |-> Report(ch, DropSeparator(rest)), optpos |-> Len(s) - 1, optind |-> i]
    ELSE IF Letters[ch] = "optional"
    THEN [ret |-> Report(ch, NULL), optpos |-> at, optind |-> i]
    ELSE IF i < end
    THEN [ret |-> Report(ch, At(v, i)), optpos |-> 0, optind |-> i + 1]
    ELSE [ret |-> Bad(NULL), optpos |-> at, optind |-> i]

Letter(s, at, i, v, end, argument) ==
    LET ch == At(s, at) IN
    IF ch \notin DOMAIN Letters
    THEN [ret |-> Bad(argument), optpos |-> at, optind |-> i]
    ELSE IF Letters[ch] # "none" THEN LetterArgument(s, at, i, v, end)
    ELSE IF At(s, at + 1) \in {"=", " "}
    THEN [ret |-> Bad(From(s, at + 2)), optpos |-> at, optind |-> i]
    ELSE [ret |-> Report(ch, NULL), optpos |-> at, optind |-> i]

\* An item that starts with two dashes: the first = in it ends the name, without
\* one the first blank, without one the first colon.
NameEnd(t) == LET first(ch) == SelectInSeq(t, LAMBDA x : x = ch)
              IN IF first("=") > 0 THEN first("=") ELSE IF first(" ") > 0 THEN first(" ")
                 ELSE IF first(":") > 0 THEN first(":") ELSE Len(t) + 1

Name(s, i, v, end) ==
    LET t == From(s, 2)
        name == SubSeq(t, 1, NameEnd(t) - 1)
        argument == IF NameEnd(t) > Len(t) THEN NULL ELSE From(t, NameEnd(t))
        same(r, j) == [ret |-> r, optpos |-> 0, optind |-> j]
    IN IF Len(name) = 1 /\ name[1] \in DOMAIN Names
       THEN LET o == Names[name[1]] IN
            IF o.arg = "none" /\ argument # NULL THEN same(Bad(argument), i)
            ELSE IF o.arg = "required" /\ argument = NULL
            THEN IF i < end THEN same(Report(o.val, At(v, i)), i + 1) ELSE same(Bad(NULL), i)
            ELSE same(Report(o.val, argument), i)
       ELSE IF Len(name) = 1 /\ name[1] \in DOMAIN Letters
       THEN Letter(s, 2, i, v, end, argument)
       ELSE same(Bad(NULL), i)

\* What the call does with the option it found.
Found(r, v, end) ==
    /\ reported' = Append(reported, r.ret)
    /\ parsing' = IF r.ret.opt = "?" THEN "bad" ELSE "parse"
    /\ argv' = v /\ optend' = end
    /\ optpos' = r.optpos /\ optind' = r.optind
    /\ UNCHANGED <<given, permute>>

Stop(v, i, end) ==
    /\ argv' = v /\ optind' = i /\ optend' = end
    /\ optpos' = 0
    /\ parsing' = "end"
    /\ UNCHANGED <<given, permute, reported>>

IsOption(item) == At(item, 0) = "-"
EndMark == <<"-", "-">>

\* The item a call looks at last gave a letter, and there is another behind it.
InCluster == optpos > 0 /\ optpos + 1 < Len(argv[optind])

\* The items in front of the next option.
Skipped == LET k == SelectInSubSeq(argv, optind + 1, optend, IsOption)
           IN IF k = 0 THEN optend - optind ELSE k - 1 - optind

NextLetter ==
    /\ parsing = "parse" /\ InCluster
    /\ Found(Letter(argv[optind], optpos + 1, optind, argv, optend, NULL), argv, optend)

NextItem ==
    /\ parsing = "parse" /\ ~InCluster
    /\ LET v == IF permute THEN MoveToEnd(argv, optind, Skipped) ELSE argv
           end == IF permute THEN optend - Skipped ELSE optend
           s == At(v, optind)
           i == optind + 1
       IN IF ~permute /\ Skipped > 0 THEN Stop(v, optind, end)
          ELSE IF optind >= end THEN Stop(v, optind, end - 1)
          ELSE IF s = EndMark
          THEN LET k == IF end - i > 1 THEN end - i - 1 ELSE 0
               IN Stop(MoveToEnd(v, i, k), i, end - k)
          ELSE IF At(s, 1) = "-" THEN Found(Name(s, i, v, end), v, end)
          ELSE Found(Letter(s, 1, i, v, end, NULL), v, end)

OptionsNext == NextLetter \/ NextItem

OptionsSpec == OptionsInit /\ [][OptionsNext]_optVars
=============================================================================
