---------------------------- MODULE CommandLine ----------------------------
(***************************************************************************)
(* What the parser of LongGetopt promises: the meaning of a command line,   *)
(* read from left to right without moving an item, and that the parser,     *)
(* which permutes the line while it reads, finds it.                        *)
(***************************************************************************)
EXTENDS LongGetopt

Means(opts, took) == [opts |-> opts, took |-> took]
Refused == Means(<<Bad(NULL)>>, FALSE)

\* The letters of s that are options without an argument.
Flags(s) == {i \in 1..Len(s) : s[i] \in DOMAIN Letters /\ Letters[s[i]] = "none"
                               /\ (i < Len(s) => s[i + 1] \notin {"=", " "})}

\* The character at c, which is no such letter: what follows it is its argument,
\* or else the next item is.
Strip(t) == IF t[1] \in Separators THEN Tail(t) ELSE t
LastMeans(s, c, next) ==
    IF c > Len(s) THEN Means(<<>>, FALSE)
    ELSE IF s[c] \notin DOMAIN Letters \/ Letters[s[c]] = "none" THEN Refused
    ELSE IF c < Len(s) THEN Means(<<Report(s[c], Strip(SubSeq(s, c + 1, Len(s))))>>, FALSE)
    ELSE IF Letters[s[c]] = "optional" THEN Means(<<Report(s[c], NULL)>>, FALSE)
    ELSE IF next = NULL THEN Refused
    ELSE Means(<<Report(s[c], next)>>, TRUE)

\* The letters of s from a on: flags up to b, and the character behind them.
LastFlag(s, a) == CHOOSE b \in (a - 1)..Len(s) : a..b \subseteq Flags(s) /\ b + 1 \notin Flags(s)
ClusterMeans(s, a, next) ==
    LET b == LastFlag(s, a)
        flags == [i \in 1..(b - a + 1) |-> Report(s[a + i - 1], NULL)]
    IN [LastMeans(s, b + 1, next) EXCEPT !.opts = flags \o @]

\* A long option, and what stands behind its name.
Parts(rest) == \/ rest = <<>> \/ rest[1] = "="
               \/ rest[1] = " " /\ "=" \notin ToSet(rest)
               \/ rest[1] = ":" /\ {"=", " "} \cap ToSet(rest) = {}
LongMeans(o, rest, next) ==
    IF rest # <<>> THEN IF o.arg = "none" THEN Refused
                        ELSE Means(<<Report(o.val, Tail(rest))>>, FALSE)
    ELSE IF o.arg # "required" THEN Means(<<Report(o.val, NULL)>>, FALSE)
    ELSE IF next = NULL THEN Refused
    ELSE Means(<<Report(o.val, next)>>, TRUE)

\* The options of one item, and whether it takes the next item as an argument.
ItemMeans(s, next) ==
    LET rest == SubSeq(s, 4, Len(s)) IN
    IF Len(s) = 1 THEN Refused
    ELSE IF s[2] # "-" THEN ClusterMeans(s, 2, next)
    ELSE IF ~Parts(rest) THEN Refused
    ELSE IF s[3] \in DOMAIN Names THEN LongMeans(Names[s[3]], rest, next)
    ELSE ClusterMeans(s, 3, next)

\* The line from item i on, by what it means from later items on; perm says whether
\* options may follow operands.
RestMeans(perm, line, i, later) ==
    LET n == Len(line)
        m == ItemMeans(line[i], IF i < n THEN line[i + 1] ELSE NULL)
    IN IF i > n THEN [opts |-> <<>>, words |-> <<>>, marked |-> FALSE]
       ELSE IF ~IsOption(line[i])
       THEN IF perm THEN [later[i + 1] EXCEPT !.words = <<line[i]>> \o @]
            ELSE [opts |-> <<>>, words |-> SubSeq(line, i, n), marked |-> FALSE]
       ELSE IF line[i] = EndMark
       THEN [opts |-> <<>>, words |-> SubSeq(line, i + 1, n), marked |-> i < n]
       ELSE [later[IF m.took THEN i + 2 ELSE i + 1] EXCEPT !.opts = m.opts \o @]

LineMeans(line) == LET from[i \in 1..(Len(line) + 2)] == RestMeans(permute, line, i, from) IN from[1]

-----------------------------------------------------------------------------
\* The options are reported in the order they are written, each once and with
\* the argument that belongs to it, up to the first bad one, although the vector
\* is permuted all the while and a call may go on inside an item (lines 161 to
\* 196).  (What is said of a bad one, optopt and optarg, is left aside.)
Plain(r) == IF r.opt = "?" THEN "?" ELSE r
OptionsAsWritten ==
    parsing # "none" =>
    LET meant == LineMeans(given).opts
        some == [i \in 1..Len(reported) |-> Plain(reported[i])]
    IN /\ Len(reported) <= Len(meant)
       /\ \A i \in 1..Len(reported) : some[i] = Plain(meant[i])
       /\ parsing = "end" => Len(reported) = Len(meant)

\* When the parser is done the operands are behind optind, none lost and none
\* twice, in the order they were given in.  Only an end mark changes that: the
\* loop of lines 185 to 187 stops one short, so the last operand of the line
\* comes first, and the others that follow the mark come after those before it.
OperandsKept ==
    parsing = "end" =>
       LET words == LineMeans(given).words   \* and whether some follow an end mark
           left == From(argv, optind)
           n == Len(words)
       IN IF LineMeans(given).marked
          THEN left = <<words[n]>> \o SubSeq(words, 1, n - 1)
          ELSE left = words
=============================================================================
