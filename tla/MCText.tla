------------------------------- MODULE MCText -------------------------------
(* The three text modules side by side: every behaviour is a program that uses one of them. *)
EXTENDS CommandLine, Iso8601, Lookup
o(arg, val) == [arg |-> arg, val |-> val]
TestLetters == ("v" :> "optional") @@ ("c" :> "required") @@ ("h" :> "none")
TestNames == ("version" :> o("none", "V")) @@ ("verbose" :> o("optional", "v"))
             @@ ("config" :> o("required", "c")) @@ ("help" :> o("none", "h"))
d == "-"
Items == { <<"a">>, <<"b">>, <<d, d>>, <<d>>, <<d, "h">>, <<d, "h", "v">>, <<d, "v", "=", "h">>,
           <<d, "h", "h", "c">>, <<d, "h", "=">>, <<d, "c", "x">>, <<d, "x">>, <<d, d, "c">>, <<d, d, "h", ":">>,
           <<d, d, "help">>, <<d, d, "version", "=", "x">>, <<d, d, "verbose">>,
           <<d, d, "verbose", ":", "x">>, <<d, d, "config">>, <<d, d, "config", " ", "x">>,
           <<d, d, "config", ":", "x", "=">>, <<d, d, "h", "v">>, <<d, d, "v", ":", "=">> }
TestLines == UNION {[1..n -> Items] : n \in 0..2}
             \cup {<<i, j, k>> : i, j \in Items, k \in {<<"a">>, <<d, d>>, <<d, "h", "c">>}}
             \cup [1..5 -> {<<"a">>, <<"b">>, <<d, d>>, <<d, "h", "c">>, <<d, d, "config">>}]

TestDigits == ("1" :> 1) @@ ("25" :> 25) @@ ("90" :> 90) @@ ("3700" :> 3700)
tm(y, m, dd, h, mi, s) == [year |-> y, mon |-> m, mday |-> dd, hour |-> h, min |-> mi, sec |-> s]
TestMoments == { tm(99, 11, 31, 23, 59, 59), tm(104, 0, 31, 0, 0, 0), tm(103, 1, 28, 12, 30, 0),
                 tm(104, 1, 29, 23, 0, 59), tm(100, 1, 28, 23, 59, 0) }
TestFields == [year : {0, 1}, mon : {0, 1, 25}, mday : {0, 1, 90}, hour : {0, 25}, min : {0, 1, 90},
               sec : {0, 3700}]
TestPeriods == {Written(f) : f \in TestFields}
               \cup { <<"P", "1", "M", "25", "S">>, <<"P", "1">>, <<"1", "Y">>, <<"P", "Y">>,
                      <<"R", "1", "/", "P", "1", "Y">>, <<"P", "1", "W">>, <<"P", "T", "1", "H", "1", "H">>,
                      <<"P", "1", "D", "/", "1", "Y", "T", "25", "M">>, <<"P", "1", "H">>, <<>> }

TestStrtol == ("5" :> [val |-> 5, errno |-> FALSE])
              @@ ("99999999999999999999" :> [val |-> -1, errno |-> TRUE])
TestEnum == (<<"warn">> :> 3) @@ (<<"info">> :> 4)
TestTranslate == (<<"warn">> :> 3)
Scalars(texts) == {[kind |-> "scalar", text |-> t, pairs |-> <<>>, items |-> <<>>] : t \in texts}
Texts == { <<>>, <<"5">>, <<" ", "5">>, <<"5", " ">>, <<"warn">>, <<"warn", " ">>, <<" ", "warn">>,
           <<"#", " ", "5">>, <<"#", "warn">>, <<"no">>, <<"99999999999999999999">> }
Mapping(pairs) == [kind |-> "mapping", text |-> <<>>, pairs |-> pairs, items |-> <<>>]
Sequence(items) == [kind |-> "sequence", text |-> <<>>, pairs |-> <<>>, items |-> items]
Tree(x, y) == Mapping(<< << <<"logging">>, Mapping(<< << <<"level">>, x>>,
                                                       << <<"classes">>, Sequence(<<y, Mapping(<< << <<"level">>, y>> >>)>>)>>,
                                                       << <<"level">>, y>> >>)>>,
                         << <<"level">>, y>> >>)
TestDocuments == {None} \cup {Tree(x, y) : x \in Scalars({<<"5">>}), y \in Scalars(Texts)}
Below(nodes) == UNION {{node.pairs[i][2] : i \in DOMAIN node.pairs} \cup Range(node.items) : node \in nodes}
TestNodes == LET one == TestDocuments \ {None}  two == Below(one)  three == Below(two)  four == Below(three)
             IN one \cup two \cup three \cup four \cup Below(four)
q(fmt, args) == [fmt |-> fmt, args |-> args]
L == <<"logging">>
V == <<"level">>
C == <<"classes">>
TestQuestions == { q(V, <<>>), q(L \o <<".">> \o V, <<>>), q(<<"%s", ".", "level">>, <<L>>), q(C, <<>>),
                   q(<<"@", "classes", ".", "%d">>, <<0>>), q(<<"%s", ".", "%d", ".", "%s">>, <<C, 1, V>>),
                   q(<<"classes", ".", "%d">>, <<2>>), q(None, <<L, V>>), q(None, <<L, C>>), q(<<>>, <<>>),
                   q(<<"%d", ".", "level">>, <<1>>) }
TestContexts == { q(L, <<>>), q(<<"%s">>, <<L>>), q(<<"@", "logging", ".", "classes">>, <<>>),
                  q(<<"logging", ".", "%s", ".", "%d">>, <<C, 1>>), q(None, <<L, V>>), q(<<"other">>, <<>>) }

-----------------------------------------------------------------------------
\* A program that uses one of the three.
Nobody == <<NULL>>
OptionsIdle == /\ given = NULL /\ permute = FALSE /\ argv = Nobody /\ optind = 0 /\ optend = 0
               /\ optpos = 0 /\ reported = <<>> /\ parsing = "none"
IsoIdle == /\ start = NULL /\ period = <<>> /\ at = 0 /\ value = 0 /\ lastUnit = NoChar /\ lastChar = NoChar
           /\ t1 = NULL /\ t2 = NULL /\ error = FALSE /\ isoPc = "none"
LookIdle == document = None /\ root = None /\ context = None /\ told = None /\ answer = None
Init == \/ OptionsInit /\ IsoIdle /\ LookIdle
        \/ OptionsIdle /\ IsoInit /\ LookIdle
        \/ OptionsIdle /\ IsoIdle /\ LookInit
Options == parsing # "none" /\ OptionsNext /\ UNCHANGED <<isoVars, lookVars>>
Interval == isoPc # "none" /\ IsoNext /\ UNCHANGED <<optVars, lookVars>>
\* A settings_get function leaves document and context alone: what can follow it
\* can follow without it.
Parameters == /\ parsing = "none" /\ isoPc = "none"
              /\ told # None => told.kind \notin Kinds
              /\ LookNext
              /\ UNCHANGED <<optVars, isoVars>>
Next == Options \/ Interval \/ Parameters
vars == <<optVars, isoVars, lookVars>>
Spec == Init /\ [][Next]_vars /\ WF_vars(Interval)
=============================================================================
