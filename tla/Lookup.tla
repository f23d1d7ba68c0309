------------------------------- MODULE Lookup -------------------------------
(***************************************************************************)
(* settings.c and settings_yaml.c: how a parameter is found in the document *)
(* and what a settings_get function makes of it.                            *)
(*                                                                          *)
(* A node is [kind, text, pairs, items]: the text of a scalar, the pairs     *)
(* <<name, node>> of a mapping, the items of a sequence.  A text is the      *)
(* sequence of its words, groups of digits, blanks and signs; a format too,  *)
(* in which "%s" and "%d" are one each.  The arguments are in the order in   *)
(* which va_arg takes them.                                                  *)
(***************************************************************************)
EXTENDS Integers, SequencesExt

CONSTANTS Nodes,      \* of the parsed documents
          Documents,  \* root nodes, and None for a handle without a document
          Questions,  \* [fmt, args]: what the application asks for
          Contexts,   \* what it gives to settings_setcontext
          Strtol,     \* group of digits -> [val, errno]
          Enum,       \* word -> value, the names of an enumeration
          Translate,  \* word -> value, the function given to settings_getnamed
          None, Unset

ASSUME NodesAssumption ==
    /\ \A node \in Nodes : node \in [kind : STRING, text : Seq(STRING), items : Seq(Nodes),
                                    pairs : Seq(Seq(STRING) \X Nodes)]
    /\ Documents \subseteq Nodes \union {None}

\* A parameter is asked for by a format and its arguments, or by names alone.
Formats == Seq(STRING \union {"."})
ASSUME QuestionsAssumption ==
    \A q \in Questions \union Contexts :
       /\ q.fmt # None => q.fmt \in Formats
       /\ Len(q.args) \in Nat /\ q.args = [i \in 1..Len(q.args) |-> q.args[i]]

\* The path of a context does not end in the middle, and has an argument for each
\* of its conversions, which stand where names begin.
Conversions(fmt) == {i \in 1..Len(fmt) : fmt[i] \in {"%s", "%d"}}
ASSUME ContextsAssumption ==
    \A c \in Contexts : c.fmt # None =>
       /\ c.fmt # <<>> /\ c.fmt[Len(c.fmt)] # "."
       /\ \A i \in Conversions(c.fmt) \ {1} : i - 1 \in Conversions(c.fmt) \/ c.fmt[i - 1] = "."
       /\ Len(c.args) = Cardinality(Conversions(c.fmt))

ASSUME ValuesAssumption ==
    /\ None \notin Nodes \union Formats \union Seq(STRING) \union Int
    /\ Unset \notin Seq(STRING) \union Int
    /\ \A g \in DOMAIN Strtol : Strtol[g] \in [val : Int, errno : BOOLEAN]
    /\ \A t \in DOMAIN Enum : Enum[t] \in Int
    /\ \A t \in DOMAIN Translate : Translate[t] \in Int

VARIABLES document,
          root,       \* the context of the handle, None for the document
          context,    \* the question that led to root
          told,       \* the last question, None before the first
          answer      \* [rc, val]: what the call returned and left in the result

lookVars == <<document, root, context, told, answer>>

-----------------------------------------------------------------------------
(* settings_yaml.c                                                          *)

ByName(node, name) ==           \* getnodebyname: the first pair of that name
    LET found == {i \in 1..Len(node.pairs) : node.pairs[i][1] = name}
    IN IF node.kind # "mapping" \/ found = {} THEN None
       ELSE node.pairs[CHOOSE i \in found : \A j \in found : i <= j][2]

ByIndex(node, index) ==         \* getnodebyindex counts from 0, down to 0
    IF node.kind # "sequence" \/ index \notin 0..(Len(node.items) - 1) THEN None
    ELSE node.items[index + 1]

\* One turn of the loop of parselocate: w is the node, what is left of the
\* format, and the arguments that are left.
Until(t, ch) == LET i == SelectInSeq(t, LAMBDA x : x = ch)
                IN IF i = 0 THEN t ELSE SubSeq(t, 1, i - 1)
KeepDot(fmt) == fmt
SkipDot(fmt) == IF fmt # <<>> /\ fmt[1] = "." THEN Tail(fmt) ELSE fmt
Descend(w) ==
    CASE w.fmt[1] = "%s" -> [node |-> ByName(w.node, w.args[1]), fmt |-> SkipDot(Tail(w.fmt)),
                             args |-> Tail(w.args)]
      [] w.fmt[1] = "%d" -> [node |-> ByIndex(w.node, w.args[1]), fmt |-> SkipDot(Tail(w.fmt)),
                             args |-> Tail(w.args)]
      [] OTHER ->
         LET fmt == IF w.fmt[1] = "@" THEN Tail(w.fmt) ELSE w.fmt
             name == Until(fmt, ".")
         IN [node |-> ByName(w.node, name),
             fmt |-> SkipDot(SubSeq(fmt, Len(name) + 1, Len(fmt))), args |-> w.args]

\* Turn i; without a format the names are the arguments.
Advance(w, q, i) == IF w.node = None \/ w.fmt = <<>> THEN w
                    ELSE IF q.fmt = None THEN [w EXCEPT !.node = ByName(@, q.args[i])]
                    ELSE Descend(w)
Turns(q) == IF q.fmt = None THEN Len(q.args) ELSE Len(q.fmt)
Begin(node, q) == [node |-> node, fmt |-> q.fmt, args |-> q.args]
Follow(node, q) ==
    LET w[i \in 0..Turns(q)] == IF i = 0 THEN Begin(node, q) ELSE Advance(w[i - 1], q, i)
    IN w[Turns(q)].node
Locate(from, q) == LET node == IF from = None THEN document ELSE from
                   IN IF node = None THEN None ELSE Follow(node, q)

Blank == " "
Blankless(t) == LET i == SelectInSeq(t, LAMBDA x : x # Blank)
                IN IF i = 0 THEN <<>> ELSE SubSeq(t, i, Len(t))

\* Blanks are taken off in front only: the loop that takes them off at the end
\* looks at the character behind the last.
Scalar(node) == IF node.kind = "scalar" THEN Blankless(node.text) ELSE None

NodeCount(node) == CASE node.kind = "sequence" -> Len(node.items)
                     [] node.kind = "mapping" -> Len(node.pairs)
                     [] OTHER -> 0

-----------------------------------------------------------------------------
(* settings.c: a text becomes [ok, val].                                    *)

\* strtol skips blanks, reads 0 from what is no number, and sets errno for one
\* that is too large.
Number(t) == LET u == Blankless(t)
             IN IF u # <<>> /\ u[1] \in DOMAIN Strtol
                THEN [val |-> Strtol[u[1]].val, errno |-> Strtol[u[1]].errno, read |-> TRUE]
                ELSE [val |-> 0, errno |-> FALSE, read |-> FALSE]
AnyNumber(t) == LET n == Number(t) IN [ok |-> ~n.errno, val |-> n.val]   \* int and long
SomeNumber(t) == LET n == Number(t) IN [ok |-> ~n.errno /\ n.read, val |-> n.val]

Named(table, t) == IF t \in DOMAIN table THEN [ok |-> TRUE, val |-> table[t]]
                   ELSE [ok |-> FALSE, val |-> Unset]
EnumOf(t) ==
    LET n == Number(t) IN
    IF ~n.errno /\ n.read THEN [ok |-> TRUE, val |-> n.val]
    ELSE IF t \in DOMAIN Enum THEN Named(Enum, t) ELSE [ok |-> FALSE, val |-> n.val]

Hash(t) == t # <<>> /\ t[1] = "#"
CountOf(t) == SomeNumber(IF Hash(t) THEN Tail(t) ELSE t)
NamedOf(t) == IF Hash(t) THEN SomeNumber(Tail(t)) ELSE Named(Translate, Until(t, Blank))

Parsed(kind, t) == CASE kind = "bool" -> [ok |-> TRUE, val |-> 1]
                     [] kind \in {"int", "long"} -> AnyNumber(t)
                     [] kind = "string" -> [ok |-> TRUE, val |-> t]
                     [] kind = "enum" -> EnumOf(t)
                     [] kind = "count" -> CountOf(t)
                     [] kind = "named" -> NamedOf(t)

Kinds == {"bool", "int", "long", "string", "enum", "count", "named"}

\* parsescalar; before is what the result holds before the call.
Or(default, val) == IF default = None THEN val ELSE default
ParseScalar(kind, node, default, before) ==
    LET text == IF node = None THEN None ELSE Scalar(node)
        p == Parsed(kind, text)
    IN IF node = None THEN [rc |-> IF default = None THEN 1 ELSE 0, val |-> Or(default, before)]
       ELSE IF text = None THEN [rc |-> -1, val |-> Or(default, before)]
       ELSE IF p.ok THEN [rc |-> 0, val |-> p.val]
       ELSE [rc |-> -1, val |-> IF default # None THEN default
                                ELSE IF p.val = Unset THEN before ELSE p.val]

GetNumber(kind, q, default) == ParseScalar(kind, Locate(root, q), default, Unset)
GetBool(q) == ParseScalar("bool", Locate(root, q), None, 0)
GetString(q, default) ==
    LET a == ParseScalar("string", Locate(root, q), None, None)
    IN [a EXCEPT !.val = IF @ = None THEN default ELSE @]

Get == \E kind \in Kinds, q \in Questions, default \in {None, 7} :
    /\ kind = "bool" => default = None
    /\ answer' = CASE kind = "bool" -> GetBool(q)
                   [] kind = "string" -> GetString(q, default)
                   [] OTHER -> GetNumber(kind, q, default)
    /\ told' = [kind |-> kind, q |-> q, default |-> default]
    /\ UNCHANGED <<document, root, context>>

GetCompound == \E q \in Questions :
    /\ answer' = [rc |-> 0, val |-> IF Locate(root, q) = None THEN -1
                                    ELSE NodeCount(Locate(root, q))]
    /\ told' = [kind |-> "compound", q |-> q, default |-> None]
    /\ UNCHANGED <<document, root, context>>

SetContext == \E q \in Contexts :
    LET node == Locate(None, q) IN
    /\ IF node = None THEN UNCHANGED <<root, context>>
                      ELSE root' = node /\ context' = q
    /\ answer' = [rc |-> IF node = None THEN -1 ELSE 0, val |-> Unset]
    /\ told' = [kind |-> "context", q |-> q, default |-> None]
    /\ UNCHANGED document

LookInit == /\ document \in Documents
            /\ root = None
            /\ told = None /\ answer = None
            /\ context = None
LookNext == Get \/ GetCompound \/ SetContext

LookSpec == LookInit /\ [][LookNext]_lookVars

-----------------------------------------------------------------------------
\* A call that returns 0 has a value to give: the parameter's or, when there is
\* none, the default.  A name or a count is then one that the text spells, and
\* never the 0 that strtol makes of any word.  A call that fails leaves the
\* default, if it was given one (parsescalar, lines 214 to 243).
Word(t, n) == SubSeq(t, 1, n)
AnswerIsWarranted ==
    told # None /\ told.kind \in Kinds =>
       LET node == Locate(root, told.q)
           text == IF node = None THEN None ELSE Scalar(node)
           ok == answer.rc = 0
       IN /\ ok => answer.val # Unset
          /\ told.default # None /\ ~ok => answer.val = told.default
          /\ ok /\ node = None => answer.val = told.default
          /\ ok /\ node # None /\ told.kind \in {"enum", "count", "named"}
             => \/ \E i \in 1..Len(text) :
                      /\ text[i] \in DOMAIN Strtol /\ answer.val = Strtol[text[i]].val
                      /\ \A j \in 1..(i - 1) : \/ text[j] = Blank
                                              \/ /\ j = 1 /\ text[j] = "#"
                                                 /\ told.kind # "enum"
                \/ told.kind = "enum" /\ text \in DOMAIN Enum /\ answer.val = Enum[text]
                \/ \E n \in 0..Len(text) :
                      /\ told.kind = "named" /\ Word(text, n) \in DOMAIN Translate
                      /\ answer.val = Translate[Word(text, n)]
                      /\ \A j \in 1..n : text[j] # Blank
                      /\ n < Len(text) => text[n + 1] = Blank
          /\ ok /\ node # None => text # None

\* A question asked in a context is the question with the path of the context in
\* front (settings_setcontext, which itself starts from the document always).
Joined(c, q) == [fmt |-> c.fmt \o <<".">> \o q.fmt, args |-> c.args \o q.args]
ContextIsAPrefix ==
    told # None /\ told.kind = "context" /\ root # None /\ context.fmt # None =>
       \A q \in Questions : q.fmt # None => Locate(root, q) = Locate(None, Joined(context, q))
=============================================================================
