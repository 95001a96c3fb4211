------------------------------ MODULE Frontend ------------------------------
(***************************************************************************)
(* Trees and texts for the parser.  Write is the reference: it writes a    *)
(* tree with the parentheses its operators need in the order the comments  *)
(* of expr.go give, not by the table of the parser.  A behaviour wraps a   *)
(* tree in one construct after another, types a text token by token, or    *)
(* types a line of Lexer.                                                  *)
(***************************************************************************)
EXTENDS Parser, Lexer, FiniteSets

CONSTANTS
    InfixOps,    \* the operators of trees: at least one per binding power
    MaxDepth,    \* bound: constructs around the innermost tree
    MaxText,     \* bound: tokens of a typed text
    Keys         \* the tokens a text is typed with

VARIABLES tree, depth, text

vars == <<tree, depth, text, line>>

-----------------------------------------------------------------------------
(* Writing.  The order is that of the header comment of expr.go (6-27),    *)
(* with the comma where the comment at 34-36 puts it, the sign where the   *)
(* one at 51-53 does and a prefix $ where the one at 282-284 does.  The    *)
(* header itself has the sign, :: and $ bind tighter than ^ and @, and the *)
(* constants looser: among those, :: and $ are written with parentheses,   *)
(* and HeaderOrder says what the header promises.                          *)

Tiers ==
    << {":="}, {","}, {"->"}, {"or"}, {"and"}, {"not"}, {"=", "in", "<", ">"}, {"seq"},
       {".."}, {"union"}, {"intersect"}, {"+", "-"}, {"*", "mod"}, {"::", "$"}, {"sign"},
       {"^"}, {"@"}, {"open"}, {".", ":-"}, {"!"} >>

Rank == [op \in UNION Range(Tiers) |-> 2 * (CHOOSE i \in DOMAIN Tiers : op \in Tiers[i])]

\* How tight an operator holds its operands.
Hold(op) == IF op \in {"::", "$"} THEN Rank["open"] ELSE Rank[op]

\* How tight a tree is as an operand.
Level(t) ==
    CASE t.kind \in {"assign", "arrow", "type", "member", "operate"} -> Rank[t.value]
      [] t.kind = "range" -> IF Len(t.nodes) = 1 THEN 0 ELSE Rank[t.value]
      [] t.kind = "unary" -> CASE t.value = "$"     -> Rank["seq"]
                               [] t.value = "!post" -> Rank["!"]
                               [] t.value = "not"   -> Rank["not"]
                               [] OTHER             -> Rank["sign"]
      [] t.kind = "exprseq" -> IF Len(t.nodes) < 2 THEN 0 ELSE Rank[","]
      [] t.kind = "if"      -> Rank["->"]
      [] OTHER -> 100

RightToLeft == {":=", "->", "^"}

RECURSIVE Text(_), Texts(_, _, _)

Write(t, min) ==
    IF Level(t) > min THEN Text(t) ELSE <<"(">> \o Text(t) \o <<")">>

WriteLeft(t, min) == IF t.kind = "if" THEN Write(t, 100) ELSE Write(t, min)

\* The texts of ts, with sep between them.
Texts(ts, min, sep) ==
    IF ts = <<>> THEN <<>>
    ELSE Write(Head(ts), min)
         \o (IF Len(ts) = 1 THEN <<>> ELSE <<sep>> \o Texts(Tail(ts), min, sep))

List(ts) == Texts(ts, Rank[","], ",")

RECURSIVE Arms(_)
Arms(ts) ==
    CASE ts = <<>>    -> <<"fi">>
      [] Len(ts) = 1  -> <<"else">> \o Text(ts[1]) \o <<"fi">>
      [] OTHER        -> Write(ts[1], 0) \o <<"then">> \o Text(ts[2])
                         \o (IF Len(ts) > 3 THEN <<"elif">> ELSE <<>>)
                         \o Arms(SubSeq(ts, 3, Len(ts)))

Flatten(seqs) == FoldLeft(LAMBDA a, b : a \o b, <<>>, seqs)
Each(ts, F(_)) == Flatten([i \in DOMAIN ts |-> F(ts[i])])

Clause(c) ==
    CASE c.value = "var"     -> Write(c.nodes[1], Rank[".."])
      [] c.value = "catch"   -> <<"catch">> \o List(Front(c.nodes)) \o <<":">> \o Text(Last(c.nodes))
      [] c.value = "finally" -> <<"finally">> \o Text(c.nodes[1])
      [] c.value = "try"     -> Text(c.nodes[1])
      [] c.value = "row"     -> Texts(c.nodes, Rank["="], "|")
      [] OTHER               -> <<c.value>> \o Write(c.nodes[1], 0)

Param(p) ==
    IF p.value = "default" THEN Write(p.nodes[1], Rank[","]) \o <<":=">> \o Write(p.nodes[2], Rank[","])
    ELSE Write(p.nodes[1], Rank[","])

Text(t) ==
    LET n == t.nodes
    IN  CASE t.kind \in {"constant", "variable", "empty"} -> <<t.value>>
          [] t.kind = "unary" ->
               IF t.value = "!post" THEN WriteLeft(n[1], Level(t) - 1) \o <<"!">>
               ELSE <<t.value>> \o Write(n[1], Level(t))
          [] t.kind = "range" /\ Len(n) = 1 -> WriteLeft(n[1], Rank[".."] - 1) \o <<"..">>
          [] t.kind \in {"assign", "arrow", "range", "type", "member", "operate"} ->
               LET own == Hold(t.value)
                   right == t.value \in RightToLeft
               IN  WriteLeft(n[1], IF right THEN own ELSE own - 1) \o <<t.value>>
                   \o Write(n[2], IF right THEN own - 1 ELSE own)
          [] t.kind = "call"    -> WriteLeft(n[1], Rank["!"] - 1) \o <<"(">> \o List(Tail(n)) \o <<")">>
          [] t.kind = "index"   -> WriteLeft(n[1], Rank["!"] - 1) \o <<"[">> \o List(Tail(n)) \o <<"]">>
          [] t.kind = "list"    -> <<"[">> \o List(n) \o <<"]">>
          [] t.kind = "set"     -> <<"{">> \o List(n) \o <<"}">>
          [] t.kind = "exprseq" ->
               IF n = <<>> THEN <<>>
               ELSE WriteLeft(n[1], Rank[","]) \o Each(Tail(n), LAMBDA e : <<",">> \o Write(e, Rank[","]))
          [] t.kind = "matrix"  ->
               <<"<">> \o Tail(Each(n, LAMBDA r : <<",">> \o Clause(r))) \o <<">">>
          [] t.kind = "root"    -> Each(n, LAMBDA t2 : Write(t2, 0) \o <<";">>)
          [] t.kind = "if"      -> <<"if">> \o Arms(n)
          [] t.kind = "for"     ->
               (IF n[1].nodes # <<>> /\ n[1].nodes[1].value # "while" THEN <<"for">> ELSE <<>>)
               \o Each(n[1].nodes, Clause) \o <<"do">> \o Text(n[2]) \o <<"end", "do">>
          [] t.kind = "try"     -> <<"try">> \o Each(n, Clause) \o <<"end">>
          [] t.kind = "proc"    ->
               <<"proc", "(">>
               \o (IF n[1].nodes = <<>> THEN <<>> ELSE Tail(Each(n[1].nodes, LAMBDA p : <<",">> \o Param(p))))
               \o <<")">> \o Each(SubSeq(n, 2, Len(n) - 1), LAMBDA d : Text(d) \o <<";">>)
               \o Text(Last(n)) \o <<"end", "proc">>
          [] t.kind = "use" ->
               <<"use">> \o List([i \in 1..Len(n) - 1 |-> n[i].nodes[1]]) \o <<"in">>
               \o Text(Last(n).nodes[1]) \o <<"end", "use">>
          [] t.kind \in {"return", "error", "option", "read"} -> <<t.kind>> \o Texts(n, 0, ",")
          [] t.kind \in {"local", "global", "save"} -> <<t.kind>> \o List(n)
          [] OTHER -> <<t.kind>>

-----------------------------------------------------------------------------
(* Constructs around a tree; a and b stand for the operands beside it.     *)

a == Leaf(CHOOSE n \in Names : TRUE)
b == Leaf(CHOOSE n \in Numbers : TRUE)

\* No operands: an assignment is read between the parentheses of no operand.
IsStatement(t) ==
    t.kind \in {"assign", "for", "try", "return", "error", "break", "next", "empty", "local",
                "option", "save", "read", "use"}

Items2(t) == {<<t>>, <<a, t>>, <<t, a>>}

Expressions(t) ==
    {NodeOf(op, t, b) : op \in InfixOps} \cup {NodeOf(op, b, t) : op \in InfixOps}
    \cup {Node("unary", op, <<t>>) : op \in {"-", "+", "not", "$", "!post"}}
    \cup {Node("range", "..", <<t>>)}
    \cup {Node(kind, "", <<a>> \o ts) : kind \in {"call", "index"}, ts \in Items2(t)}
    \cup {Node(kind, "", <<t, b>>) : kind \in {"call", "index"}}
    \cup {Node(kind, "", ts) : kind \in {"list", "set"}, ts \in Items2(t)}
    \cup {Node("matrix", "", <<Tag("row", <<a, t>>), Tag("row", <<t, b>>)>>)}
    \cup (IF t.kind = "exprseq" THEN {} ELSE {Seqn(<<a, t>>), Seqn(<<t, a>>)})

For(header, body) == Node("for", "", <<Seqn(header), body>>)
Procedure(params, decls, body) == Node("proc", "", <<Tag("params", params)>> \o decls \o <<body>>)
P(t) == Node("param", "", <<t>>)

Conditions(t) ==
    {Node("if", "", <<t, Block(<<a>>)>>),
     Node("if", "", <<a, Block(<<>>), t, Block(<<b>>), Block(<<>>)>>),
     For(<<Tag("var", <<a>>), Tag("in", <<t>>)>>, Block(<<b>>)),
     For(<<Tag("var", <<t>>), Tag("in", <<a>>)>>, Block(<<b>>)),
     For(<<Tag("var", <<a>>), Tag("from", <<t>>), Tag("to", <<b>>), Tag("while", <<t>>)>>, Block(<<>>)),
     For(<<Tag("while", <<t>>)>>, Block(<<a>>)),
     Node("try", "", <<Tag("try", <<Block(<<a>>)>>), Tag("catch", <<t, Block(<<b>>)>>)>>),
     Node("return", "", <<t>>), Node("error", "", <<t>>), Node("read", "", <<t>>),
     Node("save", "", <<a, t>>),
     Procedure(<<P(Node("type", "::", <<a, b>>)), P(a)>>,
               <<Node("local", "", <<a, a>>), Node("option", "", <<t>>)>>, Block(<<b>>))}

Bodies(t) ==
    {Node("if", "", <<a, Block(<<t, t>>), Block(<<t>>)>>),
     For(<<>>, Block(<<t, b>>)),
     Node("try", "", <<Tag("try", <<Block(<<t>>)>>), Tag("catch", <<Block(<<>>)>>),
                       Tag("finally", <<Block(<<t>>)>>)>>),
     Procedure(<<>>, <<>>, Block(<<t, a>>))}

\* A loop without a header is read at the top level only: in a block its `do`
\* counts as a word that closes the block.
IsBare(t) == t.kind = "for" /\ t.nodes[1].nodes = <<>>

Use(t) == Node("use", "", <<Tag("binding", <<t>>), Tag("body", <<Block(<<a>>)>>)>>)

Atoms == {a, Seqn(<<>>), Node("return", "", <<>>), Node("break", "", <<>>),
          Node("empty", "quit", <<>>)}

Init == tree \in Atoms /\ depth = 0 /\ text = <<>> /\ LineInit

Grow ==
    /\ depth < MaxDepth /\ text = <<>> /\ line = <<>> /\ ~IsBare(tree)
    /\ tree' \in Bodies(tree)
                 \cup (IF IsStatement(tree) THEN {} ELSE Expressions(tree) \cup Conditions(tree))
    /\ depth' = depth + 1
    /\ UNCHANGED <<text, line>>

TypeToken(k) ==
    /\ tree = a /\ depth = 0 /\ line = <<>> /\ Len(text) < MaxText
    /\ text' = Append(text, k)
    /\ UNCHANGED <<tree, depth, line>>

TypeLine(c) ==
    /\ tree = a /\ depth = 0 /\ text = <<>>
    /\ TypeChar(c)
    /\ UNCHANGED <<tree, depth, text>>

Next ==
    \/ Grow
    \/ \E k \in Keys : TypeToken(k)
    \/ \E c \in Chars : TypeLine(c)

Spec == Init /\ [][Next]_vars

-----------------------------------------------------------------------------

\* A tree that is written with the parentheses the documented order of the
\* operators calls for is read as that tree, in whatever constructs it stands:
\* no operator takes an operand of another one, no keyword is taken for an
\* operator or a name, and no block ends early.
ReadsWhatIsWritten ==
    LET prog == Block(<<tree, a>>) IN Parse(Text(prog)) = prog

RECURSIVE Leaves(_)
Leaves(t) ==
    (IF t.value \in Names \cup Numbers THEN <<t.value>> ELSE <<>>)
    \o Flatten([i \in DOMAIN t.nodes |-> Leaves(t.nodes[i])])

\* A text over Keys of up to MaxText tokens that the parser accepts keeps every
\* operand, in order: none is skipped as a separator or a closing word.  The
\* tokens of a module are not among them: its parameter list is dropped.
NothingLost ==
    LET parsed == Parse(text)
    IN  parsed.kind # "error" =>
            Leaves(parsed) = SelectSeq(text, LAMBDA k : k \in Names \cup Numbers)

\* What the header of expr.go (16-25) says of the operators above: the sign, ::
\* and $ take their operands before ^ and @ do.  The constants of expr.go say
\* the opposite.
HeaderOrder ==
    LET n == a.value
        Minus(t) == Node("unary", "-", <<t>>)
    IN  \A op \in {"^", "@"} :
            /\ Parse(<<"-", n, op, n, ";">>) = Block(<<NodeOf(op, Minus(a), a)>>)
            /\ \A tight \in {"::", "$"} :
                   Parse(<<n, op, n, tight, n, ";">>) = Block(<<NodeOf(op, a, NodeOf(tight, a, a))>>)

\* The statement the comment at parser.go 598 describes: use bindings in body
\* end use.
UseIsRead == IsStatement(tree) \/ LET prog == Block(<<Use(tree)>>) IN Parse(Text(prog)) = prog
=============================================================================
