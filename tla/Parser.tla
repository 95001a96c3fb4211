------------------------------- MODULE Parser -------------------------------
(***************************************************************************)
(* The parser (parser.go, expr.go, proc.go): operator precedence for       *)
(* expressions, one function per statement.  A token is its text; names    *)
(* and numbers are the texts that are nothing else.  A tree is a record of *)
(* its kind, its value and its children, as in the code.  A parse from     *)
(* token i gives the tree and the token after it; the first error ends it. *)
(***************************************************************************)
EXTENDS Naturals, Sequences, SequencesExt

CONSTANTS Names, Numbers

Keywords ==
    {"proc", "end", "local", "global", "option", "description", "if", "then", "elif",
     "else", "fi", "for", "from", "to", "by", "do", "od", "while", "in", "return",
     "error", "try", "catch", "finally", "use", "export", "module", "read", "save",
     "quit", "break", "next"}

WordOperators == {"and", "or", "not", "union", "intersect", "mod"}

Delims  == {";", ":"}
Closers == {"end", "fi", "od", "elif", "else", "then", "do", "catch", "finally", "in",
            "eof"}

Node(kind, value, nodes) == [kind |-> kind, value |-> value, nodes |-> nodes]
Leaf(t)     == Node(IF t \in Numbers THEN "constant" ELSE "variable", t, <<>>)
Seqn(nodes) == Node("exprseq", "", nodes)
Tag(tag, nodes) == Node("exprseq", tag, nodes)
Block(nodes)    == Node("root", "", nodes)

Ok(node, i) == [node |-> node, at |-> i]
Fail        == Ok(Node("error", "", <<>>), 0)
Failed(r)   == r.at = 0

\* K goes on where r ends.
Then(r, K(_)) == IF Failed(r) THEN r ELSE K(r)

At(s, i) == IF i \in DOMAIN s THEN s[i] ELSE "eof"

Expect(s, t, r) == IF At(s, r.at) = t THEN Ok(r.node, r.at + 1) ELSE Fail

\* The tokens that end the value of a statement.
StmtEnd(t)   == t \in Delims \cup Closers
StartsAnExpression(t) ==
    t \in Names \cup Numbers \cup WordOperators \cup
          {"(", "[", "{", "<", "proc", "module", "if", "-", "+", "$"}

-----------------------------------------------------------------------------
(* Binding powers.                                                         *)

Power ==
    [t \in {":=", ",", "->", "or", "and", "=", "in", "<", ">", "..", "union",
            "intersect", "+", "-", "*", "mod", "$", "::", "^", "@", ".", ":-", "!",
            "(", "["} |->
        CASE t = ":="                       -> 3
          [] t = ","                        -> 4
          [] t = "->"                       -> 8
          [] t = "or"                       -> 10
          [] t = "and"                      -> 12
          [] t \in {"=", "in", "<", ">"}    -> 20
          [] t = ".."                       -> 25
          [] t = "union"                    -> 28
          [] t = "intersect"                -> 30
          [] t \in {"+", "-"}               -> 40
          [] t \in {"*", "mod"}             -> 50
          [] t = "$"                        -> 55
          [] t = "::"                       -> 58
          [] t = "^"                        -> 70
          [] t = "@"                        -> 75
          [] t \in {".", ":-"}              -> 85
          [] OTHER                          -> 90]

LeftPower(t) == IF t \in DOMAIN Power THEN Power[t] ELSE 0

\* Mutant: as tight as the comment on the precedences says.
TightSign == 80

\* A prefix sign binds looser than a power.
SignPower == 69

\* The power its right operand has to exceed.
RightPower(t) ==
    IF t \in {":=", "->", "^"} THEN Power[t] - 1 ELSE Power[t]

NodeOf(t, a, b) ==
    CASE t = ":=" -> Node("assign", t, <<a, b>>)
      [] t = "->" -> Node("arrow", t, <<a, b>>)
      [] t = ".." -> Node("range", t, <<a, b>>)
      [] t = "::" -> Node("type", t, <<a, b>>)
      [] t = ":-" -> Node("member", t, <<a, b>>)
      [] OTHER    -> Node("operate", t, <<a, b>>)

\* Mutant: also of what is no sequence.
AllParts(t) == t.nodes

\* What an operand of a comma adds to its sequence.
Parts(t) == IF t.kind = "exprseq" /\ t.value = "" THEN t.nodes ELSE <<t>>

-----------------------------------------------------------------------------
RECURSIVE Expr(_, _, _), Infixes(_, _, _), Items(_, _, _, _), Entries(_, _, _, _),
          Stmt(_, _), Stmts(_, _, _), Decl(_, _, _, _), Elifs(_, _, _),
          Clauses(_, _, _), Catches(_, _, _), Strings(_, _, _), Params(_, _, _),
          Sections(_, _, _, _), Bindings(_, _, _), Proc(_, _), Module(_, _),
          Program(_, _, _)

Expr(s, i, power) ==
    LET t == At(s, i)
        Prefix(min, value) ==
            Then(Expr(s, i + 1, min), LAMBDA r : Ok(Node("unary", value, <<r.node>>), r.at))
        Bracketed(close, K(_)) ==
            Then(Items(s, i + 1, close, <<>>),
                 LAMBDA r : Expect(s, close, Ok(K(r.node.nodes), r.at)))
        nud ==
            CASE t \in Names \cup Numbers -> Ok(Leaf(t), i + 1)
              [] t = "not" -> Prefix(Power["and"], t)
              [] t \in {"-", "+"} -> Prefix(SignPower, t)
              [] t = "$"   -> Prefix(Power[".."] - 1, t)
              [] t = "("   -> Bracketed(")", LAMBDA ns : IF Len(ns) = 1 THEN ns[1] ELSE Seqn(ns))
              [] t = "["   -> Bracketed("]", LAMBDA ns : Node("list", "", ns))
              [] t = "{"   -> Bracketed("}", LAMBDA ns : Node("set", "", ns))
              [] t = "<"   -> Entries(s, i + 1, <<>>, <<>>)
              [] t = "proc"   -> Proc(s, i)
              [] t = "module" -> Module(s, i)
              [] t = "if"     -> Elifs(s, i + 1, <<>>)
              [] t \in {"return", "error", "local", "global"} -> Fail
              [] t \in Keywords \cup WordOperators -> Ok(Leaf(t), i + 1)
              [] OTHER -> Fail
    IN  Then(nud, LAMBDA r : Infixes(s, r, power))

\* What follows an operand l, as long as it binds tighter than power.
Infixes(s, l, power) ==
    LET t == At(s, l.at)
        Applied(close, kind) ==
            Then(Items(s, l.at + 1, close, <<>>),
                 LAMBDA r : Expect(s, close, Ok(Node(kind, "", <<l.node>> \o r.node.nodes), r.at)))
        led ==
            CASE t = "(" -> Applied(")", "call")
              [] t = "[" -> Applied("]", "index")
              [] t = "!" -> Ok(Node("unary", "!post", <<l.node>>), l.at + 1)
              [] t = "," ->
                   Then(IF StartsAnExpression(At(s, l.at + 1)) THEN Expr(s, l.at + 1, Power[","])
                        ELSE Ok(Seqn(<<>>), l.at + 1),
                        LAMBDA r : Ok(Seqn(Parts(l.node) \o Parts(r.node)), r.at))
              [] t = ".." /\ At(s, l.at + 1) \in {")", "]", "}", ",", "eof"} \cup Delims ->
                   Ok(Node("range", t, <<l.node>>), l.at + 1)
              [] OTHER ->
                   Then(Expr(s, l.at + 1, RightPower(t)),
                        LAMBDA r : Ok(NodeOf(t, l.node, r.node), r.at))
    IN  IF LeftPower(t) <= power THEN l
        ELSE Then(led, LAMBDA r : Infixes(s, r, power))

\* Expressions between commas; an element may be empty.
Items(s, i, close, items) ==
    IF At(s, i) = close THEN Ok(Seqn(items), i)
    ELSE IF At(s, i) = "," THEN Items(s, i + 1, close, Append(items, Seqn(<<>>)))
    ELSE Then(Expr(s, i, Power[","]),
              LAMBDA r : IF At(s, r.at) = ","
                         THEN Items(s, r.at + 1, close, Append(items, r.node))
                         ELSE Ok(Seqn(Append(items, r.node)), r.at))

\* The entries of a matrix: rows end with ",", columns with "|".
Entries(s, i, rows, row) ==
    LET closed == Ok(Node("matrix", "", Append(rows, Tag("row", row))), i + 1)
    IN  IF At(s, i) = ">" THEN (IF rows = <<>> /\ row = <<>> THEN Ok(Node("matrix", "", <<>>), i + 1)
                                ELSE closed)
        ELSE Then(Expr(s, i, Power["="]), LAMBDA r :
               LET more == Append(row, r.node)
               IN  CASE At(s, r.at) = "|" -> Entries(s, r.at + 1, rows, more)
                     [] At(s, r.at) = "," -> Entries(s, r.at + 1, Append(rows, Tag("row", more)), <<>>)
                     [] At(s, r.at) = ">" -> Entries(s, r.at, rows, more)
                     [] OTHER -> Fail)

-----------------------------------------------------------------------------
(* Statements.                                                             *)

\* An end may be followed by the word of any construct.
ExpectEnd(s, kind, r) ==
    CASE At(s, r.at) = "fi" /\ kind = "if" -> Ok(r.node, r.at + 1)
      [] At(s, r.at) = "od" /\ kind = "do" -> Ok(r.node, r.at + 1)
      [] At(s, r.at) = "end" ->
           Ok(r.node, r.at + (IF At(s, r.at + 1) \in {"proc", "if", "do", "use", "module",
                                                      "for", "while", "try"}
                              THEN 2 ELSE 1))
      [] OTHER -> Fail

\* Statements up to a word that closes a block; separators are optional.
Stmts(s, i, stmts) ==
    CASE At(s, i) \in Delims  -> Stmts(s, i + 1, stmts)
      [] At(s, i) \in Closers -> Ok(Block(stmts), i)
      [] OTHER -> Then(Stmt(s, i), LAMBDA r : Stmts(s, r.at, Append(stmts, r.node)))

\* Expressions between commas, up to the end of the statement.
Decl(s, i, kind, items) ==
    LET min == IF kind \in {"option", "description", "error"} THEN 0 ELSE Power[","]
    IN  IF StmtEnd(At(s, i)) /\ (kind # "error" \/ items = <<>>) THEN Ok(Node(kind, "", items), i)
        ELSE Then(Expr(s, i, min), LAMBDA r :
               IF At(s, r.at) = "," THEN Decl(s, r.at + 1, kind, Append(items, r.node))
               ELSE Ok(Node(kind, "", Append(items, r.node)), r.at))

\* The arms of a conditional, from the condition of one of them on.
Elifs(s, i, arms) ==
    Then(Expr(s, i, 0), LAMBDA c :
    Then(Expect(s, "then", c), LAMBDA t :
    Then(Stmts(s, t.at, <<>>), LAMBDA b :
      LET done == arms \o <<c.node, b.node>>
      IN  CASE At(s, b.at) = "elif" -> Elifs(s, b.at + 1, done)
            [] At(s, b.at) = "else" ->
                 Then(Stmts(s, b.at + 1, <<>>), LAMBDA e :
                   ExpectEnd(s, "if", Ok(Node("if", "", Append(done, e.node)), e.at)))
            [] OTHER -> ExpectEnd(s, "if", Ok(Node("if", "", done), b.at)))))

\* The clauses of a loop, then its body.
Clauses(s, i, header) ==
    LET t == At(s, i)
        more == header = <<>> \/ Last(header).value # "while"
    IN  CASE t \in {"from", "to", "by", "in", "while"} /\ more ->
               Then(Expr(s, i + 1, 0), LAMBDA r :
                 Clauses(s, r.at, Append(header, Tag(t, <<r.node>>))))
          [] t = "do" ->
               Then(Stmts(s, i + 1, <<>>), LAMBDA b :
                 ExpectEnd(s, "do", Ok(Node("for", "", <<Seqn(header), b.node>>), b.at)))
          [] OTHER -> Fail

\* Mutant: the variable is read as any expression is.
AnyVariable == 0

\* The variable is read above `in`, which is an operator as well.
VariablePower == Power[".."]

Loop(s, i) ==
    IF At(s, i) # "for" THEN Clauses(s, i, <<>>)
    ELSE IF At(s, i + 1) \in {"from", "in", "to", "by", "while", "do"} THEN Clauses(s, i + 1, <<>>)
    ELSE Then(Expr(s, i + 1, VariablePower), LAMBDA v :
           Clauses(s, v.at, <<Tag("var", <<v.node>>)>>))

Strings(s, i, items) ==
    IF At(s, i) \in Delims THEN Ok(Seqn(items), i + 1)
    ELSE Then(Expr(s, i, 0), LAMBDA r :
           CASE At(s, r.at) = ","    -> Strings(s, r.at + 1, Append(items, r.node))
             [] At(s, r.at) \in Delims -> Ok(Seqn(Append(items, r.node)), r.at + 1)
             [] OTHER -> Ok(Seqn(Append(items, r.node)), r.at))

Catches(s, i, parts) ==
    CASE At(s, i) = "catch" ->
           Then(Strings(s, i + 1, <<>>), LAMBDA c :
           Then(Stmts(s, c.at, <<>>), LAMBDA b :
             Catches(s, b.at, Append(parts, Tag("catch", Append(c.node.nodes, b.node))))))
      [] At(s, i) = "finally" ->
           Then(Stmts(s, i + 1, <<>>), LAMBDA b :
             ExpectEnd(s, "try", Ok(Node("try", "", Append(parts, Tag("finally", <<b.node>>))), b.at)))
      [] OTHER -> ExpectEnd(s, "try", Ok(Node("try", "", parts), i))

Bindings(s, i, items) ==
    IF At(s, i) = "in"
    THEN Then(Stmts(s, i + 1, <<>>), LAMBDA b :
           ExpectEnd(s, "use", Ok(Node("use", "", Append(items, Tag("body", <<b.node>>))), b.at)))
    ELSE Then(Expr(s, i, 0), LAMBDA r :
           LET more == Append(items, Tag("binding", <<r.node>>))
           IN  IF At(s, r.at) = "," THEN Bindings(s, r.at + 1, more)
               ELSE IF At(s, r.at) = "in" THEN Bindings(s, r.at, more) ELSE Fail)

\* A parameter has a type, a default or neither.
Params(s, i, params) ==
    LET rest(p, j) == IF At(s, j) = "," THEN Params(s, j + 1, Append(params, p))
                      ELSE Expect(s, ")", Ok(Tag("params", Append(params, p)), j))
    IN  IF At(s, i) = ")" THEN Ok(Tag("params", params), i + 1)
        ELSE Then(Expr(s, i, Power[","]), LAMBDA p :
               IF At(s, p.at) = ":="
               THEN Then(Expr(s, p.at + 1, 0), LAMBDA d :
                      rest(Node("param", "default", <<p.node, d.node>>), d.at))
               ELSE rest(Node("param", "", <<p.node>>), p.at))

\* Declarations, then the body of a procedure or a module.
Sections(s, i, kind, parts) ==
    LET t == At(s, i)
        words == {"local", "global", "option", "description"}
                 \cup (IF kind = "module" THEN {"export"} ELSE {})
    IN  IF t \in words
        THEN Then(Decl(s, i + 1, t, <<>>), LAMBDA d :
               Sections(s, d.at + (IF At(s, d.at) \in Delims THEN 1 ELSE 0), kind,
                        Append(parts, d.node)))
        ELSE Then(Stmts(s, i, <<>>), LAMBDA b :
               ExpectEnd(s, kind, Ok(Node(kind, "", Append(parts, b.node)), b.at)))

Proc(s, i) ==
    IF At(s, i + 1) # "(" THEN Fail
    ELSE Then(Params(s, i + 2, <<>>), LAMBDA ps :
           IF At(s, ps.at) = "::"
           THEN Then(Expr(s, ps.at + 1, Power["::"]), LAMBDA r :
                  Sections(s, r.at, "proc", <<ps.node, Node("type", "rettype", <<r.node>>)>>))
           ELSE Sections(s, ps.at, "proc", <<ps.node>>))

\* What stands between the parentheses of a module is read and dropped.
Module(s, i) ==
    IF At(s, i + 1) # "(" THEN Sections(s, i + 1, "module", <<>>)
    ELSE Then(Items(s, i + 2, ")", <<>>), LAMBDA r :
         Then(Expect(s, ")", r), LAMBDA e : Sections(s, e.at, "module", <<>>)))

Stmt(s, i) ==
    LET t == At(s, i)
    IN  CASE t = "if"   -> Elifs(s, i + 1, <<>>)
          [] t \in {"for", "while", "do"} -> Loop(s, i)
          [] t = "try"  -> Then(Stmts(s, i + 1, <<>>), LAMBDA b :
                             Catches(s, b.at, <<Tag("try", <<b.node>>)>>))
          [] t = "use"  -> Bindings(s, i + 1, <<>>)
          [] t \in {"local", "global", "option", "description", "save", "error"} ->
               Decl(s, i + 1, t, <<>>)
          [] t = "read" -> Then(Expr(s, i + 1, 0), LAMBDA r : Ok(Node(t, "", <<r.node>>), r.at))
          [] t = "return" ->
               IF StmtEnd(At(s, i + 1)) THEN Ok(Node(t, "", <<>>), i + 1)
               ELSE Then(Expr(s, i + 1, 0), LAMBDA r : Ok(Node(t, "", <<r.node>>), r.at))
          [] t \in {"break", "next"} -> Ok(Node(t, "", <<>>), i + 1)
          [] t = "quit"   -> Ok(Node("empty", t, <<>>), i + 1)
          [] OTHER -> Expr(s, i, 0)

\* A word that closes nothing is read as an expression.
Program(s, i, stmts) ==
    CASE At(s, i) = "eof"    -> Ok(Block(stmts), i)
      [] At(s, i) \in Delims -> Program(s, i + 1, stmts)
      [] OTHER -> Then(Stmt(s, i), LAMBDA r : Program(s, r.at, Append(stmts, r.node)))

Parse(s) == Program(s, 1, <<>>).node

=============================================================================
