------------------------------- MODULE Parser -------------------------------
(***************************************************************************)
(* The recursive-descent parser of src/frontend/Parser.cpp, its recovery   *)
(* from errors and its limit on nesting.                                   *)
(*                                                                         *)
(* A token is a tuple: its kind, and what a name or a literal stands for.  *)
(* A tree is a tuple that starts with what it is.  Where a token stands in *)
(* the file and the wording of messages are left out: a report is the      *)
(* place in the text where the parser was.                                 *)
(*                                                                         *)
(* The state of the parser is a record.  ok is FALSE from a rule that      *)
(* returned nullptr to the one that recovers, node is what the last rule   *)
(* returned, and hung says that a loop went round without moving.          *)
(***************************************************************************)
EXTENDS Iteration

CONSTANTS
    MaxNesting,   \* kMaxNestingDepth
    LengthWidth   \* the bits of unsigned, in which the length of an array is kept

ASSUME ParserAssumption == MaxNesting \in Nat /\ LengthWidth \in Nat \ {0}

TypeKeywords == {"int", "float", "bool", "void"}
\* canStartStatement
StatementKeywords == TypeKeywords \cup {"if", "while", "return", "{"}

\* precedenceOf, 0 for what is not a binary operator
PrecedenceOf(kind) ==
    CASE kind = "||" -> 1
      [] kind = "&&" -> 2
      [] kind \in {"==", "!="} -> 3
      [] kind \in {"<", ">", "<=", ">="} -> 4
      [] kind \in {"+", "-"} -> 5
      [] kind \in {"*", "/", "%"} -> 6
      [] OTHER -> 0

-----------------------------------------------------------------------------
(* Token access *)

Peek(p, ahead) ==
    p.text[IF p.at + ahead <= Len(p.text) THEN p.at + ahead ELSE Len(p.text)][1]
Check(p, kinds) == Peek(p, 0) \in kinds
Advance(p) == IF Check(p, {"eof"}) THEN p ELSE [p EXCEPT !.at = @ + 1]

-----------------------------------------------------------------------------
(* Diagnostics and recovery *)

\* errorAt: quiet until recovery, and for good once the nesting limit is hit
ErrorAt(p) ==
    IF p.panic \/ p.fatal THEN [p EXCEPT !.hadError = TRUE, !.ok = FALSE]
    ELSE [p EXCEPT !.hadError = TRUE, !.ok = FALSE, !.panic = TRUE, !.reports = Append(@, p.at)]

\* expect and expectSemicolon
Expect(p, kind) ==
    IF Check(p, {kind}) THEN [Advance(p) EXCEPT !.node = Last(p.text[p.at])] ELSE ErrorAt(p)

\* A DepthGuard and checkDepth
Enter(p) ==
    CASE p.fatal -> [p EXCEPT !.ok = FALSE]
      [] ~p.fatal /\ p.depth >= MaxNesting -> [ErrorAt(p) EXCEPT !.fatal = TRUE]
      [] OTHER -> [p EXCEPT !.depth = @ + 1]
Leave(p, entered) == [p EXCEPT !.depth = entered.depth]

ResumeAt(p, stops) ==
    [p EXCEPT !.panic = FALSE, !.ok = TRUE,
              !.at = Min({n \in p.at .. Len(p.text) : p.text[n][1] = "eof" \/ n \in stops})]

SynchronizeToTopLevel(p) == ResumeAt(p, {n \in DOMAIN p.text : p.text[n][1] = "fn"})

\* After a semicolon, or at what the enclosing loops or a new statement begin with
Synchronize(p) ==
    ResumeAt(p, {n \in 2 .. Len(p.text) : \/ p.text[n - 1][1] = ";"
                                          \/ p.text[n][1] \in {"}", "fn"} \cup StatementKeywords})

\* Mutant: every round is trusted to consume a token
Progress_Trusting(p, before) == p

\* The guarantee of forward progress of the two loops
Progress(p, before) == IF p.at = before.at THEN Advance(p) ELSE p

\* A loop that starts its next round where it started this one
Spins(p, before) == p.at = before.at /\ ~Check(p, {"eof"}) /\ ~p.fatal

-----------------------------------------------------------------------------
(* Grammar.  Parse(p, symbol) parses a token or what a rule is named for *)

RECURSIVE Parse(_, _), ParseBinaryExpr(_, _), ParseList(_, _, _), ParseStatements(_, _),
          ParseOperators(_, _)

\* Punctuation leaves nothing in the tree
ValueTokens == {"name", "number"}
Punctuation == {"fn", "if", "while", "for", "return", "break", "continue",
                "(", ")", "{", "}", "[", "]", ";", "="}

\* What a symbol leaves behind the nodes before it
Joined(nodes, symbol, r) ==
    [r EXCEPT !.node = IF r.ok /\ symbol \notin Punctuation THEN Append(nodes, @) ELSE nodes]

\* The symbols one after another, up to the first that fails
InSequence(p, symbols) ==
    InOrder(LAMBDA q, s : IF q.ok THEN Joined(q.node, s, Parse(q, s)) ELSE q,
            [p EXCEPT !.node = <<>>], symbols)

Tree(p, tag, symbols) == [InSequence(p, symbols) EXCEPT !.node = <<tag>> \o @]

\* do ... while (match(Comma)), r being where the last item ends
ListFrom(r, symbol, before) ==
    LET items == Append(before, r.node)
    IN CASE r.ok /\ Check(r, {","}) -> ParseList(Advance(r), symbol, items)
         [] r.ok /\ ~Check(r, {","}) -> [r EXCEPT !.node = items]
         [] OTHER -> r
ParseList(p, symbol, before) == ListFrom(Parse(p, symbol), symbol, before)
ParseListUpTo(p, symbol, close) ==
    IF Check(p, {close}) THEN [p EXCEPT !.node = <<>>] ELSE ParseList(p, symbol, <<>>)

ParseTypeSpec(p) ==
    IF Check(p, TypeKeywords) THEN [Advance(p) EXCEPT !.node = Peek(p, 0)] ELSE ErrorAt(p)

ParseFunctionDecl(p) ==
    Tree(p, "fn", <<"fn", "name", "(", "params", ")", "result", "block">>)

\* An omitted return type means void
ParseResult(p) ==
    IF Check(p, {"->"}) THEN ParseTypeSpec(Advance(p)) ELSE [p EXCEPT !.node = "void"]

\* The loop of parseBlock; s is the statement that began at p
StatementsFrom(s, p, statements) ==
    LET next == Progress(IF s.ok THEN s ELSE Synchronize(s), p)
    IN ParseStatements([next EXCEPT !.hung = @ \/ Spins(next, p)],
                       IF s.ok THEN Append(statements, s.node) ELSE statements)
ParseStatements(p, statements) ==
    IF Check(p, {"}", "eof"}) \/ p.fatal \/ p.hung THEN [p EXCEPT !.node = statements]
    ELSE StatementsFrom(Parse(p, "statement"), p, statements)

\* A block whose closing brace is missing is a block all the same
CloseBlock(inside) ==
    [Expect(inside, "}") EXCEPT !.ok = TRUE, !.node = <<"block", inside.node>>]
ParseBlock(p) ==
    LET open == IF Enter(p).ok THEN Expect(Enter(p), "{") ELSE Enter(p)
    IN Leave(IF open.ok THEN CloseBlock(ParseStatements(open, <<>>)) ELSE open, p)

\* The literal has to be positive, and is narrowed after it was looked at.  What is left
\* may be 0, which is the length of what is no array
Narrowed(n) == n % 2^LengthWidth
CloseLength(r) ==
    IF r.ok THEN [IF r.node[1] > 0 THEN Expect(r, "]") ELSE ErrorAt(r) EXCEPT !.node = Narrowed(r.node[1])]
    ELSE r
ParseLength(p) == CloseLength(InSequence(p, <<"[", "number">>))

ParseVarDecl(p) == Tree(p, "var", <<"type", "name", "length", "init", ";">>)

ParseIfStmt(p) ==
    Leave(IF Enter(p).ok THEN Tree(Enter(p), "if", <<"if", "(", "expr", ")", "block", "else">>)
          ELSE Enter(p), p)

\* else if chains without a block in between
ParseElse(p) ==
    IF ~Check(p, {"else"}) THEN [p EXCEPT !.node = <<>>]
    ELSE Parse(Advance(p), IF Peek(p, 1) = "if" THEN "if statement" ELSE "block")

\* parseForClause(true); an empty clause is its semicolon
ParseForInit(p) ==
    CASE Check(p, TypeKeywords) -> ParseVarDecl(p)
      [] Check(p, {";"}) -> [Advance(p) EXCEPT !.node = <<>>]
      [] OTHER -> Parse(p, "assignment or expression")

\* parseForClause(false).  One that fails at the parenthesis passes for an empty
\* one, and the parser stays quiet
Passable(r) == IF ~r.ok /\ Check(r, {")"}) THEN [r EXCEPT !.ok = TRUE, !.node = <<>>] ELSE r
ParseForStep(p) ==
    IF Check(p, {")"}) THEN [p EXCEPT !.node = <<>>]
    ELSE Passable(Tree(p, "assign", <<"name", "index", "=", "expr">>))

ParseForStmt(p) ==
    Tree(p, "for", <<"for", "(", "for init", "expr before ;", ";", "for step", ")", "block">>)

\* A name and an index may turn out to start an expression
AssignOrExpr(p, target) ==
    CASE target.ok /\ Check(target, {"="}) ->
           [InSequence(target, <<"=", "expr", ";">>) EXCEPT !.node = <<"assign">> \o target.node \o @]
      [] target.ok /\ ~Check(target, {"="}) -> Tree(p, "expr", <<"expr", ";">>)
      [] OTHER -> target
ParseAssignOrExprStmt(p) ==
    IF Check(p, {"name"}) /\ Peek(p, 1) \in {"=", "["}
    THEN AssignOrExpr(p, InSequence(p, <<"name", "index">>))
    ELSE Tree(p, "expr", <<"expr", ";">>)

ParseStatement(p) ==
    CASE Check(p, TypeKeywords) -> ParseVarDecl(p)
      [] Check(p, {"if"}) -> ParseIfStmt(p)
      [] Check(p, {"while"}) -> Tree(p, "while", <<"while", "(", "expr", ")", "block">>)
      [] Check(p, {"for"}) -> ParseForStmt(p)
      [] Check(p, {"break"}) -> Tree(p, "break", <<"break", ";">>)
      [] Check(p, {"continue"}) -> Tree(p, "continue", <<"continue", ";">>)
      [] Check(p, {"return"}) -> Tree(p, "return", <<"return", "expr before ;", ";">>)
      [] Check(p, {"{"}) -> ParseBlock(p)
      [] OTHER -> ParseAssignOrExprStmt(p)

-----------------------------------------------------------------------------
(* Expressions *)

\* Mutant: the right operand may hold an operator that binds as tightly
RightOperand_Same(precedence) == precedence

\* The right operand may only hold operators that bind tighter
RightOperand(precedence) == precedence + 1

\* The loop of parseBinaryExpr, p.node being the left operand
WithRight(p, right) ==
    IF right.ok THEN [right EXCEPT !.node = <<"binary", Peek(p, 0), p.node, @>>] ELSE right
ParseOperators(p, min) ==
    LET precedence == PrecedenceOf(Peek(p, 0))
    IN IF ~p.ok \/ precedence < min THEN p
       ELSE ParseOperators(WithRight(p, ParseBinaryExpr(Advance(p), RightOperand(precedence))), min)

ParseBinaryExpr(p, min) == ParseOperators(Parse(p, "unary"), min)

ParseUnaryExpr(p) ==
    LET q == Enter(p)
    IN Leave(CASE ~q.ok -> q
               [] q.ok /\ Check(q, {"-", "!"}) ->
                    [Parse(Advance(q), "unary") EXCEPT !.node = <<"unary", Peek(q, 0), @>>]
               [] OTHER -> Parse(q, "primary"), p)

\* What brackets or parentheses hold
Inner(r) == IF r.ok THEN [r EXCEPT !.node = @[1]] ELSE r

\* Parentheses are in the shape of the tree and nowhere else
ParsePrimaryExpr(p) ==
    LET q == Enter(p)
        token == p.text[p.at]
        Literal(node) == [Advance(q) EXCEPT !.node = node]
    IN Leave(
         CASE ~q.ok -> q
           [] q.ok /\ Check(q, {"number"}) -> Literal(<<"int", token[2]>>)
           [] q.ok /\ Check(q, {"decimal"}) -> Literal(<<"float", token[2]>>)
           [] q.ok /\ Check(q, {"true", "false"}) -> Literal(<<"bool", IF Check(q, {"true"}) THEN 1 ELSE 0>>)
           [] q.ok /\ Check(q, {"name"}) ->
                (CASE Peek(q, 1) = "[" -> Tree(q, "index", <<"name", "[", "expr", "]">>)
                   [] Peek(q, 1) = "(" -> Tree(q, "call", <<"name", "(", "arguments", ")">>)
                   [] OTHER -> Literal(<<"name", token[2]>>))
           [] q.ok /\ Check(q, {"("}) ->
                Inner(InSequence(q, <<"(", "expr", ")">>))
           [] OTHER -> ErrorAt(q), p)

Parse(p, symbol) ==
    CASE symbol \in Punctuation \cup ValueTokens -> Expect(p, symbol)
      [] symbol = "type" -> ParseTypeSpec(p)
      [] symbol = "params" -> ParseListUpTo(p, "param", ")")
      [] symbol = "param" -> InSequence(p, <<"type", "name">>)
      [] symbol = "result" -> ParseResult(p)
      [] symbol = "block" -> ParseBlock(p)
      [] symbol = "statement" -> ParseStatement(p)
      [] symbol = "if statement" -> ParseIfStmt(p)
      [] symbol = "else" -> ParseElse(p)
      [] symbol = "length" -> IF Check(p, {"["}) THEN ParseLength(p) ELSE [p EXCEPT !.node = 0]
      [] symbol = "init" -> IF Check(p, {"="}) THEN Parse(Advance(p), "expr") ELSE [p EXCEPT !.node = <<>>]
      [] symbol = "for init" -> ParseForInit(p)
      [] symbol = "for step" -> ParseForStep(p)
      [] symbol = "assignment or expression" -> ParseAssignOrExprStmt(p)
      [] symbol = "expr before ;" -> IF Check(p, {";"}) THEN [p EXCEPT !.node = <<>>] ELSE Parse(p, "expr")
      [] symbol = "index" ->
           IF ~Check(p, {"["}) THEN [p EXCEPT !.node = <<>>]
           ELSE Inner(InSequence(p, <<"[", "expr", "]">>))
      [] symbol = "arguments" -> ParseListUpTo(p, "expr", ")")
      [] symbol = "expr" -> ParseBinaryExpr(p, 1)
      [] symbol = "unary" -> ParseUnaryExpr(p)
      [] symbol = "primary" -> ParsePrimaryExpr(p)

-----------------------------------------------------------------------------
(* Program *)

Parser0(text) ==
    [text |-> text, at |-> 1, panic |-> FALSE, fatal |-> FALSE, hadError |-> FALSE,
     reports |-> <<>>, depth |-> 0, ok |-> TRUE, hung |-> FALSE, node |-> <<>>]

\* One round of parseProgram; node is the functions so far
TopLevelFrom(s, p) ==
    LET next == Progress(IF s.ok THEN s ELSE SynchronizeToTopLevel(s), p)
    IN [next EXCEPT !.node = IF s.ok THEN Append(p.node, s.node) ELSE p.node,
                    !.hung = @ \/ Spins(next, p)]
ParseTopLevel(p) ==
    TopLevelFrom(IF Check(p, {"fn"}) THEN ParseFunctionDecl(p) ELSE ErrorAt(p), p)

ParseDone(p) == Check(p, {"eof"}) \/ p.fatal
=============================================================================
