-------------------------- MODULE MCMathEvaluator --------------------------
(***************************************************************************)
(* Bounded inputs for MathEvaluator: every pair of binary operators in     *)
(* expressions of several shapes, and sequences of two evaluations.        *)
(***************************************************************************)
EXTENDS MathEvaluator, MCInputs

BinaryOps == {Symbols[i].text : i \in {i \in DOMAIN Symbols :
                Symbols[i].op \notin {"Not", "BitwiseNot", "Assign"}}}
UnaryOps == {<<"+">>, <<"-">>, <<"!">>, <<"~">>}

\* An expression is a sequence of lexemes, which are sequences of characters.
Open == <<"(">>
Close == <<")">>
N(i) == DigitsIn(10)[i + 1]
Operands == {<<7, 2, 3>>, <<2, 1, 3>>, <<5, 0, 2>>}
Shapes == 1..6
Shape(s, p, q, x) ==
    LET a == <<N(x[1])>>  b == <<N(x[2])>>  c == <<N(x[3])>> IN
    CASE s = 1 -> <<a, p, b, q, c>>
      [] s = 2 -> <<Open, a, p, b, Close, q, c>>
      [] s = 3 -> <<a, p, Open, b, q, c, Close>>
      [] s = 4 -> <<<<"-">>, a, p, b, q, <<"+">>, c>>
      [] s = 5 -> <<a, p, <<"!">>, Open, b, q, c, Close>>
      [] s = 6 -> <<<<"~">>, Open, a, p, b, Close, q, <<"!">>, c>>
Text(lexemes) == FlattenSeq(lexemes)

Texts == {
    <<"a", "=", "2", " ", "+", "1">>, <<"a", "+", "1">>, <<"p", "i", "=", "4">>,
    <<"p", "i">>, <<"1", "/", "0">>, <<"a", "=", "1", "/", "0">>, <<"4">>,
    <<"s", "u", "m", "(", "a", ",", " ", "p", "i", ")">>, <<"n", "o", "(", ")">>,
    <<"a", "n", "s", "*", "2">>, <<"(", "1">>, <<"1", ")">>, <<"1", "(">>, <<"(", ")">>,
    <<"1", " ", "2">>, <<"+">>, <<"1", "=", "2">>, <<"s", "u", "m", "(", ")">>,
    <<"s", "u", "m", "(", "s", "u", "m", "(", "2", ")", ",", "0", "x", "1", "f", ")">>,
    <<".">>, << >>, <<"x", "=", "a", "n", "s">>, <<"u", "(", "1", ")">>}

MathInit ==
    /\ right = 0 /\ picked = FALSE
    /\ \/ part = "expression" /\ left \in BinaryOps \X Shapes
       \/ part = "session" /\ left \in Texts
MathNext ==
    /\ ~picked /\ picked' = TRUE
    /\ \/ part = "expression" /\ right' \in BinaryOps \X Operands
       \/ part = "session" /\ right' \in Texts
    /\ UNCHANGED <<part, left>>

-----------------------------------------------------------------------------
(* The meaning of an expression, defined by its main operator.             *)

\* From the operator that binds least to the one that binds most.
Levels == <<
    {<<"|", "|">>}, {<<"^", "^">>}, {<<"&", "&">>}, {<<"|">>}, {<<"^">>}, {<<"&">>},
    {<<"=", "=">>, <<"!", "=">>},
    {<<"<">>, <<">">>, <<"<", "=">>, <<">", "=">>},
    {<<"<", "<">>, <<">", ">">>}, {<<"+">>, <<"-">>}, {<<"*">>, <<"/">>, <<"%">>},
    {<<"*", "*">>}, {<<"#", "#">>}>>
LevelOf(lexeme) == CHOOSE k \in DOMAIN Levels : lexeme \in Levels[k]

Flag(b) == IF b THEN 1 ELSE 0
Bits(op(_, _), v, w) ==
    LET bit(x, i) == (x \div 2 ^ i) % 2
    IN  FoldLeft(LAMBDA sum, i : sum + op(bit(v, i), bit(w, i)) * 2 ^ i, 0,
                 [i \in 1..12 |-> i - 1])
Magnitude(v) == IF v < 0 THEN -v ELSE v
\* The binary digits of r appended to those of l.
Appended(l, r) ==
    LET n == CHOOSE n \in 0..20 : r < 2 ^ n /\ (n > 0 => r >= 2 ^ (n - 1))
    IN  l * 2 ^ n + r

\* Values lie in Small, or are "undefined" if a division by zero or an
\* operand that C++ leaves undefined occurs.
Undefined == 1000000
Small == -2000..2000
Checked(v) == IF v \in Small THEN v ELSE Undefined
Meaning(op, l, r) ==
    CASE l = Undefined \/ r = Undefined -> Undefined
      [] OTHER ->
        CASE op = <<"|", "|">> -> Flag(l # 0 \/ r # 0)
          [] op = <<"^", "^">> -> IF l < 0 \/ r < 0 THEN Undefined ELSE Flag(l # r)
          [] op = <<"&", "&">> -> Flag(l # 0 /\ r # 0)
          [] op \in {<<"|">>, <<"^">>, <<"&">>} ->
                IF l < 0 \/ r < 0 THEN Undefined
                ELSE IF op = <<"|">> THEN Bits(LAMBDA x, y : Max({x, y}), l, r)
                ELSE IF op = <<"^">> THEN Bits(LAMBDA x, y : (x + y) % 2, l, r)
                ELSE Bits(LAMBDA x, y : x * y, l, r)
          [] op = <<"=", "=">> -> Flag(l = r)
          [] op = <<"!", "=">> -> Flag(l # r)
          [] op = <<"<">> -> Flag(l < r)
          [] op = <<">">> -> Flag(l > r)
          [] op = <<"<", "=">> -> Flag(l <= r)
          [] op = <<">", "=">> -> Flag(l >= r)
          [] op = <<"<", "<">> ->
                IF r \notin 0..10 THEN Undefined ELSE Checked(l * 2 ^ r)
          [] op = <<">", ">">> -> IF r \notin 0..10 THEN Undefined ELSE l \div 2 ^ r
          [] op = <<"+">> -> Checked(l + r)
          [] op = <<"-">> -> Checked(l - r)
          [] op = <<"*">> -> Checked(l * r)
          [] op = <<"/">> -> IF r = 0 THEN Undefined
                             ELSE IF (l < 0) # (r < 0) THEN -(Magnitude(l) \div Magnitude(r))
                             ELSE Magnitude(l) \div Magnitude(r)
          [] op = <<"%">> -> IF r = 0 THEN Undefined
                             ELSE IF l < 0 THEN -(Magnitude(l) % Magnitude(r))
                             ELSE l % Magnitude(r)
          [] op = <<"*", "*">> ->
                IF r <= 0 THEN Flag(r = 0)
                ELSE IF r \in 0..8 /\ Magnitude(l) <= 8 THEN Checked(l ^ r) ELSE Undefined
          [] op = <<"#", "#">> -> IF l < 0 \/ r \notin Small \ -2000..-1 THEN Undefined
                                  ELSE Checked(Appended(l, r))
UnaryMeaning(op, r) ==
    CASE r = Undefined -> Undefined
      [] r # Undefined /\ op = <<"+">> -> r
      [] r # Undefined /\ op = <<"-">> -> -r
      [] r # Undefined /\ op = <<"!">> -> Flag(r = 0)
      [] r # Undefined /\ op = <<"~">> -> -1 - r

\* The operator that binds least divides the expression, the last one of its
\* level or, if it is **, the first one; unary operators bind most.
RECURSIVE ValueOf(_)
ValueOf(e) ==
    LET opened(i) == Cardinality({j \in 1..i : e[j] = Open})
        closed(i) == Cardinality({j \in 1..i : e[j] = Close})
        mains == {i \in 2..Len(e) : /\ opened(i) = closed(i) /\ e[i] \in BinaryOps
                                    /\ e[i - 1] \notin BinaryOps \union UnaryOps}
        level == Min({LevelOf(e[i]) : i \in mains})
        least == {i \in mains : LevelOf(e[i]) = level}
        m == IF e[Max(least)] = <<"*", "*">> THEN Min(least) ELSE Max(least)
    IN  CASE mains # {} -> Meaning(e[m], ValueOf(SubSeq(e, 1, m - 1)),
                                   ValueOf(SubSeq(e, m + 1, Len(e))))
          [] mains = {} /\ e[1] \in UnaryOps -> UnaryMeaning(e[1], ValueOf(Tail(e)))
          [] mains = {} /\ e[1] = Open -> ValueOf(SubSeq(e, 2, Len(e) - 1))
          [] OTHER -> Numeral(e[1], 10)

-----------------------------------------------------------------------------
(* The properties.                                                         *)

Fresh == [variables |-> registerStandardVariables, m_lastError |-> None]

\* Precedence, associativity and brackets: an expression in which no unary
\* operator follows another one has the value that its main operator gives
\* it, for every pair of operators, and the value becomes ans.
ExpressionsExact == [][(
    Picked("expression") =>
        LET e == Shape(left[2], left[1], right[1], right[2])
            v == ValueOf(e)
        IN  v # Undefined =>
                LET done == evaluate(Fresh, Text(e))
                IN  /\ done.result.ok /\ done.result.it = v
                    /\ done.variables[Ans].value = v
                    /\ done.m_lastError = None
    )]_picked

\* A session: an evaluation that fails leaves every variable as it is, one
\* that succeeds changes one variable, and no constant; what a later
\* evaluation reads is what an earlier one has stored; and a text without a
\* value has set an error unless there was nothing to evaluate.
SessionsConsistent == [][(
    Picked("session") =>
        LET first == evaluate(Fresh, left)
            second == evaluate(first, right)
            names == DOMAIN second.variables
            changed == {n \in names : n \notin DOMAIN first.variables
                                      \/ second.variables[n] # first.variables[n]}
        IN  /\ DOMAIN first.variables \subseteq names
            /\ ~second.result.ok => changed = {}
            /\ Cardinality(changed) <= 1
            /\ \A n \in changed : /\ ~second.variables[n].constant
                                  /\ second.variables[n].value = second.result.it
            /\ \A n \in {Pi, Euler, Phi} :
                    second.variables[n] = registerStandardVariables[n]
            /\ ~second.result.ok /\ right \notin {<<>>, <<"(", ")">>, <<"n", "o", "(", ")">>} =>
                    second.m_lastError # None
            /\ first.result.ok /\ right = <<"a", "n", "s", "*", "2">> =>
                    second.result.it = 2 * first.variables[Ans].value
            /\ left = <<"a", "=", "2", " ", "+", "1">> /\ right = <<"a", "+", "1">> =>
                    second.result.it = 4 /\ second.variables[Ans].value = 4
    )]_picked
=============================================================================
