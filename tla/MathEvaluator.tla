--------------------------- MODULE MathEvaluator ---------------------------
(***************************************************************************)
(* The evaluator of math_eval/math_evaluator.cpp for integers: a text is   *)
(* parsed into tokens, the tokens are brought into postfix order and       *)
(* evaluated on a stack.  A text is a sequence of characters, strings of   *)
(* length one.  A state of the evaluator is a record of its variables and  *)
(* its last error; an evaluation yields a value and the next state.  The   *)
(* numbers of the inputs are small enough not to overflow, and every call  *)
(* in them is closed: behind the end of the text the code goes on reading. *)
(***************************************************************************)
EXTENDS Integers, Sequences, SequencesExt, Bitwise

Operator == [
    Invalid |-> 0,  Assign |-> 16,  Or |-> 32,  Xor |-> 48,  And |-> 64,
    BitwiseOr |-> 80,  BitwiseXor |-> 96,  BitwiseAnd |-> 112,
    Equals |-> 128,  NotEquals |-> 129,
    GreaterThan |-> 144,  LessThan |-> 145,
    GreaterThanOrEquals |-> 146,  LessThanOrEquals |-> 147,
    ShiftLeft |-> 160,  ShiftRight |-> 161,
    Addition |-> 176,  Subtraction |-> 177,
    Multiplication |-> 192,  Division |-> 193,  Modulus |-> 194,
    Exponentiation |-> 256 + 208,  Combine |-> 224,
    BitwiseNot |-> 512 + 240,  Not |-> 512 + 241,
    Plus |-> 512 + 242,  Minus |-> 512 + 243]

comparePrecedence(a, b) == ((a \div 16) % 16) - ((b \div 16) % 16)
\* A wrong one: every operator associates to the left.
AlwaysLeft(op) == TRUE
isLeftAssociative(op) == (op \div 256) % 2 = 0
isUnary(op) == (op \div 512) % 2 = 1

\* The first symbol of the list that the text begins with.
Symbols == <<
    [text |-> <<"#", "#">>, op |-> "Combine"],
    [text |-> <<"=", "=">>, op |-> "Equals"],
    [text |-> <<"!", "=">>, op |-> "NotEquals"],
    [text |-> <<">", "=">>, op |-> "GreaterThanOrEquals"],
    [text |-> <<"<", "=">>, op |-> "LessThanOrEquals"],
    [text |-> <<">", ">">>, op |-> "ShiftRight"],
    [text |-> <<"<", "<">>, op |-> "ShiftLeft"],
    [text |-> <<"|", "|">>, op |-> "Or"],
    [text |-> <<"^", "^">>, op |-> "Xor"],
    [text |-> <<"&", "&">>, op |-> "And"],
    [text |-> <<"*", "*">>, op |-> "Exponentiation"],
    [text |-> <<">">>, op |-> "GreaterThan"],
    [text |-> <<"<">>, op |-> "LessThan"],
    [text |-> <<"!">>, op |-> "Not"],
    [text |-> <<"|">>, op |-> "BitwiseOr"],
    [text |-> <<"^">>, op |-> "BitwiseXor"],
    [text |-> <<"&">>, op |-> "BitwiseAnd"],
    [text |-> <<"~">>, op |-> "BitwiseNot"],
    [text |-> <<"+">>, op |-> "Addition"],
    [text |-> <<"-">>, op |-> "Subtraction"],
    [text |-> <<"*">>, op |-> "Multiplication"],
    [text |-> <<"/">>, op |-> "Division"],
    [text |-> <<"%">>, op |-> "Modulus"],
    [text |-> <<"=">>, op |-> "Assign"]>>
toOperator(text) ==
    LET fits == {i \in DOMAIN Symbols : IsPrefix(Symbols[i].text, text)}
    IN  IF fits = {} THEN [op |-> Operator.Invalid, width |-> 0]
        ELSE LET s == Symbols[Min(fits)]
             IN  [op |-> Operator[s.op], width |-> Len(s.text)]

Token(type, value) == [type |-> type, value |-> value]
IsOp(t) == t.type = "Operator"
IsLeft(t) == t.type = "Bracket" /\ t.value = "("

\* What a step yields: tokens or a value when it succeeds, and the error it
\* sets; an error may be set although there is a value.
None == "none"
Some(x) == [ok |-> TRUE, it |-> x, error |-> None]
Failed(error) == [ok |-> FALSE, error |-> error]
Latest(error, before) == IF error = None THEN before ELSE error

-----------------------------------------------------------------------------
(* Postfix order.                                                          *)

\* The operators on top of the stack that go out before op is put there.
GoesFirst(top, op) ==
    /\ top.type # "Bracket"
    /\ \/ comparePrecedence(top.value, op) > 0
       \/ comparePrecedence(top.value, op) = 0 /\ isLeftAssociative(op)

RECURSIVE Shunt(_, _, _)
Shunt(input, output, stack) ==
    LET t == Head(input)
        popped(stays(_)) ==
            LET n == Max({k \in 0..Len(stack) : \A i \in 1..k : ~stays(stack[i])})
            IN  [output |-> output \o SubSeq(stack, 1, n),
                 stack |-> SubSeq(stack, n + 1, Len(stack))]
        forOp == popped(LAMBDA top : ~GoesFirst(top, t.value))
        forRight == popped(IsLeft)
    IN  CASE input = <<>> ->
                IF \E i \in DOMAIN stack : stack[i].type = "Bracket"
                THEN Failed("Mismatching parenthesis!")
                ELSE Some(output \o stack)
          [] input # <<>> /\ t.type \in {"Number", "Variable", "Function"} ->
                Shunt(Tail(input), Append(output, t), stack)
          [] input # <<>> /\ IsOp(t) ->
                Shunt(Tail(input), forOp.output, <<t>> \o forOp.stack)
          [] input # <<>> /\ IsLeft(t) -> Shunt(Tail(input), output, <<t>> \o stack)
          [] OTHER ->
                IF forRight.stack = <<>> THEN Failed("Mismatching parenthesis!")
                ELSE Shunt(Tail(input), forRight.output, Tail(forRight.stack))
toPostfix(input) == Shunt(input, <<>>, <<>>)

-----------------------------------------------------------------------------
(* Evaluation.                                                             *)

\* Square and multiply.
RECURSIVE Powers(_, _, _)
Powers(result, base, exp) ==
    CASE exp = 0 -> result
      [] exp = 1 -> result * base
      [] exp > 1 -> Powers(IF exp % 2 = 1 THEN result * base ELSE result,
                           base * base, exp \div 2)
powi(base, exp) == IF exp < 0 THEN 0 ELSE Powers(1, base, exp)

Truth(b) == IF b THEN 1 ELSE 0
\* The integer division of C++ rounds to zero.
Quotient(a, b) ==
    LET q == (IF a < 0 THEN -a ELSE a) \div (IF b < 0 THEN -b ELSE b)
    IN  IF (a < 0) = (b < 0) THEN q ELSE -q
BitLength(v) == Min({n \in 0..30 : v < 2 ^ n})

\* Defined for the operands that the operator of C++ is defined for, and of
\* & | ^ and ## for those that are not negative.
Result(op, l, r) ==
    LET O == Operator IN
    CASE op = O.And -> Truth(l # 0 /\ r # 0)
      [] op = O.Or -> Truth(l # 0 \/ r # 0)
      [] op = O.Xor -> Truth((l ^^ r) > 0)
      [] op = O.GreaterThan -> Truth(l > r)
      [] op = O.LessThan -> Truth(l < r)
      [] op = O.GreaterThanOrEquals -> Truth(l >= r)
      [] op = O.LessThanOrEquals -> Truth(l <= r)
      [] op = O.Equals -> Truth(l = r)
      [] op = O.NotEquals -> Truth(l # r)
      [] op = O.Not -> Truth(r = 0)
      [] op = O.BitwiseOr -> l | r
      [] op = O.BitwiseXor -> l ^^ r
      [] op = O.BitwiseAnd -> l & r
      [] op = O.BitwiseNot -> -r - 1
      [] op = O.ShiftLeft -> l * 2 ^ r
      [] op = O.ShiftRight -> l \div 2 ^ r
      [] op = O.Addition -> l + r
      [] op = O.Subtraction -> l - r
      [] op = O.Multiplication -> l * r
      [] op = O.Division -> Quotient(l, r)
      [] op = O.Modulus -> l - r * Quotient(l, r)
      [] op = O.Exponentiation -> powi(l, r)
      [] op = O.Combine -> l * 2 ^ BitLength(r) + r
      [] op = O.Plus -> r
      [] op = O.Minus -> -r

\* The functions that setFunction() has registered, with the numbers of
\* arguments they take; a function may return no value.
Sum == <<"s", "u", "m">>
Nothing == <<"n", "o">>
Functions == [f \in {Sum, Nothing} |-> IF f = Sum THEN [minNumArgs |-> 1, maxNumArgs |-> 2]
                                       ELSE [minNumArgs |-> 0, maxNumArgs |-> 0]]
Call(name, args) ==
    LET f == Functions[name]
    IN  CASE Len(args) < f.minNumArgs \/ Len(args) > f.maxNumArgs ->
                Failed("Invalid number of function arguments!")
          [] name = Sum /\ Len(args) \in 1..2 ->
                Some(FoldLeft(LAMBDA a, b : a + b, 0, args))
          [] name = Nothing /\ args = <<>> -> Failed(None)

\* A stack has its top first.
Operate(op, stack) ==
    LET arity == IF isUnary(op) THEN 1 ELSE 2
        left == IF arity = 1 THEN 0 ELSE stack[2]
        zero == op \in {Operator.Division, Operator.Modulus} /\ stack[1] = 0
    IN  CASE Len(stack) < arity -> Failed("Not enough operands for operator!")
          [] Len(stack) >= arity /\ op = Operator.Assign -> Failed("Invalid operator!")
          [] Len(stack) >= arity /\ zero -> Failed("Division by Zero!")
          [] OTHER -> Some(<<Result(op, left, stack[1])>>
                              \o SubSeq(stack, arity + 1, Len(stack)))

\* The stack after a token; a function without a value leaves it alone.
Step(t, stack, variables) ==
    LET name == t.value.name
        call == Call(name, t.value.arguments)
    IN  CASE t.type = "Number" -> Some(<<t.value>> \o stack)
          [] t.type = "Operator" -> Operate(t.value, stack)
          [] t.type = "Variable" ->
                IF t.value \in DOMAIN variables
                THEN Some(<<variables[t.value].value>> \o stack)
                ELSE Failed("Unknown variable!")
          [] t.type = "Function" ->
                IF name \notin DOMAIN Functions THEN Failed("Unknown function called!")
                ELSE IF call.ok THEN Some(<<call.it>> \o stack)
                ELSE [Some(stack) EXCEPT !.error = call.error]

RECURSIVE Run(_, _, _, _)
Run(tokens, stack, error, variables) ==
    LET step == Step(Head(tokens), stack, variables)
    IN  CASE tokens # <<>> /\ step.ok ->
                Run(Tail(tokens), step.it, Latest(step.error, error), variables)
          [] tokens # <<>> /\ ~step.ok -> step
          [] tokens = <<>> /\ Len(stack) = 0 -> Failed(error)
          [] tokens = <<>> /\ Len(stack) = 1 -> [Some(stack[1]) EXCEPT !.error = error]
          [] tokens = <<>> /\ Len(stack) > 1 -> Failed("Undigested input left!")
evaluatePostfix(tokens, variables) == Run(tokens, <<>>, None, variables)

-----------------------------------------------------------------------------
(* Parsing.                                                                *)

DigitsIn(base) ==
    LET all == <<"0", "1", "2", "3", "4", "5", "6", "7", "8", "9",
                 "a", "b", "c", "d", "e", "f">>
    IN  SubSeq(all, 1, base)
DigitChars(base) == {DigitsIn(base)[i] : i \in 1..base}
Letters == {"a", "b", "c", "e", "h", "i", "m", "n", "o", "p", "s", "u", "x", "y", "_"}

Leading(text, chars) ==
    SubSeq(text, 1, Max({n \in 0..Len(text) : \A i \in 1..n : text[i] \in chars}))
After(text, n) == SubSeq(text, n + 1, Len(text))
BeginsWith(text, char) == text # <<>> /\ Head(text) = char

Numeral(digits, base) ==
    FoldLeft(LAMBDA v, d : base * v + (CHOOSE i \in 1..base : DigitsIn(base)[i] = d) - 1,
             0, digits)

\* An x behind digits makes the last of them be read again, as the beginning
\* of a hexadecimal number if it is a zero.
ReadNumber(text) ==
    LET digits == Leading(text, DigitChars(10))
        rest == After(text, Len(digits))
        hex == Leading(Tail(rest), DigitChars(16))
        again == digits # <<>> /\ BeginsWith(rest, "x")
    IN  CASE again /\ Last(digits) = "0" /\ hex # <<>> ->
                [number |-> Numeral(hex, 16), rest |-> After(rest, 1 + Len(hex))]
          [] again /\ ~(Last(digits) = "0" /\ hex # <<>>) ->
                [number |-> Numeral(<<Last(digits)>>, 10), rest |-> rest]
          [] OTHER -> [number |-> Numeral(digits, 10), rest |-> rest]

\* The texts of the arguments.  The character behind a comma is taken
\* without a look at it: a bracket there is not counted.
RECURSIVE CallArguments(_, _, _)
CallArguments(text, depth, expressions) ==
    LET d == CASE Head(text) = "(" -> depth + 1
               [] Head(text) = ")" -> depth - 1
               [] OTHER -> depth
        comma == d = 1 /\ Head(text) = ","
        last == Len(expressions)
    IN  CASE d = 0 -> [expressions |-> expressions, rest |-> Tail(text)]
          [] d # 0 /\ comma ->
                CallArguments(After(text, 2), d, Append(expressions, <<text[2]>>))
          [] OTHER ->
                CallArguments(Tail(text), d,
                              [expressions EXCEPT ![last] = Append(@, Head(text))])

\* What stands before a bracket or an operator that opens an expression.
AtStart(queue) == queue = <<>> \/ IsOp(Last(queue)) \/ IsLeft(Last(queue))

RECURSIVE Parse(_, _, _, _), Arguments(_, _, _, _, _)
\* The values of the arguments, in order, up to the first one that fails.
Arguments(expressions, several, args, error, variables) ==
    LET parsed == Parse(Head(expressions), <<>>, error, variables)
        postfix == toPostfix(parsed.it)
        result == evaluatePostfix(postfix.it, variables)
        done == [Some(args) EXCEPT !.error = error]
    IN  CASE expressions = <<>> -> done
          [] expressions # <<>> /\ Head(expressions) = <<>> ->
                IF several THEN Failed("Invalid function call syntax!") ELSE done
          [] OTHER ->
                CASE ~parsed.ok -> parsed
                  [] parsed.ok /\ ~postfix.ok -> postfix
                  [] parsed.ok /\ postfix.ok /\ ~result.ok ->
                        Failed("Invalid argument for function!")
                  [] OTHER -> Arguments(Tail(expressions), several,
                                        Append(args, result.it),
                                        Latest(result.error, parsed.error), variables)

Parse(text, queue, error, variables) ==
    LET c == Head(text)
        read == ReadNumber(text)
        symbol == toOperator(text)
        op == CASE AtStart(queue) /\ symbol.op = Operator.Addition -> Operator.Plus
                [] AtStart(queue) /\ symbol.op = Operator.Subtraction -> Operator.Minus
                [] OTHER -> symbol.op
        name == Leading(text, Letters)
        rest == After(text, Len(name))
        call == CallArguments(Tail(rest), 1, <<<<>>>>)
        args == Arguments(call.expressions, Len(call.expressions) > 1, <<>>, error,
                          variables)
        go(left, token) == Parse(left, Append(queue, token), error, variables)
    IN  CASE text = <<>> -> [Some(queue) EXCEPT !.error = error]
          [] text # <<>> /\ c \in DigitChars(10) \union {"."} ->
                IF read.rest = text THEN Failed("Invalid syntax!")
                ELSE go(read.rest, Token("Number", read.number))
          [] text # <<>> /\ c = "(" ->
                IF AtStart(queue) THEN go(Tail(text), Token("Bracket", "("))
                ELSE Failed("Invalid syntax!")
          [] text # <<>> /\ c = ")" -> go(Tail(text), Token("Bracket", ")"))
          [] text # <<>> /\ c = " " -> Parse(Tail(text), queue, error, variables)
          [] OTHER ->
                CASE op # Operator.Invalid -> go(After(text, symbol.width), Token("Operator", op))
                  [] op = Operator.Invalid /\ BeginsWith(rest, "(") ->
                        IF args.ok
                        THEN Parse(call.rest,
                                   Append(queue, Token("Function", [name |-> name,
                                                                    arguments |-> args.it])),
                                   args.error, variables)
                        ELSE args
                  [] op = Operator.Invalid /\ ~BeginsWith(rest, "(") ->
                        IF name = <<>> THEN Failed("Invalid syntax!")
                        ELSE go(rest, Token("Variable", name))
parseInput(text, variables) == Parse(text, <<>>, None, variables)

-----------------------------------------------------------------------------
(* The evaluator.                                                          *)

setVariable(variables, name, value, constant) ==
    [n \in DOMAIN variables \union {name} |->
        IF n = name THEN [value |-> value, constant |-> constant] ELSE variables[n]]

\* The standard variables whose values are integers when T is: the numbers
\* pi, e and phi are cut off.
Ans == <<"a", "n", "s">>
Pi == <<"p", "i">>
Euler == <<"e">>
Phi == <<"p", "h", "i">>
registerStandardVariables ==
    [n \in {Ans, Pi, Euler, Phi} |->
        [value |-> CASE n = Ans -> 0 [] n = Pi -> 3 [] n = Euler -> 2 [] n = Phi -> 1,
         constant |-> n # Ans]]

\* A wrong one: constants are assigned to as well.
AlwaysAssign(variables, name) == TRUE
MayAssign(variables, name) == name \in DOMAIN variables => ~variables[name].constant

\* Failed steps leave the variables alone; the error of an earlier
\* evaluation stays until another one sets one.
evaluate(state, text) ==
    LET queue == parseInput(text, state.variables)
        q == queue.it
        assigns == /\ Len(q) > 2 /\ q[1].type = "Variable"
                   /\ IsOp(q[2]) /\ q[2].value = Operator.Assign
        target == IF assigns THEN q[1].value ELSE Ans
        postfix == toPostfix(IF assigns THEN SubSeq(q, 3, Len(q)) ELSE q)
        result == CASE ~queue.ok -> queue
                    [] queue.ok /\ q = <<>> -> Failed(None)
                    [] queue.ok /\ q # <<>> /\ ~postfix.ok -> postfix
                    [] OTHER -> evaluatePostfix(postfix.it, state.variables)
    IN  [result |-> result,
         variables |-> IF result.ok /\ MayAssign(state.variables, target)
                       THEN setVariable(state.variables, target, result.it, FALSE)
                       ELSE state.variables,
         m_lastError |-> Latest(result.error, Latest(queue.error, state.m_lastError))]
=============================================================================
