-------------------------- MODULE GuardExpressions --------------------------
(***************************************************************************)
(* The guard language of gateways, sentries and completion conditions: how *)
(* the compiler parses it (compiler.rs, GuardParser), how the canonical    *)
(* printer writes it back (printer.rs), and how the engine evaluates the   *)
(* compiled form (workflow.rs).                                            *)
(*                                                                         *)
(* A source text is its sequence of tokens [t, v]; characters, escapes and *)
(* white space are below this level.  A literal is [type, v] with v an     *)
(* integer: booleans are 0 and 1, and a string is its rank in the byte     *)
(* order the comparisons use.  An absent variable has type "none".         *)
(***************************************************************************)
EXTENDS Integers, Sequences

Operator == {"==", "!=", "<", "<=", ">", ">="}

Literal(type, v) == [type |-> type, v |-> v]
NoValue == Literal("none", 0)

Comparison(var, op, lit) == [k |-> "cmp", var |-> var, op |-> op, lit |-> lit]
Junction(k, operands) == [k |-> k, args |-> operands]
Negation(e) == [k |-> "not", args |-> <<e>>]
Constant(b) == [k |-> "const", v |-> b]

-----------------------------------------------------------------------------
(* Parsing: a recursive descent over the tokens.  A result is the          *)
(* expression and the next cursor; an error has no expression.             *)

Token(t, v) == [t |-> t, v |-> v]
EndOfTokens == Token("eof", NoValue)
TokenAt(ts, i) == IF i \in DOMAIN ts THEN ts[i] ELSE EndOfTokens

Failed == [ok |-> FALSE, next |-> 0, e |-> Constant(0)]
Parsed(e, next) == [ok |-> TRUE, next |-> next, e |-> e]

IsBoolean(tok) == tok.t = "lit" /\ tok.v.type = "bool"

(* "true" and "false" stand alone unless an operator follows; a comparison *)
(* is variable, operator, literal, and a boolean has only == and !=.       *)
ParseAtom(ts, i) ==
  IF IsBoolean(TokenAt(ts, i)) /\ TokenAt(ts, i + 1).t # "op"
    THEN Parsed(Constant(ts[i].v.v), i + 1)
  ELSE IF /\ TokenAt(ts, i).t = "id"
          /\ TokenAt(ts, i + 1).t = "op"
          /\ TokenAt(ts, i + 2).t = "lit"
          /\ IsBoolean(ts[i + 2]) => ts[i + 1].v \in {"==", "!="}
    THEN Parsed(Comparison(ts[i].v, ts[i + 1].v, ts[i + 2].v), i + 3)
  ELSE Failed

RECURSIVE ParseUnary(_, _), ParseOperands(_, _, _, _)

(* `not' binds tightest and nests; a parenthesis encloses a disjunction.   *)
ParseUnary(ts, i) ==
  CASE TokenAt(ts, i).t = "not" ->
         LET r == ParseUnary(ts, i + 1)
         IN  IF r.ok THEN Parsed(Negation(r.e), r.next) ELSE Failed
    [] TokenAt(ts, i).t = "(" ->
         LET r == ParseOperands("or", ts, i + 1, <<>>)
         IN  IF r.ok /\ TokenAt(ts, r.next).t = ")"
               THEN Parsed(r.e, r.next + 1) ELSE Failed
    [] OTHER -> ParseAtom(ts, i)

(* parse_or over parse_and over parse_unary: one operand is returned as it *)
(* is, several become one flat junction.                                   *)
ParseOperands(level, ts, i, operands) ==
  LET r == IF level = "or" THEN ParseOperands("and", ts, i, <<>>)
                           ELSE ParseUnary(ts, i)
      all == Append(operands, r.e)
  IN  IF ~r.ok THEN Failed
      ELSE IF TokenAt(ts, r.next).t = level
        THEN ParseOperands(level, ts, r.next + 1, all)
      ELSE Parsed(IF Len(all) = 1 THEN all[1] ELSE Junction(level, all), r.next)

(* parse_boolean_expression: an empty guard and trailing tokens are errors. *)
ParseGuard(ts) ==
  LET r == ParseOperands("or", ts, 1, <<>>)
  IN  IF ts # <<>> /\ r.ok /\ r.next = Len(ts) + 1 THEN r ELSE Failed

-----------------------------------------------------------------------------
(* Printing: junctions are parenthesised, a negation encloses its operand. *)

RECURSIVE Render(_), RenderOperands(_, _)

RenderOperands(op, args) ==
  IF Len(args) = 1 THEN Render(args[1])
  ELSE Render(args[1]) \o <<Token(op, NoValue)>> \o RenderOperands(op, Tail(args))

(* A printer that leaves a junction bare lets && capture its neighbours.   *)
RenderBare(e) ==
  CASE e.k = "cmp" -> <<Token("id", e.var), Token("op", e.op), Token("lit", e.lit)>>
    [] e.k = "const" -> <<Token("lit", Literal("bool", e.v))>>
    [] e.k = "not" -> <<Token("not", NoValue), Token("(", NoValue)>>
                        \o Render(e.args[1]) \o <<Token(")", NoValue)>>
    [] OTHER -> RenderOperands(e.k, e.args)

Render(e) ==
  CASE e.k = "cmp" -> <<Token("id", e.var), Token("op", e.op), Token("lit", e.lit)>>
    [] e.k = "const" -> <<Token("lit", Literal("bool", e.v))>>
    [] e.k = "not" -> <<Token("not", NoValue), Token("(", NoValue)>>
                        \o Render(e.args[1]) \o <<Token(")", NoValue)>>
    [] OTHER -> <<Token("(", NoValue)>> \o RenderOperands(e.k, e.args)
                        \o <<Token(")", NoValue)>>

-----------------------------------------------------------------------------
(* Evaluation: "true", "false", or the error that stops it.                *)

Holds(op, a, b) ==
  CASE op = "==" -> a = b
    [] op = "!=" -> a # b
    [] op = "<"  -> a < b
    [] op = "<=" -> a <= b
    [] op = ">"  -> a > b
    [] op = ">=" -> a >= b

Answer(b) == IF b THEN "true" ELSE "false"

EvaluateComparison(e, variables) ==
  CASE variables[e.var].type = "none" -> "missing"
    [] variables[e.var].type \notin {"none", e.lit.type} -> "mismatch"
    [] OTHER -> Answer(Holds(e.op, variables[e.var].v, e.lit.v))

RECURSIVE Evaluate(_, _), EvaluateOperands(_, _, _)

(* The operands in order, up to the first that is not `pass' (an error     *)
(* included).                                                              *)
EvaluateOperands(pass, args, variables) ==
  IF args = <<>> THEN pass
  ELSE LET first == Evaluate(Head(args), variables)
       IN  IF first = pass THEN EvaluateOperands(pass, Tail(args), variables)
                           ELSE first

Evaluate(e, variables) ==
  CASE e.k = "cmp"   -> EvaluateComparison(e, variables)
    [] e.k = "and"   -> EvaluateOperands("true", e.args, variables)
    [] e.k = "or"    -> EvaluateOperands("false", e.args, variables)
    [] e.k = "const" -> Answer(e.v = 1)
    [] e.k = "not"   -> LET a == Evaluate(e.args[1], variables)
                        IN  CASE a = "true" -> "false"
                              [] a = "false" -> "true"
                              [] OTHER -> a
=============================================================================
