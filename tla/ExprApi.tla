------------------------------- MODULE ExprApi -------------------------------
(***************************************************************************)
(* The entry points of src/expr.rs and src/json.rs: expressions are built  *)
(* bottom-up, every combinator consuming the expressions it combines, also *)
(* when it rejects one of them.                                            *)
(***************************************************************************)
EXTENDS Handles

ExprColumn == \E ok \in ArgsPass : Rebuilds("expr_column", {}, {"Expr"}, ok)

ExprLiteralString ==
  \E ok \in ArgsPass : Rebuilds("expr_literal_string", {}, {"Expr"}, ok)

(* expr_literal_i64, expr_literal_f64 and expr_literal_bool.               *)
ExprLiteral == Succeeds("expr_literal", {}, {}, {"Expr"})

(* Two different pointers: passing one expression twice is not allowed.    *)
ArgPair == {p \in Arg("Expr") \X Arg("Expr") : p[1] = p[2] => p[1] = NULL}

Combines(fn, p) == Rebuilds(fn, {p[1], p[2]}, {"Expr"}, NULL \notin {p[1], p[2]})

ExprBinary == \E p \in ArgPair : Combines("expr_binary", p)

ExprAnd == \E p \in ArgPair : Combines("expr_and", p)

ExprOr == \E p \in ArgPair : Combines("expr_or", p)

ExprNot == \E e \in Arg("Expr") : Rebuilds("expr_not", {e}, {"Expr"}, e # NULL)

ExprIsNull == \E e \in Arg("Expr") : Rebuilds("expr_is_null", {e}, {"Expr"}, e # NULL)

ExprIsNotNull ==
  \E e \in Arg("Expr") : Rebuilds("expr_is_not_null", {e}, {"Expr"}, e # NULL)

(* Mutant: a NULL element ends the call before the other elements are      *)
(* taken.                                                                  *)
ExprInListStopsEarly ==
  \E e \in Arg("Expr"), list \in SUBSET Arg("Expr"), ok \in ArgsPass :
    /\ e \notin list \ {NULL}
    /\ list # {} => e # NULL \/ "listOnly" \in BadInputs
    /\ LET given == {e} \cup list
       IN \/ e = NULL /\ Fails("expr_in_list", given, "Null", {})
          \/ /\ e # NULL /\ ~ok /\ list = {}
             /\ Fails("expr_in_list", given, "Null", {e})
          \/ e # NULL /\ NULL \in list /\ Fails("expr_in_list", given, "Null", {e})
          \/ /\ e # NULL /\ NULL \notin list /\ ok
             /\ Succeeds("expr_in_list", given, given, {"Expr"})

(* Without an expression the function returns before it looks at the list; *)
(* with one, every element is taken, also when another element is NULL.    *)
(* No list at all (list = NULL) has no elements to take.                   *)
ExprInList ==
  \E e \in Arg("Expr"), list \in SUBSET Arg("Expr"), ok \in ArgsPass :
    /\ e \notin list \ {NULL}
    /\ list # {} => e # NULL \/ "listOnly" \in BadInputs
    /\ LET given == {e} \cup list
       IN \/ e = NULL /\ Fails("expr_in_list", given, "Null", {})
          \/ /\ e # NULL /\ ~ok /\ list = {}
             /\ Fails("expr_in_list", given, "Null", {e})
          \/ /\ e # NULL /\ NULL \in list
             /\ Fails("expr_in_list", given, "Null", given \ {NULL})
          \/ /\ e # NULL /\ NULL \notin list /\ ok
             /\ Succeeds("expr_in_list", given, given, {"Expr"})

ExprArrayHas ==
  \E p \in ArgPair :
    \/ Combines("expr_array_has", p) /\ NULL \notin {p[1], p[2]}
    \/ /\ NULL \in {p[1], p[2]}
       /\ Fails("expr_array_has", {p[1], p[2]}, "Null", {p[1], p[2]} \ {NULL})

(* The clone leaves the original with the caller.                          *)
ExprClone == \E e \in Arg("Expr") : Rebuilds("expr_clone", {}, {"Expr"}, e # NULL)

ExprFree == Frees("expr_free", "Expr")

(* json_get_str, _int, _float, _bool and json_contains: build_json_udf_expr *)
(* takes the expression also when the path is missing or not UTF-8.        *)
ExprJsonGet ==
  \E e \in Arg("Expr"), ok \in ArgsPass :
    Rebuilds("expr_json_get", {e}, {"Expr"}, e # NULL /\ ok)

(* The value is taken first; the array expression built from json_expr is  *)
(* folded into the result.                                                 *)
ExprJsonArrayHas ==
  \E p \in ArgPair, ok \in ArgsPass :
    Rebuilds("expr_json_array_has", {p[1], p[2]}, {"Expr"},
             NULL \notin {p[1], p[2]} /\ ok)

(* The expression is taken first; the arrays and the schema are borrowed.  *)
JsonMatches ==
  \E e \in Arg("Expr"), ok \in ArgsPass :
    \/ /\ e = NULL \/ ~ok
       /\ Fails("json_matches", {e}, "InvalidArgument", {e} \ {NULL})
    \/ /\ e # NULL /\ ok /\ Handle("ArrowArray") # {}
       /\ \/ \E made \in {{}, {"Matches"}} : Succeeds("json_matches", {e}, {e}, made)
          \/ \E rc \in {"InvalidArgument", "Error"} : Fails("json_matches", {e}, rc, {e})

FreeJsonMatches == Frees("free_json_matches", "Matches")

-----------------------------------------------------------------------------

ExprNext ==
  \/ ExprColumn \/ ExprLiteralString \/ ExprLiteral
  \/ ExprBinary \/ ExprAnd \/ ExprOr \/ ExprNot \/ ExprIsNull \/ ExprIsNotNull
  \/ ExprInList \/ ExprArrayHas \/ ExprClone \/ ExprFree
  \/ ExprJsonGet \/ ExprJsonArrayHas \/ JsonMatches \/ FreeJsonMatches
=============================================================================
