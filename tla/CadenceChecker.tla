----------------------------- MODULE CadenceChecker -----------------------------
(***************************************************************************)
(* The Cadence semantic checker's visitors for expression statements,      *)
(* identifiers, literals and index expressions                             *)
(* (pkg/language/runtime/sema/check_expression.go).  The checker walks an  *)
(* expression depth first, returns its type and reports errors in order;  *)
(* a nil pointer dereference panics and ends the walk.                     *)
(*                                                                         *)
(* An expression is a record with its kind and its start position; an     *)
(* index expression holds its two subexpressions.  A variable of the       *)
(* checker's scope is its type and the positions where it was moved and    *)
(* destroyed (NoPos for nil).  The helpers of other files are taken as     *)
(* contracts: findAndCheckVariable reports NotDeclared and returns nil for *)
(* an undeclared name; an array of T is indexed by Int and gives T; a      *)
(* resource, and an array of resources, is a resource type.                *)
(***************************************************************************)
EXTENDS Naturals, Sequences, FiniteSets

CONSTANTS
  Vars,         \* identifiers of the program
  NoPos,        \* a nil *ast.Position
  MoveSite,     \* the position of a move
  DestroySite,  \* the position of a destroy
  Undeclared    \* a name with no variable in scope

Types == {"Int", "Bool", "String", "Optional", "IntArray", "Resource",
          "ResourceArray", "Invalid"}

(* The type nil stands for.                                                *)
NoType == "nil"

IsResourceType(t) == t \in {"Resource", "ResourceArray"}

IsInvalidType(t) == t = "Invalid"

(* IndexableElementType: the element type, or nil if t is not indexable.   *)
IndexableElementType(t, isAssignment) ==
  CASE t = "IntArray"      -> "Int"
    [] t = "ResourceArray" -> "Resource"
    [] OTHER               -> NoType

IsIndexingType(t, indexedType) == t = "Int"

Variables ==
  [type : {"Int", "IntArray"}, movePos : {NoPos}, destroyPos : {NoPos}]
  \cup [type : {"Resource", "ResourceArray"}, movePos : {NoPos, MoveSite},
        destroyPos : {NoPos, DestroySite}]

(* The result of a visit: a type, the errors reported, whether it panicked *)
Result(t, errs) == [type |-> t, errs |-> errs, panic |-> FALSE]
Panic(errs) == [type |-> NoType, errs |-> errs, panic |-> TRUE]

-----------------------------------------------------------------------------
(* VisitIdentifierExpression.                                              *)
VisitIdentifierExpression(e, env) ==
  LET x == env[e.var] IN
  IF x = Undeclared
    THEN Result("Invalid", <<[kind |-> "NotDeclared", pos |-> e.pos]>>)
  ELSE IF IsResourceType(x.type) /\ x.movePos # NoPos
    THEN Result(x.type, <<[kind |-> "ResourceUseAfterMove", pos |-> e.pos,
                           cause |-> x.movePos]>>)
  ELSE IF IsResourceType(x.type) /\ x.destroyPos # NoPos
    THEN IF x.movePos = NoPos
           THEN Panic(<<>>)    \* *variable.MovePos on a nil pointer
           ELSE Result(x.type, <<[kind |-> "ResourceUseAfterDestruction",
                                  pos |-> e.pos, cause |-> x.movePos]>>)
  ELSE Result(x.type, <<>>)

(* The literal visitors: Bool, Nil (an optional of Never), Int, String.    *)
LiteralType(kind) ==
  CASE kind = "bool" -> "Bool"
    [] kind = "nil"  -> "Optional"
    [] kind = "int"  -> "Int"
    [] OTHER         -> "String"

RECURSIVE Visit(_, _)

(* Mutant: the element type of a non-indexable type stays nil.          *)
visitIndexingExpressionNilElement(indexed, indexing, isAssignment, env) ==
  LET a == Visit(indexed, env)
      b == Visit(indexing, env)
      elementType == IndexableElementType(a.type, isAssignment)
  IN
  IF a.panic THEN a
  ELSE IF b.panic THEN Panic(a.errs \o b.errs)
  ELSE IF IsInvalidType(a.type) THEN Result("Invalid", a.errs \o b.errs)
  ELSE IF elementType = NoType
    THEN Result(NoType, a.errs \o b.errs \o
                <<[kind |-> "NotIndexableType", pos |-> indexed.pos,
                   type |-> a.type]>>)
  ELSE IF ~IsInvalidType(b.type) /\ ~IsIndexingType(b.type, a.type)
    THEN Result(elementType, a.errs \o b.errs \o
                <<[kind |-> "NotIndexingType", pos |-> indexing.pos,
                   type |-> b.type]>>)
  ELSE Result(elementType, a.errs \o b.errs)

(* Mutant: an invalid indexing type is reported again.                  *)
visitIndexingExpressionCascading(indexed, indexing, isAssignment, env) ==
  LET a == Visit(indexed, env)
      b == Visit(indexing, env)
      elementType == IndexableElementType(a.type, isAssignment)
  IN
  IF a.panic THEN a
  ELSE IF b.panic THEN Panic(a.errs \o b.errs)
  ELSE IF IsInvalidType(a.type) THEN Result("Invalid", a.errs \o b.errs)
  ELSE IF elementType = NoType
    THEN Result("Invalid", a.errs \o b.errs \o
                <<[kind |-> "NotIndexableType", pos |-> indexed.pos,
                   type |-> a.type]>>)
  ELSE IF ~IsIndexingType(b.type, a.type)
    THEN Result(elementType, a.errs \o b.errs \o
                <<[kind |-> "NotIndexingType", pos |-> indexing.pos,
                   type |-> b.type]>>)
  ELSE Result(elementType, a.errs \o b.errs)

(* visitIndexingExpression: visit the indexed, then the indexing           *)
(* expression; an invalid indexed type gives Invalid with no new error, a  *)
(* non-indexable one NotIndexableType, and a valid indexing type that      *)
(* cannot index NotIndexingType.                                           *)
visitIndexingExpression(indexed, indexing, isAssignment, env) ==
  LET a == Visit(indexed, env)
      b == Visit(indexing, env)
      elementType == IndexableElementType(a.type, isAssignment)
  IN
  IF a.panic THEN a
  ELSE IF b.panic THEN Panic(a.errs \o b.errs)
  ELSE IF IsInvalidType(a.type) THEN Result("Invalid", a.errs \o b.errs)
  ELSE IF elementType = NoType
    THEN Result("Invalid", a.errs \o b.errs \o
                <<[kind |-> "NotIndexableType", pos |-> indexed.pos,
                   type |-> a.type]>>)
  ELSE IF ~IsInvalidType(b.type) /\ ~IsIndexingType(b.type, a.type)
    THEN Result(elementType, a.errs \o b.errs \o
                <<[kind |-> "NotIndexingType", pos |-> indexing.pos,
                   type |-> b.type]>>)
  ELSE Result(elementType, a.errs \o b.errs)

(* Accept: dispatch on the kind of the expression.                         *)
Visit(e, env) ==
  CASE e.kind = "id"    -> VisitIdentifierExpression(e, env)
    [] e.kind = "index" -> visitIndexingExpression(e.indexed, e.indexing,
                                                   FALSE, env)
    [] OTHER            -> Result(LiteralType(e.kind), <<>>)

-----------------------------------------------------------------------------
(* Expressions up to two nested index expressions; positions number the    *)
(* nodes in source order.                                                  *)
Leaves(pos) ==
  {[kind |-> "id", var |-> v, pos |-> pos] : v \in Vars}
  \cup {[kind |-> k, pos |-> pos] : k \in {"bool", "nil", "int", "string"}}

IndexExprs(pos, A, B) ==
  {[kind |-> "index", indexed |-> a, indexing |-> b, pos |-> pos] :
     a \in A, b \in B}

Statements ==
  Leaves(1) \cup IndexExprs(1, Leaves(2), Leaves(3))
  \cup IndexExprs(1, IndexExprs(2, Leaves(3), Leaves(4)), Leaves(5))

VARIABLES
  env,      \* the checker's scope: identifier -> variable or Undeclared
  stmt,     \* the expression statement being checked
  state,    \* "checking", "done" or "panicked"
  errors    \* the errors reported, in order

vars == <<env, stmt, state, errors>>

Init ==
  /\ env \in [Vars -> Variables \cup {Undeclared}]
  /\ stmt \in Statements
  /\ state = "checking"
  /\ errors = <<>>

(* VisitExpressionStatement: visit the expression and report a resource    *)
(* value that the statement drops.                                         *)
VisitExpressionStatement ==
  LET r == Visit(stmt, env) IN
  /\ state = "checking"
  /\ IF r.panic
       THEN /\ state' = "panicked"
            /\ errors' = r.errs
       ELSE /\ state' = "done"
            /\ errors' = r.errs \o
                 (IF IsResourceType(r.type)
                    THEN <<[kind |-> "ResourceLoss", pos |-> stmt.pos]>>
                    ELSE <<>>)
  /\ UNCHANGED <<env, stmt>>

Next == VisitExpressionStatement

Spec == Init /\ [][Next]_vars

-----------------------------------------------------------------------------
Positions == 1 .. 5

CheckerError ==
  [kind : {"NotDeclared", "ResourceLoss"}, pos : Positions]
  \cup [kind : {"ResourceUseAfterMove", "ResourceUseAfterDestruction"},
        pos : Positions, cause : {MoveSite, DestroySite}]
  \cup [kind : {"NotIndexableType", "NotIndexingType"}, pos : Positions,
        type : Types]

TypeOK ==
  /\ state \in {"checking", "done", "panicked"}
  /\ errors \in Seq(CheckerError)

(* The subexpressions of e, e included.                                    *)
RECURSIVE Subexpressions(_)
Subexpressions(e) ==
  IF e.kind = "index"
    THEN {e} \cup Subexpressions(e.indexed) \cup Subexpressions(e.indexing)
    ELSE {e}

(* The type an expression has, Invalid where a part of it is in error.     *)
RECURSIVE TypeOf(_, _)
TypeOf(e, en) ==
  CASE e.kind = "id" ->
         IF en[e.var] = Undeclared THEN "Invalid" ELSE en[e.var].type
    [] e.kind = "index" ->
         LET t == TypeOf(e.indexed, en) IN
         IF IndexableElementType(t, FALSE) = NoType THEN "Invalid"
         ELSE IndexableElementType(t, FALSE)
    [] OTHER -> LiteralType(e.kind)

(* The errors the checker owes a statement: one per fault, at the fault,   *)
(* and none about an expression a part of which is already in error.      *)
ExpectedErrors(s, en) ==
  LET ids == {e \in Subexpressions(s) : e.kind = "id"}
      idx == {e \in Subexpressions(s) : e.kind = "index"}
      res(e) == en[e.var] # Undeclared /\ IsResourceType(en[e.var].type)
  IN
  {[kind |-> "NotDeclared", pos |-> e.pos] : e \in {d \in ids : en[d.var] = Undeclared}}
  \cup {[kind |-> "ResourceUseAfterMove", pos |-> e.pos, cause |-> MoveSite] :
          e \in {d \in ids : res(d) /\ en[d.var].movePos # NoPos}}
  \cup {[kind |-> "ResourceUseAfterDestruction", pos |-> e.pos,
         cause |-> DestroySite] :
          e \in {d \in ids : res(d) /\ en[d.var].movePos = NoPos
                             /\ en[d.var].destroyPos # NoPos}}
  \cup {[kind |-> "NotIndexableType", pos |-> e.indexed.pos,
         type |-> TypeOf(e.indexed, en)] :
          e \in {d \in idx : ~IsInvalidType(TypeOf(d.indexed, en))
                             /\ IndexableElementType(TypeOf(d.indexed, en), FALSE) = NoType}}
  \cup {[kind |-> "NotIndexingType", pos |-> e.indexing.pos,
         type |-> TypeOf(e.indexing, en)] :
          e \in {d \in idx : IndexableElementType(TypeOf(d.indexed, en), FALSE) # NoType
                             /\ ~IsInvalidType(TypeOf(d.indexing, en))
                             /\ TypeOf(d.indexing, en) # "Int"}}
  \cup (IF IsResourceType(TypeOf(s, en))
          THEN {[kind |-> "ResourceLoss", pos |-> s.pos]} ELSE {})

(***************************************************************************)
(* When checking a statement completes, the checker has reported exactly   *)
(* the errors it owes, each once: every undeclared name, use of a moved    *)
(* resource, non-indexable indexed expression, wrong index type and        *)
(* dropped resource, and no cascading error about an expression one of     *)
(* whose parts already had an error.                                       *)
(***************************************************************************)
ReportsExactlyTheFaults ==
  state = "done" =>
    /\ {errors[k] : k \in DOMAIN errors} = ExpectedErrors(stmt, env)
    /\ Len(errors) = Cardinality(ExpectedErrors(stmt, env))

(***************************************************************************)
(* The branch for a use of a destroyed resource builds a                   *)
(* ResourceUseAfterDestructionError: checking a statement that uses a      *)
(* destroyed resource reports that error and never crashes the checker.    *)
(***************************************************************************)
UseAfterDestructionReported == state # "panicked"

=============================================================================
