------------------------------- MODULE Formula -------------------------------
(***************************************************************************)
(* Formulas and the visitors that compile them: the evaluators that run on *)
(* the model's state (src/pemc/formula/slow_formula_compilation_visitor.cc *)
(* and its copy for SimpleModel) and those that run on the label of a      *)
(* transition (generate_label_based_formula_evaluator.cc).                 *)
(*                                                                         *)
(* A formula is a record.  Its id is what getIdentifier returns; Unnamed   *)
(* stands for a generated identifier, which no other formula has; a label  *)
(* formula that is also checked as it stands has a name.  What an          *)
(* adapted formula says of a state is the state's valuation of its id.     *)
(* A visitor is a function on the parts of the formula it visits; the      *)
(* height of a formula bounds how deep they are.                           *)
(***************************************************************************)
EXTENDS Integers, Sequences

Unnamed == ""

Adapted(id) == [kind |-> "adapted", id |-> id, height |-> 0]
Unary(op, f) ==
  [kind |-> "unary", id |-> Unnamed, op |-> op, operand |-> f, height |-> f.height + 1]
Binary(f, op, g) ==
  [kind |-> "binary", id |-> Unnamed, op |-> op, left |-> f, right |-> g,
   height |-> f.height + g.height + 1]
BoundedUnary(op, f, bound) ==
  [kind |-> "boundedUnary", id |-> Unnamed, op |-> op, operand |-> f, bound |-> bound,
   height |-> f.height + 1]
BoundedBinary(f, op, g, bound) ==
  [kind |-> "boundedBinary", id |-> Unnamed, op |-> op, left |-> f, right |-> g,
   bound |-> bound, height |-> f.height + g.height + 1]
Named(f, id) == [f EXCEPT !.id = id]

Operands(f) ==
  CASE f.kind \in {"unary", "boundedUnary"}   -> {f.operand}
    [] f.kind \in {"binary", "boundedBinary"} -> {f.left, f.right}
    [] OTHER -> {}

\* What a visitor of the formula may visit: the formula, its operands, theirs ...
Parts(f) ==
  LET within[n \in 0..f.height] ==
        IF n = 0 THEN {f}
        ELSE within[n - 1] \cup UNION {Operands(g) : g \in within[n - 1]}
  IN  within[f.height]

\* What the compiled lambda of a binary formula answers.
Combined(op, left, right) ==
  CASE op = "And"         -> left /\ right
    [] op = "Or"          -> left \/ right
    [] op = "Implication" -> ~left \/ ~right
    [] op = "Equivalence" -> left = right

-----------------------------------------------------------------------------
\* On a state, with its valuation of the adapted formulas.
EvaluateOnState(f, valuation) ==
  LET value[g \in Parts(f)] ==
        IF g.kind = "adapted" THEN valuation[g.id]
        ELSE IF g.kind = "unary" THEN ~value[g.operand]
        ELSE Combined(g.op, value[g.left], value[g.right])
  IN  value[f]

\* SlowFormulaCompilationVisitor throws for the operators over time.
CompilesOnState(f) ==
  \A g \in Parts(f) :
    \/ g.kind = "adapted"
    \/ g.kind = "unary" /\ g.op = "Not"
    \/ g.kind = "binary" /\ g.op # "Until"

\* The adapted formula that a compilation visits last.
LastVisited(f) ==
  LET last[g \in Parts(f)] ==
        IF g.kind = "adapted" THEN g
        ELSE last[IF g.kind = "unary" THEN g.operand ELSE g.right]
  IN  last[f]

\* AbstractModel::calculateLabel: bit i is the value of label formula i.  The
\* constructor refuses more formulas than it has bits for (Pemc!TooManyLabels).
LabelOf(labelFormulas, valuation) ==
  [i \in 1..Len(labelFormulas) |-> EvaluateOnState(labelFormulas[i], valuation)]

-----------------------------------------------------------------------------
\* tryToFindIdentifier
Found(labelIdentifier, f) ==
  f.id # Unnamed /\ \E i \in 1..Len(labelIdentifier) : labelIdentifier[i] = f.id

FirstFound(labelIdentifier, f) ==
  CHOOSE i \in 1..Len(labelIdentifier) :
    /\ labelIdentifier[i] = f.id
    /\ \A k \in 1..i - 1 : labelIdentifier[k] # f.id

\* The visitor throws where it can neither look a formula up nor compose it.
Compiles(labelIdentifier, f) ==
  LET compiles[g \in Parts(f)] ==
        \/ Found(labelIdentifier, g)
        \/ g.kind = "unary" /\ g.op = "Not" /\ compiles[g.operand]
        \/ g.kind = "binary" /\ g.op # "Until" /\ compiles[g.left] /\ compiles[g.right]
  IN  compiles[f]

EvaluateOnLabel(labelIdentifier, f, label) ==
  LET value[g \in Parts(f)] ==
        IF Found(labelIdentifier, g) THEN label[FirstFound(labelIdentifier, g)]
        ELSE IF g.kind = "unary" THEN ~value[g.operand]
        ELSE g.kind = "binary" /\ Combined(g.op, value[g.left], value[g.right])
  IN  value[f]

-----------------------------------------------------------------------------
\* std::nullopt: no bound, and no formula of the shape "phi until psi".
NoBound == -1
NoFormula == [kind |-> "none", id |-> Unnamed, height |-> 0]
NoMatch == [phi |-> NoFormula, psi |-> NoFormula, bound |-> NoBound]

\* tryExtractPhiUntilPsiWithBound; "finally psi" has no phi (a null pointer).
PhiUntilPsi(f) ==
  CASE f.kind = "unary" /\ f.op = "Finally" ->
         [phi |-> NoFormula, psi |-> f.operand, bound |-> NoBound]
    [] f.kind = "binary" /\ f.op = "Until" ->
         [phi |-> f.left, psi |-> f.right, bound |-> NoBound]
    [] f.kind = "boundedUnary" /\ f.op = "Finally" ->
         [phi |-> NoFormula, psi |-> f.operand, bound |-> f.bound]
    [] f.kind = "boundedBinary" /\ f.op = "Until" ->
         [phi |-> f.left, psi |-> f.right, bound |-> f.bound]
    [] OTHER -> NoMatch

-----------------------------------------------------------------------------
\* What a formula means, by the symbols formulaToString prints for it
\* (src/pemc/formula/formula_to_string_visitor.cc:64, 93-102).
AsPrinted(op, left, right) ==
  CASE op = "And"         -> left /\ right
    [] op = "Or"          -> left \/ right
    [] op = "Implication" -> left => right
    [] op = "Equivalence" -> left <=> right

Means(f, valuation) ==
  LET means[g \in Parts(f)] ==
        IF g.kind = "adapted" THEN valuation[g.id]
        ELSE IF g.kind = "unary" THEN ~means[g.operand]
        ELSE AsPrinted(g.op, means[g.left], means[g.right])
  IN  means[f]

\* The same for the formulas over time, on the valuations along a path: the
\* bound counts the transitions after the first one
\* (formula_to_string_visitor.cc:124-133, 140-154).
MeansAlong(f, valuations) ==
  \E n \in 1..Len(valuations) :
    /\ n <= f.bound + 1
    /\ \/ /\ f.kind = "boundedUnary" /\ f.op = "Finally"
          /\ Means(f.operand, valuations[n])
       \/ /\ f.kind = "boundedBinary" /\ f.op = "Until"
          /\ Means(f.right, valuations[n])
          /\ \A m \in 1..n - 1 : Means(f.left, valuations[m])

-----------------------------------------------------------------------------
\* A set of formulas that can be evaluated on a state, with their operands; an
\* implication, which the visitors do not evaluate as it is printed, is none.
StateFormulas(U) ==
  \A g \in U :
    /\ g.height \in Nat
    /\ \/ g.kind = "adapted"
       \/ /\ g.kind = "unary" /\ g.op = "Not"
          /\ g.operand \in U /\ g.operand.height < g.height
       \/ /\ g.kind = "binary" /\ g.op \in {"And", "Or", "Equivalence"}
          /\ g.left \in U /\ g.left.height < g.height
          /\ g.right \in U /\ g.right.height < g.height

\* An identifier is the one of one formula.
Unambiguous(U) == \A g, h \in U : g.id = h.id /\ g.id # Unnamed => g = h

\* The valuation of a state says of each adapted formula whether it holds.
Valued(U, valuation) == \A g \in U : g.kind = "adapted" => valuation[g.id] \in BOOLEAN
=============================================================================
