------------------------------- MODULE MCSoql -------------------------------
(* Three columns, two texts in two spellings each, predicates nested once. *)
EXTENDS Soql

CONSTANTS name, id, secret

MCFields == [ c \in {name, id, secret} |->
                [ filterable |-> c # secret, id |-> c = id ] ]

MCValues == 1 .. 4

Atoms ==
  { [ is |-> "compare", field |-> name, op |-> o, const |-> 2, flipped |-> f ] :
      o \in {"=", "!=", "<", ">="}, f \in BOOLEAN }
  \union { [ is |-> "compare", field |-> id, op |-> o, const |-> c, flipped |-> FALSE ] :
             o \in {"=", ">"}, c \in {1, 4} }
  \union { [ is |-> "compare", field |-> name, op |-> "=", const |-> 3, flipped |-> FALSE ],
           [ is |-> "compare", field |-> secret, op |-> "=", const |-> 1, flipped |-> FALSE ],
           [ is |-> "distinct", field |-> name, const |-> 1 ],
           [ is |-> "like", field |-> name, const |-> 1 ] }
  \union { [ is |-> "between", field |-> name, lo |-> 1, hi |-> h, lo_inc |-> a, hi_inc |-> ~ a ] :
             h \in {4, Null}, a \in BOOLEAN }
  \union { [ is |-> k, field |-> c ] : k \in {"null", "notnull"}, c \in {name, secret} }
  \union { [ is |-> "in", field |-> c, consts |-> v ] :
             c \in {name, id}, v \in {{1, 2}, {1, Null}, {4}, {1, 2, 4}} }

(* What stands first in a pair, and what second: an atom without a         *)
(* translation, and one of each fate that has one.                         *)
First == { x \in Atoms : \/ x.is \in {"between", "null"}
                         \/ x.is = "in" /\ x.field = name
                         \/ x.is = "compare" /\ x.op \in {"=", "!="} /\ ~ x.flipped }

Second == { x \in Atoms : \/ x.is \in {"distinct", "like"}
                          \/ x.is = "compare" /\ x.op = "=" /\ x.const \in {2, 4} }

Pairs ==
  { [ is |-> k, args |-> << a, b >> ] : k \in {"and", "or"}, a \in First, b \in Second }

MCPredicates == Atoms \union Pairs

(* Lengths in constants, with one more for the parentheses. *)
AtomLength(e) == CASE e.is = "between" -> 2 [] e.is = "in" -> Cardinality(e.consts) [] OTHER -> 1

MCLength ==
  [ e \in MCPredicates |->
      IF e \in Atoms THEN AtomLength(e) ELSE AtomLength(e.args[1]) + AtomLength(e.args[2]) + 1 ]
=============================================================================
