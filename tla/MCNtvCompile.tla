---------------------------- MODULE MCNtvCompile ----------------------------
(* All trees over some tests to a depth of three, a side of it smaller. *)
EXTENDS NtvCompile

Flag(w, b) == [op |-> "flag", word |-> w, bit |-> b]
Number(n) == [val |-> n]
Value == [attr |-> "number"]
Relation(rel, x, y) == [op |-> rel, l |-> x, r |-> y]

Over(left, right) ==
    {[op |-> "not", l |-> a] : a \in left}
    \cup {[op |-> o, l |-> a, r |-> b] : o \in {"and", "or"}, a \in left, b \in right}
    \cup {[op |-> o, l |-> b, r |-> a] : o \in {"and", "or"}, a \in left, b \in right}

Tests == {Flag(0, 1), Flag(0, 2), Flag(1, 0)}
         \cup {Relation("in", Value, Number({0, 2})), Relation("lt", Value, Number(1))}
Others == {Relation(rel, Value, Number(1)) : rel \in {"gt", "le", "ge", "eq", "ne"}}
          \cup {Relation("like", Value, Number({1})), Relation("lt", Number(0), Value),
                Relation("lt", Value, Value)}
Few == {Flag(0, 1), Relation("lt", Value, Number(1))}

Once(tests) == tests \cup Over(tests, tests)
Twice(tests) == Once(tests) \cup Over(Once(tests), Once(tests))

TestTrees == Twice(Tests) \cup Once(Others \cup Few) \cup Over(Twice(Few), Once(Few))

FlagTrees == Once({Flag(0, 1), Flag(1, 0)})

Flags == {<<0, 1>>, <<0, 2>>, <<1, 0>>}
Every == {[exists |-> TRUE, flags |-> f, value |-> v] : f \in SUBSET Flags, v \in 0..2}
Deleted == {[exists |-> FALSE, flags |-> f, value |-> v] :
               f \in SUBSET {<<1, 0>>}, v \in {0, 2}}
DocumentsAndDeleted == Every \cup Deleted
=============================================================================
