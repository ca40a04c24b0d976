----------------------------- MODULE NtvCompile -----------------------------
(***************************************************************************)
(* Constraints on documents: ntvcompile.c rearranges the parse tree of a   *)
(* constraint and makes code of it, and the engine of ntvsearch.c runs the *)
(* code for every document that might be a hit.                            *)
(*                                                                         *)
(* A node is a record with its operator op.  Two make a boolean, and, or;  *)
(* l and r are their operands.  not has l.  flag is the name of a flag     *)
(* attribute, with the word that holds it and its bit; word 0 is the byte  *)
(* of flags of the document, which has the bit that says the document      *)
(* exists too, and words from 1 on are the groups of flags.  attror and    *)
(* attrand test any or all of some bits of a word.  The others compare two *)
(* operands, a set with a number or an attribute: in and like are tests    *)
(* that the value of an attribute is in a set.                             *)
(*                                                                         *)
(* Code is a sequence of instructions; a label is a place in it.  That     *)
(* memory is a tree of words and code a row of words, and the chains that  *)
(* patch labels, are left out.                                             *)
(***************************************************************************)
EXTENDS Integers, SequencesExt

CONSTANTS Constraints,          \* bound: the parse trees compiled
          Documents             \* bound: documents, as [exists, flags, value]

VARIABLES expr,                 \* the constraint
          query,                \* what ntvCompileQuery made of it
          doc,                  \* the document the engine is working on
          pc,                   \* its place in the code, 0 when it is done
          good                  \* docgood

vars == <<expr, query, doc, pc, good>>

None == [op |-> "none"]
Relations == {"lt", "gt", "le", "ge", "eq", "ne", "in", "like"}
Bit(f) == <<f.word, f.bit>>
----------------------------------------------------------------------------
(* What a constraint says of a document. *)

ValueOf(operand, d) == IF "attr" \in DOMAIN operand THEN d.value ELSE operand.val

Compare(op, x, y) == CASE op = "lt" -> x < y
                       [] op = "gt" -> x > y
                       [] op = "le" -> x =< y
                       [] op = "ge" -> x >= y
                       [] op = "eq" -> x = y
                       [] op = "ne" -> x # y
                       [] op \in {"in", "like"} -> x \in y
                       [] op \in {"notin", "notlike"} -> x \notin y

RECURSIVE Says(_, _)
Says(node, d) ==
    CASE node.op = "and" -> Says(node.l, d) /\ Says(node.r, d)
      [] node.op = "or" -> Says(node.l, d) \/ Says(node.r, d)
      [] node.op = "not" -> ~Says(node.l, d)
      [] node.op = "flag" -> Bit(node) \in d.flags
      [] node.op \in Relations -> Compare(node.op, ValueOf(node.l, d), ValueOf(node.r, d))
----------------------------------------------------------------------------
(* Rearranging: a cluster of operands under one operator, sorted by type,  *)
(* tests of flags of one word merged.                                      *)

Rank(op) == SelectInSeq(<<"and", "or", "not", "lt", "gt", "le", "ge", "eq", "ne", "like",
                          "number", "string", "flag", "attror", "attrand", "in">>,
                        LAMBDA o : o = op)

Merges(op, type) == <<op, type>> \in {<<"attror", "or">>, <<"attrand", "and">>}

\* (a mistake: tests of any flag are merged wherever they stand)
InsertBranchAny(cluster, twig, type) ==
    LET i == SelectInSeq(cluster, LAMBDA b : b.op = twig.op /\ twig.op \in {"attror", "attrand"})
    IN  IF i > 0 THEN [cluster EXCEPT ![i].bits = @ \cup twig.bits]
        ELSE Append(cluster, twig)

InsertBranch(cluster, twig, type) ==
    LET Stops(b) == \/ Rank(twig.op) < Rank(b.op)
                    \/ /\ twig.op = b.op
                       /\ Merges(twig.op, type) => twig.word =< b.word
        i == SelectInSeq(cluster, Stops)
    IN  CASE i = 0 -> Append(cluster, twig)
          [] i > 0 /\ Merges(twig.op, type) /\ cluster[i].op = twig.op
                   /\ cluster[i].word = twig.word ->
                [cluster EXCEPT ![i].bits = @ \cup twig.bits]
          [] OTHER -> InsertAt(cluster, i, twig)

NewSubTree(cluster, type) ==
    FoldLeft(LAMBDA tree, b : [op |-> type, l |-> tree, r |-> b], Head(cluster), Tail(cluster))

\* The tree for a node and the cluster of the operator above it; an operator
\* below the same one puts its operands into that cluster and leaves no tree.
RECURSIVE OptimiseNode(_, _, _)
OptimiseNode(node, prev, cluster) ==
    LET Operand(n, c) == LET o == OptimiseNode(n, node.op, c)
                         IN  IF o.tree = None THEN o.cluster
                             ELSE InsertBranch(o.cluster, o.tree, node.op)
        Operands(c) == Operand(node.r, Operand(node.l, c))
    IN  CASE node.op \in {"and", "or"} /\ node.op = prev ->
                [tree |-> None, cluster |-> Operands(cluster)]
          [] node.op \in {"and", "or"} /\ node.op # prev ->
                [tree |-> NewSubTree(Operands(<<>>), node.op), cluster |-> cluster]
          [] node.op = "not" ->
                [tree |-> [node EXCEPT !.l = OptimiseNode(node.l, "not", <<>>).tree],
                 cluster |-> cluster]
          [] node.op = "flag" ->
                [tree |-> [op |-> IF prev = "and" THEN "attrand" ELSE "attror",
                           word |-> node.word, bits |-> {node.bit}],
                 cluster |-> cluster]
          [] OTHER -> [tree |-> node, cluster |-> cluster]

Optimise(tree) == OptimiseNode(tree, "none", <<>>).tree
----------------------------------------------------------------------------
(* Code: the instructions made so far, and the places of labels, 0 for one *)
(* that is not defined yet.                                                *)

GetLabel(em) == [em EXCEPT !.labels = Append(@, 0)]
Newest(em) == Len(em.labels)
DefineLabel(em, lab) == [em EXCEPT !.labels[lab] = Len(em.code) + 1]
Output(em, instruction) == [em EXCEPT !.code = Append(@, instruction)]

Opposite(op) == CHOOSE o \in {"lt", "gt", "le", "ge", "eq", "ne", "in", "notin", "like", "notlike",
                              "attror", "nattror", "attrand", "nattrand"} :
                    {op, o} \in {{"lt", "ge"}, {"gt", "le"}, {"eq", "ne"}, {"in", "notin"},
                                 {"like", "notlike"}, {"attror", "nattror"}, {"attrand", "nattrand"}}

\* When more alternatives follow, a test that holds is the end of it; else one
\* that fails is.
Test(em, node, tlab, flab, more) ==
    Output(em, IF more = "or" THEN [test |-> node, to |-> tlab]
               ELSE [test |-> [node EXCEPT !.op = Opposite(@)], to |-> flab])

\* Code that goes on or jumps to tlab when the node holds, and to flab, or on,
\* when it does not; more is the operator whose operands follow.
RECURSIVE EvalExp(_, _, _, _, _)
EvalExp(em, node, tlab, flab, more) ==
    LET \* an operand that needs a place of its own to go on at
        Around(e, n, t, f, m) ==
            LET g == GetLabel(e)
                h == EvalExp(g, n, IF t = 0 THEN Newest(g) ELSE t,
                                   IF f = 0 THEN Newest(g) ELSE f, m)
            IN  DefineLabel(h, Newest(g))
        m2 == IF more = "or" THEN "and" ELSE "or"
    IN  CASE node.op = "and" ->
                LET e == IF node.l.op = "or" THEN Around(em, node.l, 0, flab, "and")
                         ELSE EvalExp(em, node.l, tlab, flab, "and")
                IN  IF node.r.op = "or" /\ more = "and" THEN Around(e, node.r, 0, flab, "and")
                    ELSE EvalExp(e, node.r, tlab, flab, more)
          [] node.op = "or" ->
                LET e == IF node.l.op = "and" THEN Around(em, node.l, tlab, 0, "or")
                         ELSE EvalExp(em, node.l, tlab, flab, "or")
                IN  IF node.r.op = "and" /\ more = "or" THEN Around(e, node.r, tlab, 0, "or")
                    ELSE EvalExp(e, node.r, tlab, flab, more)
          [] node.op = "not" ->
                IF more = "and" /\ node.l.op = "and" THEN Around(em, node.l, flab, 0, m2)
                ELSE IF more = "or" /\ node.l.op = "or" THEN Around(em, node.l, 0, tlab, m2)
                ELSE EvalExp(em, node.l, flab, tlab, m2)
          [] OTHER -> Test(em, node, tlab, flab, more)

\* (a mistake: one operand that looks at the bit is enough)
TestedAlreadyOnce(node) == node.op \in {"or", "and", "attror", "attrand"}

\* Whether all ways to true look at the bit that says the document exists.
RECURSIVE TestedAlready(_)
TestedAlready(node) ==
    CASE node.op = "and" -> TestedAlready(node.l) \/ TestedAlready(node.r)
      [] node.op = "or" -> TestedAlready(node.l) /\ TestedAlready(node.r)
      [] OTHER -> node.op \in {"attror", "attrand"}

Emit(root) ==
    LET e == EvalExp(GetLabel(GetLabel([code |-> <<>>, labels |-> <<>>])), root, 1, 2, "none")
        t == DefineLabel(e, 1)
        x == IF TestedAlready(root) THEN t
             ELSE Output(t, [test |-> [op |-> "nexist"], to |-> 2])
        f == DefineLabel(Output(x, [test |-> [op |-> "true"], to |-> 2]), 2)
        all == Output(f, [test |-> [op |-> "false"], to |-> 2])
    IN  [i \in DOMAIN all.code |-> [all.code[i] EXCEPT !.to = all.labels[@]]]

\* A test of flags of the document needs no code.
CompileQuery(tree) ==
    LET new == Optimise(tree)
    IN  IF new.op = "attror" /\ new.word = 0 THEN [simple |-> new.bits, code |-> <<>>]
        ELSE [simple |-> {}, code |-> Emit(new)]
----------------------------------------------------------------------------
(* The engine. *)

Holds(test, d) ==
    LET set == {b \in test.bits : <<test.word, b>> \in d.flags}
    IN  CASE test.op = "nexist" -> ~d.exists
          [] test.op = "attror" -> set # {}
          [] test.op = "nattror" -> set = {}
          [] test.op = "attrand" -> set = test.bits
          [] test.op = "nattrand" -> set # test.bits
          [] OTHER -> Compare(test.op, ValueOf(test.l, d), ValueOf(test.r, d))

NoDocument == [exists |-> FALSE, flags |-> {}, value |-> 0]

Init == /\ expr \in Constraints
        /\ query = CompileQuery(expr)
        /\ doc = NoDocument /\ good = FALSE /\ pc = 0

Consider(d) ==
    /\ pc = 0 /\ doc' = d
    /\ IF query.code = <<>>
       THEN pc' = 0 /\ good' = \E b \in query.simple : <<0, b>> \in d.flags
       ELSE pc' = 1 /\ good' = FALSE
    /\ UNCHANGED <<expr, query>>

Result ==
    /\ pc > 0 /\ query.code[pc].test.op \in {"true", "false"}
    /\ good' = (query.code[pc].test.op = "true") /\ pc' = 0
    /\ UNCHANGED <<expr, query, doc>>

Step ==
    /\ pc > 0 /\ query.code[pc].test.op \notin {"true", "false"}
    /\ pc' = IF Holds(query.code[pc].test, doc) THEN query.code[pc].to ELSE pc + 1
    /\ UNCHANGED <<expr, query, doc, good>>

Next == (\E d \in Documents : Consider(d)) \/ Result \/ Step

Spec == Init /\ [][Next]_vars
----------------------------------------------------------------------------
\* The engine has no other limit on its steps: code never leads back.
CodeLeadsOn == \A i \in DOMAIN query.code :
    query.code[i].test.op \notin {"true", "false"} =>
        query.code[i].to \in i + 1 .. Len(query.code)

\* Whatever is rearranged, merged and jumped over, the engine comes to an end, and a
\* document that exists is good exactly when the constraint says so (ntvqueryxml.pod,
\* "The valid operators in a constraint expression").
ConstraintIsRight == /\ CodeLeadsOn
                     /\ pc = 0 /\ doc.exists => good = Says(expr, doc)

RECURSIVE UsesGroups(_)
UsesGroups(node) == CASE node.op = "flag" -> node.word > 0
                      [] node.op = "not" -> UsesGroups(node.l)
                      [] node.op \in {"and", "or"} -> UsesGroups(node.l) \/ UsesGroups(node.r)
                      [] OTHER -> FALSE

\* A document that has been deleted is not good: all ways to true look at its
\* flags (ntvcompile.c, "evaluate the existing bit as a side-effect"), ...
DeletedIsNotGood == good => doc.exists

\* ... as long as the constraint asks for no flag of a group.
DeletedIsNotGoodByItsFlags == good /\ ~UsesGroups(expr) => doc.exists
=============================================================================
