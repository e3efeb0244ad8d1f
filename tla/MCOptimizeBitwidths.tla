------------------------ MODULE MCOptimizeBitwidths ------------------------
(***************************************************************************)
(* Programs of one operation at width MaxWidth, with every kind of operand *)
(* the patterns tell apart, and users that look at all of its bits, at     *)
(* some of them or at none.                                                *)
(***************************************************************************)
EXTENDS OptimizeBitwidths

CONSTANTS MaxWidth, Widths,    \* of the data, and of what is extended to it
          Ops, Preds,          \* binary operations and predicates of the comparisons
          Consts, Bounds       \* constant operands, and constants data is compared with

\* An argument as it is or extended, or a constant.
Operands(n) ==
  {Val(Leaf("arg", n, MaxWidth))}
  \union {Cast(Val(Leaf("arg", n, w)), k, MaxWidth) : w \in Widths, k \in {"extui", "extsi"}}
Constants(values) == {Val(Leaf("const", c, MaxWidth)) : c \in values}

Res(i) == Val(Leaf("res", i, MaxWidth))
Used(i) == {<<Res(i)>>, <<Cast(Res(i), "trunci", 2)>>,
            <<Cast(Res(i), "trunci", 1), Cast(Res(i), "trunci", MaxWidth - 1)>>, <<>>}

Program(op, opnds, cmps, users) ==
  [op |-> op, w |-> MaxWidth, opnds |-> opnds, cmps |-> cmps, users |-> users]

Binary ==
  {Program(op, <<l, r>>, <<>>, users) :
     op \in Ops \ {"shrui", "shrsi", "select", "mux"}, l \in Operands(1), r \in Operands(2) \union Constants(Consts), users \in Used(1)}
\* A division is narrowed by its dividend alone: by a divisor that is not wider.
Divisions ==
  {Program(op, <<l, r>>, <<>>, users) :
     op \in {"divui", "remui"}, l \in {x \in Operands(1) : x.casts # <<>> /\ Last(x.casts).k = "extui"},
     r \in {x \in Operands(2) : x.casts # <<>> /\ Last(x.casts).k = "extui" /\ x.leaf.w <= 2}, users \in Used(1)}
Shifts ==
  {Program(op, <<l, r>>, <<>>, users) :
     op \in Ops \intersect {"shrui", "shrsi"}, l \in Operands(1), r \in Operands(2) \union Constants(0 .. MaxWidth - 1),
     users \in Used(1)}
Selections ==
  {Program(op, <<l, r>>, <<>>, users) :
     op \in Ops \intersect {"select", "mux"}, l \in Operands(1), r \in Operands(2) \union Constants(Consts), users \in Used(1)}
Cycles ==
  {Program("mux", <<l, Res(1)>>, <<>>, users) : l \in Operands(1), users \in Used(1)}
Forks ==
  {Program("fork", <<l>>, <<>>, t \o f) : l \in Operands(1), t \in Used(1), f \in Used(2)}
Comparisons ==
  {[Program("cmpi", <<>>, <<[pred |-> pred, l |-> l, r |-> r]>>, <<Val(Leaf("res", 1, 1))>>) EXCEPT !.w = 1] :
     pred \in Preds, l \in Operands(1), r \in Operands(2) \union Constants(Consts)}

Sides(d, b) == {<<d, b>>, <<b, d>>}
Compared(d) == {[pred |-> pred, l |-> s[1], r |-> s[2]] :
                  pred \in Preds, s \in UNION {Sides(d, b) : b \in Operands(2) \union Constants(Bounds)}}
Branches ==
  UNION {{Program("cond_br", <<d>>, <<c>>, users) :
            c \in Compared(d), users \in {<<Res(1), Res(2)>>, <<Cast(Res(1), "trunci", 3), Res(2)>>}} : d \in Operands(1)}
Conjunctions ==
  LET d == Val(Leaf("arg", 1, MaxWidth))
      below(pred, b) == [pred |-> pred, l |-> d, r |-> Val(Leaf("const", b, MaxWidth))]
  IN {Program("cond_br", <<d>>, <<below(p, a), below(q, b)>>, <<Res(1), Res(2)>>) :
        p \in Preds, q \in Preds, a \in {2, 5}, b \in {4, 7}}

MCPrograms == Binary \union Divisions \union Shifts \union Selections \union Cycles \union Forks \union Comparisons
              \union Branches \union Conjunctions
=============================================================================
